--------------------------- MODULE CallbackRoute ----------------------------
(***************************************************************************)
(* The callback route of the listener: the requests installers post and    *)
(* the handler that checks each one's UID, reads its body and records its  *)
(* verdict.  Between these steps the host may be patched, deleted and      *)
(* created again.                                                          *)
(***************************************************************************)
EXTENDS KickstartRoute

CONSTANTS
  Requests,   (* the requests that may be under way at once *)
  MaxPosts    (* bound: requests posted                     *)

ASSUME RequestsAssumption == MaxPosts \in Nat

(***************************************************************************)
(* The body of a report.  finished is a bare POST or a known good status,  *)
(* failure carries a message or another status, unclear is not JSON or     *)
(* misspells the key.                                                      *)
(***************************************************************************)
Bodies == {"finished", "failure", "unclear"}

VARIABLES
  request,   (* each request's next step, run, body and what it has read *)
  posts      (* how many have been posted                                *)

callbackVars == <<request, posts>>

NoRequest == [at |-> "none", run |-> 0, body |-> "failure", base |-> NoAnnotations]

RequestStates == [at : {"none", "HostUID", "Read", "Write"}, run : 0..Len(runs),
                  body : Bodies, base : Annotations]

CallbackTypeOK == request \in [Requests -> RequestStates] /\ posts \in Nat

CallbackInit == request = [q \in Requests |-> NoRequest] /\ posts = 0

-----------------------------------------------------------------------------
(* The installer of an ended run posts to the URL in its kickstart, as often *)
(* as it likes.  A kickstart may misspell either report.                     *)
Post(m, q) ==
  /\ stage[m] = "done" /\ request[q].at = "none" /\ posts < MaxPosts
  /\ posts' = posts + 1
  /\ \E body \in Bodies :
       /\ body = "finished" => runs[run[m]].outcome = "installed"
       /\ body = "failure" => runs[run[m]].outcome = "failed"
       /\ request' = [request EXCEPT ![q] = [at |-> "HostUID", run |-> run[m], body |-> body,
                                            base |-> NoAnnotations]]

Answer(q) == request' = [request EXCEPT ![q] = NoRequest]

Target(q) == runs[request[q].run].name

(* Seeded fault: any host of that name will do. *)
Guessed(q) == Present(Target(q))

Authorized(q) == Present(Target(q)) /\ uid[Target(q)] = runs[request[q].run].uid

(* HandleCallback.  What does not pass the check is answered at once. *)
CheckHostUID(q) ==
  /\ request[q].at = "HostUID"
  /\ \/ Authorized(q) /\ request' = [request EXCEPT ![q].at = "Read"]
     \/ Answer(q)
  /\ UNCHANGED posts

(* Seeded fault: a body that names no status counts as a bare POST. *)
LenientReport(body) == body # "failure"

ParseInstallReport(body) == body = "finished"

(* The body, which may not arrive whole, and the get of MutateHostAnnotations. *)
ReadReport(q) ==
  /\ request[q].at = "Read"
  /\ \/ /\ Present(Target(q))
        /\ request' = [request EXCEPT ![q].at = "Write", ![q].base = notes[Target(q)]]
     \/ Answer(q)
  /\ UNCHANGED posts

Report(q) == WithReport(request[q].base, ParseInstallReport(request[q].body), request[q].run)

(* The patch goes to whatever host has the name by now. *)
WriteInstallReport(q) ==
  /\ request[q].at = "Write"
  /\ Answer(q)
  /\ \/ Present(Target(q)) /\ Patch(Target(q), request[q].base, Report(q)) /\ NotesChanged
     \/ UNCHANGED objectVars
  /\ UNCHANGED posts
=============================================================================
