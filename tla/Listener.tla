------------------------------ MODULE Listener ------------------------------
(***************************************************************************)
(* The listener at work: machines fetching kickstarts and posting reports, *)
(* the provisioner's workers beginning installs, and operators changing    *)
(* the hosts between any two of their steps.                               *)
(*                                                                         *)
(* Of BeginInstall only the calls that read or write the host and the      *)
(* power of its machine are here; Provisioner has the others.              *)
(***************************************************************************)
EXTENDS CallbackRoute

CONSTANTS
  MaxCalls,   (* bound: calls of BeginInstall *)
  MaxStrays   (* bound: stray boots           *)

ASSUME CallsAssumption == MaxCalls \in Nat /\ MaxStrays \in Nat

VARIABLES
  at,        (* each worker's next call                                      *)
  base,      (* what a worker read for the patch it is about to send         *)
  calls,     (* how many calls of BeginInstall there were                    *)
  strays,    (* and how many stray boots                                     *)
  (* The rest only properties read. *)
  vouched,   (* yes: BeginInstall checked the host and powered its machine   *)
             (* on, and no operator has changed anything since               *)
  reported,  (* a report was recorded since the clear read the host          *)
  told,      (* the verdict whose poster was last told it is recorded, while *)
             (* nothing that may change it has happened                      *)
  handled    (* the runs whose reports were past the UID check when the host *)
             (* was created                                                  *)

workerVars == <<at, base, calls, strays>>
historyVars == <<vouched, reported, told, handled>>
vars == <<objectVars, routeVars, callbackVars, workerVars, historyVars>>

Steps == {"idle", "HostInstallDisk", "PowerOff", "ReadForClear", "Clear",
          "ReadForMark", "Mark", "PowerOn"}

Init ==
  /\ ObjectInit /\ RouteInit /\ CallbackInit
  /\ at = [h \in Hosts |-> "idle"]
  /\ base = [h \in Hosts |-> NoAnnotations]
  /\ calls = 0 /\ strays = 0
  /\ vouched = [h \in Hosts |-> "no"]
  /\ reported = [h \in Hosts |-> FALSE]
  /\ told = [h \in Hosts |-> "none"]
  /\ handled = [h \in Hosts |-> {}]

-----------------------------------------------------------------------------
(* Operators.  A host's finalizer keeps it while its worker has it. *)
Handled == {request[q].run : q \in {r \in Requests : request[r].at \in {"Read", "Write"}}}

Create(h) ==
  /\ CreateHost(h)
  /\ vouched' = [g \in Hosts |-> "no"]
  /\ handled' = [handled EXCEPT ![h] = Handled]
  /\ UNCHANGED <<routeVars, callbackVars, workerVars, reported, told>>

Delete(h) ==
  /\ at[h] = "idle" /\ DeleteHost(h)
  /\ vouched' = [g \in Hosts |-> "no"]
  /\ told' = [told EXCEPT ![h] = "none"]
  /\ UNCHANGED <<routeVars, callbackVars, workerVars, reported, handled>>

Edit(h) ==
  /\ EditHost(h)
  /\ vouched' = [g \in Hosts |-> "no"]
  /\ UNCHANGED <<routeVars, callbackVars, workerVars, reported, told, handled>>

-----------------------------------------------------------------------------
(* BeginInstall. *)
Goto(h, step) == at' = [at EXCEPT ![h] = step] /\ UNCHANGED <<calls, strays>>

Drop(h) == base' = [base EXCEPT ![h] = NoAnnotations]

(* A boot MAC does not change once it is there, so that BMO read it earlier *)
(* than HasKickstart reads the host makes no difference.                    *)
CallProvision(h) ==
  /\ at[h] = "idle" /\ calls < MaxCalls
  /\ Present(h) /\ spec[h].mac # NoMAC /\ HasKickstart(h)
  /\ at' = [at EXCEPT ![h] = "HostInstallDisk"]
  /\ calls' = calls + 1
  /\ vouched' = [vouched EXCEPT ![h] = "checking"]
  /\ UNCHANGED <<objectVars, routeVars, callbackVars, base, strays, reported, told, handled>>

CheckInstallDisk(h) ==
  /\ at[h] = "HostInstallDisk" /\ HostInstallDisk(h)
  /\ Goto(h, "PowerOff")
  /\ UNCHANGED <<objectVars, routeVars, callbackVars, base, historyVars>>

PowerDown(h) ==
  /\ at[h] = "PowerOff" /\ PowerOff(h)
  /\ Goto(h, "ReadForClear")
  /\ UNCHANGED <<objectVars, callbackVars, base, historyVars>>

ReadForClear(h) ==
  /\ at[h] = "ReadForClear"
  /\ base' = [base EXCEPT ![h] = notes[h]]
  /\ Goto(h, "Clear")
  /\ reported' = [reported EXCEPT ![h] = FALSE]
  /\ UNCHANGED <<objectVars, routeVars, callbackVars, vouched, told, handled>>

ClearInstallReport(h) ==
  /\ at[h] = "Clear"
  /\ Patch(h, base[h], WithoutReport(base[h])) /\ NotesChanged
  /\ Goto(h, "ReadForMark") /\ Drop(h)
  /\ told' = [told EXCEPT ![h] = "none"]
  /\ UNCHANGED <<routeVars, callbackVars, vouched, reported, handled>>

ReadForMark(h) ==
  /\ at[h] = "ReadForMark"
  /\ base' = [base EXCEPT ![h] = notes[h]]
  /\ Goto(h, "Mark")
  /\ UNCHANGED <<objectVars, routeVars, callbackVars, historyVars>>

(* Only that there is a stamp matters here. *)
MarkInstallStarted(h) ==
  /\ at[h] = "Mark"
  /\ Patch(h, base[h], WithStamp(base[h], 1)) /\ NotesChanged
  /\ Goto(h, "PowerOn") /\ Drop(h)
  /\ UNCHANGED <<routeVars, callbackVars, historyVars>>

PowerOn(h) ==
  /\ at[h] = "PowerOn"
  /\ \/ /\ stage[h] = "off" /\ BootInstaller(h)
        /\ vouched' = [vouched EXCEPT ![h] = IF @ = "checking" THEN "yes" ELSE @]
     \/ stage[h] # "off" /\ UNCHANGED <<routeVars, vouched>>
  /\ Goto(h, "idle")
  /\ reported' = [reported EXCEPT ![h] = FALSE]
  /\ UNCHANGED <<objectVars, callbackVars, base, told, handled>>

(* A refusal, a failed call or a restarted controller. *)
EndCall(h) ==
  /\ at[h] # "idle" /\ Goto(h, "idle") /\ Drop(h)
  /\ reported' = [reported EXCEPT ![h] = FALSE]
  /\ UNCHANGED <<objectVars, routeVars, callbackVars, vouched, told, handled>>

-----------------------------------------------------------------------------
(* Machines, and the listener's handlers. *)
Machine(m) ==
  /\ LookUp(m) \/ ServeKickstart(m) \/ EndRun(m)
  /\ UNCHANGED <<objectVars, callbackVars, workerVars, historyVars>>

(* The media is still in, and someone powers the machine on. *)
StrayBoot(m) ==
  /\ BootInstaller(m) /\ strays < MaxStrays
  /\ strays' = strays + 1
  /\ UNCHANGED <<objectVars, callbackVars, at, base, calls, historyVars>>

Receive(q) ==
  /\ (\E m \in Hosts : Post(m, q)) \/ CheckHostUID(q) \/ ReadReport(q)
  /\ UNCHANGED <<objectVars, routeVars, workerVars, historyVars>>

Recorded(q) ==
  IF request[q].base = notes[Target(q)] THEN Report(q).result ELSE "none"

Record(q) ==
  /\ WriteInstallReport(q)
  /\ \/ /\ notes' # notes
        /\ reported' = [reported EXCEPT ![Target(q)] = at[Target(q)] # "idle"]
        /\ told' = [told EXCEPT ![Target(q)] = Recorded(q)]
     \/ notes' = notes /\ UNCHANGED <<reported, told>>
  /\ UNCHANGED <<routeVars, workerVars, vouched, handled>>

-----------------------------------------------------------------------------
Operate(h) == Create(h) \/ Delete(h) \/ Edit(h)

Begin(h) ==
  \/ CallProvision(h) \/ CheckInstallDisk(h) \/ PowerDown(h)
  \/ ReadForClear(h) \/ ClearInstallReport(h) \/ ReadForMark(h) \/ MarkInstallStarted(h)
  \/ PowerOn(h) \/ EndCall(h)

Next ==
  \/ \E h \in Hosts : Operate(h) \/ Begin(h) \/ Machine(h) \/ StrayBoot(h)
  \/ \E q \in Requests : Receive(q) \/ Record(q)

Spec == Init /\ [][Next]_vars

-----------------------------------------------------------------------------
Ran(h) == run[h] # 0

(* The only host that declares an address of its machine, and a right one. *)
OwnsItsMachine(h) == {g \in Hosts : Present(g) /\ spec[g].mac \in MACsOf[h]} = {h}

(* The type invariant of the hosts, the routes and the workers. *)
TypeOK ==
  /\ ObjectTypeOK /\ RouteTypeOK /\ CallbackTypeOK
  /\ at \in [Hosts -> Steps]
  /\ base \in [Hosts -> Annotations]
  /\ calls \in Nat /\ strays \in Nat
  /\ vouched \in [Hosts -> {"no", "checking", "yes"}]
  /\ reported \in [Hosts -> BOOLEAN]
  /\ told \in [Hosts -> Results]
  /\ handled \in [Hosts -> SUBSET Nat]

(* A machine is wiped only under a host that declared one of the addresses  *)
(* the machine reports, on the disk that host hinted when it declared it,   *)
(* and with a disk if the template asks for one, whatever operators change  *)
(* while the request is answered (HandleKickstart).                         *)
OnlyDeclaredAreWiped ==
  \A i \in 1..Len(runs) :
    \E c \in claims :
      /\ c[1] = runs[i].uid /\ c[2].disk = runs[i].disk
      /\ c[2].mac \in MACsOf[runs[i].machine]
      /\ runs[i].kickstart = "templated" => runs[i].disk # NoDisk

(* A machine powered on by BeginInstall is given its own host's kickstart   *)
(* and wipes the disk its host hints, and the fallback does not power it    *)
(* off, unless an operator changed something after BeginInstall's checks or *)
(* the boot MAC is wrong or not the host's alone (HasKickstart's "so no     *)
(* machine is booted only to be served the fallback").                      *)
VouchedIsServed ==
  \A h \in Hosts :
    vouched[h] = "yes" /\ OwnsItsMachine(h) =>
      /\ stage[h] # "turned_away"
      /\ Ran(h) => runs[run[h]].uid = uid[h] /\ runs[run[h]].disk = spec[h].disk

(* When BeginInstall has cleared the last run's verdict, one that is there  *)
(* all the same was recorded after the clear had read the host              *)
(* (ClearInstallReport against a report under way).                         *)
OnlyLateReportsSurvive ==
  \A h \in Hosts :
    at[h] \in {"ReadForMark", "Mark", "PowerOn"} /\ notes[h].result # "none" => reported[h]

(* A verdict whose poster was told it is recorded is on the host until the  *)
(* next clear or report, whatever the provisioner patches meanwhile         *)
(* (MutateHostAnnotations: each writer sends only what it changed).         *)
ToldIsKept ==
  \A h \in Hosts : told[h] # "none" => notes[h].result = told[h]

(* The verdict on a host was posted under its own UID, or was past the      *)
(* check already when the host was created under a deleted one's name       *)
(* (HandleCallback checks the UID and patches by name).                     *)
ReportsGoHome ==
  \A h \in Hosts :
    notes[h].from # 0 =>
      runs[notes[h].from].uid = uid[h] \/ notes[h].from \in handled[h]

(* A host says succeeded only when the run that said so did install its     *)
(* machine, however its kickstart spells the report (ParseInstallReport).   *)
SuccessIsEarned ==
  \A h \in Hosts :
    notes[h].result = "succeeded" =>
      /\ notes[h].from \in 1..Len(runs)
      /\ runs[notes[h].from].outcome = "installed"
=============================================================================
