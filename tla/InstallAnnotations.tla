------------------------- MODULE InstallAnnotations -------------------------
(***************************************************************************)
(* The annotations a host carries its install state in, and what the       *)
(* provisioner and the callback route do to them: a function of the object *)
(* as it was read, sent as a merge patch to the object as it is.           *)
(*                                                                         *)
(* The install-message annotation is left out: it only ever accompanies    *)
(* install-result and no decision reads it.                                *)
(***************************************************************************)
EXTENDS Naturals

(***************************************************************************)
(* result: the install-result annotation, "none" when absent.              *)
(* started: the install-started stamp, 0 when absent.  Stamps are numbered *)
(*   in the order they are made; the clock they are read against is        *)
(*   Provisioner's budgetSpent.                                            *)
(* from: the number of the run whose installer posted the verdict.  The    *)
(*   program does not record it; only properties read it.                  *)
(***************************************************************************)
Results == {"none", "succeeded", "failed"}

Annotations == [result : Results, from : Nat, started : Nat]

NoAnnotations == [result |-> "none", from |-> 0, started |-> 0]

-----------------------------------------------------------------------------
(* The functions MutateHostAnnotations is called with. *)

WithReport(a, ok, run) ==
  [a EXCEPT !.result = IF ok THEN "succeeded" ELSE "failed", !.from = run]

(* Seeded fault: the stamp is dropped and the verdict survives. *)
KeepingVerdict(a) == [a EXCEPT !.started = 0]

WithoutReport(a) == NoAnnotations

WithStamp(a, stamp) == [a EXCEPT !.started = stamp]

(* Seeded fault: an update, which sends the whole object. *)
Update(base, new, live) == new

(***************************************************************************)
(* A merge patch names the keys in which new differs from base, so the     *)
(* live object keeps its own value of every other key.                     *)
(***************************************************************************)
MergePatch(base, new, live) ==
  [result  |-> IF new.result = base.result THEN live.result ELSE new.result,
   from    |-> IF new.result = base.result THEN live.from ELSE new.from,
   started |-> IF new.started = base.started THEN live.started ELSE new.started]
=============================================================================
