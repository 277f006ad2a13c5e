-------------------------- MODULE InstallContract ---------------------------
(***************************************************************************)
(* What the provisioner promises BMO of one host: an image is installed    *)
(* once per deploy, and the host is handed over when that install is on    *)
(* its disk.  How it gets there (media, overrides, power, reports, clocks) *)
(* is Provisioner's business.                                              *)
(***************************************************************************)
EXTENDS Naturals

VARIABLES
  phase,      (* the host's provisioning state                    *)
  begun,      (* installs this deploy has begun                   *)
  installed   (* an install of this deploy is whole, on the disk  *)

contractVars == <<phase, begun, installed>>

Phases == {"available", "provisioning", "provisioned", "deprovisioning"}

Init ==
  /\ phase = "available"
  /\ begun = 0
  /\ installed = FALSE

Deploy ==
  /\ phase = "available"
  /\ phase' = "provisioning"
  /\ UNCHANGED <<begun, installed>>

(* Once: a deploy that needs another install has to be taken back first. *)
Begin ==
  /\ phase = "provisioning" /\ begun = 0
  /\ begun' = 1
  /\ UNCHANGED <<phase, installed>>

Install ==
  /\ phase = "provisioning" /\ begun = 1 /\ ~installed
  /\ installed' = TRUE
  /\ UNCHANGED <<phase, begun>>

HandOver ==
  /\ phase = "provisioning" /\ installed
  /\ phase' = "provisioned"
  /\ UNCHANGED <<begun, installed>>

TakeBack ==
  /\ phase \in {"provisioning", "provisioned"}
  /\ phase' = "deprovisioning"
  /\ begun' = 0
  /\ installed' = FALSE

Release ==
  /\ phase = "deprovisioning"
  /\ phase' = "available"
  /\ UNCHANGED <<begun, installed>>

Next == Deploy \/ Begin \/ Install \/ HandOver \/ TakeBack \/ Release

Spec == Init /\ [][Next]_contractVars
=============================================================================
