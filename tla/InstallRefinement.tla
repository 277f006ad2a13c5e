------------------------- MODULE InstallRefinement --------------------------
(***************************************************************************)
(* How the provisioner keeps InstallContract: what the contract calls an   *)
(* install is what the runs of this deploy have put on the disk.           *)
(***************************************************************************)
EXTENDS InstallInvariant

InDeploy == bmh \in {"provisioning", "provisioned"}

BegunHere == IF InDeploy THEN begins - base ELSE 0

InstalledHere == InDeploy /\ disk > base

Contract == INSTANCE InstallContract WITH
  phase <- bmh, begun <- BegunHere, installed <- InstalledHere

(* Every deploy keeps the contract: one install per deploy, handed over     *)
(* when it is whole, and whole until the host is taken back (Provision and  *)
(* everything it calls, Deprovision).                                       *)
KeepsContract == Contract!Spec
=============================================================================
