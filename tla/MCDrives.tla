------------------------------ MODULE MCDrives ------------------------------
(***************************************************************************)
(* A machine whose system lists a USB drive before two CD drives, and      *)
(* whose manager has one that must never be looked at.                     *)
(***************************************************************************)
EXTENDS DriveRefinement

UsbAndCDs == {1, 2, 3}
OwnCDs == {2, 3}
Spare == {4}

DropsAndGone == {"drop_insert", "bmc_gone", "clear_fails"}
=============================================================================
