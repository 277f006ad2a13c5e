--------------------------- MODULE MCProvisioner ----------------------------
(***************************************************************************)
(* The sets of faults the configurations give Provisioner.                 *)
(***************************************************************************)
EXTENDS InstallRefinement

NoFaults == {}

(* Passes cut short, and a BMC that refuses ejects and drops other writes. *)
BMCFaults == {"abort", "drop_insert", "drop_boot", "eject_fails"}

(* What a teardown is meant to get through, and passes cut short. *)
TeardownFaults == {"abort", "clear_fails", "bmc_gone", "eject_fails"}

(* What takes the order of events out of the provisioner's hands. *)
UnorderedFaults == {"late_callback", "once_ignored"}

(* One kind of trouble each, for the runs that show what it does. *)
CutShort == {"abort", "abort_finish"}
FailedForgets == {"abort", "clear_fails", "bmc_gone"}
OverridesKept == {"once_ignored"}
HungShutdowns == {"hung_shutdown"}
=============================================================================
