------------------------------ MODULE Machine -------------------------------
(***************************************************************************)
(* The managed machine and its BMC, as far as internal/redfish can see and *)
(* change them.  The Redfish operations are what redfish.Conn asks for and *)
(* the way a BMC is known to answer; what the machine does on its own      *)
(* (booting, installing, halting) is modelled from how the provisioner,    *)
(* the kickstart route and the README rely on it.                          *)
(***************************************************************************)
EXTENDS Naturals

CONSTANT
  Faults    (* what may go wrong in this instance *)

(***************************************************************************)
(* abort         a pass ends at any call: an error, a timeout, a restart   *)
(* abort_finish  the same once FinishInstall has ejected the media         *)
(* late_callback a report already sent outlives the machine's power        *)
(* clear_fails   ClearInstallReport fails in Deprovision                   *)
(* bmc_gone      the BMC is unreachable, or its address unusable           *)
(* eject_fails   the BMC answers and refuses an EjectMedia, however often  *)
(* drop_insert   the BMC accepts InsertMedia and attaches nothing          *)
(* drop_boot     the BMC accepts SetBoot and keeps its boot source         *)
(* once_ignored  the BMC applies a one time override continuously          *)
(* hung_shutdown a graceful shutdown that started never completes          *)
(***************************************************************************)
FaultKinds == {"abort", "abort_finish", "late_callback", "clear_fails", "bmc_gone",
               "eject_fails", "drop_insert", "drop_boot", "once_ignored", "hung_shutdown"}

ASSUME FaultsAssumption == Faults \subseteq FaultKinds

VARIABLES
  power,    (* Redfish PowerState                                           *)
  drive,    (* the virtual media drive                                      *)
  boot,     (* the boot source override and how long it is enabled          *)
  os,       (* what the machine is running                                  *)
  run,      (* the run whose installer was booted last, 0 for none          *)
  disk,     (* the run whose completed install the disk holds, 0 for none   *)
  posts     (* install reports sent and not yet answered                    *)

machineVars == <<power, drive, boot, os, run, disk, posts>>

PowerStates == {"Off", "PoweringOn", "On", "PoweringOff"}
Media == {"empty", "stale", "iso"}
Overrides == {"Disabled", "CdOnce", "CdContinuous", "HddContinuous"}
Software == {"none", "disk", "installer", "installing", "halted"}
Reports == [ok : BOOLEAN, run : Nat]

MachineTypeOK ==
  /\ power \in PowerStates
  /\ drive \in Media
  /\ boot \in Overrides
  /\ os \in Software
  /\ run \in Nat
  /\ disk \in Nat
  /\ posts \in SUBSET Reports

MachineInit ==
  /\ \/ power = "Off" /\ os = "none"
     \/ power = "On" /\ os = "disk"
  /\ drive \in {"empty", "stale"}
  /\ boot = "Disabled"
  /\ run = 0
  /\ disk = 0
  /\ posts = {}

-----------------------------------------------------------------------------
(* The operations of redfish.Conn. *)

(* A machine that stops takes the reports it has not got through with it. *)
Stopped ==
  /\ power' = "Off"
  /\ os' = "none"
  /\ posts' = IF "late_callback" \in Faults THEN posts ELSE {}
  /\ UNCHANGED <<drive, boot, run, disk>>

ResetOn ==
  /\ power' = IF power = "Off" THEN "PoweringOn" ELSE power
  /\ UNCHANGED <<drive, boot, os, run, disk, posts>>

ForceOff == Stopped

(* A host is free to ignore the request. *)
GracefulShutdown ==
  /\ \/ UNCHANGED power
     \/ power = "On" /\ power' = "PoweringOff"
  /\ UNCHANGED <<drive, boot, os, run, disk, posts>>

SetBoot(override) ==
  /\ \/ boot' = override
     \/ "drop_boot" \in Faults /\ UNCHANGED boot
     \/ "once_ignored" \in Faults /\ override = "CdOnce" /\ boot' = "CdContinuous"
  /\ UNCHANGED <<power, drive, os, run, disk, posts>>

(* The override target is all BootSource reads back. *)
CdIsNext == boot \in {"CdOnce", "CdContinuous"}

InsertMedia ==
  /\ \/ drive' = "iso"
     \/ "drop_insert" \in Faults /\ UNCHANGED drive
  /\ UNCHANGED <<power, boot, os, run, disk, posts>>

EjectMedia ==
  /\ drive' = "empty"
  /\ UNCHANGED <<power, boot, os, run, disk, posts>>

Inserted == drive # "empty"

-----------------------------------------------------------------------------
(* What the machine does by itself. *)

(***************************************************************************)
(* A one time override is spent by the boot it directs.  Without an        *)
(* override the BIOS order boots the disk.  latest is the run an installer *)
(* booting now belongs to.                                                 *)
(***************************************************************************)
StartUp(latest) ==
  /\ boot' = IF boot = "CdOnce" THEN "Disabled" ELSE boot
  /\ \/ CdIsNext /\ Inserted /\ os' = "installer" /\ run' = latest
     \/ ~(CdIsNext /\ Inserted) /\ os' = "disk" /\ UNCHANGED run
  /\ power' = "On"
  /\ UNCHANGED <<drive, disk>>

Boot(latest) ==
  /\ power = "PoweringOn"
  /\ StartUp(latest)
  /\ UNCHANGED posts

(* A warm reset, by the operating system or by someone at the console. *)
Reboot(latest) ==
  /\ power = "On"
  /\ StartUp(latest)
  /\ posts' = IF "late_callback" \in Faults THEN posts ELSE {}

(* Anaconda fetches its kickstart and clears the disk it names. *)
StartInstalling ==
  /\ power = "On" /\ os = "installer"
  /\ os' = "installing"
  /\ disk' = 0
  /\ UNCHANGED <<power, drive, boot, run, posts>>

(* The fallback kickstart writes nothing and powers the machine off. *)
RefuseInstall ==
  /\ power = "On" /\ os = "installer"
  /\ Stopped

(* The kickstart reports in and issues no power command. *)
EndInstall(ok) ==
  /\ power = "On" /\ os = "installing"
  /\ os' = "halted"
  /\ disk' = IF ok THEN run ELSE 0
  /\ posts' = posts \cup {[ok |-> ok, run |-> run]}
  /\ UNCHANGED <<power, drive, boot, run>>

PowerDownCompletes ==
  /\ power = "PoweringOff"
  /\ "hung_shutdown" \notin Faults
  /\ Stopped
=============================================================================
