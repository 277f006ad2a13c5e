---------------------------- MODULE Provisioner -----------------------------
(***************************************************************************)
(* One BareMetalHost under internal/anaconda's Provisioner.                *)
(*                                                                         *)
(* BMO gives a host at most one worker, so at most one pass of Provision,  *)
(* Deprovision, PowerOn or PowerOff runs at a time; pc says which call it  *)
(* makes next.  A step is one call to the BMC or to the API server with    *)
(* the decision taken on its answer.  Between any two of them the machine  *)
(* moves, the callback listener records a report, and an operator edits    *)
(* the host.                                                               *)
(***************************************************************************)
EXTENDS HostStore, Machine

CONSTANTS
  CallbackEnabled,  (* a listener is configured *)
  MaxDeploys,       (* bound on the deploys BMO starts *)
  MaxBegins,        (* bound on the installs begun *)
  MaxAborts         (* bound on the passes cut short *)

ASSUME CallbackEnabledAssumption == CallbackEnabled \in BOOLEAN
ASSUME BoundsAssumption == /\ MaxDeploys \in Nat
                           /\ MaxBegins \in Nat
                           /\ MaxAborts \in Nat

VARIABLES
  bmh,          (* the host's provisioning state                             *)
  error,        (* the kind of error BMO shows on the host, "" for none      *)
  pc,           (* the next call of the pass under way, "idle" for no pass   *)
  sawMedia,     (* what this pass's MediaStatus returned                     *)
  begins,       (* installs begun so far: the number of the latest run       *)
  base,         (* installs begun before this deploy                         *)
  deploys,      (* deploys BMO has started                                   *)
  declared,     (* boot MAC, kickstart Secret and root device hints are set  *)
  liveISO,      (* the image is a live-iso with a URL                        *)
  budgetSpent,  (* every stamp up to this one is older than InstallTimeout   *)
  aborts        (* passes cut short                                          *)

deployVars == <<begins, base, deploys, declared, liveISO, budgetSpent, aborts>>
passVars == <<bmh, error, pc, sawMedia>>
vars == <<storeVars, machineVars, deployVars, passVars>>

States == {"available", "provisioning", "provisioned", "deprovisioning"}
Errors == {"", "unsupported", "refused", "no_media", "no_boot", "reported", "timeout"}

BeginSteps == {"Preconditions", "BeginPower", "CutPower", "Eject", "Insert", "VerifyMedia",
               "SetBoot", "VerifyBoot", "ClearReport", "MarkStarted", "BeginOn"}
AwaitSteps == {"ReadReport", "AwaitClock"}
FinishTail == {"FinishBoot", "FinishOn", "FinishDone"}
FinishSteps == {"FinishPower", "ShutdownClock", "ForceDown", "SoftDown", "FinishEject"}
               \cup FinishTail
ProvisionSteps == {"MediaStatus", "InstallStartedAt"} \cup BeginSteps \cup AwaitSteps
                  \cup FinishSteps
DeprovisionSteps == {"ForgetInstall", "TeardownMedia", "TeardownEject", "TeardownDone"}
PowerSteps == {"OnRead", "OnReset", "OffRead", "OffReset"}
Steps == {"idle"} \cup ProvisionSteps \cup DeprovisionSteps \cup PowerSteps

Init ==
  /\ StoreInit
  /\ MachineInit
  /\ bmh = "available"
  /\ error = ""
  /\ pc = "idle"
  /\ sawMedia = FALSE
  /\ begins = 0
  /\ base = 0
  /\ deploys = 0
  /\ declared = TRUE
  /\ liveISO = TRUE
  /\ budgetSpent = 0
  /\ aborts = 0

-----------------------------------------------------------------------------
(* How a step ends, and what each kind of call leaves alone. *)

Goto(step) == pc' = step /\ UNCHANGED <<bmh, error, sawMedia>>

(* What a pass has read ends with it. *)
PassEnds == pc' = "idle" /\ sawMedia' = FALSE

(* A result without an ErrorMessage clears the error, one with it sets it. *)
Return(e) == PassEnds /\ error' = e /\ UNCHANGED bmh

Requeue == Return("")

(* An empty result of Provision or Deprovision: BMO moves the host on. *)
Complete(state) == PassEnds /\ error' = "" /\ bmh' = state

ReadsOnly == UNCHANGED <<storeVars, machineVars, deployVars>>
CallsBMC == UNCHANGED <<storeVars, deployVars>>
CallsAPI == UNCHANGED <<machineVars, deployVars>>

(* A refused eject ends the pass with an error, and the next pass asks again. *)
EjectRefused ==
  /\ "eject_fails" \in Faults
  /\ PassEnds
  /\ UNCHANGED <<bmh, error, machineVars>>

EjectThen(step) ==
  \/ EjectMedia /\ Goto(step)
  \/ EjectRefused

-----------------------------------------------------------------------------
(* Provision: which half of the install this pass is for. *)

(* Seeded fault: a host shutting down counts as down. *)
NearlyDown(state) == state \in {"Off", "PoweringOff"}

IsDown(state) == state = "Off"

(* Seeded fault: the drive's URL is compared instead, and the BMC rewrote it. *)
NeverThisRuns(inserted, started) == FALSE

InstallUnderWay(inserted, started) == inserted /\ started # 0

(* Seeded fault: the clock is never found to have run out. *)
EndlessBudget(started) == FALSE

BudgetGone(started) == started <= budgetSpent

(* Without a listener nothing can report, so a booted ISO is all there is. *)
AwaitInstall == IF CallbackEnabled THEN Goto("ReadReport") ELSE Complete("provisioned")

CallProvision ==
  /\ pc = "idle" /\ bmh = "provisioning"
  /\ IF liveISO THEN Goto("MediaStatus") ELSE Return("unsupported")
  /\ ReadsOnly

ReadMediaStatus ==
  /\ pc = "MediaStatus"
  /\ sawMedia' = Inserted
  /\ pc' = "InstallStartedAt"
  /\ UNCHANGED <<bmh, error>>
  /\ ReadsOnly

ReadInstallStartedAt ==
  /\ pc = "InstallStartedAt"
  /\ IF InstallUnderWay(sawMedia, InstallStartedAt) THEN AwaitInstall ELSE Goto("Preconditions")
  /\ ReadsOnly

-----------------------------------------------------------------------------
(* BeginInstall. *)

CheckPreconditions ==
  /\ pc = "Preconditions"
  /\ IF declared THEN Goto("BeginPower") ELSE Return("refused")
  /\ ReadsOnly

BeginPower ==
  /\ pc = "BeginPower"
  /\ \/ IsDown(power) /\ Goto(IF sawMedia THEN "Eject" ELSE "Insert")
     \/ ~IsDown(power) /\ power = "PoweringOff" /\ Requeue
     \/ ~IsDown(power) /\ power # "PoweringOff" /\ Goto("CutPower")
  /\ ReadsOnly

CutPower == pc = "CutPower" /\ ForceOff /\ Requeue /\ CallsBMC

Eject == pc = "Eject" /\ EjectThen("Insert") /\ CallsBMC

Insert == pc = "Insert" /\ InsertMedia /\ Goto("VerifyMedia") /\ CallsBMC

VerifyMedia ==
  /\ pc = "VerifyMedia"
  /\ IF Inserted THEN Goto("SetBoot") ELSE Return("no_media")
  /\ ReadsOnly

(* Seeded fault: the override is asked for continuously. *)
EveryBoot == "CdContinuous"

InstallOverride == "CdOnce"

SetInstallBoot ==
  /\ pc = "SetBoot"
  /\ SetBoot(InstallOverride)
  /\ Goto("VerifyBoot")
  /\ CallsBMC

(* Seeded fault: the override is not read back. *)
TrustsTheWrite ==
  /\ pc = "VerifyBoot"
  /\ Goto("ClearReport")
  /\ ReadsOnly

VerifyBoot ==
  /\ pc = "VerifyBoot"
  /\ IF CdIsNext THEN Goto("ClearReport") ELSE Return("no_boot")
  /\ ReadsOnly

ClearReport == pc = "ClearReport" /\ ClearInstallReport /\ Goto("MarkStarted") /\ CallsAPI

MarkStarted ==
  /\ pc = "MarkStarted"
  /\ begins < MaxBegins
  /\ begins' = begins + 1
  /\ MarkInstallStarted(begins')
  /\ Goto("BeginOn")
  /\ UNCHANGED <<machineVars, base, deploys, declared, liveISO, budgetSpent, aborts>>

BeginOn == pc = "BeginOn" /\ ResetOn /\ Requeue /\ CallsBMC

-----------------------------------------------------------------------------
(* AwaitInstall and FinishInstall. *)

(* Seeded fault: any verdict finishes the install. *)
AnyVerdict(result) == result # "none"

Passed(result) == result = "succeeded"

ReadReport ==
  /\ pc = "ReadReport"
  /\ IF ReadInstallReport = "none" THEN Goto("AwaitClock")
     ELSE IF Passed(ReadInstallReport) THEN Goto("FinishPower")
     ELSE Return("reported")
  /\ ReadsOnly

AwaitClock ==
  /\ pc = "AwaitClock"
  /\ Return(IF InstallStartedAt # 0 /\ BudgetGone(InstallStartedAt) THEN "timeout" ELSE "")
  /\ ReadsOnly

FinishPower ==
  /\ pc = "FinishPower"
  /\ \/ IsDown(power) /\ Goto("FinishEject")
     \/ ~IsDown(power) /\ power = "PoweringOff" /\ Requeue
     \/ ~IsDown(power) /\ power # "PoweringOff" /\ Goto("ShutdownClock")
  /\ ReadsOnly

ShutdownClock ==
  /\ pc = "ShutdownClock"
  /\ Goto(IF InstallStartedAt # 0 /\ BudgetGone(InstallStartedAt) THEN "ForceDown" ELSE "SoftDown")
  /\ ReadsOnly

ForceDown == pc = "ForceDown" /\ ForceOff /\ Requeue /\ CallsBMC

SoftDown == pc = "SoftDown" /\ GracefulShutdown /\ Requeue /\ CallsBMC

(* Seeded fault: the media stays in. *)
LeavesMedia == pc = "FinishEject" /\ Goto("FinishBoot") /\ ReadsOnly

FinishEject == pc = "FinishEject" /\ EjectThen("FinishBoot") /\ CallsBMC

FinishBoot ==
  /\ pc = "FinishBoot"
  /\ SetBoot("HddContinuous")
  /\ Goto("FinishOn")
  /\ CallsBMC

(* Seeded fault: the host is left off. *)
LeavesOff == pc = "FinishOn" /\ Goto("FinishDone") /\ ReadsOnly

FinishOn == pc = "FinishOn" /\ ResetOn /\ Goto("FinishDone") /\ CallsBMC

FinishDone == pc = "FinishDone" /\ Complete("provisioned") /\ ReadsOnly

-----------------------------------------------------------------------------
(* Deprovision.  Its first failure is logged and the rest goes ahead. *)

CallDeprovision ==
  /\ pc = "idle" /\ bmh = "deprovisioning"
  /\ Goto("ForgetInstall")
  /\ ReadsOnly

ForgetInstall ==
  /\ pc = "ForgetInstall"
  /\ \/ ClearInstallReport
     \/ "clear_fails" \in Faults /\ UNCHANGED storeVars
  /\ Goto("TeardownMedia")
  /\ CallsAPI

(* Seeded fault: an unreachable BMC is waited for. *)
WaitsForTheBMC ==
  /\ pc = "TeardownMedia"
  /\ \/ Inserted /\ Goto("TeardownEject")
     \/ ~Inserted /\ Complete("available")
     \/ "bmc_gone" \in Faults /\ Requeue
  /\ ReadsOnly

(* Seeded fault: occupied and empty drives are taken for each other. *)
SwappedTeardown ==
  /\ pc = "TeardownMedia"
  /\ \/ ~Inserted /\ Goto("TeardownEject")
     \/ Inserted /\ Complete("available")
     \/ "bmc_gone" \in Faults /\ Complete("available")
  /\ ReadsOnly

TeardownMedia ==
  /\ pc = "TeardownMedia"
  /\ \/ Inserted /\ Goto("TeardownEject")
     \/ ~Inserted /\ Complete("available")
     \/ "bmc_gone" \in Faults /\ Complete("available")
  /\ ReadsOnly

TeardownEject == pc = "TeardownEject" /\ EjectThen("TeardownDone") /\ CallsBMC

TeardownDone == pc = "TeardownDone" /\ Complete("available") /\ ReadsOnly

-----------------------------------------------------------------------------
(* PowerOn and PowerOff, which BMO calls on a host it is not deploying. *)

CallPowerOn ==
  /\ pc = "idle" /\ bmh \in {"available", "provisioned"}
  /\ Goto("OnRead")
  /\ ReadsOnly

OnRead ==
  /\ pc = "OnRead"
  /\ IF power \in {"On", "PoweringOn"} THEN Return("") ELSE Goto("OnReset")
  /\ ReadsOnly

OnReset == pc = "OnReset" /\ ResetOn /\ Requeue /\ CallsBMC

CallPowerOff ==
  /\ pc = "idle" /\ bmh \in {"available", "provisioned"}
  /\ \/ Goto("OffRead")
     \/ "bmc_gone" \in Faults /\ Return("")
  /\ ReadsOnly

OffRead ==
  /\ pc = "OffRead"
  /\ IF power \in {"Off", "PoweringOff"} THEN Return("") ELSE Goto("OffReset")
  /\ ReadsOnly

(* The reboot mode and force decide which of the two. *)
OffReset ==
  /\ pc = "OffReset"
  /\ GracefulShutdown \/ ForceOff
  /\ Requeue
  /\ CallsBMC

-----------------------------------------------------------------------------
(* What happens around the passes. *)

(***************************************************************************)
(* A call fails, its context ends, or the controller restarts.  The call   *)
(* may have taken effect: then this is the abort of the step after it.     *)
(***************************************************************************)
Abort ==
  /\ "abort" \in Faults
  /\ pc # "idle"
  /\ pc \in FinishTail => "abort_finish" \in Faults
  /\ aborts < MaxAborts
  /\ aborts' = aborts + 1
  /\ PassEnds
  /\ UNCHANGED <<storeVars, machineVars, bmh, error, begins, base, deploys, declared, liveISO,
                 budgetSpent>>

(***************************************************************************)
(* BMO starts a deploy.  Whatever the drive still holds is not its image.  *)
(***************************************************************************)
StartDeploy ==
  /\ pc = "idle" /\ bmh = "available"
  /\ deploys < MaxDeploys
  /\ deploys' = deploys + 1
  /\ bmh' = "provisioning"
  /\ base' = begins
  /\ liveISO' \in BOOLEAN
  /\ drive' = IF Inserted THEN "stale" ELSE "empty"
  /\ UNCHANGED <<storeVars, power, boot, os, run, disk, posts, begins, declared, budgetSpent,
                 aborts, error, pc, sawMedia>>

(* The image or the host is taken away. *)
CancelDeploy ==
  /\ pc = "idle" /\ bmh \in {"provisioning", "provisioned"}
  /\ bmh' = "deprovisioning"
  /\ UNCHANGED <<storeVars, machineVars, deployVars, error, pc, sawMedia>>

EditHost ==
  /\ declared' = ~declared
  /\ UNCHANGED <<storeVars, machineVars, passVars, begins, base, deploys, liveISO, budgetSpent,
                 aborts>>

(* Seeded fault: the clock runs ahead of the stamps. *)
RunawayClock ==
  /\ budgetSpent' = budgetSpent + 1
  /\ UNCHANGED <<storeVars, machineVars, passVars, begins, base, deploys, declared, liveISO,
                 aborts>>

(* InstallTimeout passes since the oldest stamp it had not passed for. *)
BudgetRunsOut ==
  /\ budgetSpent < begins
  /\ budgetSpent' = budgetSpent + 1
  /\ UNCHANGED <<storeVars, machineVars, passVars, begins, base, deploys, declared, liveISO,
                 aborts>>

(***************************************************************************)
(* The listener records a report of a poster that knows the host's UID.    *)
(* The sender may hear nothing of it and send it again; a request refused  *)
(* or failed on the way changes nothing.                                   *)
(***************************************************************************)
HandleCallback ==
  \E p \in posts :
    /\ WriteInstallReport(p.ok, p.run)
    /\ posts' \in {posts, posts \ {p}}
    /\ UNCHANGED <<power, drive, boot, os, run, disk, deployVars, passVars>>

(* A listener answers: with the host's kickstart, or with the fallback when *)
(* something it needs is missing.  An error answer installs nothing.        *)
HandleKickstart ==
  /\ CallbackEnabled
  /\ IF declared THEN StartInstalling ELSE RefuseInstall
  /\ UNCHANGED <<storeVars, deployVars, passVars>>

MachineStep ==
  /\ \/ Reboot(begins)
     \/ \E ok \in BOOLEAN : EndInstall(ok)
  /\ UNCHANGED <<storeVars, deployVars, passVars>>

MachineBoots == Boot(begins) /\ UNCHANGED <<storeVars, deployVars, passVars>>

MachineStops == PowerDownCompletes /\ UNCHANGED <<storeVars, deployVars, passVars>>

WatchDelivers == CacheCatchesUp /\ UNCHANGED <<machineVars, deployVars, passVars>>

-----------------------------------------------------------------------------
Provision ==
  \/ CallProvision \/ ReadMediaStatus \/ ReadInstallStartedAt
  \/ CheckPreconditions \/ BeginPower \/ CutPower \/ Eject \/ Insert \/ VerifyMedia
  \/ SetInstallBoot \/ VerifyBoot \/ ClearReport \/ MarkStarted \/ BeginOn
  \/ ReadReport \/ AwaitClock
  \/ FinishPower \/ ShutdownClock \/ ForceDown \/ SoftDown
  \/ FinishEject \/ FinishBoot \/ FinishOn \/ FinishDone

Deprovision ==
  CallDeprovision \/ ForgetInstall \/ TeardownMedia \/ TeardownEject \/ TeardownDone

PowerPass == CallPowerOn \/ OnRead \/ OnReset \/ CallPowerOff \/ OffRead \/ OffReset

Environment ==
  \/ StartDeploy \/ CancelDeploy \/ EditHost \/ BudgetRunsOut
  \/ HandleCallback \/ HandleKickstart
  \/ MachineStep \/ MachineBoots \/ MachineStops \/ WatchDelivers

Next == Provision \/ Deprovision \/ PowerPass \/ Abort \/ Environment

Safety == Init /\ [][Next]_vars

(***************************************************************************)
(* BMO requeues every unfinished pass, time passes, a machine told to      *)
(* start starts and one going down gets there, and a watch delivers.       *)
(* Nothing makes an installer fetch its kickstart, finish, or report.      *)
(***************************************************************************)
Fairness ==
  /\ WF_vars(Provision \/ Deprovision)
  /\ WF_vars(OnRead \/ OnReset \/ OffRead \/ OffReset)
  /\ WF_vars(BudgetRunsOut)
  /\ WF_vars(MachineBoots)
  /\ WF_vars(MachineStops)
  /\ WF_vars(WatchDelivers)

Spec == Safety /\ Fairness

-----------------------------------------------------------------------------
(* The type invariant: every variable of the host, its BMC and its passes   *)
(* holds a value the code can give it, and the clock passes no stamp that   *)
(* was never made.                                                          *)
TypeOK ==
  /\ StoreTypeOK
  /\ MachineTypeOK
  /\ bmh \in States
  /\ error \in Errors
  /\ pc \in Steps
  /\ sawMedia \in BOOLEAN
  /\ begins \in Nat
  /\ base \in 0..begins
  /\ deploys \in Nat
  /\ declared \in BOOLEAN
  /\ liveISO \in BOOLEAN
  /\ budgetSpent \in 0..begins
  /\ aborts \in Nat

(* With a listener, a host is provisioned only when an install of this very *)
(* deploy has completed and is still on the disk (AwaitInstall,             *)
(* FinishInstall).                                                          *)
ProvisionedIsInstalled ==
  CallbackEnabled /\ bmh = "provisioned" => disk > base

(* A host in service is not being installed and has no media to install it  *)
(* from, so nothing wipes its disk (FinishInstall's eject before its power  *)
(* on).                                                                     *)
NoInstallerInService ==
  CallbackEnabled /\ bmh = "provisioned"
    => os \notin {"installer", "installing"} /\ drive = "empty"

(* The verdict AwaitInstall decides on was posted by the installer of the   *)
(* run the stamp belongs to, never by one booted before (ClearInstallReport *)
(* in BeginInstall).                                                        *)
VerdictIsThisRuns ==
  pc = "ReadReport" /\ cache.result # "none" => cache.from = begins

(* When BeginInstall powers the host on the drive holds this deploy's       *)
(* image, the next boot is from it, the last verdict is gone and the stamp  *)
(* is this run's.                                                           *)
PreparedBeforePowerOn ==
  pc = "BeginOn" =>
    /\ drive = "iso"
    /\ CdIsNext
    /\ api.result = "none"
    /\ api.started = begins

(* BeginInstall cuts the power only of a host on which no install has been  *)
(* begun (the stamp check of Provision).                                    *)
RunningInstallUntouched ==
  pc = "CutPower" => api.started = 0

(* During a deploy the media changes only under a machine that is off       *)
(* (BeginInstall and FinishInstall).                                        *)
MediaSwappedOnlyWhenDown ==
  [][bmh = "provisioning" /\ drive' # drive => power = "Off"]_vars

(* One run boots its installer once: the reboot ending an install lands on  *)
(* disk instead of starting it over.  BeginInstall relies on the one time   *)
(* override for it, so it is so only for a BMC that applies Once once.      *)
OneInstallerBootPerRun ==
  [][os # "installer" /\ os' = "installer" => run < begins]_vars

(* No install is begun while the disk holds a finished install of the same  *)
(* deploy (BeginInstall is left for good once its stamp is written).        *)
InstallNotRestarted ==
  [][begins' # begins => disk <= base]_vars

(* An installer boots only on a host that is being deployed or torn down:   *)
(* Deprovision leaves nothing behind that a later power on would boot.      *)
InstallerBootsOnlyInDeploy ==
  [][os # "installer" /\ os' = "installer"
       => bmh \in {"provisioning", "deprovisioning"}]_vars

(* A host that becomes provisioned has been started: by FinishInstall, or   *)
(* with the ISO when there is no listener to wait for (AwaitInstall).       *)
ProvisionedIsStarted ==
  [][bmh # "provisioned" /\ bmh' = "provisioned" => power # "Off"]_vars

(* BMO repeats a pass whose eject is refused, so one that is refused for    *)
(* good is the end of all progress: no budget runs for it and no state      *)
(* leads out of it.  What follows is promised for a BMC that at some point  *)
(* stops refusing.                                                          *)
EndsAtEject == pc \in {"Eject", "FinishEject", "TeardownEject"} /\ pc' = "idle"

EjectsGetThrough == <>[][~EndsAtEject]_vars

(* A deploy does not hang in silence: it ends, is taken back, or shows an   *)
(* error (the timeout of AwaitInstall and ShutDownAfterInstall), unless     *)
(* every eject is refused.                                                  *)
DeployResolves ==
  EjectsGetThrough => (bmh = "provisioning" ~> (bmh # "provisioning" \/ error # ""))

(* A host whose install was reported goes down, asked to or cut             *)
(* (ShutDownAfterInstall), before any eject.                                *)
ReportedHostGoesDown ==
  (bmh = "provisioning" /\ liveISO /\ api.result = "succeeded" /\ api.started # 0 /\ Inserted)
    ~> (power = "Off" \/ bmh # "provisioning")

(* A teardown ends, so that the finalizer is not held, also when the BMC is *)
(* gone or the install cannot be forgotten (Deprovision swallows both).  A  *)
(* BMC that answers and refuses every eject does hold it: Deprovision       *)
(* returns that error.                                                      *)
DeprovisionEnds ==
  EjectsGetThrough => (bmh = "deprovisioning" ~> bmh # "deprovisioning")
=============================================================================
