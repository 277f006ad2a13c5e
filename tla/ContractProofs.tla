--------------------------- MODULE ContractProofs ---------------------------
(***************************************************************************)
(* With a listener Provisioner implements InstallContract, for every       *)
(* number of deploys, installs and aborted passes: each of its steps is a  *)
(* step of the contract or leaves all the contract speaks of as it was.    *)
(* Two facts carry it: a deploy begins one install, the one its stamp      *)
(* numbers (OneBeginPerDeploy), and whatever is installing has not         *)
(* installed this deploy yet (WorkInProgress).  Without a listener a pass  *)
(* hands a host over when its ISO has been booted, which is proved last.   *)
(***************************************************************************)
EXTENDS InstallProofs, InstallRefinement

(* Everything the contract speaks of. *)
contractView == <<bmh, begins, base, disk>>

-----------------------------------------------------------------------------
(* Few steps are seen through the contract: all others are stutters. *)

LEMMA ProvisionSeen ==
  ASSUME CallbackEnabled, Provision
  PROVE  MarkStarted \/ FinishDone \/ UNCHANGED contractView
BY DEF Provision, CallProvision, ReadMediaStatus, ReadInstallStartedAt, AwaitInstall,
       CheckPreconditions, BeginPower, CutPower, ForceOff, Stopped, Eject, EjectThen,
       EjectRefused, EjectMedia, Insert, InsertMedia, VerifyMedia, SetInstallBoot,
       SetBoot, VerifyBoot, ClearReport, BeginOn, ResetOn, ReadReport, AwaitClock,
       FinishPower, ShutdownClock, ForceDown, SoftDown, GracefulShutdown, FinishEject,
       FinishBoot, FinishOn, Goto, Return, Requeue, ReadsOnly, CallsBMC, CallsAPI,
       machineVars, deployVars,
       contractView

LEMMA DeprovisionSeen ==
  ASSUME Deprovision
  PROVE  \/ Complete("available") /\ UNCHANGED <<begins, base, disk>>
         \/ UNCHANGED contractView
BY DEF Deprovision, CallDeprovision, ForgetInstall, TeardownMedia, TeardownEject,
       EjectThen, EjectRefused, TeardownDone, EjectMedia, Goto, Return, Requeue,
       ReadsOnly, CallsBMC, CallsAPI,
       machineVars, deployVars, contractView

LEMMA PowerSeen ==
  ASSUME PowerPass
  PROVE  UNCHANGED contractView
BY DEF PowerPass, CallPowerOn, OnRead, OnReset, ResetOn, CallPowerOff, OffRead, OffReset,
       GracefulShutdown, ForceOff, Stopped, Goto, Return, Requeue, ReadsOnly, CallsBMC,
       machineVars, deployVars, contractView

(* What a machine does to its disk is what an installer does to it. *)
LEMMA EnvironmentSeen ==
  ASSUME Environment
  PROVE  \/ StartDeploy
         \/ CancelDeploy
         \/ /\ os \in Installers /\ disk' \in {0, run}
            /\ UNCHANGED <<bmh, begins, base>>
         \/ UNCHANGED contractView
BY DEF Environment, EditHost, BudgetRunsOut, HandleCallback, HandleKickstart,
       StartInstalling, RefuseInstall, Stopped, MachineStep, Reboot, StartUp, EndInstall,
       MachineBoots, Boot, MachineStops, PowerDownCompletes, WatchDelivers, machineVars,
       deployVars, passVars,
       contractView, Installers

-----------------------------------------------------------------------------
LEMMA ContractInit ==
  ASSUME Init
  PROVE  Contract!Init
BY Zenon DEF Init, Contract!Init, BegunHere, InstalledHere, InDeploy

LEMMA ContractNext ==
  ASSUME CallbackEnabled, Undisturbed, AllTypesOK, InstallIsSafe, [Next]_vars
  PROVE  [Contract!Next]_Contract!contractVars
<1>a. InOrder /\ Uncut
  BY DEF Undisturbed
<1> USE <1>a, Numbers
<1> USE DEF Contract!Next, Contract!Deploy, Contract!Begin, Contract!Install,
            Contract!HandOver, Contract!TakeBack, Contract!Release, Contract!contractVars,
            BegunHere, InstalledHere, InDeploy
<1>1. CASE UNCHANGED contractView
  BY <1>1 DEF contractView
<1>2. CASE MarkStarted
  <2>1. /\ bmh = "provisioning" /\ begins = base
        /\ begins' = begins + 1 /\ UNCHANGED <<bmh, base, disk>>
    BY <1>2, Zenon
       DEF MarkStarted, Goto, machineVars, InstallIsSafe, MediaInvariant, PassFitsState,
           ProvisionSteps, BeginSteps, DeployInvariant, StampedInstall, OneBeginPerDeploy,
           Landed
  <2>2. disk <= base
    BY <2>1 DEF InstallIsSafe, DeployInvariant, ReportsAreTrue
  <2> QED BY <2>1, <2>2
<1>3. CASE FinishDone
  <2>1. /\ bmh = "provisioning" /\ bmh' = "provisioned"
        /\ UNCHANGED <<begins, base, disk>>
    BY <1>3 DEF FinishDone, Complete, ReadsOnly, machineVars, deployVars, InstallIsSafe,
           MediaInvariant, PassFitsState, ProvisionSteps, FinishSteps, FinishTail
  <2>2. disk' > base'
    <3>1. InstallIsSafe'
      BY InstallNext
    <3> QED BY <2>1, <3>1 DEF InstallIsSafe, DeployInvariant, ProvisionedIsInstalled
  <2> QED BY <2>1, <2>2
<1>4. CASE Deprovision /\ Complete("available") /\ UNCHANGED <<begins, base, disk>>
  <2>1. bmh = "deprovisioning"
    BY <1>4 DEF InstallIsSafe, MediaInvariant, PassFitsState, Deprovision, CallDeprovision,
           ForgetInstall, TeardownMedia, TeardownEject, EjectThen, EjectRefused,
           TeardownDone, DeprovisionSteps
  <2> QED BY <1>4, <2>1 DEF Complete
<1>5. CASE StartDeploy
  <2>1. /\ bmh = "available" /\ bmh' = "provisioning"
        /\ base' = begins /\ UNCHANGED <<begins, disk>>
    BY <1>5 DEF StartDeploy
  <2>2. disk <= begins
    BY DEF InstallIsSafe, DeployInvariant, ReportsAreTrue
  <2> QED BY <2>1, <2>2
<1>6. CASE CancelDeploy
  BY <1>6 DEF CancelDeploy
<1>7. CASE os \in Installers /\ disk' \in {0, run} /\ UNCHANGED <<bmh, begins, base>>
  <2>1. run = begins /\ disk <= begins
    BY <1>7 DEF InstallIsSafe, DeployInvariant, LatestReports, ReportsAreTrue
  <2>2. bmh # "provisioned"
    BY <1>7 DEF InstallIsSafe, MediaInvariant, OutOfReach
  <2>3. bmh = "provisioning" => disk <= base
    BY <1>7, <2>1 DEF InstallIsSafe, DeployInvariant, WorkInProgress, OneBeginPerDeploy
  <2>4. bmh = "provisioning" => begins = base \/ begins = base + 1
    BY DEF InstallIsSafe, DeployInvariant, OneBeginPerDeploy
  <2> QED BY <1>7, <2>1, <2>2, <2>3, <2>4
<1>8. CASE UNCHANGED vars
  BY <1>1, <1>8, Zenon DEF vars, machineVars, deployVars, passVars, contractView
<1>9. CASE Abort
  BY <1>1, <1>9 DEF Abort, machineVars, contractView
<1> QED
  BY <1>1, <1>2, <1>3, <1>4, <1>5, <1>6, <1>7, <1>8, <1>9, ProvisionSeen, DeprovisionSeen,
     PowerSeen, EnvironmentSeen DEF Next

(* An undisturbed deploy keeps the contract: one install per deploy, handed *)
(* over when it is whole, and whole until the host is taken back.           *)
THEOREM ImplementsContract ==
  ASSUME CallbackEnabled, Undisturbed
  PROVE  Safety => KeepsContract
<1>1. InOrder
  BY DEF Undisturbed
<1> QED
  BY <1>1, ContractInit, ContractNext, InstallAlways, PTL
     DEF Safety, KeepsContract, Contract!Spec

-----------------------------------------------------------------------------
(* Without a listener, and with no pass cut short between stamp and start. *)

LEMMA StartedInit ==
  ASSUME Init
  PROVE  StartedStaysOn
BY Zenon DEF Init, StartedStaysOn, AwaitSteps, FinishSteps, FinishTail

LEMMA StartedNext ==
  ASSUME MaxLag = 0, "abort" \notin Faults, AllTypesOK, MediaInvariant, Coherent,
         StampsOfThisDeploy, StartedStaysOn, [Next]_vars
  PROVE  StartedStaysOn'
<1> USE DEF StartedStaysOn, MediaInvariant, PassFitsState, StaysDown, Coherent,
            StampsOfThisDeploy, ProvisionSteps, BeginSteps, AwaitSteps, FinishSteps,
            FinishTail, DeprovisionSteps, PowerSteps, DownSteps
<1> USE DEF machineVars, passVars, storeVars, deployVars, Goto, PassEnds, Return, Requeue,
            Complete, ReadsOnly, CallsBMC, CallsAPI, Stopped
<1>1. CASE CallProvision \/ ReadMediaStatus \/ CheckPreconditions \/ BeginPower \/ CutPower
           \/ Eject \/ Insert \/ VerifyMedia \/ SetInstallBoot \/ VerifyBoot
  BY <1>1 DEF CallProvision, ReadMediaStatus, CheckPreconditions, BeginPower, CutPower,
         ForceOff, Eject, EjectThen, EjectRefused, EjectMedia, Insert, InsertMedia,
         VerifyMedia, SetInstallBoot, SetBoot, VerifyBoot
<1>2. CASE ReadInstallStartedAt
  BY <1>2 DEF ReadInstallStartedAt, InstallUnderWay, InstallStartedAt, AwaitInstall
<1>3. CASE ClearReport
  BY <1>3, ClearInOrder DEF ClearReport
<1>4. CASE MarkStarted
  BY <1>4, Zenon DEF MarkStarted
<1>5. CASE BeginOn
  BY <1>5 DEF BeginOn, ResetOn
<1>6. CASE ReadReport \/ AwaitClock \/ FinishPower \/ ShutdownClock \/ ForceDown \/ SoftDown
           \/ FinishEject \/ FinishBoot \/ FinishOn \/ FinishDone
  BY <1>6 DEF ReadReport, AwaitClock, FinishPower, ShutdownClock, ForceDown, SoftDown,
         FinishEject, EjectThen, EjectRefused, FinishBoot, FinishOn, FinishDone
<1>7. CASE Deprovision
  BY <1>7 DEF Deprovision, CallDeprovision, ForgetInstall, TeardownMedia, TeardownEject,
         EjectThen, EjectRefused, TeardownDone, EjectMedia
<1>8. CASE PowerPass
  BY <1>8 DEF PowerPass, CallPowerOn, OnRead, OnReset, ResetOn, CallPowerOff, OffRead,
         OffReset, GracefulShutdown, ForceOff
<1>9. CASE Abort
  BY <1>9 DEF Abort
<1>10. CASE HandleCallback
  <2>1. PICK p \in posts :
          /\ WriteInstallReport(p.ok, p.run)
          /\ UNCHANGED <<power, passVars>>
    BY <1>10 DEF HandleCallback
  <2>2. p.ok \in BOOLEAN /\ p.run \in Nat
    BY DEF AllTypesOK, MachineTypeOK, Reports
  <2>3. api'.started = api.started
    BY <2>1, <2>2, WriteInOrder
  <2> QED BY <2>1, <2>3
<1>11. CASE StartDeploy \/ CancelDeploy \/ EditHost \/ BudgetRunsOut \/ HandleKickstart
            \/ MachineStep \/ MachineBoots \/ MachineStops \/ WatchDelivers
  BY <1>11 DEF StartDeploy, CancelDeploy, EditHost, BudgetRunsOut, HandleKickstart,
         MachineStep, Reboot, StartUp, EndInstall, MachineBoots, Boot, MachineStops,
         PowerDownCompletes, WatchDelivers, CacheCatchesUp
<1>12. CASE UNCHANGED vars
  <2>1. UNCHANGED <<api, power, bmh, pc>>
    BY <1>12, Zenon DEF vars
  <2> QED BY <2>1
<1> QED
  BY <1>1, <1>2, <1>3, <1>4, <1>5, <1>6, <1>7, <1>8, <1>9, <1>10, <1>11, <1>12
     DEF Next, Provision, Environment

(* With no listener to wait for, a host is handed over only once it has     *)
(* been started with the ISO (AwaitInstall), if reads are not stale, no     *)
(* pass is cut short and Deprovision's clear succeeds, whatever else fails. *)
THEOREM StartedWithoutListener ==
  ASSUME ~CallbackEnabled, MaxLag = 0, Faults \cap {"abort", "clear_fails"} = {}
  PROVE  Safety => ProvisionedIsStarted
<1> DEFINE Kept == /\ AllTypesOK /\ MediaInvariant /\ Coherent
                   /\ StampsOfThisDeploy /\ StartedStaysOn
<1>a. "abort" \notin Faults /\ "clear_fails" \notin Faults /\ Uncut
  BY DEF Uncut
<1>1. ASSUME Kept, Next, bmh # "provisioned", bmh' = "provisioned"
      PROVE  power # "Off"
  <2>1. ReadInstallStartedAt \/ FinishDone
    BY <1>1
       DEF Next, Provision, CallProvision, ReadMediaStatus, CheckPreconditions, BeginPower,
           CutPower, Eject, EjectThen, EjectRefused, Insert, VerifyMedia, SetInstallBoot,
           VerifyBoot, ClearReport, MarkStarted, BeginOn, ReadReport, AwaitClock,
           FinishPower, ShutdownClock, ForceDown, SoftDown, FinishEject, FinishBoot,
           FinishOn, Deprovision, CallDeprovision, ForgetInstall, TeardownMedia,
           TeardownEject, TeardownDone, PowerPass, CallPowerOn, OnRead, OnReset,
           CallPowerOff, OffRead, OffReset, Abort, Environment, StartDeploy, CancelDeploy,
           EditHost, BudgetRunsOut, HandleCallback, HandleKickstart, MachineStep,
           MachineBoots, MachineStops, WatchDelivers, Goto, Return, Requeue, Complete,
           passVars
  <2>2. pc = "InstallStartedAt" /\ bmh = "provisioning"
    BY <1>1, <2>1 DEF ReadInstallStartedAt, FinishDone, ProvisionSteps, FinishSteps,
           FinishTail, MediaInvariant, PassFitsState, StartedStaysOn
  <2>3. api.started # 0
    BY <1>1, <2>1, <2>2 DEF ReadInstallStartedAt, InstallUnderWay, InstallStartedAt, Goto,
           FinishDone, Coherent
  <2> QED BY <1>1, <2>2, <2>3 DEF StartedStaysOn
<1>2. Kept /\ [Next]_vars
        => [bmh # "provisioned" /\ bmh' = "provisioned" => power # "Off"]_vars
  BY <1>1
<1>3. Init => StartedStaysOn
  BY StartedInit
<1>4. Kept /\ [Next]_vars => StartedStaysOn'
  BY <1>a, StartedNext
<1>5. Safety => [](AllTypesOK /\ MediaInvariant /\ Coherent /\ StampsOfThisDeploy)
  BY <1>a, StampsAlways
<1>6. Safety => []Kept
  BY <1>3, <1>4, <1>5, PTL DEF Safety
<1> QED
  BY <1>2, <1>6, PTL DEF Safety, ProvisionedIsStarted
=============================================================================
