----------------------------- MODULE MediaProofs -----------------------------
(***************************************************************************)
(* What holds of the drive and the machine for every lag of the host's     *)
(* annotations and every bound.  For every set of faults: no installer on  *)
(* a host in service, and no media swapped under a running machine.  With  *)
(* a BMC that always answers a teardown: no installer once a host has been *)
(* taken back.  With a one time override that applies once as well: one    *)
(* boot of the installer for each power on of BeginInstall.                *)
(*                                                                         *)
(* None of the properties is inductive.  That FinishInstall's eject leaves *)
(* nothing to install from needs the machine off while it ejects, which    *)
(* needs that nobody but the pass powers it on, which needs that BMO runs  *)
(* no power pass on a host it is deploying: MediaInvariant.                *)
(***************************************************************************)
EXTENDS ProvisionerProofs

(* What the leaves below need of the types, with nothing Boolean in it. *)
LEMMA Numbers ==
  ASSUME AllTypesOK
  PROVE  /\ begins \in Nat /\ base \in Nat /\ base <= begins
         /\ run \in Nat /\ disk \in Nat
         /\ api \in Annotations
<1>1. begins \in Nat /\ base \in 0..begins
  BY Zenon DEF AllTypesOK, PassTypeOK
<1> QED BY <1>1 DEF AllTypesOK, StoreTypeOK, MachineTypeOK

LEMMA ProvisionMedia ==
  ASSUME AllTypesOK, MediaInvariant, Provision
  PROVE  MediaInvariant'
<1> USE Numbers
<1> USE DEF MediaInvariant, PassFitsState, RunsOnPower, StaysDown, OutOfReach, StaysUp,
            PassKnowsDrive, NothingLeftIn, OverrideSpent, FreshBoots
<1> USE DEF ProvisionSteps, BeginSteps, AwaitSteps, FinishSteps, FinishTail,
            DeprovisionSteps, PowerSteps, DownSteps, Installers, machineVars, passVars,
            deployVars, CdIsNext, Goto, PassEnds, Return, Requeue, Complete, ReadsOnly,
            CallsBMC, CallsAPI
<1>1. CASE CallProvision
  BY <1>1 DEF CallProvision
<1>2. CASE ReadMediaStatus
  BY <1>2 DEF ReadMediaStatus, Inserted
<1>3. CASE ReadInstallStartedAt
  BY <1>3 DEF ReadInstallStartedAt, AwaitInstall
<1>4. CASE CheckPreconditions
  BY <1>4 DEF CheckPreconditions
<1>5. CASE BeginPower
  BY <1>5 DEF BeginPower, IsDown
<1>6. CASE CutPower
  BY <1>6 DEF CutPower, ForceOff, Stopped
<1>7. CASE Eject
  BY <1>7 DEF Eject, EjectThen, EjectRefused, EjectMedia
<1>8. CASE Insert
  BY <1>8 DEF Insert, InsertMedia
<1>9. CASE VerifyMedia
  BY <1>9 DEF VerifyMedia, Inserted
<1>10. CASE SetInstallBoot
  BY <1>10 DEF SetInstallBoot, InstallOverride, SetBoot
<1>11. CASE VerifyBoot
  BY <1>11 DEF VerifyBoot
<1>12. CASE ClearReport
  BY <1>12 DEF ClearReport
<1>13. CASE MarkStarted
  BY <1>13 DEF MarkStarted
<1>14. CASE BeginOn
  BY <1>14 DEF BeginOn, ResetOn
<1>15. CASE ReadReport
  BY <1>15 DEF ReadReport
<1>16. CASE AwaitClock
  BY <1>16 DEF AwaitClock
<1>17. CASE FinishPower
  BY <1>17 DEF FinishPower, IsDown
<1>18. CASE ShutdownClock
  BY <1>18 DEF ShutdownClock
<1>19. CASE ForceDown
  BY <1>19 DEF ForceDown, ForceOff, Stopped
<1>20. CASE SoftDown
  BY <1>20 DEF SoftDown, GracefulShutdown
<1>21. CASE FinishEject
  BY <1>21 DEF FinishEject, EjectThen, EjectRefused, EjectMedia
<1>22. CASE FinishBoot
  BY <1>22 DEF FinishBoot, SetBoot
<1>23. CASE FinishOn
  BY <1>23 DEF FinishOn, ResetOn
<1>24. CASE FinishDone
  BY <1>24 DEF FinishDone
<1> QED
  BY <1>1, <1>2, <1>3, <1>4, <1>5, <1>6, <1>7, <1>8, <1>9, <1>10, <1>11, <1>12, <1>13, <1>14,
     <1>15, <1>16, <1>17, <1>18, <1>19, <1>20, <1>21, <1>22, <1>23, <1>24 DEF Provision

LEMMA DeprovisionMedia ==
  ASSUME AllTypesOK, MediaInvariant, Deprovision
  PROVE  MediaInvariant'
<1> USE Numbers
<1> USE DEF MediaInvariant, PassFitsState, RunsOnPower, StaysDown, OutOfReach, StaysUp,
            PassKnowsDrive, NothingLeftIn, OverrideSpent, FreshBoots
<1> USE DEF ProvisionSteps, BeginSteps, AwaitSteps, FinishSteps, FinishTail,
            DeprovisionSteps, PowerSteps, DownSteps, Installers, machineVars, passVars,
            deployVars, CdIsNext, Goto, PassEnds, Return, Requeue, Complete, ReadsOnly,
            CallsBMC, CallsAPI
<1>1. CASE CallDeprovision
  BY <1>1 DEF CallDeprovision
<1>2. CASE ForgetInstall
  BY <1>2 DEF ForgetInstall
<1>3. CASE TeardownMedia
  BY <1>3 DEF TeardownMedia, Inserted
<1>4. CASE TeardownEject
  BY <1>4 DEF TeardownEject, EjectThen, EjectRefused, EjectMedia
<1>5. CASE TeardownDone
  BY <1>5 DEF TeardownDone
<1> QED
  BY <1>1, <1>2, <1>3, <1>4, <1>5 DEF Deprovision

LEMMA PowerMedia ==
  ASSUME AllTypesOK, MediaInvariant, PowerPass
  PROVE  MediaInvariant'
<1> USE Numbers
<1> USE DEF MediaInvariant, PassFitsState, RunsOnPower, StaysDown, OutOfReach, StaysUp,
            PassKnowsDrive, NothingLeftIn, OverrideSpent, FreshBoots
<1> USE DEF ProvisionSteps, BeginSteps, AwaitSteps, FinishSteps, FinishTail,
            DeprovisionSteps, PowerSteps, DownSteps, Installers, machineVars, passVars,
            deployVars, CdIsNext, Goto, PassEnds, Return, Requeue, Complete, ReadsOnly,
            CallsBMC, CallsAPI
<1>1. CASE CallPowerOn
  BY <1>1 DEF CallPowerOn
<1>2. CASE OnRead
  BY <1>2 DEF OnRead
<1>3. CASE OnReset
  BY <1>3 DEF OnReset, ResetOn
<1>4. CASE CallPowerOff
  BY <1>4 DEF CallPowerOff
<1>5. CASE OffRead
  BY <1>5 DEF OffRead
<1>6. CASE OffReset
  BY <1>6 DEF OffReset, ForceOff, Stopped, GracefulShutdown
<1> QED
  BY <1>1, <1>2, <1>3, <1>4, <1>5, <1>6 DEF PowerPass

LEMMA EnvironmentMedia ==
  ASSUME AllTypesOK, MediaInvariant, Environment
  PROVE  MediaInvariant'
<1> USE Numbers
<1> USE DEF MediaInvariant, PassFitsState, RunsOnPower, StaysDown, OutOfReach, StaysUp,
            PassKnowsDrive, NothingLeftIn, OverrideSpent, FreshBoots
<1> USE DEF ProvisionSteps, BeginSteps, AwaitSteps, FinishSteps, FinishTail,
            DeprovisionSteps, PowerSteps, DownSteps, Installers, machineVars, passVars,
            deployVars, CdIsNext, Goto, PassEnds, Return, Requeue, Complete, ReadsOnly,
            CallsBMC, CallsAPI
<1>1. CASE StartDeploy
  BY <1>1 DEF StartDeploy, Inserted
<1>2. CASE CancelDeploy
  BY <1>2 DEF CancelDeploy
<1>3. CASE EditHost
  BY <1>3 DEF EditHost
<1>4. CASE BudgetRunsOut
  BY <1>4 DEF BudgetRunsOut
<1>5. CASE HandleCallback
  BY <1>5 DEF HandleCallback
<1>6. CASE HandleKickstart
  BY <1>6 DEF HandleKickstart, StartInstalling, RefuseInstall, Stopped
<1>7. CASE MachineStep
  BY <1>7 DEF MachineStep, Reboot, EndInstall, StartUp, Inserted
<1>8. CASE MachineBoots
  BY <1>8 DEF MachineBoots, Boot, StartUp, Inserted
<1>9. CASE MachineStops
  BY <1>9 DEF MachineStops, PowerDownCompletes, Stopped
<1>10. CASE WatchDelivers
  BY <1>10 DEF WatchDelivers
<1> QED
  BY <1>1, <1>2, <1>3, <1>4, <1>5, <1>6, <1>7, <1>8, <1>9, <1>10 DEF Environment

LEMMA AbortMedia ==
  ASSUME AllTypesOK, MediaInvariant, Abort
  PROVE  MediaInvariant'
  BY DEF MediaInvariant, PassFitsState, RunsOnPower, StaysDown, OutOfReach, StaysUp,
         PassKnowsDrive, NothingLeftIn, OverrideSpent, FreshBoots, CdIsNext, Abort,
         PassEnds, ProvisionSteps, BeginSteps, AwaitSteps, FinishSteps, FinishTail,
         DeprovisionSteps, PowerSteps, DownSteps, machineVars

LEMMA MediaInit ==
  ASSUME Init
  PROVE  MediaInvariant
<1>1. /\ bmh = "available" /\ pc = "idle" /\ boot = "Disabled" /\ run = 0 /\ begins = 0
      /\ (power = "Off" /\ os = "none") \/ (power = "On" /\ os = "disk")
  BY Zenon DEF Init, MachineInit
<1> QED
  BY <1>1 DEF MediaInvariant, PassFitsState, RunsOnPower, StaysDown, OutOfReach,
              StaysUp, PassKnowsDrive, NothingLeftIn, OverrideSpent, FreshBoots, CdIsNext,
              ProvisionSteps, BeginSteps, AwaitSteps, FinishSteps, FinishTail,
              DeprovisionSteps, PowerSteps, DownSteps

LEMMA MediaNext ==
  ASSUME AllTypesOK, MediaInvariant, [Next]_vars
  PROVE  MediaInvariant'
<1>1. CASE Next
  BY <1>1, ProvisionMedia, DeprovisionMedia, PowerMedia, AbortMedia,
     EnvironmentMedia DEF Next
<1>2. CASE UNCHANGED vars
  BY <1>2 DEF vars, machineVars, passVars, MediaInvariant, PassFitsState, RunsOnPower,
              StaysDown, OutOfReach, StaysUp, PassKnowsDrive, NothingLeftIn, OverrideSpent,
              FreshBoots, CdIsNext, deployVars
<1> QED BY <1>1, <1>2

(* The inductive invariant of the theorems below, with the types under it.  *)
THEOREM MediaAlways == Safety => [](AllTypesOK /\ MediaInvariant)
  BY TypesInit, TypesNext, MediaInit, MediaNext, PTL DEF Safety

(* With a listener, a host in service has neither an installer running nor  *)
(* media to boot one from, whatever fails, lags or is cut short.            *)
THEOREM ServiceIsSafe == Safety => []NoInstallerInService
<1>1. MediaInvariant => NoInstallerInService
  BY DEF MediaInvariant, OutOfReach, NoInstallerInService, Installers
<1> QED BY <1>1, MediaAlways, PTL

(* In a deploy the drive changes hands only while the machine is off: each  *)
(* eject and insert runs at a step StaysDown covers, and nothing else in a  *)
(* deploy touches the media.                                                *)
THEOREM MediaIsSwappedDown == Safety => MediaSwappedOnlyWhenDown
<1> DEFINE Swap == bmh = "provisioning" /\ drive' # drive
<1>1. ASSUME MediaInvariant, Next, Swap PROVE power = "Off"
  <2> USE <1>1 DEF MediaInvariant, PassFitsState, StaysDown, DownSteps, machineVars,
                   Goto, PassEnds, Return, Requeue, Complete, ReadsOnly, CallsBMC, CallsAPI
  <2>1. CASE Provision
    BY <2>1 DEF Provision, CallProvision, ReadMediaStatus, ReadInstallStartedAt,
         CheckPreconditions, BeginPower, CutPower, ForceOff, Eject, EjectThen,
         EjectRefused, Insert, VerifyMedia, SetInstallBoot, SetBoot, VerifyBoot,
         ClearReport, MarkStarted, BeginOn, ResetOn, ReadReport, AwaitClock, FinishPower,
         ShutdownClock, ForceDown, SoftDown, GracefulShutdown, FinishEject, FinishBoot,
         FinishOn, FinishDone, Stopped
  <2>2. CASE Deprovision
    BY <2>2 DEF Deprovision, DeprovisionSteps, CallDeprovision, ForgetInstall,
         TeardownMedia, TeardownEject, EjectThen, EjectRefused, TeardownDone
  <2>3. CASE PowerPass
    BY <2>3 DEF PowerPass, CallPowerOn, OnRead, OnReset, ResetOn, CallPowerOff, OffRead,
         OffReset, ForceOff, GracefulShutdown, Stopped
  <2>4. CASE Abort
    BY <2>4 DEF Abort
  <2>5. CASE Environment
    BY <2>5 DEF Environment, StartDeploy, CancelDeploy, EditHost, BudgetRunsOut,
         HandleCallback, HandleKickstart, StartInstalling, RefuseInstall, MachineStep,
         Reboot, EndInstall, MachineBoots, Boot, StartUp, MachineStops,
         PowerDownCompletes, Stopped, WatchDelivers
  <2> QED BY <2>1, <2>2, <2>3, <2>4, <2>5 DEF Next
<1>2. MediaInvariant /\ [Next]_vars => [Swap => power = "Off"]_vars
  BY <1>1
<1> QED
  BY <1>2, MediaAlways, PTL DEF Safety, MediaSwappedOnlyWhenDown

(* With a listener, a host that becomes provisioned has been started, by    *)
(* the power on FinishInstall ends with.                                    *)
THEOREM ProvisionedHostIsStarted ==
  ASSUME CallbackEnabled
  PROVE  Safety => ProvisionedIsStarted
<1> DEFINE Completed == bmh # "provisioned" /\ bmh' = "provisioned"
<1>1. ASSUME MediaInvariant, Next, Completed PROVE power # "Off"
  <2> USE <1>1 DEF MediaInvariant, StaysUp, machineVars, deployVars, passVars,
                   Goto, PassEnds, Return, Requeue, Complete, ReadsOnly, CallsBMC, CallsAPI
  <2>1. CASE Provision
    BY <2>1 DEF Provision, CallProvision, ReadMediaStatus, ReadInstallStartedAt,
         AwaitInstall, CheckPreconditions, BeginPower, CutPower, Eject, EjectThen,
         EjectRefused, Insert, VerifyMedia, SetInstallBoot, VerifyBoot, ClearReport,
         MarkStarted, BeginOn, ReadReport, AwaitClock, FinishPower, ShutdownClock,
         ForceDown, SoftDown, FinishEject, FinishBoot, FinishOn, FinishDone
  <2>2. CASE Deprovision
    BY <2>2 DEF Deprovision, CallDeprovision, ForgetInstall, TeardownMedia, TeardownEject,
         EjectThen, EjectRefused, TeardownDone
  <2>3. CASE PowerPass
    BY <2>3 DEF PowerPass, CallPowerOn, OnRead, OnReset, CallPowerOff, OffRead, OffReset
  <2>4. CASE Abort
    BY <2>4 DEF Abort
  <2>5. CASE Environment
    BY <2>5 DEF Environment, StartDeploy, CancelDeploy, EditHost, BudgetRunsOut,
         HandleCallback, HandleKickstart, MachineStep, MachineBoots, MachineStops,
         WatchDelivers
  <2> QED BY <2>1, <2>2, <2>3, <2>4, <2>5 DEF Next
<1>2. MediaInvariant /\ [Next]_vars => [Completed => power # "Off"]_vars
  BY <1>1
<1> QED
  BY <1>2, MediaAlways, PTL DEF Safety, ProvisionedIsStarted
-----------------------------------------------------------------------------
(* A machine that starts an installer has media in and an override to boot  *)
(* it, and no pass is what starts it.                                       *)
LEMMA InstallerBoot ==
  ASSUME Next, os # "installer", os' = "installer"
  PROVE  power \in {"On", "PoweringOn"} /\ CdIsNext /\ drive # "empty"
<1> USE DEF machineVars, deployVars, passVars, ReadsOnly, CallsBMC, CallsAPI, Stopped
<1>1. ~Provision
  BY DEF Provision, CallProvision, ReadMediaStatus, ReadInstallStartedAt,
     CheckPreconditions, BeginPower, CutPower, ForceOff, Eject, EjectThen, EjectRefused,
     EjectMedia, Insert, InsertMedia, VerifyMedia, SetInstallBoot, SetBoot, VerifyBoot,
     ClearReport, MarkStarted, BeginOn, ResetOn, ReadReport, AwaitClock, FinishPower,
     ShutdownClock, ForceDown, SoftDown, GracefulShutdown, FinishEject, FinishBoot,
     FinishOn, FinishDone
<1>2. ~Deprovision
  BY DEF Deprovision, CallDeprovision, ForgetInstall, TeardownMedia, TeardownEject,
     EjectThen, EjectRefused, EjectMedia, TeardownDone
<1>3. ~PowerPass
  BY DEF PowerPass, CallPowerOn, OnRead, OnReset, ResetOn, CallPowerOff, OffRead, OffReset,
     ForceOff, GracefulShutdown
<1>4. ~Abort
  BY DEF Abort
<1>5. MachineStep \/ MachineBoots
  BY <1>1, <1>2, <1>3, <1>4
     DEF Next, Environment, StartDeploy, CancelDeploy, EditHost, BudgetRunsOut,
         HandleCallback, HandleKickstart, StartInstalling, RefuseInstall, MachineStops,
         PowerDownCompletes, WatchDelivers, MachineStep, MachineBoots
<1> QED
  BY <1>5 DEF MachineStep, MachineBoots, Reboot, Boot, StartUp, EndInstall, Inserted

(* With a listener and a BMC that answers every teardown, an installer      *)
(* boots only on a host that is being deployed or torn down, however old    *)
(* the reads, late the reports and cut short the passes are.                *)
THEOREM NoInstallerAfterTeardown ==
  ASSUME "bmc_gone" \notin Faults, CallbackEnabled
  PROVE  Safety => InstallerBootsOnlyInDeploy
<1>1. ASSUME AllTypesOK, MediaInvariant, Next, os # "installer", os' = "installer"
      PROVE  bmh \in {"provisioning", "deprovisioning"}
  <2>1. CdIsNext /\ drive # "empty"
    BY <1>1, InstallerBoot
  <2>2. bmh # "available" /\ bmh # "provisioned"
    BY <1>1, <2>1 DEF MediaInvariant, NothingLeftIn, OutOfReach
  <2>3. bmh \in States
    BY <1>1, Zenon DEF AllTypesOK, PassTypeOK
  <2> QED BY <2>2, <2>3 DEF States
<1>2. AllTypesOK /\ MediaInvariant /\ [Next]_vars
        => [os # "installer" /\ os' = "installer"
              => bmh \in {"provisioning", "deprovisioning"}]_vars
  BY <1>1
<1> QED
  BY <1>2, MediaAlways, PTL DEF Safety, InstallerBootsOnlyInDeploy

(* With a listener, and a BMC that answers every teardown and applies a one *)
(* time override once, a run boots its installer once, with reads of any    *)
(* age and reports of any run.                                              *)
THEOREM InstallerBootsOnce ==
  ASSUME Faults \cap {"bmc_gone", "once_ignored"} = {}, CallbackEnabled
  PROVE  Safety => OneInstallerBootPerRun
<1>1. ASSUME AllTypesOK, MediaInvariant, Next, os # "installer", os' = "installer"
      PROVE  run < begins
  <2>1. power = "PoweringOn" /\ boot = "CdOnce" /\ drive # "empty"
    BY <1>1, InstallerBoot DEF MediaInvariant, OverrideSpent, CdIsNext
  <2> QED BY <1>1, <2>1 DEF MediaInvariant, FreshBoots
<1>2. AllTypesOK /\ MediaInvariant /\ [Next]_vars
        => [os # "installer" /\ os' = "installer" => run < begins]_vars
  BY <1>1
<1> QED
  BY <1>2, MediaAlways, PTL DEF Safety, OneInstallerBootPerRun
=============================================================================
