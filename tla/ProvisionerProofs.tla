-------------------------- MODULE ProvisionerProofs --------------------------
(***************************************************************************)
(* What holds of Provisioner for every value of its constants.             *)
(***************************************************************************)
EXTENDS InstallInvariant, TLAPS

-----------------------------------------------------------------------------
(* The install state keeps its type under every operation of the store. *)

LEMMA PublishType ==
  ASSUME StoreTypeOK, NEW a \in Annotations, Publish(a)
  PROVE  StoreTypeOK'
BY DEF StoreTypeOK, Publish

LEMMA MutateType ==
  ASSUME StoreTypeOK, NEW new \in Annotations, MutateHostAnnotations(new)
  PROVE  StoreTypeOK'
<1> DEFINE patched == MergePatch(cache, new, api)
<1>1. patched \in Annotations
  BY DEF StoreTypeOK, MergePatch, Annotations
<1>2. CASE UNCHANGED storeVars
  BY <1>2 DEF StoreTypeOK, storeVars
<1>3. CASE Publish(patched)
  <2> HIDE DEF patched
  <2> QED BY <1>1, <1>3, PublishType
<1> QED BY <1>2, <1>3 DEF MutateHostAnnotations

LEMMA StoreOpsType ==
  ASSUME StoreTypeOK
  PROVE  /\ ClearInstallReport => StoreTypeOK'
         /\ \A stamp \in Nat : MarkInstallStarted(stamp) => StoreTypeOK'
         /\ \A ok \in BOOLEAN, r \in Nat : WriteInstallReport(ok, r) => StoreTypeOK'
         /\ CacheCatchesUp => StoreTypeOK'
         /\ UNCHANGED storeVars => StoreTypeOK'
<1>1. WithoutReport(cache) \in Annotations
  BY DEF WithoutReport, NoAnnotations, Annotations, Results
<1>2. ASSUME NEW stamp \in Nat PROVE WithStamp(cache, stamp) \in Annotations
  BY DEF StoreTypeOK, WithStamp, Annotations
<1>3. ASSUME NEW ok \in BOOLEAN, NEW r \in Nat PROVE WithReport(cache, ok,
r) \in Annotations
  BY DEF StoreTypeOK, WithReport, Annotations, Results
<1>4. CacheCatchesUp => StoreTypeOK'
  BY DEF CacheCatchesUp, StoreTypeOK
<1>5. UNCHANGED storeVars => StoreTypeOK'
  BY DEF storeVars, StoreTypeOK
<1> QED
  BY <1>1, <1>2, <1>3, <1>4, <1>5, MutateType
     DEF ClearInstallReport, MarkInstallStarted, WriteInstallReport

(* So do the machine's, for any run an installer may belong to. *)
LEMMA MachineOpsType ==
  ASSUME MachineTypeOK
  PROVE  /\ ResetOn => MachineTypeOK'
         /\ Stopped => MachineTypeOK'
         /\ GracefulShutdown => MachineTypeOK'
         /\ \A override \in Overrides : SetBoot(override) => MachineTypeOK'
         /\ InsertMedia => MachineTypeOK'
         /\ EjectMedia => MachineTypeOK'
         /\ \A latest \in Nat : Boot(latest) \/ Reboot(latest) => MachineTypeOK'
         /\ StartInstalling => MachineTypeOK'
         /\ \A ok \in BOOLEAN : EndInstall(ok) => MachineTypeOK'
         /\ UNCHANGED machineVars => MachineTypeOK'
<1> USE DEF MachineTypeOK, PowerStates, Media, Overrides, Software
<1>1. ResetOn => MachineTypeOK'
  BY DEF ResetOn
<1>2. Stopped => MachineTypeOK'
  BY DEF Stopped
<1>3. GracefulShutdown => MachineTypeOK'
  BY DEF GracefulShutdown
<1>4. \A override \in Overrides : SetBoot(override) => MachineTypeOK'
  BY DEF SetBoot
<1>5. InsertMedia => MachineTypeOK'
  BY DEF InsertMedia
<1>6. EjectMedia => MachineTypeOK'
  BY DEF EjectMedia
<1>7. \A latest \in Nat : Boot(latest) \/ Reboot(latest) => MachineTypeOK'
  BY DEF Boot, Reboot, StartUp
<1>8. StartInstalling => MachineTypeOK'
  BY DEF StartInstalling
<1>9. \A ok \in BOOLEAN : EndInstall(ok) => MachineTypeOK'
  BY DEF EndInstall, Reports
<1>10. UNCHANGED machineVars => MachineTypeOK'
  BY DEF machineVars
<1> QED
  BY <1>1, <1>2, <1>3, <1>4, <1>5, <1>6, <1>7, <1>8, <1>9, <1>10

-----------------------------------------------------------------------------
(* The part of TypeOK that is neither the store's nor the machine's. *)
PassTypeOK ==
  /\ bmh \in States
  /\ error \in Errors
  /\ pc \in Steps
  /\ sawMedia \in BOOLEAN
  /\ begins \in Nat
  /\ base \in 0..begins
  /\ deploys \in Nat
  /\ declared \in BOOLEAN
  /\ liveISO \in BOOLEAN
  /\ budgetSpent \in 0..begins
  /\ aborts \in Nat

AllTypesOK == StoreTypeOK /\ MachineTypeOK /\ PassTypeOK

LEMMA MarkStartedType ==
  ASSUME AllTypesOK, MarkStarted
  PROVE  AllTypesOK'
<1>1. /\ begins' = begins + 1 /\ MarkInstallStarted(begins') /\ pc' = "BeginOn"
      /\ UNCHANGED <<machineVars, bmh, error, base, deploys, budgetSpent, aborts>>
  BY Zenon DEF MarkStarted, Goto
<1>2. UNCHANGED <<sawMedia, declared, liveISO>>
  BY Zenon DEF MarkStarted, Goto
<1>3. /\ bmh \in States /\ error \in Errors
      /\ begins \in Nat /\ base \in 0..begins /\ deploys \in Nat
      /\ budgetSpent \in 0..begins /\ aborts \in Nat
  BY Zenon DEF AllTypesOK, PassTypeOK
<1>4. /\ bmh' \in States /\ error' \in Errors
      /\ begins' \in Nat /\ base' \in 0..begins' /\ deploys' \in Nat
      /\ budgetSpent' \in 0..begins' /\ aborts' \in Nat
  BY <1>1, <1>3
<1>5. pc' \in Steps
  BY <1>1 DEF Steps, ProvisionSteps, BeginSteps
<1>6. sawMedia' \in BOOLEAN /\ declared' \in BOOLEAN /\ liveISO' \in BOOLEAN
  BY <1>2, Zenon DEF AllTypesOK, PassTypeOK
<1>7. StoreTypeOK' /\ MachineTypeOK'
  BY <1>1, <1>4, StoreOpsType, MachineOpsType, Zenon DEF AllTypesOK
<1> QED BY <1>4, <1>5, <1>6, <1>7, Zenon DEF AllTypesOK, PassTypeOK

LEMMA ProvisionType ==
  ASSUME AllTypesOK, Provision
  PROVE  AllTypesOK'
<1> USE StoreOpsType, MachineOpsType DEF AllTypesOK
<1> USE DEF PassTypeOK, States, Errors, Steps, ProvisionSteps, BeginSteps, AwaitSteps,
            FinishSteps, FinishTail, Goto, PassEnds, Return, Requeue, Complete, ReadsOnly,
            CallsBMC, CallsAPI,
            deployVars
<1>1. CASE CallProvision
  BY <1>1 DEF CallProvision
<1>2. CASE ReadMediaStatus
  <2>1. sawMedia' \in BOOLEAN
    BY <1>2, Zenon DEF ReadMediaStatus, Inserted
  <2>2. pc' = "InstallStartedAt" /\ UNCHANGED <<bmh, error>> /\ ReadsOnly
    BY <1>2 DEF ReadMediaStatus
  <2>3. PassTypeOK'
    <3>1. /\ bmh' \in States /\ error' \in Errors /\ pc' \in Steps
          /\ begins' \in Nat /\ base' \in 0..begins' /\ deploys' \in Nat
          /\ budgetSpent' \in 0..begins' /\ aborts' \in Nat
      BY <2>2
    <3>2. /\ sawMedia' \in BOOLEAN /\ declared' \in BOOLEAN /\ liveISO' \in BOOLEAN
      BY <2>1, <2>2, Zenon
    <3> QED BY <3>1, <3>2
  <2> QED BY <2>2, <2>3
<1>3. CASE ReadInstallStartedAt
  BY <1>3 DEF ReadInstallStartedAt, AwaitInstall
<1>4. CASE CheckPreconditions
  BY <1>4 DEF CheckPreconditions
<1>5. CASE BeginPower
  BY <1>5 DEF BeginPower
<1>6. CASE CutPower
  BY <1>6 DEF CutPower, ForceOff
<1>7. CASE Eject
  BY <1>7 DEF Eject, EjectThen, EjectRefused
<1>8. CASE Insert
  BY <1>8 DEF Insert
<1>9. CASE VerifyMedia
  BY <1>9 DEF VerifyMedia
<1>10. CASE SetInstallBoot
  BY <1>10 DEF SetInstallBoot, InstallOverride, Overrides
<1>11. CASE VerifyBoot
  BY <1>11 DEF VerifyBoot
<1>12. CASE ClearReport
  BY <1>12 DEF ClearReport
<1>13. CASE MarkStarted
  BY <1>13, MarkStartedType
<1>14. CASE BeginOn
  BY <1>14 DEF BeginOn
<1>15. CASE ReadReport
  BY <1>15 DEF ReadReport
<1>16. CASE AwaitClock
  BY <1>16 DEF AwaitClock
<1>17. CASE FinishPower
  BY <1>17 DEF FinishPower
<1>18. CASE ShutdownClock
  BY <1>18 DEF ShutdownClock
<1>19. CASE ForceDown
  BY <1>19 DEF ForceDown, ForceOff
<1>20. CASE SoftDown
  BY <1>20 DEF SoftDown
<1>21. CASE FinishEject
  BY <1>21 DEF FinishEject, EjectThen, EjectRefused
<1>22. CASE FinishBoot
  BY <1>22 DEF FinishBoot, Overrides
<1>23. CASE FinishOn
  BY <1>23 DEF FinishOn
<1>24. CASE FinishDone
  BY <1>24 DEF FinishDone
<1> QED
  BY <1>1, <1>2, <1>3, <1>4, <1>5, <1>6, <1>7, <1>8, <1>9, <1>10, <1>11, <1>12, <1>13,
     <1>14, <1>15, <1>16, <1>17, <1>18, <1>19, <1>20, <1>21, <1>22, <1>23,
     <1>24 DEF Provision

LEMMA DeprovisionType ==
  ASSUME AllTypesOK, Deprovision
  PROVE  AllTypesOK'
<1> USE StoreOpsType, MachineOpsType DEF AllTypesOK
<1> USE DEF PassTypeOK, States, Errors, Steps, DeprovisionSteps, Goto, PassEnds, Return,
            Requeue, Complete, ReadsOnly, CallsBMC, CallsAPI, deployVars
<1>1. CASE CallDeprovision
  BY <1>1 DEF CallDeprovision
<1>2. CASE ForgetInstall
  BY <1>2 DEF ForgetInstall
<1>3. CASE TeardownMedia
  BY <1>3 DEF TeardownMedia
<1>4. CASE TeardownEject
  BY <1>4 DEF TeardownEject, EjectThen, EjectRefused
<1>5. CASE TeardownDone
  BY <1>5 DEF TeardownDone
<1> QED
  BY <1>1, <1>2, <1>3, <1>4, <1>5 DEF Deprovision

LEMMA PowerType ==
  ASSUME AllTypesOK, PowerPass
  PROVE  AllTypesOK'
<1> USE StoreOpsType, MachineOpsType DEF AllTypesOK
<1> USE DEF PassTypeOK, States, Errors, Steps, PowerSteps, Goto, PassEnds, Return,
            Requeue, Complete, ReadsOnly, CallsBMC, CallsAPI, deployVars
<1>1. CASE CallPowerOn
  BY <1>1 DEF CallPowerOn
<1>2. CASE OnRead
  BY <1>2 DEF OnRead
<1>3. CASE OnReset
  BY <1>3 DEF OnReset
<1>4. CASE CallPowerOff
  BY <1>4 DEF CallPowerOff
<1>5. CASE OffRead
  BY <1>5 DEF OffRead
<1>6. CASE OffReset
  BY <1>6 DEF OffReset, ForceOff
<1> QED
  BY <1>1, <1>2, <1>3, <1>4, <1>5, <1>6 DEF PowerPass

LEMMA AbortType ==
  ASSUME AllTypesOK, Abort
  PROVE  AllTypesOK'
<1>1. UNCHANGED <<storeVars, machineVars, bmh, error, begins, base, deploys, declared,
liveISO,
                  budgetSpent>>
  BY DEF Abort
<1>2. pc' = "idle" /\ sawMedia' = FALSE /\ aborts' = aborts + 1
  BY DEF Abort, PassEnds
<1>3. PassTypeOK'
  <2>1. /\ bmh' \in States /\ error' \in Errors /\ pc' \in Steps
        /\ begins' \in Nat /\ base' \in 0..begins' /\ deploys' \in Nat
        /\ budgetSpent' \in 0..begins' /\ aborts' \in Nat
    BY <1>1, <1>2 DEF AllTypesOK, PassTypeOK, Steps
  <2>2. /\ sawMedia' \in BOOLEAN /\ declared' \in BOOLEAN /\ liveISO' \in BOOLEAN
    BY <1>1, <1>2, Zenon DEF AllTypesOK, PassTypeOK
  <2> QED BY <2>1, <2>2 DEF PassTypeOK
<1> QED BY <1>1, <1>3, StoreOpsType, MachineOpsType DEF AllTypesOK

LEMMA EnvironmentType ==
  ASSUME AllTypesOK, Environment
  PROVE  AllTypesOK'
<1> USE StoreOpsType, MachineOpsType DEF AllTypesOK
<1> USE DEF PassTypeOK, States, deployVars, passVars
<1>1. CASE StartDeploy
  BY <1>1 DEF StartDeploy, MachineTypeOK, Media
<1>2. CASE CancelDeploy
  BY <1>2 DEF CancelDeploy
<1>3. CASE EditHost
  <2>1. declared' \in BOOLEAN
    BY <1>3, Zenon DEF EditHost
  <2>2. UNCHANGED <<storeVars, machineVars, passVars, begins, base, deploys, liveISO,
                    budgetSpent, aborts>>
    BY <1>3 DEF EditHost
  <2> QED BY <2>1, <2>2
<1>4. CASE BudgetRunsOut
  BY <1>4 DEF BudgetRunsOut
<1>5. CASE HandleCallback
  <2>1. PICK p \in posts : /\ WriteInstallReport(p.ok, p.run)
                          /\ posts' \in {posts, posts \ {p}}
                          /\ UNCHANGED <<power, drive, boot, os, run, disk, deployVars,
                          passVars>>
    BY <1>5 DEF HandleCallback
  <2>2. p.ok \in BOOLEAN /\ p.run \in Nat
    BY DEF MachineTypeOK, Reports
  <2>3. MachineTypeOK'
    BY <2>1 DEF MachineTypeOK
  <2> QED BY <2>1, <2>2, <2>3
<1>6. CASE HandleKickstart
  BY <1>6 DEF HandleKickstart, RefuseInstall
<1>7. CASE MachineStep
  BY <1>7 DEF MachineStep
<1>8. CASE MachineBoots
  BY <1>8 DEF MachineBoots
<1>9. CASE MachineStops
  BY <1>9 DEF MachineStops, PowerDownCompletes
<1>10. CASE WatchDelivers
  BY <1>10 DEF WatchDelivers
<1> QED
  BY <1>1, <1>2, <1>3, <1>4, <1>5, <1>6, <1>7, <1>8, <1>9, <1>10 DEF Environment

LEMMA TypesInit ==
  ASSUME Init
  PROVE  AllTypesOK
<1>0. /\ StoreInit /\ MachineInit
      /\ begins = 0 /\ base = 0 /\ deploys = 0 /\ budgetSpent = 0 /\ aborts = 0
  BY Zenon DEF Init
<1>1. StoreTypeOK
  BY <1>0 DEF StoreInit, StoreTypeOK, NoAnnotations, Annotations, Results
<1>2. MachineTypeOK
  <2>1. power \in PowerStates /\ os \in Software
    BY <1>0 DEF MachineInit, PowerStates, Software
  <2>2. drive \in Media /\ boot \in Overrides
    BY <1>0 DEF MachineInit, Media, Overrides
  <2>3. run \in Nat /\ disk \in Nat
    BY <1>0 DEF MachineInit
  <2>4. posts \in SUBSET Reports
    BY <1>0, Zenon DEF MachineInit
  <2> QED BY <2>1, <2>2, <2>3, <2>4 DEF MachineTypeOK
<1>3. PassTypeOK
  <2>1. bmh \in States /\ error \in Errors /\ pc \in Steps
    BY DEF Init, States, Errors, Steps
  <2>2. /\ begins \in Nat /\ base \in 0..begins /\ deploys \in Nat
        /\ budgetSpent \in 0..begins /\ aborts \in Nat
    BY <1>0
  <2>3. sawMedia \in BOOLEAN /\ declared \in BOOLEAN /\ liveISO \in BOOLEAN
    BY Zenon DEF Init
  <2> QED BY <2>1, <2>2, <2>3 DEF PassTypeOK
<1> QED BY <1>1, <1>2, <1>3 DEF AllTypesOK

LEMMA TypesNext ==
  ASSUME AllTypesOK, [Next]_vars
  PROVE  AllTypesOK'
<1>1. CASE Next
  BY <1>1, ProvisionType, DeprovisionType, PowerType, AbortType, EnvironmentType DEF Next
<1>2. CASE UNCHANGED vars
  BY <1>2, StoreOpsType, MachineOpsType
     DEF vars, deployVars, passVars, AllTypesOK, PassTypeOK
<1> QED BY <1>1, <1>2

(* Every variable keeps its type, whatever the faults and the bounds are. *)
THEOREM TypeCorrect == Safety => []TypeOK
<1>1. AllTypesOK => TypeOK
  BY DEF AllTypesOK, PassTypeOK, TypeOK
<1> QED
  BY <1>1, TypesInit, TypesNext, PTL DEF Safety
=============================================================================
