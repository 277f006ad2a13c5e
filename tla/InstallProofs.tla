---------------------------- MODULE InstallProofs ----------------------------
(***************************************************************************)
(* A deploy is safe, for every number of deploys, installs and aborted     *)
(* passes, with a listener or without, and whatever else the BMC does:     *)
(* inserts and overrides that do not take, shutdowns that hang, passes cut *)
(* short at any call.  What is proved first needs only reads that are not  *)
(* stale and one fault ruled out: one install per deploy, one that has     *)
(* finished kept and one that is running left alone, verdicts of the run   *)
(* they stand beside.  What needs a deploy in order comes last.            *)
(*                                                                         *)
(* None of the properties is inductive.  A provisioned host is installed   *)
(* because the verdict FinishInstall acted on was true; it was true        *)
(* because it came from the run the stamp numbers; it did because the      *)
(* stamp was written on a machine that was off, after the last verdict was *)
(* cleared; and the installer of that run boots at most once, because its  *)
(* override is spent.  InstallIsSafe says all of it at once.               *)
(***************************************************************************)
EXTENDS MediaProofs

(* What InOrder rules out. *)
LEMMA NothingDisturbs ==
  ASSUME InOrder
  PROVE  /\ MaxLag = 0
         /\ "late_callback" \notin Faults /\ "clear_fails" \notin Faults
         /\ "once_ignored" \notin Faults
  BY DEF InOrder

-----------------------------------------------------------------------------
(* With reads that are never stale a write is what the next read returns,   *)
(* and it changes what it names and nothing else.                           *)

LEMMA MutateInOrder ==
  ASSUME AllTypesOK, MaxLag = 0, Coherent,
         NEW new \in Annotations, MutateHostAnnotations(new)
  PROVE  Coherent' /\ api' = MergePatch(api, new, api)
<1> DEFINE patched == MergePatch(cache, new, api)
<1>1. cache = api
  BY DEF Coherent
<1>2. CASE patched = api /\ UNCHANGED storeVars
  BY <1>1, <1>2 DEF storeVars, Coherent
<1>3. CASE Publish(patched)
  <2> HIDE DEF patched
  <2>1. Coherent' /\ api' = patched
    BY <1>3 DEF Publish, Coherent
  <2> QED BY <2>1, <1>1 DEF patched
<1> QED BY <1>2, <1>3 DEF MutateHostAnnotations

LEMMA ClearInOrder ==
  ASSUME AllTypesOK, MaxLag = 0, Coherent, ClearInstallReport
  PROVE  Coherent' /\ api'.result = "none" /\ api'.started = 0
<1>1. WithoutReport(cache) \in Annotations
  BY DEF WithoutReport, NoAnnotations, Annotations, Results
<1>2. Coherent' /\ api' = MergePatch(api, WithoutReport(cache), api)
  BY <1>1, MutateInOrder DEF ClearInstallReport
<1> QED BY <1>2 DEF MergePatch, WithoutReport, NoAnnotations

LEMMA MarkInOrder ==
  ASSUME AllTypesOK, MaxLag = 0, Coherent,
         NEW stamp \in Nat, MarkInstallStarted(stamp)
  PROVE  /\ Coherent'
         /\ api'.started = stamp
         /\ api'.result = api.result /\ api'.from = api.from
<1>1. api \in Annotations /\ cache = api
  BY DEF AllTypesOK, StoreTypeOK, Coherent
<1>2. WithStamp(cache, stamp) \in Annotations
  BY <1>1 DEF WithStamp, Annotations
<1>3. Coherent' /\ api' = MergePatch(api, WithStamp(cache, stamp), api)
  BY <1>2, MutateInOrder DEF MarkInstallStarted
<1> QED BY <1>1, <1>3 DEF MergePatch, WithStamp, Annotations

LEMMA WriteInOrder ==
  ASSUME AllTypesOK, MaxLag = 0, Coherent,
         NEW ok \in BOOLEAN, NEW r \in Nat, WriteInstallReport(ok, r)
  PROVE  /\ Coherent'
         /\ api'.started = api.started
         /\ api'.result = IF ok THEN "succeeded" ELSE "failed"
         /\ api'.from = r \/ (api.result # "none" /\ api'.from = api.from)
<1> DEFINE verdict == IF ok THEN "succeeded" ELSE "failed"
<1>1. api \in Annotations /\ cache = api /\ verdict \in Results
  BY DEF AllTypesOK, StoreTypeOK, Coherent, Results
<1>2. WithReport(cache, ok, r) = [cache EXCEPT !.result = verdict, !.from = r]
  BY Zenon DEF WithReport
<1> HIDE DEF verdict
<1>3. /\ WithReport(cache, ok, r) \in Annotations
      /\ WithReport(cache, ok, r).result = verdict
      /\ WithReport(cache, ok, r).from = r
      /\ WithReport(cache, ok, r).started = api.started
  BY <1>1, <1>2 DEF Annotations
<1>4. Coherent' /\ api' = MergePatch(api, WithReport(cache, ok, r), api)
  BY <1>3, MutateInOrder DEF WriteInstallReport
<1>5. /\ api'.started = api.started /\ api'.result = verdict
      /\ api'.from = r \/ (api.result = verdict /\ api'.from = api.from)
  BY <1>1, <1>3, <1>4 DEF MergePatch
<1>6. verdict # "none"
  BY DEF verdict
<1> QED BY <1>4, <1>5, <1>6 DEF verdict

(* What the steps of a deploy do to the store.  Only a callback's verdict   *)
(* comes from outside.                                                      *)
LEMMA StoreSteps ==
  ASSUME AllTypesOK, MaxLag = 0, Coherent, [Next]_vars
  PROVE  /\ Coherent'
         /\ ClearReport => api'.result = "none" /\ api'.started = 0
         /\ ForgetInstall =>
              \/ api'.result = "none" /\ api'.started = 0
              \/ "clear_fails" \in Faults /\ UNCHANGED api
         /\ MarkStarted =>
              /\ api'.started = begins'
              /\ api'.result = api.result /\ api'.from = api.from
         /\ HandleCallback =>
              /\ api'.started = api.started
              /\ \/ \E p \in posts : api'.from = p.run
                 \/ api.result # "none" /\ api'.from = api.from
         /\ ClearReport \/ ForgetInstall \/ MarkStarted \/ HandleCallback \/ UNCHANGED api
<1> USE Numbers DEF ReadsOnly, CallsBMC, storeVars
<1>1. ASSUME ClearReport PROVE Coherent' /\ api'.result = "none" /\ api'.started = 0
  BY <1>1, ClearInOrder DEF ClearReport
<1>2. ASSUME ForgetInstall
      PROVE  /\ Coherent'
             /\ \/ api'.result = "none" /\ api'.started = 0
                \/ "clear_fails" \in Faults /\ UNCHANGED api
  BY <1>2, ClearInOrder DEF ForgetInstall, Coherent
<1>3. ASSUME MarkStarted
      PROVE  /\ Coherent' /\ api'.started = begins'
             /\ api'.result = api.result /\ api'.from = api.from
  <2>1. begins' = begins + 1 /\ MarkInstallStarted(begins')
    BY <1>3, Zenon DEF MarkStarted
  <2> QED BY <2>1, MarkInOrder
<1>4. ASSUME HandleCallback
      PROVE  /\ Coherent' /\ api'.started = api.started
             /\ \/ \E p \in posts : api'.from = p.run
                \/ api.result # "none" /\ api'.from = api.from
  <2>1. PICK p \in posts : WriteInstallReport(p.ok, p.run)
    BY <1>4 DEF HandleCallback
  <2>2. p.ok \in BOOLEAN /\ p.run \in Nat
    BY DEF AllTypesOK, MachineTypeOK, Reports
  <2> QED BY <2>1, <2>2, WriteInOrder
<1> DEFINE Kept == Coherent' /\ UNCHANGED api
<1>5. ASSUME Provision PROVE ClearReport \/ MarkStarted \/ Kept
  BY <1>5 DEF Provision, Coherent, CallProvision, ReadMediaStatus, ReadInstallStartedAt,
       CheckPreconditions, BeginPower, CutPower, Eject, EjectThen, EjectRefused, Insert,
       VerifyMedia, SetInstallBoot, VerifyBoot, BeginOn, ReadReport, AwaitClock,
       FinishPower, ShutdownClock, ForceDown, SoftDown, FinishEject, FinishBoot, FinishOn,
       FinishDone
<1>6. ASSUME Deprovision PROVE ForgetInstall \/ Kept
  BY <1>6 DEF Deprovision, Coherent, CallDeprovision, TeardownMedia, TeardownEject,
     EjectThen, EjectRefused, TeardownDone
<1>7. ASSUME PowerPass PROVE Kept
  BY <1>7 DEF PowerPass, Coherent, CallPowerOn, OnRead, OnReset, CallPowerOff, OffRead,
     OffReset
<1>8. ASSUME Abort PROVE Kept
  BY <1>8 DEF Abort, Coherent
<1>9. ASSUME Environment PROVE HandleCallback \/ Kept
  BY <1>9 DEF Environment, Coherent, StartDeploy, CancelDeploy, EditHost, BudgetRunsOut,
       HandleKickstart, MachineStep, MachineBoots, MachineStops, WatchDelivers,
       CacheCatchesUp
<1>10. ASSUME UNCHANGED vars PROVE Kept
  BY <1>10, Zenon DEF vars, Coherent
<1>11. ClearReport \/ ForgetInstall \/ MarkStarted \/ HandleCallback \/ Kept
  BY <1>5, <1>6, <1>7, <1>8, <1>9, <1>10 DEF Next
<1> QED BY <1>1, <1>2, <1>3, <1>4, <1>11

-----------------------------------------------------------------------------
(* What holds as soon as reads are not stale, one trouble at a time. *)

LEMMA BegunNext ==
  ASSUME AllTypesOK, MaxLag = 0, Uncut, MediaInvariant, Coherent,
         BegunOnce, [Next]_vars
  PROVE  BegunOnce'
<1> USE Numbers
<1> USE DEF MediaInvariant, PassFitsState, StaysDown, PassKnowsDrive, FreshBoots,
            BegunOnce, Coherent, Uncut,
            ProvisionSteps, BeginSteps, AwaitSteps, FinishSteps, FinishTail,
            DeprovisionSteps, PowerSteps, DownSteps
<1> USE DEF machineVars, passVars, deployVars, Goto, PassEnds, Return, Requeue, Complete,
            ReadsOnly, CallsBMC, CallsAPI, Stopped
<1>1. /\ MarkStarted => api'.started = begins'
      /\ ClearReport \/ ForgetInstall \/ MarkStarted \/ api'.started = api.started
  BY StoreSteps
<1>2. CASE CallProvision \/ ReadMediaStatus \/ CheckPreconditions \/ BeginPower \/ CutPower
           \/ Eject \/ Insert \/ VerifyMedia \/ SetInstallBoot \/ VerifyBoot \/ ClearReport
  BY <1>1, <1>2
     DEF CallProvision, ReadMediaStatus, CheckPreconditions, BeginPower, CutPower, ForceOff,
         Eject, EjectThen, EjectRefused, EjectMedia, Insert, InsertMedia, VerifyMedia,
         SetInstallBoot, SetBoot, VerifyBoot, ClearReport, MarkStarted, ForgetInstall
<1>3. CASE ReadInstallStartedAt
  BY <1>1, <1>3
     DEF ReadInstallStartedAt, InstallUnderWay, InstallStartedAt, AwaitInstall, ClearReport,
         MarkStarted, ForgetInstall
<1>4. CASE MarkStarted
  <2>1. /\ pc = "MarkStarted" /\ begins' = begins + 1 /\ pc' = "BeginOn"
        /\ UNCHANGED <<drive, disk, bmh, base>>
    BY <1>4, Zenon DEF MarkStarted
  <2>2. api'.started = begins'
    BY <1>1, <1>4
  <2> QED BY <2>1, <2>2
<1>5. CASE BeginOn \/ ReadReport \/ AwaitClock \/ FinishPower \/ ShutdownClock \/ ForceDown
           \/ SoftDown \/ FinishEject \/ FinishBoot \/ FinishOn \/ FinishDone
  BY <1>1, <1>5
     DEF BeginOn, ResetOn, ReadReport, AwaitClock, FinishPower, ShutdownClock, ForceDown,
         ForceOff, SoftDown, GracefulShutdown, FinishEject, EjectThen, EjectRefused,
         EjectMedia, FinishBoot, SetBoot, FinishOn, FinishDone, ClearReport, MarkStarted,
         ForgetInstall
<1>6. CASE Deprovision
  BY <1>6 DEF Deprovision, CallDeprovision, ForgetInstall, TeardownMedia, TeardownEject,
         EjectThen, EjectRefused, EjectMedia, TeardownDone
<1>7. CASE PowerPass
  BY <1>7 DEF PowerPass, CallPowerOn, OnRead, OnReset, ResetOn, CallPowerOff, OffRead,
         OffReset, GracefulShutdown, ForceOff
<1>8. CASE Abort
  BY <1>8 DEF Abort, storeVars
<1>9. CASE StartDeploy \/ CancelDeploy
  BY <1>9 DEF StartDeploy, CancelDeploy
<1>10. CASE EditHost \/ BudgetRunsOut \/ HandleCallback \/ HandleKickstart \/ MachineStep
            \/ MachineBoots \/ MachineStops \/ WatchDelivers
  <2>1. UNCHANGED <<bmh, pc, begins, base, drive>>
    BY <1>10 DEF EditHost, BudgetRunsOut, HandleCallback, HandleKickstart, StartInstalling,
         RefuseInstall, MachineStep, Reboot, StartUp, EndInstall, MachineBoots, Boot,
         MachineStops, PowerDownCompletes, WatchDelivers
  <2>2. api'.started = api.started
    <3>1. ~(pc' # pc)
      BY <2>1
    <3> QED BY <1>1, <3>1 DEF ClearReport, ForgetInstall, MarkStarted
  <2>3. disk' <= begins
    BY <1>10 DEF EditHost, BudgetRunsOut, HandleCallback, HandleKickstart, StartInstalling,
         RefuseInstall, MachineStep, Reboot, StartUp, EndInstall, MachineBoots, Boot,
         MachineStops, PowerDownCompletes, WatchDelivers
  <2> QED BY <2>1, <2>2, <2>3
<1>11. CASE UNCHANGED vars
  <2>1. UNCHANGED <<api, drive, disk, bmh, pc, begins, base>>
    BY <1>11, Zenon DEF vars, storeVars
  <2> QED BY <2>1
<1> QED
  BY <1>2, <1>3, <1>4, <1>5, <1>6, <1>7, <1>8, <1>9, <1>10, <1>11
     DEF Next, Provision, Environment

LEMMA StampsNext ==
  ASSUME AllTypesOK, MaxLag = 0, Uncut, "clear_fails" \notin Faults,
         MediaInvariant, Coherent, BegunOnce,
         StampsOfThisDeploy, [Next]_vars
  PROVE  StampsOfThisDeploy'
<1> USE Numbers
<1> USE DEF MediaInvariant, PassFitsState, StaysDown, PassKnowsDrive, BegunOnce,
            StampsOfThisDeploy, Coherent, Uncut,
            ProvisionSteps, BeginSteps, AwaitSteps, FinishSteps, FinishTail,
            DeprovisionSteps, PowerSteps, DownSteps
<1> USE DEF machineVars, passVars, deployVars, Goto, PassEnds, Return, Requeue, Complete,
            ReadsOnly, CallsBMC, CallsAPI, Stopped
<1>1. /\ ClearReport \/ ForgetInstall => api'.started = 0
      /\ MarkStarted => api'.started = begins'
      /\ ClearReport \/ ForgetInstall \/ MarkStarted \/ api'.started = api.started
  BY StoreSteps
<1>2. CASE CallProvision \/ ReadMediaStatus \/ CheckPreconditions \/ BeginPower \/ CutPower
           \/ Eject \/ Insert \/ VerifyMedia \/ SetInstallBoot \/ VerifyBoot \/ ClearReport
  BY <1>1, <1>2
     DEF CallProvision, ReadMediaStatus, CheckPreconditions, BeginPower, CutPower, Eject,
         EjectThen, EjectRefused, Insert, VerifyMedia, SetInstallBoot, VerifyBoot,
         ClearReport, MarkStarted, ForgetInstall
<1>3. CASE ReadInstallStartedAt
  BY <1>1, <1>3
     DEF ReadInstallStartedAt, InstallUnderWay, InstallStartedAt, AwaitInstall, ClearReport,
         MarkStarted, ForgetInstall
<1>4. CASE MarkStarted
  <2>1. /\ pc = "MarkStarted" /\ begins' = begins + 1 /\ pc' = "BeginOn"
        /\ UNCHANGED <<bmh, base>>
    BY <1>4, Zenon DEF MarkStarted
  <2> QED BY <2>1
<1>5. CASE BeginOn \/ ReadReport \/ AwaitClock \/ FinishPower \/ ShutdownClock \/ ForceDown
           \/ SoftDown \/ FinishEject \/ FinishBoot \/ FinishOn \/ FinishDone
  BY <1>1, <1>5
     DEF BeginOn, ReadReport, AwaitClock, FinishPower, ShutdownClock, ForceDown, SoftDown,
         FinishEject, EjectThen, EjectRefused, FinishBoot, FinishOn, FinishDone,
         ClearReport, MarkStarted, ForgetInstall
<1>6. CASE Deprovision
  BY <1>1, <1>6
     DEF Deprovision, CallDeprovision, ForgetInstall, TeardownMedia, TeardownEject,
         EjectThen, EjectRefused, TeardownDone, ClearReport, MarkStarted
<1>7. CASE PowerPass
  BY <1>7 DEF PowerPass, CallPowerOn, OnRead, OnReset, CallPowerOff, OffRead, OffReset,
         storeVars
<1>8. CASE Abort
  BY <1>8 DEF Abort, storeVars
<1>9. CASE StartDeploy \/ CancelDeploy
  BY <1>9 DEF StartDeploy, CancelDeploy, storeVars
<1>10. CASE EditHost \/ BudgetRunsOut \/ HandleCallback \/ HandleKickstart \/ MachineStep
            \/ MachineBoots \/ MachineStops \/ WatchDelivers
  <2>1. UNCHANGED <<bmh, pc, begins, base>>
    BY <1>10 DEF EditHost, BudgetRunsOut, HandleCallback, HandleKickstart, MachineStep,
         MachineBoots, MachineStops, WatchDelivers
  <2>2. api'.started = api.started
    BY <1>1, <2>1 DEF ClearReport, ForgetInstall, MarkStarted
  <2> QED BY <2>1, <2>2
<1>11. CASE UNCHANGED vars
  <2>1. UNCHANGED <<api, bmh, pc, begins, base>>
    BY <1>11, Zenon DEF vars, storeVars
  <2> QED BY <2>1
<1> QED
  BY <1>2, <1>3, <1>4, <1>5, <1>6, <1>7, <1>8, <1>9, <1>10, <1>11
     DEF Next, Provision, Environment

LEMMA StampedNext ==
  ASSUME AllTypesOK, MaxLag = 0, "clear_fails" \notin Faults, MediaInvariant, Coherent,
         StampedIsLeft, [Next]_vars
  PROVE  StampedIsLeft'
<1> USE Numbers
<1> USE DEF MediaInvariant, PassFitsState, RunsOnPower, StaysDown, PassKnowsDrive,
            OutOfReach, StampedIsLeft, Coherent, Installers,
            ProvisionSteps, BeginSteps, AwaitSteps, FinishSteps, FinishTail,
            DeprovisionSteps, PowerSteps, DownSteps
<1> USE DEF machineVars, passVars, deployVars, Goto, PassEnds, Return, Requeue, Complete,
            ReadsOnly, CallsBMC, CallsAPI, Stopped
<1>1. /\ ClearReport \/ ForgetInstall => api'.started = 0
      /\ ClearReport \/ ForgetInstall \/ MarkStarted \/ api'.started = api.started
  BY StoreSteps
<1>2. CASE CallProvision \/ ReadMediaStatus \/ CheckPreconditions \/ BeginPower \/ CutPower
           \/ Eject \/ Insert \/ VerifyMedia \/ SetInstallBoot \/ VerifyBoot \/ ClearReport
  BY <1>1, <1>2
     DEF CallProvision, ReadMediaStatus, CheckPreconditions, BeginPower, CutPower, ForceOff,
         Eject, EjectThen, EjectRefused, EjectMedia, Insert, InsertMedia, VerifyMedia,
         SetInstallBoot, SetBoot, VerifyBoot, ClearReport, MarkStarted, ForgetInstall
<1>3. CASE ReadInstallStartedAt
  BY <1>1, <1>3
     DEF ReadInstallStartedAt, InstallUnderWay, InstallStartedAt, AwaitInstall, ClearReport,
         MarkStarted, ForgetInstall
<1>4. CASE MarkStarted
  <2>1. /\ pc = "MarkStarted" /\ pc' = "BeginOn" /\ UNCHANGED <<bmh, drive, os>>
    BY <1>4, Zenon DEF MarkStarted
  <2> QED BY <2>1
<1>5. CASE BeginOn \/ ReadReport \/ AwaitClock \/ FinishPower \/ ShutdownClock \/ ForceDown
           \/ SoftDown \/ FinishEject \/ FinishBoot \/ FinishOn \/ FinishDone
  BY <1>1, <1>5
     DEF BeginOn, ResetOn, ReadReport, AwaitClock, FinishPower, ShutdownClock, ForceDown,
         ForceOff, SoftDown, GracefulShutdown, FinishEject, EjectThen, EjectRefused,
         EjectMedia, FinishBoot, SetBoot, FinishOn, FinishDone, ClearReport, MarkStarted,
         ForgetInstall
<1>6. CASE Deprovision
  BY <1>1, <1>6
     DEF Deprovision, CallDeprovision, ForgetInstall, TeardownMedia, TeardownEject,
         EjectThen, EjectRefused, EjectMedia, TeardownDone, ClearReport, MarkStarted
<1>7. CASE PowerPass
  BY <1>7 DEF PowerPass, CallPowerOn, OnRead, OnReset, ResetOn, CallPowerOff, OffRead,
         OffReset, GracefulShutdown, ForceOff, storeVars
<1>8. CASE Abort
  BY <1>8 DEF Abort, storeVars
<1>9. CASE StartDeploy \/ CancelDeploy
  BY <1>9 DEF StartDeploy, CancelDeploy, storeVars
<1>10. CASE EditHost \/ BudgetRunsOut \/ HandleCallback \/ HandleKickstart \/ MachineStep
            \/ MachineBoots \/ MachineStops \/ WatchDelivers
  <2>1. UNCHANGED <<bmh, pc, drive>>
    BY <1>10 DEF EditHost, BudgetRunsOut, HandleCallback, HandleKickstart, StartInstalling,
         RefuseInstall, MachineStep, Reboot, StartUp, EndInstall, MachineBoots, Boot,
         MachineStops, PowerDownCompletes, WatchDelivers
  <2>2. api'.started = api.started
    BY <1>1, <2>1 DEF ClearReport, ForgetInstall, MarkStarted
  <2>3. os' \in Installers => os \in Installers \/ drive # "empty"
    BY <1>10 DEF EditHost, BudgetRunsOut, HandleCallback, HandleKickstart, StartInstalling,
         RefuseInstall, MachineStep, Reboot, StartUp, EndInstall, MachineBoots, Boot,
         MachineStops, PowerDownCompletes, WatchDelivers, Inserted
  <2> QED BY <2>1, <2>2, <2>3
<1>11. CASE UNCHANGED vars
  <2>1. UNCHANGED <<api, bmh, pc, drive, os>>
    BY <1>11, Zenon DEF vars, storeVars
  <2> QED BY <2>1
<1> QED
  BY <1>2, <1>3, <1>4, <1>5, <1>6, <1>7, <1>8, <1>9, <1>10, <1>11
     DEF Next, Provision, Environment

LEMMA LatestNext ==
  ASSUME AllTypesOK, MaxLag = 0, "late_callback" \notin Faults,
         MediaInvariant, Coherent,
         LatestReports, [Next]_vars
  PROVE  LatestReports'
<1> USE Numbers
<1> USE DEF MediaInvariant, PassFitsState, StaysDown, RunsOnPower,
            LatestReports, Coherent, Installers,
            ProvisionSteps, BeginSteps, AwaitSteps, FinishSteps, FinishTail,
            DeprovisionSteps, PowerSteps, DownSteps
<1> USE DEF machineVars, passVars, deployVars, Goto, PassEnds, Return, Requeue, Complete,
            ReadsOnly, CallsBMC, CallsAPI, Stopped
<1>1. CASE ClearReport
  <2>1. api'.result = "none" /\ api'.started = 0
    BY <1>1, StoreSteps
  <2> QED BY <1>1, <2>1 DEF ClearReport
<1>2. CASE MarkStarted
  <2>1. /\ pc = "MarkStarted" /\ begins' = begins + 1 /\ pc' = "BeginOn"
        /\ UNCHANGED <<power, os, run, posts>>
    BY <1>2, Zenon DEF MarkStarted
  <2>2. api'.started = begins' /\ api'.result = api.result
    BY <1>2, StoreSteps
  <2> QED BY <2>1, <2>2
<1>3. CASE ForgetInstall
  BY <1>3, StoreSteps DEF ForgetInstall
<1>4. CASE HandleCallback
  <2>1. /\ posts # {} /\ posts' \subseteq posts
        /\ UNCHANGED <<pc, power, os, run, begins>>
    BY <1>4 DEF HandleCallback
  <2>2. api'.from = begins
    BY <1>4, StoreSteps
  <2> QED BY <2>1, <2>2
<1>5. CASE ~ClearReport /\ ~MarkStarted /\ Provision
  <2>1. UNCHANGED api
    BY <1>5 DEF Provision, CallProvision, ReadMediaStatus, ReadInstallStartedAt,
       CheckPreconditions, BeginPower, CutPower, Eject, EjectThen, EjectRefused, Insert,
       VerifyMedia, SetInstallBoot, VerifyBoot, BeginOn, ReadReport, AwaitClock,
       FinishPower, ShutdownClock, ForceDown, SoftDown, FinishEject, FinishBoot, FinishOn,
       FinishDone, storeVars
  <2>2. /\ pc' \notin {"MarkStarted", "BeginOn"} /\ UNCHANGED begins
        /\ \/ UNCHANGED <<os, run, posts, power>>
           \/ os' = "none" /\ posts' = {}
           \/ UNCHANGED <<os, run, posts>> /\ power = "Off" /\ power' = "PoweringOn"
           \/ UNCHANGED <<os, run, posts>> /\ power = "On" /\ power' = "PoweringOff"
    BY <1>5
     DEF Provision, CallProvision, ReadMediaStatus, ReadInstallStartedAt, AwaitInstall,
         CheckPreconditions, BeginPower, CutPower, ForceOff, Eject, EjectThen,
         EjectRefused, EjectMedia, Insert, InsertMedia, VerifyMedia, SetInstallBoot,
         SetBoot, VerifyBoot, BeginOn, ResetOn, ReadReport, AwaitClock, FinishPower,
         ShutdownClock, ForceDown, SoftDown, GracefulShutdown, FinishEject, FinishBoot,
         FinishOn, FinishDone
  <2> QED BY <2>1, <2>2
<1>6. CASE ~ForgetInstall /\ Deprovision
  BY <1>6 DEF Deprovision, CallDeprovision, TeardownMedia, TeardownEject, EjectThen,
         EjectRefused, EjectMedia, TeardownDone, storeVars
<1>7. CASE PowerPass
  BY <1>7 DEF PowerPass, CallPowerOn, OnRead, OnReset, ResetOn, CallPowerOff, OffRead,
         OffReset, GracefulShutdown, ForceOff, storeVars
<1>8. CASE Abort
  BY <1>8 DEF Abort, storeVars
<1>9. CASE StartDeploy \/ CancelDeploy \/ EditHost \/ BudgetRunsOut
  BY <1>9 DEF StartDeploy, CancelDeploy, EditHost, BudgetRunsOut, storeVars
<1>10. CASE HandleKickstart \/ MachineStep \/ MachineBoots \/ MachineStops
  BY <1>10 DEF HandleKickstart, StartInstalling, RefuseInstall, MachineStep, Reboot,
         StartUp, EndInstall, MachineBoots, Boot, MachineStops, PowerDownCompletes,
         storeVars
<1>11. CASE WatchDelivers
  BY <1>11 DEF WatchDelivers, CacheCatchesUp
<1>12. CASE UNCHANGED vars
  <2>1. UNCHANGED <<api, power, os, run, posts, pc, begins>>
    BY <1>12, Zenon DEF vars, storeVars
  <2> QED BY <2>1
<1> QED
  BY <1>1, <1>2, <1>3, <1>4, <1>5, <1>6, <1>7, <1>8, <1>9, <1>10, <1>11, <1>12
     DEF Next, Environment

LEMMA EarlyInit ==
  ASSUME Init
  PROVE  Coherent /\ BegunOnce /\ StampsOfThisDeploy /\ StampedIsLeft /\ LatestReports
<1>1. /\ bmh = "available" /\ pc = "idle" /\ begins = 0 /\ base = 0
      /\ StoreInit /\ MachineInit
  BY Zenon DEF Init
<1>2. api = NoAnnotations /\ Coherent
  BY <1>1 DEF StoreInit, Coherent
<1>3. os \in {"none", "disk"} /\ run = 0 /\ disk = 0 /\ posts = {}
  BY <1>1 DEF MachineInit
<1> QED
  BY <1>1, <1>2, <1>3 DEF BegunOnce, StampsOfThisDeploy, StampedIsLeft, LatestReports,
       NoAnnotations, BeginSteps, Installers

LEMMA CoherentAlways ==
  ASSUME MaxLag = 0
  PROVE  Safety => [](AllTypesOK /\ MediaInvariant /\ Coherent)
<1>1. AllTypesOK /\ Coherent /\ [Next]_vars => Coherent'
  BY StoreSteps
<1>2. Init => Coherent
  BY EarlyInit
<1> QED BY <1>1, <1>2, MediaAlways, PTL DEF Safety

(* Where reads are not stale and no FinishInstall is cut short after its    *)
(* eject, a deploy begins at most one install.                              *)
THEOREM OneInstallPerDeploy ==
  ASSUME MaxLag = 0, Uncut
  PROVE  Safety => []BegunOnce
<1>1. Init => BegunOnce
  BY EarlyInit
<1> QED BY <1>1, BegunNext, CoherentAlways, PTL DEF Safety

(* Under the same conditions an install is begun only while the disk holds  *)
(* no finished install of the same deploy, whatever is reported when and    *)
(* whatever earlier deploys have left on the host.                          *)
THEOREM FinishedInstallIsKept ==
  ASSUME MaxLag = 0, Uncut
  PROVE  Safety => InstallNotRestarted
<1>1. ASSUME BegunOnce, Next, begins' # begins PROVE disk <= base
  <2>1. pc = "MarkStarted"
    BY <1>1 DEF Next, Provision, CallProvision, ReadMediaStatus, ReadInstallStartedAt,
         CheckPreconditions, BeginPower, CutPower, Eject, EjectThen, EjectRefused, Insert,
         VerifyMedia, SetInstallBoot, VerifyBoot, ClearReport, MarkStarted, BeginOn,
         ReadReport, AwaitClock, FinishPower, ShutdownClock, ForceDown, SoftDown,
         FinishEject, FinishBoot, FinishOn, FinishDone,
         Deprovision, CallDeprovision, ForgetInstall, TeardownMedia, TeardownEject,
         TeardownDone, PowerPass, CallPowerOn, OnRead, OnReset, CallPowerOff, OffRead,
         OffReset, Abort, Environment, StartDeploy, CancelDeploy, EditHost, BudgetRunsOut,
         HandleCallback, HandleKickstart, MachineStep, MachineBoots, MachineStops,
         WatchDelivers, ReadsOnly, CallsBMC, CallsAPI, deployVars
  <2> QED BY <1>1, <2>1 DEF BegunOnce, BeginSteps
<1>2. BegunOnce /\ [Next]_vars => [begins' # begins => disk <= base]_vars
  BY <1>1
<1> QED BY <1>2, OneInstallPerDeploy, PTL DEF Safety, InstallNotRestarted

(* If Deprovision's clear succeeds too, a pass comes upon no stamp of an    *)
(* earlier deploy.                                                          *)
THEOREM StampsAlways ==
  ASSUME MaxLag = 0, Uncut, "clear_fails" \notin Faults
  PROVE  Safety => [](AllTypesOK /\ MediaInvariant /\ Coherent /\ StampsOfThisDeploy)
<1>1. Init => StampsOfThisDeploy
  BY EarlyInit
<1> QED
  BY <1>1, StampsNext, OneInstallPerDeploy, CoherentAlways, PTL DEF Safety

(* Under the same conditions BeginInstall never cuts the power of a machine *)
(* an install was begun on.                                                 *)
THEOREM RunningInstallIsLeft ==
  ASSUME MaxLag = 0, Uncut, "clear_fails" \notin Faults
  PROVE  Safety => []RunningInstallUntouched
<1>1. StampsOfThisDeploy => RunningInstallUntouched
  BY DEF StampsOfThisDeploy, RunningInstallUntouched, BeginSteps
<1> QED
  BY <1>1, StampsAlways, PTL

(* Also where a FinishInstall may be cut short, BeginInstall cuts the power *)
(* of a machine that runs an installer only if its install was forgotten:   *)
(* one that still has its stamp is left to finish.                          *)
THEOREM NoStampedInstallIsCut ==
  ASSUME MaxLag = 0, "clear_fails" \notin Faults
  PROVE  Safety => [](pc = "CutPower" /\ os \in Installers => api.started = 0)
<1>1. Init => StampedIsLeft
  BY EarlyInit
<1>2. MediaInvariant /\ StampedIsLeft
        => (pc = "CutPower" /\ os \in Installers => api.started = 0)
  BY DEF MediaInvariant, PassFitsState, ProvisionSteps, BeginSteps, StampedIsLeft
<1> QED
  BY <1>1, <1>2, StampedNext, CoherentAlways, PTL DEF Safety

(* Where reads are not stale and reports die with their machine, all there  *)
(* is to read of an install is about the latest one.                        *)
THEOREM ReportsAreTheLatest ==
  ASSUME MaxLag = 0, "late_callback" \notin Faults
  PROVE  Safety => [](MediaInvariant /\ Coherent /\ LatestReports)
<1>1. Init => LatestReports
  BY EarlyInit
<1> QED BY <1>1, LatestNext, CoherentAlways, PTL DEF Safety

(* AwaitInstall decides on a verdict of the latest run, also if its host    *)
(* was not cleared by Deprovision or boots its installer twice.             *)
THEOREM VerdictIsNeverAnOlderRuns ==
  ASSUME MaxLag = 0, "late_callback" \notin Faults
  PROVE  Safety => []VerdictIsThisRuns
<1>1. Coherent /\ LatestReports => VerdictIsThisRuns
  BY DEF Coherent, LatestReports, VerdictIsThisRuns
<1> QED BY <1>1, ReportsAreTheLatest, PTL

(* BeginInstall powers on a machine that boots this deploy's image, with    *)
(* the last verdict gone and this run's stamp made.                         *)
THEOREM PowerOnIsPrepared ==
  ASSUME MaxLag = 0, "late_callback" \notin Faults
  PROVE  Safety => []PreparedBeforePowerOn
<1>1. MediaInvariant /\ LatestReports => PreparedBeforePowerOn
  BY DEF MediaInvariant, PassKnowsDrive, LatestReports, PreparedBeforePowerOn
<1> QED BY <1>1, ReportsAreTheLatest, PTL

-----------------------------------------------------------------------------
(* What needs the whole order, one group of actions at a time. *)

LEMMA ProvisionInstall ==
  ASSUME InOrder, AllTypesOK, InstallIsSafe, Provision
  PROVE  DeployInvariant'
<1> USE Numbers, NothingDisturbs
<1> USE DEF InstallIsSafe, DeployInvariant, MediaInvariant, PassFitsState, RunsOnPower,
            StaysDown, OutOfReach, PassKnowsDrive, NothingLeftIn, OverrideSpent, FreshBoots,
            Coherent, LatestReports, StampedInstall, OneBeginPerDeploy, ReportsAreTrue,
            FreshInstallersOnly, VerdictIsTrue, WorkInProgress, Landed,
            ProvisionedIsInstalled
<1> USE DEF ProvisionSteps, BeginSteps, AwaitSteps, FinishSteps, FinishTail,
            DeprovisionSteps, PowerSteps, DownSteps, Installers, machineVars, passVars,
            storeVars, deployVars, CdIsNext, Goto, PassEnds, Return, Requeue, Complete,
            ReadsOnly, CallsBMC, CallsAPI
<1>1. CASE CallProvision
  BY <1>1 DEF CallProvision
<1>2. CASE ReadMediaStatus
  BY <1>2 DEF ReadMediaStatus, Inserted
<1>3. CASE ReadInstallStartedAt
  BY <1>3 DEF ReadInstallStartedAt, InstallUnderWay, InstallStartedAt, AwaitInstall
<1>4. CASE CheckPreconditions
  BY <1>4 DEF CheckPreconditions
<1>5. CASE BeginPower
  BY <1>5 DEF BeginPower, IsDown
<1>6. CASE CutPower
  BY <1>6 DEF CutPower, ForceOff, Stopped
<1>7. CASE Eject
  BY <1>7 DEF Eject, EjectThen, EjectRefused, EjectMedia
<1>8. CASE Insert
  BY <1>8 DEF Insert, InsertMedia
<1>9. CASE VerifyMedia
  BY <1>9 DEF VerifyMedia, Inserted
<1>10. CASE SetInstallBoot
  BY <1>10 DEF SetInstallBoot, InstallOverride, SetBoot
<1>11. CASE VerifyBoot
  BY <1>11 DEF VerifyBoot
<1>12. CASE ClearReport
  <2>1. ClearInstallReport /\ Goto("MarkStarted") /\ CallsAPI /\ pc = "ClearReport"
    BY <1>12 DEF ClearReport
  <2>2. Coherent' /\ api'.result = "none" /\ api'.started = 0
    BY <2>1, ClearInOrder
  <2> QED BY <2>1, <2>2
<1>13. CASE MarkStarted
  <2>1. /\ begins' = begins + 1 /\ MarkInstallStarted(begins') /\ pc = "MarkStarted"
        /\ Goto("BeginOn") /\ UNCHANGED <<machineVars, base>>
    BY <1>13, Zenon DEF MarkStarted
  <2>2. /\ Coherent' /\ api'.started = begins'
        /\ api'.result = api.result /\ api'.from = api.from
    BY <2>1, MarkInOrder
  <2> QED BY <2>1, <2>2
<1>14. CASE BeginOn
  BY <1>14 DEF BeginOn, ResetOn
<1>15. CASE ReadReport
  BY <1>15 DEF ReadReport, ReadInstallReport, Passed
<1>16. CASE AwaitClock
  BY <1>16 DEF AwaitClock, InstallStartedAt
<1>17. CASE FinishPower
  BY <1>17 DEF FinishPower, IsDown
<1>18. CASE ShutdownClock
  BY <1>18 DEF ShutdownClock
<1>19. CASE ForceDown
  BY <1>19 DEF ForceDown, ForceOff, Stopped
<1>20. CASE SoftDown
  BY <1>20 DEF SoftDown, GracefulShutdown
<1>21. CASE FinishEject
  BY <1>21 DEF FinishEject, EjectThen, EjectRefused, EjectMedia
<1>22. CASE FinishBoot
  BY <1>22 DEF FinishBoot, SetBoot
<1>23. CASE FinishOn
  BY <1>23 DEF FinishOn, ResetOn
<1>24. CASE FinishDone
  BY <1>24 DEF FinishDone
<1> QED
  BY <1>1, <1>2, <1>3, <1>4, <1>5, <1>6, <1>7, <1>8, <1>9, <1>10, <1>11, <1>12, <1>13, <1>14,
     <1>15, <1>16, <1>17, <1>18, <1>19, <1>20, <1>21, <1>22, <1>23, <1>24 DEF Provision

LEMMA DeprovisionInstall ==
  ASSUME InOrder, AllTypesOK, InstallIsSafe, Deprovision
  PROVE  DeployInvariant'
<1> USE Numbers, NothingDisturbs
<1> USE DEF InstallIsSafe, DeployInvariant, MediaInvariant, PassFitsState, RunsOnPower,
            StaysDown, OutOfReach, PassKnowsDrive, NothingLeftIn, OverrideSpent, FreshBoots,
            Coherent, LatestReports, StampedInstall, OneBeginPerDeploy, ReportsAreTrue,
            FreshInstallersOnly, VerdictIsTrue, WorkInProgress, Landed,
            ProvisionedIsInstalled
<1> USE DEF ProvisionSteps, BeginSteps, AwaitSteps, FinishSteps, FinishTail,
            DeprovisionSteps, PowerSteps, DownSteps, Installers, machineVars, passVars,
            storeVars, deployVars, CdIsNext, Goto, PassEnds, Return, Requeue, Complete,
            ReadsOnly, CallsBMC, CallsAPI
<1>1. CASE CallDeprovision
  BY <1>1 DEF CallDeprovision
<1>2. CASE ForgetInstall
  <2>1. /\ ClearInstallReport /\ Goto("TeardownMedia") /\ CallsAPI
        /\ pc = "ForgetInstall"
    BY <1>2 DEF ForgetInstall
  <2>2. Coherent' /\ api'.result = "none" /\ api'.started = 0
    BY <2>1, ClearInOrder
  <2> QED BY <2>1, <2>2
<1>3. CASE TeardownMedia
  BY <1>3 DEF TeardownMedia, Inserted
<1>4. CASE TeardownEject
  BY <1>4 DEF TeardownEject, EjectThen, EjectRefused, EjectMedia
<1>5. CASE TeardownDone
  BY <1>5 DEF TeardownDone
<1> QED
  BY <1>1, <1>2, <1>3, <1>4, <1>5 DEF Deprovision

LEMMA PowerInstall ==
  ASSUME InOrder, AllTypesOK, InstallIsSafe, PowerPass
  PROVE  DeployInvariant'
<1> USE Numbers, NothingDisturbs
<1> USE DEF InstallIsSafe, DeployInvariant, MediaInvariant, PassFitsState, RunsOnPower,
            StaysDown, OutOfReach, PassKnowsDrive, NothingLeftIn, OverrideSpent, FreshBoots,
            Coherent, LatestReports, StampedInstall, OneBeginPerDeploy, ReportsAreTrue,
            FreshInstallersOnly, VerdictIsTrue, WorkInProgress, Landed,
            ProvisionedIsInstalled
<1> USE DEF ProvisionSteps, BeginSteps, AwaitSteps, FinishSteps, FinishTail,
            DeprovisionSteps, PowerSteps, DownSteps, Installers, machineVars, passVars,
            storeVars, deployVars, CdIsNext, Goto, PassEnds, Return, Requeue, Complete,
            ReadsOnly, CallsBMC, CallsAPI
<1>1. CASE CallPowerOn
  BY <1>1 DEF CallPowerOn
<1>2. CASE OnRead
  BY <1>2 DEF OnRead
<1>3. CASE OnReset
  BY <1>3 DEF OnReset, ResetOn
<1>4. CASE CallPowerOff
  BY <1>4 DEF CallPowerOff
<1>5. CASE OffRead
  BY <1>5 DEF OffRead
<1>6. CASE OffReset
  BY <1>6 DEF OffReset, ForceOff, Stopped, GracefulShutdown
<1> QED
  BY <1>1, <1>2, <1>3, <1>4, <1>5, <1>6 DEF PowerPass

LEMMA EnvironmentInstall ==
  ASSUME InOrder, AllTypesOK, InstallIsSafe, Environment
  PROVE  DeployInvariant'
<1> USE Numbers, NothingDisturbs
<1> USE DEF InstallIsSafe, DeployInvariant, MediaInvariant, PassFitsState, RunsOnPower,
            StaysDown, OutOfReach, PassKnowsDrive, NothingLeftIn, OverrideSpent, FreshBoots,
            Coherent, LatestReports, StampedInstall, OneBeginPerDeploy, ReportsAreTrue,
            FreshInstallersOnly, VerdictIsTrue, WorkInProgress, Landed,
            ProvisionedIsInstalled
<1> USE DEF ProvisionSteps, BeginSteps, AwaitSteps, FinishSteps, FinishTail,
            DeprovisionSteps, PowerSteps, DownSteps, Installers, machineVars, passVars,
            storeVars, deployVars, CdIsNext, Goto, PassEnds, Return, Requeue, Complete,
            ReadsOnly, CallsBMC, CallsAPI
<1>1. CASE StartDeploy
  BY <1>1 DEF StartDeploy, Inserted
<1>2. CASE CancelDeploy
  BY <1>2 DEF CancelDeploy
<1>3. CASE EditHost
  BY <1>3 DEF EditHost
<1>4. CASE BudgetRunsOut
  BY <1>4 DEF BudgetRunsOut
<1>5. CASE HandleCallback
  <2>1. PICK p \in posts :
          /\ WriteInstallReport(p.ok, p.run) /\ posts' \in {posts, posts \ {p}}
          /\ UNCHANGED <<power, drive, boot, os, run, disk, deployVars, passVars>>
    BY <1>5 DEF HandleCallback
  <2>2. p.ok \in BOOLEAN /\ p.run \in Nat
    BY DEF AllTypesOK, MachineTypeOK, Reports
  <2>3. /\ Coherent' /\ api'.started = api.started
        /\ api'.result = IF p.ok THEN "succeeded" ELSE "failed"
        /\ api'.from = p.run \/ (api.result # "none" /\ api'.from = api.from)
    BY <2>1, <2>2, WriteInOrder
  <2> QED BY <2>1, <2>2, <2>3
<1>6. CASE HandleKickstart
  BY <1>6 DEF HandleKickstart, StartInstalling, RefuseInstall, Stopped
<1>7. CASE MachineStep
  BY <1>7 DEF MachineStep, Reboot, EndInstall, StartUp, Inserted
<1>8. CASE MachineBoots
  BY <1>8 DEF MachineBoots, Boot, StartUp, Inserted
<1>9. CASE MachineStops
  BY <1>9 DEF MachineStops, PowerDownCompletes, Stopped
<1>10. CASE WatchDelivers
  BY <1>10 DEF WatchDelivers, CacheCatchesUp
<1> QED
  BY <1>1, <1>2, <1>3, <1>4, <1>5, <1>6, <1>7, <1>8, <1>9, <1>10 DEF Environment

LEMMA AbortInstall ==
  ASSUME InOrder, AllTypesOK, InstallIsSafe, Abort
  PROVE  DeployInvariant'
<1>1. /\ pc \in FinishTail => ~Uncut
      /\ pc' = "idle"
      /\ UNCHANGED <<api, cache, unseen, power, drive, boot, os, run, disk, posts, bmh,
                     begins, base>>
  BY Zenon DEF Abort, PassEnds, storeVars, machineVars, Uncut
<1> USE DEF InstallIsSafe, DeployInvariant, StampedInstall, BeginSteps, AwaitSteps,
            FinishSteps, FinishTail, ProvisionSteps
<1>2. (bmh = "provisioning" /\ api.started # 0 /\ drive = "empty" => Landed)'
  <2>1. CASE pc \in FinishTail
    <3>1. ~Uncut /\ CallbackEnabled
      BY <1>1, <2>1
    <3>2. bmh = "provisioning" /\ os \notin Installers /\ posts = {}
      BY <2>1 DEF MediaInvariant, PassFitsState, OutOfReach, ReportsAreTrue
    <3>3. api.result = "succeeded" /\ disk = begins
      BY <2>1 DEF VerdictIsTrue
    <3> QED BY <1>1, <3>1, <3>2, <3>3 DEF Landed
  <2>2. CASE pc \notin FinishTail
    BY <1>1, <2>2 DEF Landed
  <2> QED BY <2>1, <2>2
<1> QED
  BY <1>1, <1>2
     DEF Coherent, LatestReports, OneBeginPerDeploy, ReportsAreTrue, FreshInstallersOnly,
         VerdictIsTrue, WorkInProgress, Landed, ProvisionedIsInstalled

LEMMA InstallInit ==
  ASSUME Init
  PROVE  InstallIsSafe
<1>1. /\ bmh = "available" /\ pc = "idle" /\ begins = 0 /\ base = 0
      /\ StoreInit /\ MachineInit
  BY Zenon DEF Init
<1>2. api = NoAnnotations /\ Coherent
  BY <1>1 DEF StoreInit, Coherent
<1>3. /\ os \in {"none", "disk"} /\ boot = "Disabled"
      /\ run = 0 /\ disk = 0 /\ posts = {}
  BY <1>1 DEF MachineInit
<1> QED
  BY <1>1, <1>2, <1>3, MediaInit
     DEF InstallIsSafe, DeployInvariant, LatestReports, StampedInstall, OneBeginPerDeploy,
         ReportsAreTrue, FreshInstallersOnly, VerdictIsTrue, WorkInProgress,
         Landed, ProvisionedIsInstalled, NoAnnotations,
         BeginSteps, AwaitSteps, FinishSteps, FinishTail, Installers

LEMMA InstallNext ==
  ASSUME InOrder, AllTypesOK, InstallIsSafe, [Next]_vars
  PROVE  InstallIsSafe'
<1>1. MediaInvariant'
  BY MediaNext DEF InstallIsSafe
<1>2. CASE Next
  BY <1>1, <1>2, ProvisionInstall, DeprovisionInstall, PowerInstall, AbortInstall,
     EnvironmentInstall DEF Next, InstallIsSafe
<1>3. CASE UNCHANGED vars
  <2>1. UNCHANGED <<api, cache, unseen, power, drive, boot, os, run, disk, posts, bmh, pc,
                    sawMedia, begins, base>>
    BY <1>3, Zenon DEF vars, storeVars, machineVars, deployVars, passVars
  <2> QED
    BY <1>1, <2>1
       DEF InstallIsSafe, DeployInvariant, Coherent, LatestReports, StampedInstall,
           OneBeginPerDeploy, ReportsAreTrue, FreshInstallersOnly, VerdictIsTrue,
           WorkInProgress, Landed, ProvisionedIsInstalled
<1> QED BY <1>2, <1>3

-----------------------------------------------------------------------------
(* The inductive invariant holds of every deploy in order. *)
THEOREM InstallAlways ==
  ASSUME InOrder
  PROVE  Safety => [](AllTypesOK /\ InstallIsSafe)
  BY TypesInit, TypesNext, InstallInit, InstallNext, PTL DEF Safety

(* With a listener, a host is provisioned only when an install of this very *)
(* deploy has completed and is still on its disk.                           *)
THEOREM ProvisionedHostIsInstalled ==
  ASSUME InOrder
  PROVE  Safety => []ProvisionedIsInstalled
<1>1. InstallIsSafe => ProvisionedIsInstalled
  BY DEF InstallIsSafe, DeployInvariant
<1> QED BY <1>1, InstallAlways, PTL

(* In order, and where the BMC answers every teardown, a run boots its      *)
(* installer once, with a listener or without.                              *)
THEOREM BootsOnceInOrder ==
  ASSUME InOrder, "bmc_gone" \notin Faults
  PROVE  Safety => OneInstallerBootPerRun
<1>1. ASSUME AllTypesOK, InstallIsSafe, Next, os # "installer", os' = "installer"
      PROVE  run < begins
  <2>1. power = "PoweringOn" /\ boot = "CdOnce" /\ drive # "empty"
    BY <1>1, InstallerBoot, NothingDisturbs
       DEF InstallIsSafe, MediaInvariant, OverrideSpent, CdIsNext
  <2> QED BY <1>1, <2>1 DEF InstallIsSafe, DeployInvariant, FreshInstallersOnly
<1>2. AllTypesOK /\ InstallIsSafe /\ [Next]_vars
        => [os # "installer" /\ os' = "installer" => run < begins]_vars
  BY <1>1
<1> QED
  BY <1>2, InstallAlways, PTL DEF Safety, OneInstallerBootPerRun

=============================================================================
