---------------------------- MODULE ReportProofs ----------------------------
(***************************************************************************)
(* What becomes of the verdicts the callback route records, for any number *)
(* of hosts and requests, with handlers, workers and operators interleaved *)
(* at every read and every patch.                                          *)
(***************************************************************************)
EXTENDS ListenerProofs

(* What each writer's patch does to the verdict it finds. *)

LEMMA ClearOf ==
  ASSUME NEW old \in Annotations, NEW live \in Annotations,
         NEW a, a = MergePatch(old, WithoutReport(old), live)
  PROVE  \/ a.result = "none" /\ a.from = 0
         \/ old.result = "none" /\ a.result = live.result /\ a.from = live.from
BY DEF MergePatch, WithoutReport, NoAnnotations, Annotations

LEMMA MarkOf ==
  ASSUME NEW old \in Annotations, NEW live \in Annotations,
         NEW a, a = MergePatch(old, WithStamp(old, 1), live)
  PROVE  a.result = live.result /\ a.from = live.from
BY DEF MergePatch, WithStamp, Annotations

LEMMA ReportOf ==
  ASSUME Typed, NEW q \in Requests, request[q].at = "Write",
         NEW live \in Annotations, NEW a, a = MergePatch(request[q].base, Report(q), live)
  PROVE  /\ \/ a.result = live.result /\ a.from = live.from
            \/ /\ a.from = request[q].run
               /\ a.result = Report(q).result
         /\ request[q].base = live => a.result = Report(q).result
         /\ Report(q).result = IF request[q].body = "finished" THEN "succeeded" ELSE "failed"
<1>1. request[q].base \in Annotations
  BY TargetIsAHost DEF RequestStates
<1> QED BY <1>1 DEF MergePatch, Report, WithReport, ParseInstallReport, Annotations

(* Who changes the annotations of a host, and to what. *)
LEMMA NotesSteps ==
  ASSUME Typed, [Next]_vars, NEW h \in Hosts
  PROVE  \/ notes'[h] = notes[h]
         \/ (Create(h) \/ Delete(h)) /\ notes'[h] = NoAnnotations
         \/ /\ ClearInstallReport(h)
            /\ notes'[h] = MergePatch(base[h], WithoutReport(base[h]), notes[h])
         \/ /\ MarkInstallStarted(h)
            /\ notes'[h] = MergePatch(base[h], WithStamp(base[h], 1), notes[h])
         \/ \E q \in Requests :
              /\ Record(q) /\ request[q].at = "Write"
              /\ Target(q) = h /\ Present(h)
              /\ notes'[h] = MergePatch(request[q].base, Report(q), notes[h])
<1>1. notes \in [Hosts -> Annotations]
  BY DEF Typed, TypeOK, ObjectTypeOK
<1>2. CASE UNCHANGED vars
  BY <1>2 DEF vars, objectVars
<1>3. ASSUME NEW g \in Hosts, Operate(g)
      PROVE  \/ notes'[h] = notes[h]
             \/ (Create(h) \/ Delete(h)) /\ notes'[h] = NoAnnotations
  BY <1>1, <1>3 DEF Operate, Create, Delete, Edit, CreateHost, DeleteHost, EditHost
<1>4. ASSUME NEW g \in Hosts, Begin(g)
      PROVE  \/ notes'[h] = notes[h]
             \/ /\ ClearInstallReport(h)
                /\ notes'[h] = MergePatch(base[h], WithoutReport(base[h]), notes[h])
             \/ /\ MarkInstallStarted(h)
                /\ notes'[h] = MergePatch(base[h], WithStamp(base[h], 1), notes[h])
  <2>1. CASE ClearInstallReport(g) \/ MarkInstallStarted(g)
    BY <1>1, <2>1 DEF ClearInstallReport, MarkInstallStarted, Patch
  <2> QED BY <1>4, <2>1 DEF Begin, CallProvision, CheckInstallDisk, PowerDown, ReadForClear,
                            ReadForMark, PowerOn, EndCall, objectVars
<1>5. ASSUME NEW q \in Requests, Record(q)
      PROVE  \/ notes'[h] = notes[h]
             \/ /\ request[q].at = "Write" /\ Target(q) = h /\ Present(h)
                /\ notes'[h] = MergePatch(request[q].base, Report(q), notes[h])
  <2>1. request[q].at = "Write"
    BY <1>5 DEF Record, WriteInstallReport
  <2> QED BY <1>1, <1>5, <2>1 DEF Record, WriteInstallReport, Patch, objectVars
<1>6. ASSUME NEW q \in Requests, Receive(q)
      PROVE  notes'[h] = notes[h]
  BY <1>6 DEF Receive, objectVars
<1>7. ASSUME NEW m \in Hosts, Machine(m) \/ StrayBoot(m)
      PROVE  notes'[h] = notes[h]
  BY <1>7 DEF Machine, StrayBoot, objectVars
<1> QED BY <1>2, <1>3, <1>4, <1>5, <1>6, <1>7 DEF Next

-----------------------------------------------------------------------------
(***************************************************************************)
(* Whose verdict it is.  Past the check a request's UID is its host's, and *)
(* creating a host anew under the name notes the requests past it.         *)
(***************************************************************************)
Homeward ==
  /\ \A h \in Hosts : notes[h].from \in 0..Len(runs)
  /\ \A q \in Requests :
       request[q].at \in {"Read", "Write"} /\ Present(Target(q)) =>
         \/ uid[Target(q)] = runs[request[q].run].uid
         \/ request[q].run \in handled[Target(q)]
  /\ ReportsGoHome

LEMMA InitHomeward == Init => Homeward
BY DEF Init, ObjectInit, RouteInit, CallbackInit, Homeward, ReportsGoHome, NoAnnotations, NoRequest

LEMMA NextHomeward ==
  ASSUME Typed, Homeward, [Next]_vars
  PROVE  Homeward'
<1>1. \A q \in Requests : request[q].at # "none" =>
        /\ request[q].run \in 1..Len(runs) /\ Target(q) \in Hosts
        /\ runs'[request[q].run].uid = runs[request[q].run].uid
        /\ runs'[request[q].run].name = Target(q)
  BY TargetIsAHost, RunsKept DEF Target
<1>2. ASSUME NEW h \in Hosts
      PROVE  /\ notes'[h].from \in 0..Len(runs')
             /\ notes'[h].from # 0 =>
                  \/ runs'[notes'[h].from].uid = uid'[h]
                  \/ notes'[h].from \in handled'[h]
  <2> DEFINE Home(a) == a.from # 0 => runs[a.from].uid = uid[h] \/ a.from \in handled[h]
  <2>1. notes[h] \in Annotations /\ base[h] \in Annotations
    BY DEF Typed, TypeOK, ObjectTypeOK
  <2>2. CASE (Create(h) \/ Delete(h)) /\ notes'[h] = NoAnnotations
    BY <2>2, RunsKept DEF NoAnnotations
  <2>3. ASSUME ~Create(h), ~Delete(h)
        PROVE  uid'[h] = uid[h] /\ handled'[h] = handled[h]
    BY <2>3 DEF Next, vars, objectVars, historyVars, Operate, Create, Delete, Edit, CreateHost,
                DeleteHost, EditHost, Begin, CallProvision, CheckInstallDisk, PowerDown,
                ReadForClear, ClearInstallReport, ReadForMark, MarkInstallStarted, PowerOn,
                EndCall, Machine, StrayBoot, Receive, Record, WriteInstallReport, NotesChanged,
                Typed, TypeOK, ObjectTypeOK
  <2>4. ASSUME ~Create(h), ~Delete(h),
               notes'[h].from \in {0, notes[h].from}
        PROVE  /\ notes'[h].from \in 0..Len(runs')
               /\ notes'[h].from # 0 =>
                    \/ runs'[notes'[h].from].uid = uid'[h]
                    \/ notes'[h].from \in handled'[h]
    <3>1. notes[h].from \in 0..Len(runs) /\ Home(notes[h])
      BY DEF Homeward, ReportsGoHome
    <3>2. notes'[h].from # 0 => runs'[notes'[h].from].uid = runs[notes[h].from].uid
      BY <2>4, <3>1, RunsKept
    <3> QED BY <2>3, <2>4, <3>1, <3>2, RunsKept
  <2>5. CASE /\ ClearInstallReport(h)
             /\ notes'[h] = MergePatch(base[h], WithoutReport(base[h]), notes[h])
    <3>1. ~Create(h) /\ ~Delete(h)
      BY <2>5 DEF ClearInstallReport, Create, Delete, Goto, workerVars, Typed, TypeOK
    <3> QED BY <2>1, <2>4, <2>5, <3>1, ClearOf
  <2>6. CASE /\ MarkInstallStarted(h)
             /\ notes'[h] = MergePatch(base[h], WithStamp(base[h], 1), notes[h])
    <3>1. ~Create(h) /\ ~Delete(h)
      BY <2>6 DEF MarkInstallStarted, Create, Delete, Goto, workerVars, Typed, TypeOK
    <3> QED BY <2>1, <2>4, <2>6, <3>1, MarkOf
  <2>7. ASSUME NEW q \in Requests, Record(q), request[q].at = "Write",
               Target(q) = h, Present(h),
               notes'[h] = MergePatch(request[q].base, Report(q), notes[h])
        PROVE  /\ notes'[h].from \in 0..Len(runs')
               /\ notes'[h].from # 0 =>
                    \/ runs'[notes'[h].from].uid = uid'[h]
                    \/ notes'[h].from \in handled'[h]
    <3>1. request'[q] = NoRequest
      BY <2>7 DEF Record, WriteInstallReport, Answer, Typed, TypeOK, CallbackTypeOK
    <3>2. ~Create(h) /\ ~Delete(h)
      BY <2>7, <3>1 DEF Create, Delete, callbackVars, NoRequest
    <3>3. notes'[h].from \in {0, notes[h].from, request[q].run}
      BY <2>1, <2>7, ReportOf
    <3>4. uid[h] = runs[request[q].run].uid \/ request[q].run \in handled[h]
      BY <2>7 DEF Homeward
    <3>5. CASE notes'[h].from = request[q].run
      BY <1>1, <2>3, <2>7, <3>2, <3>4, <3>5, RunsKept
    <3> QED BY <2>4, <3>2, <3>3, <3>5
  <2>8. CASE notes'[h] = notes[h] /\ ~Create(h) /\ ~Delete(h)
    BY <2>4, <2>8
  <2>9. Create(h) \/ Delete(h) => notes'[h] = NoAnnotations
    BY DEF Create, Delete, CreateHost, DeleteHost, Typed, TypeOK, ObjectTypeOK
  <2> QED BY <2>2, <2>5, <2>6, <2>7, <2>8, <2>9, NotesSteps
<1>3. ASSUME NEW q \in Requests, request'[q].at \in {"Read", "Write"}, Present(Target(q))'
      PROVE  \/ uid'[Target(q)'] = runs'[request'[q].run].uid
             \/ request'[q].run \in handled'[Target(q)']
  <2>1. CASE request'[q].run = request[q].run /\ request[q].at \in {"Read", "Write"}
    <3>1. PICK h \in Hosts :
            /\ h = Target(q) /\ Target(q)' = h
            /\ runs'[request'[q].run].uid = runs[request[q].run].uid
      BY <1>1, <2>1 DEF Target
    <3>2. Present(h)'
      BY <1>3, <3>1 DEF Present
    <3>3. CASE Create(h)
      <4>1. request[q].run \in Handled
        BY <2>1 DEF Handled
      <4> QED BY <2>1, <3>1, <3>3, <4>1 DEF Create, Typed, TypeOK
    <3>4. CASE ~Create(h)
      <4>1. Present(h) /\ uid'[h] = uid[h] /\ handled'[h] = handled[h]
        <5> USE DEF Typed, TypeOK, ObjectTypeOK, Present
        <5>1. CASE UNCHANGED <<uid, handled>>
          BY <3>1, <3>2, <5>1
        <5>2. ASSUME NEW g \in Hosts, Operate(g)
              PROVE  Present(h) /\ uid'[h] = uid[h] /\ handled'[h] = handled[h]
          BY <3>1, <3>2, <3>4, <5>2
             DEF Operate, Create, Delete, Edit, CreateHost, DeleteHost, EditHost
        <5> QED BY <5>1, <5>2
                DEF Next, vars, objectVars, historyVars, Begin, CallProvision, CheckInstallDisk,
                    PowerDown, ReadForClear, ClearInstallReport, ReadForMark, MarkInstallStarted,
                    PowerOn, EndCall, Machine, StrayBoot, Receive, Record, WriteInstallReport,
                    NotesChanged
      <4> QED BY <2>1, <3>1, <4>1 DEF Homeward
    <3> QED BY <3>3, <3>4
  <2>2. CASE CheckHostUID(q) /\ Receive(q)
    <3>1. Authorized(q) /\ request'[q].run = request[q].run
      BY <1>3, <2>2
         DEF CheckHostUID, Answer, NoRequest, Typed, TypeOK, CallbackTypeOK, RequestStates
    <3>2. UNCHANGED <<uid, runs>>
      BY <2>2 DEF Receive, objectVars, routeVars
    <3> QED BY <3>1, <3>2 DEF Authorized, Target
  <2>3. \/ request'[q].run = request[q].run /\ request[q].at \in {"Read", "Write"}
        \/ CheckHostUID(q) /\ Receive(q)
    <3>1. ASSUME NEW r \in Requests, Record(r)
          PROVE  request'[q].run = request[q].run /\ request[q].at \in {"Read", "Write"}
      BY <1>3, <3>1 DEF Record, WriteInstallReport, Answer, NoRequest, Typed, TypeOK, CallbackTypeOK
    <3>2. ASSUME NEW r \in Requests, Receive(r)
          PROVE  \/ request'[q].run = request[q].run /\ request[q].at \in {"Read", "Write"}
                 \/ CheckHostUID(q) /\ Receive(q)
      <4> USE DEF Typed, TypeOK, CallbackTypeOK, RequestStates
      <4>1. CASE \E m \in Hosts : Post(m, r)
        BY <1>3, <4>1 DEF Post
      <4>2. CASE CheckHostUID(r)
        BY <1>3, <3>2, <4>2 DEF CheckHostUID, Answer, NoRequest
      <4>3. CASE ReadReport(r)
        <5>1. CASE Answer(r)
          BY <1>3, <5>1 DEF Answer, NoRequest
        <5>2. CASE r # q
          BY <1>3, <4>3, <5>2 DEF ReadReport, Answer
        <5>3. CASE r = q /\ ~Answer(r)
          BY <4>3, <5>3 DEF ReadReport
        <5> QED BY <5>1, <5>2, <5>3
      <4> QED BY <3>2, <4>1, <4>2, <4>3 DEF Receive
    <3>3. CASE request' = request
      BY <1>3, <3>3
    <3> QED BY <3>1, <3>2, <3>3
            DEF Next, vars, callbackVars, Operate, Create, Delete, Edit, Begin, CallProvision,
                CheckInstallDisk, PowerDown, ReadForClear, ClearInstallReport, ReadForMark,
                MarkInstallStarted, PowerOn, EndCall, Machine, StrayBoot
  <2> QED BY <2>1, <2>2, <2>3
<1> QED BY <1>2, <1>3 DEF Homeward, ReportsGoHome

(* A verdict on a host was posted under its UID, or by a request that was   *)
(* past the UID check when the host was created under the name of a deleted *)
(* one (HandleCallback).                                                    *)
THEOREM VerdictsGoHome == Spec => []ReportsGoHome
<1>1. Typed /\ Homeward /\ [Next]_vars => (Typed /\ Homeward)'
  BY NextTyped, NextHomeward
<1>2. Homeward => ReportsGoHome
  BY DEF Homeward
<1> QED BY <1>1, <1>2, InitTyped, InitHomeward, PTL DEF Spec

-----------------------------------------------------------------------------
(***************************************************************************)
(* That success is true.  Only the installer of an ended run posts, so the *)
(* outcome a report speaks of no longer changes.                           *)
(***************************************************************************)
Earning ==
  /\ \A m \in Hosts : stage[m] \in {"installing", "done"} => runs[run[m]].machine = m
  /\ \A m \in Hosts : stage[m] = "installing" => runs[run[m]].outcome = "under_way"
  /\ \A q \in Requests :
       request[q].at # "none" /\ request[q].body = "finished" =>
         runs[request[q].run].outcome = "installed"
  /\ SuccessIsEarned

LEMMA InitEarning == Init => Earning
BY DEF Init, ObjectInit, RouteInit, CallbackInit, Earning, SuccessIsEarned, NoAnnotations, NoRequest

LEMMA InstalledStays ==
  ASSUME Typed, Earning, [Next]_vars,
         NEW i \in 1..Len(runs), runs[i].outcome = "installed"
  PROVE  runs'[i].outcome = "installed"
<1> USE DEF Typed, TypeOK, RouteTypeOK
<1>1. runs \in Seq(Runs) /\ Len(runs) \in Nat
  OBVIOUS
<1>2. CASE runs' = runs
  BY <1>2
<1>3. ASSUME NEW m \in Hosts, ServeKickstart(m)
      PROVE  runs'[i] = runs[i]
  BY <1>1, <1>3 DEF ServeKickstart, StartRun
<1>4. ASSUME NEW m \in Hosts, EndRun(m)
      PROVE  runs'[i] = runs[i]
  <2>1. PICK o \in {"installed", "failed"} : runs' = [runs EXCEPT ![run[m]].outcome = o]
    BY <1>4 DEF EndRun
  <2>2. run[m] # i
    BY <1>4 DEF EndRun, Earning
  <2> QED BY <1>1, <2>1, <2>2
<1> QED BY <1>2, <1>3, <1>4
        DEF Next, vars, Operate, Create, Delete, Edit, Begin, CallProvision, CheckInstallDisk,
            PowerDown, ReadForClear, ClearInstallReport, ReadForMark, MarkInstallStarted, PowerOn,
            EndCall, PowerOff, BootInstaller, Machine, StrayBoot, LookUp, Receive, Record, routeVars

LEMMA NextEarning ==
  ASSUME Typed, Earning, [Next]_vars
  PROVE  Earning'
<1>1. /\ \A m \in Hosts : stage'[m] \in {"installing", "done"} => runs'[run'[m]].machine = m
      /\ \A m \in Hosts : stage'[m] = "installing" => runs'[run'[m]].outcome = "under_way"
  <2> USE DEF Typed, TypeOK, RouteTypeOK
  <2>1. runs \in Seq(Runs) /\ Len(runs) \in Nat
    OBVIOUS
  <2>2. \A m \in Hosts : stage[m] \in {"installing", "done"} => run[m] \in 1..Len(runs)
    BY DEF InUse
  <2>3. ASSUME NEW g \in Hosts, PowerOff(g) \/ BootInstaller(g) \/ LookUp(g)
        PROVE  /\ \A m \in Hosts : stage'[m] \in {"installing", "done"} => runs'[run'[m]].machine = m
               /\ \A m \in Hosts : stage'[m] = "installing" => runs'[run'[m]].outcome = "under_way"
    BY <2>3 DEF PowerOff, BootInstaller, LookUp, TurnAway, Earning
  <2>4. ASSUME NEW g \in Hosts, ServeKickstart(g)
        PROVE  /\ \A m \in Hosts : stage'[m] \in {"installing", "done"} => runs'[run'[m]].machine = m
               /\ \A m \in Hosts : stage'[m] = "installing" => runs'[run'[m]].outcome = "under_way"
    <3>1. CASE UNCHANGED <<run, runs>>
      BY <2>4, <3>1 DEF ServeKickstart, TurnAway, StartRun, Earning
    <3>2. ASSUME NEW k, StartRun(g, k)
          PROVE  /\ \A m \in Hosts : stage'[m] \in {"installing", "done"} => runs'[run'[m]].machine = m
                 /\ \A m \in Hosts : stage'[m] = "installing" => runs'[run'[m]].outcome = "under_way"
      <4>1. \A m \in Hosts \ {g} : run'[m] = run[m] /\ stage'[m] = stage[m]
        BY <3>2 DEF StartRun
      <4>2. \A i \in 1..Len(runs) : runs'[i] = runs[i]
        BY <2>1, <3>2 DEF StartRun
      <4>3. run'[g] = Len(runs) + 1
        BY <3>2 DEF StartRun
      <4>4. runs'[Len(runs) + 1].machine = g /\ runs'[Len(runs) + 1].outcome = "under_way"
        BY <2>1, <3>2 DEF StartRun
      <4>5. ASSUME NEW m \in Hosts \ {g}, stage'[m] \in {"installing", "done"}
            PROVE  runs'[run'[m]] = runs[run[m]]
        BY <2>2, <4>1, <4>2, <4>5
      <4>6. ASSUME NEW m \in Hosts \ {g}
            PROVE  /\ stage'[m] \in {"installing", "done"} => runs'[run'[m]].machine = m
                   /\ stage'[m] = "installing" => runs'[run'[m]].outcome = "under_way"
        BY <4>1, <4>5 DEF Earning
      <4> QED BY <4>3, <4>4, <4>6
    <3> QED BY <2>4, <3>1, <3>2 DEF ServeKickstart
  <2>5. ASSUME NEW g \in Hosts, EndRun(g)
        PROVE  /\ \A m \in Hosts : stage'[m] \in {"installing", "done"} => runs'[run'[m]].machine = m
               /\ \A m \in Hosts : stage'[m] = "installing" => runs'[run'[m]].outcome = "under_way"
    <3>1. PICK o \in {"installed", "failed"} : runs' = [runs EXCEPT ![run[g]].outcome = o]
      BY <2>5 DEF EndRun
    <3>2. run' = run /\ stage' = [stage EXCEPT ![g] = "done"] /\ stage[g] = "installing"
      BY <2>5 DEF EndRun
    <3>3. \A m \in Hosts : stage'[m] \in {"installing", "done"} => stage[m] \in {"installing", "done"}
      BY <3>2
    <3>4. ASSUME NEW m \in Hosts, stage[m] \in {"installing", "done"}
          PROVE  runs'[run[m]].machine = m
      BY <2>2, <3>4, RunsKept DEF Earning
    <3>5. ASSUME NEW m \in Hosts, stage'[m] = "installing"
          PROVE  runs'[run[m]].outcome = "under_way"
      <4>1. m # g /\ stage[m] = "installing"
        BY <3>2, <3>5
      <4>2. run[m] # run[g]
        BY <3>2, <4>1 DEF Earning
      <4> QED BY <2>1, <2>2, <3>1, <4>1, <4>2 DEF Earning
    <3> QED BY <3>2, <3>3, <3>4, <3>5
  <2>6. CASE UNCHANGED routeVars
    BY <2>6 DEF routeVars, Earning
  <2> QED BY <2>3, <2>4, <2>5, <2>6
          DEF Next, vars, Operate, Create, Delete, Edit, Begin, CallProvision, CheckInstallDisk,
              PowerDown, ReadForClear, ClearInstallReport, ReadForMark, MarkInstallStarted, PowerOn,
              EndCall, Machine, StrayBoot, Receive, Record
<1>2. ASSUME NEW q \in Requests, request'[q].at # "none", request'[q].body = "finished"
      PROVE  runs'[request'[q].run].outcome = "installed"
  <2> USE DEF Typed, TypeOK, CallbackTypeOK, RequestStates
  <2>1. CASE /\ request[q].at # "none"
             /\ request'[q].body = request[q].body /\ request'[q].run = request[q].run
    BY <1>2, <2>1, TargetIsAHost, InstalledStays DEF Earning
  <2>2. ASSUME NEW m \in Hosts, Post(m, q), Receive(q)
        PROVE  runs'[request'[q].run].outcome = "installed"
    <3>1. request'[q].run = run[m] /\ runs' = runs
      BY <2>2 DEF Post, Receive, routeVars
    <3> QED BY <1>2, <2>2, <3>1 DEF Post
  <2>3. ASSUME NEW r \in Requests, Receive(r), ~\E m \in Hosts : Post(m, q)
        PROVE  /\ request[q].at # "none"
               /\ request'[q].body = request[q].body /\ request'[q].run = request[q].run
    <3>1. CASE r # q
      BY <1>2, <2>3, <3>1 DEF Receive, Post, CheckHostUID, ReadReport, Answer
    <3>2. CASE r = q /\ CheckHostUID(q)
      BY <1>2, <3>2 DEF CheckHostUID, Answer, NoRequest
    <3>3. CASE r = q /\ ReadReport(q)
      <4>1. ~Answer(q)
        BY <1>2 DEF Answer, NoRequest
      <4> QED BY <3>3, <4>1 DEF ReadReport
    <3> QED BY <2>3, <3>1, <3>2, <3>3 DEF Receive
  <2>4. ASSUME NEW r \in Requests, Record(r)
        PROVE  /\ request[q].at # "none"
               /\ request'[q].body = request[q].body /\ request'[q].run = request[q].run
    BY <1>2, <2>4 DEF Record, WriteInstallReport, Answer, NoRequest
  <2>5. \/ request' = request
        \/ \E r \in Requests : Receive(r) \/ Record(r)
    BY DEF Next, vars, callbackVars, Operate, Create, Delete, Edit, Begin, CallProvision,
           CheckInstallDisk, PowerDown, ReadForClear, ClearInstallReport, ReadForMark,
           MarkInstallStarted, PowerOn, EndCall, Machine, StrayBoot
  <2>6. ASSUME NEW m \in Hosts, NEW r \in Requests, Receive(r), Post(m, q)
        PROVE  r = q
    <3>1. request[q].at = "none"
      BY <2>6 DEF Post
    <3>2. CASE \E g \in Hosts : Post(g, r)
      BY <1>2, <2>6, <3>1, <3>2 DEF Post
    <3>3. CASE CheckHostUID(r) \/ ReadReport(r)
      BY <1>2, <3>1, <3>3 DEF CheckHostUID, ReadReport, Answer
    <3> QED BY <2>6, <3>2, <3>3 DEF Receive
  <2> QED BY <1>2, <2>1, <2>2, <2>3, <2>4, <2>5, <2>6
<1>3. ASSUME NEW h \in Hosts, notes'[h].result = "succeeded"
      PROVE  /\ notes'[h].from \in 1..Len(runs')
             /\ runs'[notes'[h].from].outcome = "installed"
  <2>1. notes[h] \in Annotations /\ base[h] \in Annotations
    BY DEF Typed, TypeOK, ObjectTypeOK
  <2>2. CASE notes'[h].result = notes[h].result /\ notes'[h].from = notes[h].from
    BY <1>3, <2>2, InstalledStays, RunsKept DEF Earning, SuccessIsEarned
  <2>3. CASE notes'[h] = NoAnnotations
    BY <1>3, <2>3 DEF NoAnnotations
  <2>4. CASE notes'[h] = MergePatch(base[h], WithoutReport(base[h]), notes[h])
    BY <1>3, <2>1, <2>2, <2>4, ClearOf
  <2>5. CASE notes'[h] = MergePatch(base[h], WithStamp(base[h], 1), notes[h])
    BY <2>1, <2>2, <2>5, MarkOf
  <2>6. ASSUME NEW q \in Requests, request[q].at = "Write",
               notes'[h] = MergePatch(request[q].base, Report(q), notes[h])
        PROVE  /\ notes'[h].from \in 1..Len(runs')
               /\ runs'[notes'[h].from].outcome = "installed"
    <3>1. CASE notes'[h].from = request[q].run /\ notes'[h].result = Report(q).result
      <4>1. request[q].body = "finished"
        BY <1>3, <2>1, <2>6, <3>1, ReportOf
      <4>2. runs[request[q].run].outcome = "installed" /\ request[q].run \in 1..Len(runs)
        BY <2>6, <4>1, TargetIsAHost DEF Earning
      <4> QED BY <3>1, <4>2, InstalledStays, RunsKept
    <3> QED BY <2>1, <2>2, <2>6, <3>1, ReportOf
  <2> QED BY <2>2, <2>3, <2>4, <2>5, <2>6, NotesSteps
<1> QED BY <1>1, <1>2, <1>3 DEF Earning, SuccessIsEarned

(* A host says succeeded only when the run that reported it did install its *)
(* machine (ParseInstallReport).                                            *)
THEOREM SuccessIsTrue == Spec => []SuccessIsEarned
<1>1. Typed /\ Earning /\ [Next]_vars => (Typed /\ Earning)'
  BY NextTyped, NextEarning
<1>2. Earning => SuccessIsEarned
  BY DEF Earning
<1> QED BY <1>1, <1>2, InitTyped, InitEarning, PTL DEF Spec

-----------------------------------------------------------------------------
(***************************************************************************)
(* That a recorded verdict stays, and that a cleared one is gone.  Both    *)
(* follow from what a patch names: the clear names the verdict it read,    *)
(* the stamp names none.                                                   *)
(***************************************************************************)
Settled ==
  /\ \A h \in Hosts : at[h] # "idle" \/ told[h] # "none" => Present(h)
  /\ \A h \in Hosts : at[h] = "Clear" /\ ~reported[h] => notes[h].result = base[h].result
  /\ OnlyLateReportsSurvive
  /\ ToldIsKept

LEMMA InitSettled == Init => Settled
BY DEF Init, ObjectInit, Settled, OnlyLateReportsSurvive, ToldIsKept, NoAnnotations

(* Every step, as one host's worker, annotations and object see it. *)
LEMMA StepsOfOne ==
  ASSUME Typed, [Next]_vars, NEW h \in Hosts
  PROVE  \/ /\ at'[h] = at[h] /\ base'[h] = base[h] /\ uid'[h] = uid[h] /\ notes'[h] = notes[h]
            /\ told'[h] = told[h] /\ reported'[h] = reported[h]
         \/ Create(h) \/ Delete(h)
         \/ CallProvision(h) \/ CheckInstallDisk(h) \/ PowerDown(h) \/ ReadForClear(h)
         \/ ClearInstallReport(h) \/ ReadForMark(h) \/ MarkInstallStarted(h)
         \/ PowerOn(h) \/ EndCall(h)
         \/ \E q \in Requests :
              Record(q) /\ Target(q) = h /\ request[q].at = "Write" /\ notes' # notes
<1> USE DEF Typed, TypeOK, ObjectTypeOK
<1>1. CASE UNCHANGED <<objectVars, at, base, historyVars>>
  BY <1>1 DEF objectVars, historyVars
<1>2. ASSUME NEW g \in Hosts, g # h, Operate(g)
      PROVE  /\ at'[h] = at[h] /\ base'[h] = base[h] /\ uid'[h] = uid[h] /\ notes'[h] = notes[h]
             /\ told'[h] = told[h] /\ reported'[h] = reported[h]
  BY <1>2 DEF Operate, Create, Delete, Edit, CreateHost, DeleteHost, EditHost, workerVars
<1>3. ASSUME Edit(h)
      PROVE  /\ at'[h] = at[h] /\ base'[h] = base[h] /\ uid'[h] = uid[h] /\ notes'[h] = notes[h]
             /\ told'[h] = told[h] /\ reported'[h] = reported[h]
  BY <1>3 DEF Edit, EditHost, workerVars
<1>4. ASSUME NEW g \in Hosts, g # h, Begin(g)
      PROVE  /\ at'[h] = at[h] /\ base'[h] = base[h] /\ uid'[h] = uid[h] /\ notes'[h] = notes[h]
             /\ told'[h] = told[h] /\ reported'[h] = reported[h]
  BY <1>4 DEF Begin, CallProvision, CheckInstallDisk, PowerDown, ReadForClear, ClearInstallReport,
              ReadForMark, MarkInstallStarted, PowerOn, EndCall, Goto, Drop, Patch, NotesChanged,
              objectVars, historyVars
<1>5. ASSUME NEW q \in Requests, Record(q)
      PROVE  \/ Target(q) = h /\ request[q].at = "Write" /\ notes' # notes
             \/ /\ at'[h] = at[h] /\ base'[h] = base[h] /\ uid'[h] = uid[h] /\ notes'[h] = notes[h]
                /\ told'[h] = told[h] /\ reported'[h] = reported[h]
  <2>1. request[q].at = "Write" /\ Target(q) \in Hosts
    BY <1>5, TargetIsAHost DEF Record, WriteInstallReport
  <2> QED BY <1>5, <2>1 DEF Record, WriteInstallReport, Patch, NotesChanged, objectVars, workerVars
<1>6. ASSUME NEW m \in Hosts, Machine(m) \/ StrayBoot(m)
      PROVE  UNCHANGED <<objectVars, at, base, historyVars>>
  BY <1>6 DEF Machine, StrayBoot, workerVars
<1>7. ASSUME NEW q \in Requests, Receive(q)
      PROVE  UNCHANGED <<objectVars, at, base, historyVars>>
  BY <1>7 DEF Receive, workerVars
<1>8. CASE UNCHANGED vars
  BY <1>1, <1>8 DEF vars, workerVars
<1>9. CASE Operate(h)
  BY <1>3, <1>9 DEF Operate
<1>10. CASE Begin(h)
  BY <1>10 DEF Begin
<1> QED BY <1>1, <1>2, <1>4, <1>5, <1>6, <1>7, <1>8, <1>9, <1>10 DEF Next

LEMMA NextSettled ==
  ASSUME Typed, Settled, [Next]_vars
  PROVE  Settled'
<1> SUFFICES ASSUME NEW h \in Hosts
             PROVE  /\ at'[h] # "idle" \/ told'[h] # "none" => Present(h)'
                    /\ at'[h] = "Clear" /\ ~reported'[h] => notes'[h].result = base'[h].result
                    /\ at'[h] \in {"ReadForMark", "Mark", "PowerOn"} /\ notes'[h].result # "none"
                         => reported'[h]
                    /\ told'[h] # "none" => notes'[h].result = told'[h]
  BY DEF Settled, OnlyLateReportsSurvive, ToldIsKept
<1> DEFINE Kept ==
      /\ at'[h] # "idle" \/ told'[h] # "none" => Present(h)'
      /\ at'[h] = "Clear" /\ ~reported'[h] => notes'[h].result = base'[h].result
      /\ at'[h] \in {"ReadForMark", "Mark", "PowerOn"} /\ notes'[h].result # "none"
           => reported'[h]
      /\ told'[h] # "none" => notes'[h].result = told'[h]
<1> USE DEF Typed, TypeOK, ObjectTypeOK
<1>1. /\ at[h] # "idle" \/ told[h] # "none" => Present(h)
      /\ at[h] = "Clear" /\ ~reported[h] => notes[h].result = base[h].result
      /\ at[h] \in {"ReadForMark", "Mark", "PowerOn"} /\ notes[h].result # "none" => reported[h]
      /\ told[h] # "none" => notes[h].result = told[h]
  BY DEF Settled, OnlyLateReportsSurvive, ToldIsKept
<1>2. notes[h] \in Annotations /\ base[h] \in Annotations
  OBVIOUS
<1>3. CASE /\ at'[h] = at[h] /\ base'[h] = base[h] /\ uid'[h] = uid[h] /\ notes'[h] = notes[h]
           /\ told'[h] = told[h] /\ reported'[h] = reported[h]
  BY <1>1, <1>3 DEF Present
<1>4. CASE Create(h)
  <2>1. at[h] = "idle" /\ told[h] = "none"
    BY <1>1, <1>4 DEF Create, CreateHost, Present
  <2>2. at'[h] = "idle" /\ told'[h] = "none"
    BY <1>4, <2>1 DEF Create, workerVars
  <2> QED BY <2>2
<1>5. CASE Delete(h)
  <2>1. at'[h] = "idle" /\ told'[h] = "none"
    BY <1>5 DEF Delete, workerVars
  <2> QED BY <2>1
<1>6. CASE \/ CallProvision(h) \/ CheckInstallDisk(h) \/ PowerDown(h) \/ PowerOn(h) \/ EndCall(h)
  <2>1. /\ at'[h] \in {"idle", "HostInstallDisk", "PowerOff", "ReadForClear"}
        /\ notes' = notes /\ told' = told /\ uid' = uid
    BY <1>6 DEF CallProvision, CheckInstallDisk, PowerDown, PowerOn, EndCall, Goto, objectVars,
                historyVars
  <2>2. Present(h)
    BY <1>1, <1>6, <2>1 DEF CallProvision, CheckInstallDisk, PowerDown, PowerOn, EndCall
  <2> QED BY <1>1, <2>1, <2>2 DEF Present
<1>7. CASE ReadForClear(h)
  <2>1. /\ at'[h] = "Clear" /\ at[h] = "ReadForClear" /\ base'[h] = notes[h] /\ notes' = notes
        /\ told' = told /\ uid' = uid
    BY <1>7 DEF ReadForClear, Goto, objectVars
  <2> QED BY <1>1, <2>1 DEF Present
<1>8. CASE ClearInstallReport(h)
  <2>1. /\ at'[h] = "ReadForMark" /\ at[h] = "Clear" /\ told'[h] = "none" /\ uid' = uid
        /\ reported' = reported
        /\ notes'[h] = MergePatch(base[h], WithoutReport(base[h]), notes[h])
    BY <1>8 DEF ClearInstallReport, Goto, Patch, NotesChanged
  <2>2. notes'[h].result # "none" => reported[h]
    BY <1>1, <1>2, <2>1, ClearOf
  <2> QED BY <1>1, <2>1, <2>2 DEF Present
<1>9. CASE ReadForMark(h)
  <2>1. /\ at'[h] = "Mark" /\ at[h] = "ReadForMark" /\ notes' = notes
        /\ told' = told /\ uid' = uid /\ reported' = reported
    BY <1>9 DEF ReadForMark, Goto, objectVars, historyVars
  <2> QED BY <1>1, <2>1 DEF Present
<1>10. CASE MarkInstallStarted(h)
  <2>1. /\ at'[h] = "PowerOn" /\ at[h] = "Mark" /\ told' = told /\ uid' = uid
        /\ reported' = reported
        /\ notes'[h] = MergePatch(base[h], WithStamp(base[h], 1), notes[h])
    BY <1>10 DEF MarkInstallStarted, Goto, Patch, NotesChanged, historyVars
  <2>2. notes'[h].result = notes[h].result
    BY <1>2, <2>1, MarkOf
  <2> QED BY <1>1, <2>1, <2>2 DEF Present
<1>11. ASSUME NEW q \in Requests, Record(q), Target(q) = h, request[q].at = "Write", notes' # notes
       PROVE  Kept
  <2>1. /\ at' = at /\ base' = base /\ uid' = uid
        /\ reported'[h] = (at[h] # "idle") /\ told'[h] = Recorded(q)
        /\ Present(h)
        /\ notes'[h] = MergePatch(request[q].base, Report(q), notes[h])
    BY <1>11 DEF Record, WriteInstallReport, Patch, NotesChanged, workerVars, objectVars
  <2>2. told'[h] # "none" => notes'[h].result = told'[h]
    BY <1>2, <1>11, <2>1, ReportOf DEF Recorded
  <2> QED BY <2>1, <2>2 DEF Present
<1> QED BY <1>3, <1>4, <1>5, <1>6, <1>7, <1>8, <1>9, <1>10, <1>11, StepsOfOne

(* A verdict whose poster was told it is recorded stays until the next      *)
(* clear or report, whatever patches are under way (MutateHostAnnotations). *)
THEOREM ToldVerdictsStay == Spec => []ToldIsKept
<1>1. Typed /\ Settled /\ [Next]_vars => (Typed /\ Settled)'
  BY NextTyped, NextSettled
<1>2. Settled => ToldIsKept
  BY DEF Settled
<1> QED BY <1>1, <1>2, InitTyped, InitSettled, PTL DEF Spec

(* When the clear has been made, a verdict on the host was recorded after   *)
(* the clear read the host (ClearInstallReport).                            *)
THEOREM ClearedIsGone == Spec => []OnlyLateReportsSurvive
<1>1. Typed /\ Settled /\ [Next]_vars => (Typed /\ Settled)'
  BY NextTyped, NextSettled
<1>2. Settled => OnlyLateReportsSurvive
  BY DEF Settled
<1> QED BY <1>1, <1>2, InitTyped, InitSettled, PTL DEF Spec
=============================================================================
