--------------------------- MODULE ListenerProofs ---------------------------
(***************************************************************************)
(* What the listener's two routes keep true, for any number of hosts,      *)
(* machines, addresses, disks and requests, whatever operators change and  *)
(* whichever call fails.                                                   *)
(***************************************************************************)
EXTENDS Listener, TLAPS

(* What is in use is there: the ref of a lookup, the run of a machine and  *)
(* the run of a request.                                                   *)
InUse ==
  /\ \A m \in Hosts : stage[m] = "found" => ref[m] \in HostRefs
  /\ \A m \in Hosts : stage[m] \in {"installing", "done"} => run[m] # 0
  /\ \A q \in Requests : request[q].at # "none" => request[q].run # 0

Typed == TypeOK /\ InUse

LEMMA MergeTypes ==
  ASSUME NEW old \in Annotations, NEW new \in Annotations, NEW live \in Annotations
  PROVE  MergePatch(old, new, live) \in Annotations
BY DEF MergePatch, Annotations

LEMMA ChangeTypes ==
  ASSUME NEW a \in Annotations
  PROVE  /\ WithoutReport(a) \in Annotations /\ WithStamp(a, 1) \in Annotations
         /\ \A ok \in BOOLEAN, r \in Nat : WithReport(a, ok, r) \in Annotations
BY DEF WithoutReport, WithStamp, WithReport, NoAnnotations, Annotations, Results

LEMMA InitTyped == Init => Typed
BY AddressAssumption, DeclaredAssumption
   DEF Init, ObjectInit, RouteInit, CallbackInit, Typed, InUse, TypeOK, ObjectTypeOK, RouteTypeOK,
       CallbackTypeOK, HostSpecs, Blank, Kickstarts, Annotations, NoAnnotations, Results, Stages,
       NoRef, NoRequest, RequestStates, Bodies, Steps

-----------------------------------------------------------------------------
(* One lemma for the steps of each kind of actor. *)

LEMMA OperatorTypes ==
  ASSUME Typed, NEW h \in Hosts, Operate(h)
  PROVE  Typed'
<1> USE DEF Typed, TypeOK, InUse, objectVars, routeVars, callbackVars, workerVars, historyVars
<1>1. \A d \in Declared[h] : d \in HostSpecs \X Kickstarts
  BY DeclaredAssumption
<1>2. RouteTypeOK' /\ CallbackTypeOK' /\ InUse'
  BY DEF Operate, Create, Delete, Edit, RouteTypeOK, CallbackTypeOK, RequestStates
<1>3. ObjectTypeOK'
  <2>1. NoAnnotations \in Annotations /\ Blank \in HostSpecs
    BY DEF NoAnnotations, Annotations, Results, Blank, HostSpecs
  <2>2. CASE CreateHost(h)
    BY <1>1, <2>1, <2>2 DEF CreateHost, ObjectTypeOK
  <2>3. CASE DeleteHost(h)
    BY <2>1, <2>3 DEF DeleteHost, ObjectTypeOK
  <2>4. CASE EditHost(h)
    BY <1>1, <2>1, <2>4 DEF EditHost, ObjectTypeOK
  <2> QED BY <2>2, <2>3, <2>4 DEF Operate, Create, Delete, Edit
<1>4. handled' \in [Hosts -> SUBSET Nat] /\ told' \in [Hosts -> Results]
  <2>1. Handled \subseteq Nat
    BY DEF Handled, CallbackTypeOK, RequestStates
  <2>2. "none" \in Results
    BY DEF Results
  <2> QED BY <2>1, <2>2 DEF Operate, Create, Delete, Edit
<1>5. /\ at' \in [Hosts -> Steps] /\ base' \in [Hosts -> Annotations]
      /\ calls' \in Nat /\ strays' \in Nat
      /\ reported' \in [Hosts -> BOOLEAN]
      /\ vouched' \in [Hosts -> {"no", "checking", "yes"}]
  BY DEF Operate, Create, Delete, Edit
<1> QED BY <1>2, <1>3, <1>4, <1>5

LEMMA WorkerTypes ==
  ASSUME Typed, NEW h \in Hosts, Begin(h)
  PROVE  Typed'
<1> USE DEF Typed, TypeOK, objectVars, routeVars, callbackVars, workerVars, historyVars,
            Goto, Drop, Steps
<1>1. notes' \in [Hosts -> Annotations]
  <2>1. CASE \/ ClearInstallReport(h) \/ MarkInstallStarted(h)
    BY <2>1, MergeTypes, ChangeTypes DEF ClearInstallReport, MarkInstallStarted, Patch, ObjectTypeOK
  <2> QED BY <2>1 DEF Begin, CallProvision, CheckInstallDisk, PowerDown, ReadForClear, ReadForMark,
                      PowerOn, EndCall, ObjectTypeOK
<1>2. ObjectTypeOK'
  BY <1>1 DEF Begin, CallProvision, CheckInstallDisk, PowerDown, ReadForClear, ClearInstallReport,
              ReadForMark, MarkInstallStarted, PowerOn, EndCall, ObjectTypeOK, NotesChanged
<1>3. RouteTypeOK' /\ InUse'
  <2> USE DEF RouteTypeOK, InUse, Stages
  <2>1. request' = request /\ runs' = runs
    BY DEF Begin, CallProvision, CheckInstallDisk, PowerDown, ReadForClear, ClearInstallReport,
           ReadForMark, MarkInstallStarted, PowerOn, EndCall, PowerOff, BootInstaller
  <2>2. CASE PowerOff(h)
    <3>1. Len(runs) \in Nat
      OBVIOUS
    <3> QED BY <2>1, <2>2, <3>1 DEF PowerOff
  <2>3. CASE BootInstaller(h)
    BY <2>1, <2>3 DEF BootInstaller
  <2>4. CASE UNCHANGED routeVars
    BY <2>1, <2>4
  <2> QED BY <2>2, <2>3, <2>4
             DEF Begin, CallProvision, CheckInstallDisk, PowerDown, ReadForClear,
                 ClearInstallReport, ReadForMark, MarkInstallStarted, PowerOn, EndCall
<1>4. CallbackTypeOK'
  <2>1. request' = request /\ posts' = posts /\ runs' = runs
    BY DEF Begin, CallProvision, CheckInstallDisk, PowerDown, ReadForClear, ClearInstallReport,
           ReadForMark, MarkInstallStarted, PowerOn, EndCall, PowerOff, BootInstaller
  <2> QED BY <2>1 DEF CallbackTypeOK, RequestStates
<1>5. /\ at' \in [Hosts -> Steps]
      /\ calls' \in Nat /\ strays' \in Nat
      /\ handled' \in [Hosts -> SUBSET Nat]
  BY DEF Begin, CallProvision, CheckInstallDisk, PowerDown, ReadForClear, ClearInstallReport,
         ReadForMark, MarkInstallStarted, PowerOn, EndCall
<1>6. base' \in [Hosts -> Annotations] /\ told' \in [Hosts -> Results]
  <2>1. NoAnnotations \in Annotations /\ "none" \in Results
    BY DEF NoAnnotations, Annotations, Results
  <2> QED BY <2>1 DEF Begin, CallProvision, CheckInstallDisk, PowerDown, ReadForClear,
                      ClearInstallReport, ReadForMark, MarkInstallStarted, PowerOn, EndCall,
                      ObjectTypeOK
<1>7. /\ vouched' \in [Hosts -> {"no", "checking", "yes"}]
      /\ reported' \in [Hosts -> BOOLEAN]
  BY DEF Begin, CallProvision, CheckInstallDisk, PowerDown, ReadForClear, ClearInstallReport,
         ReadForMark, MarkInstallStarted, PowerOn, EndCall
<1> QED BY <1>2, <1>3, <1>4, <1>5, <1>6, <1>7

LEMMA MachineTypes ==
  ASSUME Typed, NEW m \in Hosts, Machine(m) \/ StrayBoot(m)
  PROVE  Typed'
<1> USE DEF Typed, TypeOK, objectVars, routeVars, callbackVars, workerVars, historyVars
<1>1. ObjectTypeOK' /\ request' = request /\ posts' = posts
  BY DEF Machine, StrayBoot, ObjectTypeOK
<1>2. RouteTypeOK' /\ Len(runs) <= Len(runs)' /\ InUse'
  <2> USE DEF RouteTypeOK, InUse, Stages
  <2>1. CASE LookUp(m)
    <3>1. \A h \in FindHostsByMAC(AnacondaMACs(m)) : NewHostRef(h) \in HostRefs
      BY DEF FindHostsByMAC, NewHostRef, HostRefs, Present, ObjectTypeOK, HostSpecs
    <3>2. request' = request
      BY <1>1
    <3>3. FindHostsByMAC(AnacondaMACs(m)) \subseteq Hosts
      BY DEF FindHostsByMAC
    <3>4. CASE TurnAway(m) /\ UNCHANGED ref
      BY <2>1, <3>2, <3>4 DEF LookUp, TurnAway
    <3>5. ASSUME NEW h \in FindHostsByMAC(AnacondaMACs(m)),
                 stage' = [stage EXCEPT ![m] = "found"], ref' = [ref EXCEPT ![m] = NewHostRef(h)]
          PROVE  RouteTypeOK' /\ Len(runs) <= Len(runs)' /\ InUse'
      <4>1. NewHostRef(h) \in HostRefs
        BY <3>1
      <4>2. ref' \in [Hosts -> HostRefs \cup {NoRef}]
        BY <3>5, <4>1
      <4>3. \A g \in Hosts : stage'[g] = "found" => ref'[g] \in HostRefs
        BY <3>5, <4>1
      <4> QED BY <2>1, <3>2, <3>5, <4>2, <4>3 DEF LookUp
    <3> QED BY <2>1, <3>4, <3>5 DEF LookUp
  <2>2. CASE ServeKickstart(m)
    <3>1. ref[m] \in HostRefs
      BY <2>2 DEF ServeKickstart
    <3>2. CASE stage'[m] # "installing" \/ UNCHANGED <<run, runs>>
      BY <1>1, <2>2, <3>2 DEF ServeKickstart, TurnAway, StartRun
    <3>3. ASSUME NEW k \in {"plain", "templated"}, StartRun(m, k)
          PROVE  RouteTypeOK' /\ Len(runs) <= Len(runs)' /\ InUse'
      <4> DEFINE r == [machine |-> m, name |-> ref[m].name, uid |-> ref[m].uid,
                       disk |-> ref[m].disk, kickstart |-> k, outcome |-> "under_way"]
      <4>1. r \in Runs
        BY <3>1 DEF Runs, HostRefs, Outcomes
      <4>2. runs' = Append(runs, r)
        BY <3>3 DEF StartRun
      <4> HIDE DEF r
      <4>3. runs' \in Seq(Runs) /\ Len(runs') = Len(runs) + 1 /\ Len(runs) \in Nat
        BY <4>1, <4>2
      <4>4. run' = [run EXCEPT ![m] = Len(runs) + 1] /\ stage' = [stage EXCEPT ![m] = "installing"]
        BY <3>3 DEF StartRun
      <4>5. ref' = [ref EXCEPT ![m] = NoRef]
        BY <2>2 DEF ServeKickstart
      <4>6. run' \in [Hosts -> 0..Len(runs')]
        BY <4>3, <4>4
      <4> QED BY <1>1, <4>3, <4>4, <4>5, <4>6
    <3>4. HasKickstart(ref[m].name) => secret[ref[m].name] \in {"plain", "templated"}
      BY <3>1 DEF HasKickstart, HostRefs, ObjectTypeOK, Kickstarts
    <3> QED BY <2>2, <3>2, <3>3, <3>4 DEF ServeKickstart
  <2>3. CASE EndRun(m)
    <3>1. run[m] \in 1..Len(runs) /\ runs \in Seq(Runs) /\ Len(runs) \in Nat
      BY <2>3 DEF EndRun
    <3>2. PICK o \in {"installed", "failed"} : runs' = [runs EXCEPT ![run[m]].outcome = o]
      BY <2>3 DEF EndRun
    <3>3. runs[run[m]] \in Runs
      BY <3>1
    <3>6. [runs[run[m]] EXCEPT !.outcome = o] \in Runs
      BY <3>3 DEF Runs, Outcomes
    <3>4. runs' = [runs EXCEPT ![run[m]] = [runs[run[m]] EXCEPT !.outcome = o]]
      BY <3>2
    <3>5. runs' \in Seq(Runs) /\ Len(runs') = Len(runs)
      BY <3>1, <3>4, <3>6
    <3> QED BY <1>1, <2>3, <3>5 DEF EndRun
  <2>4. CASE StrayBoot(m)
    BY <1>1, <2>4 DEF StrayBoot, BootInstaller
  <2> QED BY <2>1, <2>2, <2>3, <2>4 DEF Machine
<1>3. CallbackTypeOK'
  <2>1. Len(runs) \in Nat /\ Len(runs)' \in Nat
    BY <1>2 DEF RouteTypeOK
  <2> QED BY <1>1, <1>2, <2>1 DEF CallbackTypeOK, RequestStates
<1>4. /\ at' \in [Hosts -> Steps] /\ base' \in [Hosts -> Annotations]
      /\ calls' \in Nat /\ strays' \in Nat
      /\ reported' \in [Hosts -> BOOLEAN] /\ told' \in [Hosts -> Results]
      /\ vouched' \in [Hosts -> {"no", "checking", "yes"}] /\ handled' \in [Hosts -> SUBSET Nat]
  BY DEF Machine, StrayBoot
<1> QED BY <1>1, <1>2, <1>3, <1>4

LEMMA TargetIsAHost ==
  ASSUME Typed, NEW q \in Requests, request[q].at # "none"
  PROVE  /\ request[q] \in RequestStates
         /\ request[q].run \in 1..Len(runs) /\ runs[request[q].run] \in Runs
         /\ Target(q) \in Hosts
<1>1. request[q] \in RequestStates /\ request[q].run # 0
  BY DEF Typed, TypeOK, CallbackTypeOK, InUse
<1>2. runs \in Seq(Runs) /\ Len(runs) \in Nat
  BY DEF Typed, TypeOK, RouteTypeOK
<1>3. request[q].run \in 1..Len(runs)
  BY <1>1, <1>2 DEF RequestStates
<1>4. runs[request[q].run] \in Runs
  BY <1>2, <1>3
<1> QED BY <1>1, <1>3, <1>4 DEF Target, Runs

LEMMA RequestTypes ==
  ASSUME Typed, NEW q \in Requests, Receive(q) \/ Record(q)
  PROVE  Typed'
<1> USE DEF Typed, TypeOK, objectVars, routeVars, callbackVars, workerVars, historyVars
<1>1. RouteTypeOK' /\ Len(runs)' = Len(runs) /\ Len(runs) \in Nat
  BY DEF Receive, Record, RouteTypeOK
<1>2. NoRequest \in RequestStates
  BY <1>1 DEF NoRequest, RequestStates, Bodies, NoAnnotations, Annotations, Results
<1>3. notes' \in [Hosts -> Annotations] /\ told' \in [Hosts -> Results]
  <2>1. CASE Receive(q)
    BY <2>1 DEF Receive, ObjectTypeOK
  <2>2. CASE Record(q)
    <3>1. request[q].at = "Write"
      BY <2>2 DEF Record, WriteInstallReport
    <3>2. request[q] \in RequestStates /\ Target(q) \in Hosts
      BY <3>1, TargetIsAHost
    <3>3. Report(q) \in Annotations
      <4>1. request[q].base \in Annotations /\ request[q].run \in Nat
        BY <1>1, <3>2 DEF RequestStates
      <4>2. ParseInstallReport(request[q].body) \in BOOLEAN
        BY DEF ParseInstallReport
      <4> QED BY <4>1, <4>2, ChangeTypes DEF Report
    <3>4. Report(q).result \in Results /\ "none" \in Results
      BY <3>3 DEF Annotations, Results
    <3>5. request[q].base \in Annotations
      BY <3>2 DEF RequestStates
    <3>6. notes' \in [Hosts -> Annotations]
      BY <2>2, <3>2, <3>3, <3>5, MergeTypes DEF Record, WriteInstallReport, Patch, ObjectTypeOK
    <3> QED BY <2>2, <3>2, <3>4, <3>6 DEF Record, Recorded
  <2> QED BY <2>1, <2>2
<1>4. ObjectTypeOK'
  BY <1>3 DEF Receive, Record, ObjectTypeOK, WriteInstallReport, NotesChanged
<1>5. CallbackTypeOK' /\ InUse'
  <2> USE DEF CallbackTypeOK, InUse
  <2>1. /\ RequestStates' = RequestStates
        /\ \A m \in Hosts : stage'[m] = stage[m] /\ run'[m] = run[m] /\ ref'[m] = ref[m]
        /\ HostRefs' = HostRefs
    BY <1>1 DEF RequestStates, Receive, Record, HostRefs
  <2>2. ASSUME NEW m \in Hosts, Post(m, q)
        PROVE  CallbackTypeOK' /\ InUse'
    BY <1>1, <2>1, <2>2
       DEF Post, RequestStates, RouteTypeOK, NoAnnotations, Annotations, Results
  <2>3. CASE CheckHostUID(q) \/ ReadReport(q)
    <3>1. request[q].at # "none"
      BY <2>3 DEF CheckHostUID, ReadReport
    <3>2. request[q] \in RequestStates /\ Target(q) \in Hosts
      BY <3>1, TargetIsAHost
    <3>3. notes[Target(q)] \in Annotations
      BY <3>2 DEF ObjectTypeOK
    <3>4. PICK r \in RequestStates :
            request' = [request EXCEPT ![q] = r] /\ (r.at # "none" => r.run # 0)
      <4>1. CASE Answer(q)
        BY <1>2, <4>1 DEF Answer, NoRequest
      <4>2. CASE request' = [request EXCEPT ![q].at = "Read"]
        <5>1. [request[q] EXCEPT !.at = "Read"] \in RequestStates
          BY <3>2 DEF RequestStates
        <5>2. request' = [request EXCEPT ![q] = [request[q] EXCEPT !.at = "Read"]]
          BY <4>2
        <5>3. [request[q] EXCEPT !.at = "Read"].run # 0
          BY <3>1, <3>2 DEF RequestStates
        <5> QED BY <5>1, <5>2, <5>3
      <4>3. CASE request' = [request EXCEPT ![q].at = "Write", ![q].base = notes[Target(q)]]
        <5>1. [request[q] EXCEPT !.at = "Write", !.base = notes[Target(q)]] \in RequestStates
          BY <3>2, <3>3 DEF RequestStates
        <5>2. request' = [request EXCEPT ![q] = [request[q] EXCEPT !.at = "Write", !.base = notes[Target(q)]]]
          BY <4>3
        <5>3. [request[q] EXCEPT !.at = "Write", !.base = notes[Target(q)]].run # 0
          BY <3>1, <3>2 DEF RequestStates
        <5> QED BY <5>1, <5>2, <5>3
      <4> QED BY <2>3, <4>1, <4>2, <4>3 DEF CheckHostUID, ReadReport
    <3> QED BY <1>1, <2>1, <2>3, <3>4 DEF CheckHostUID, ReadReport
  <2>4. CASE Record(q)
    BY <1>2, <2>1, <2>4 DEF Record, WriteInstallReport, Answer, NoRequest
  <2> QED BY <2>2, <2>3, <2>4 DEF Receive
<1>6. /\ at' \in [Hosts -> Steps] /\ base' \in [Hosts -> Annotations]
      /\ calls' \in Nat /\ strays' \in Nat /\ handled' \in [Hosts -> SUBSET Nat]
  BY DEF Receive, Record
<1>7. /\ reported' \in [Hosts -> BOOLEAN]
      /\ vouched' \in [Hosts -> {"no", "checking", "yes"}]
  BY DEF Receive, Record
<1> QED BY <1>1, <1>3, <1>4, <1>5, <1>6, <1>7

LEMMA NextTyped ==
  ASSUME Typed, [Next]_vars
  PROVE  Typed'
<1>1. CASE UNCHANGED vars
  BY <1>1 DEF Typed, TypeOK, InUse, ObjectTypeOK, RouteTypeOK, CallbackTypeOK, RequestStates,
              HostRefs, vars, objectVars, routeVars, callbackVars, workerVars, historyVars
<1> QED BY <1>1, OperatorTypes, WorkerTypes, MachineTypes, RequestTypes DEF Next

(* The types of the hosts, the routes and the workers hold for every number *)
(* of each.                                                                 *)
THEOREM ListenerTypes == Spec => []TypeOK
<1>1. Typed => TypeOK
  BY DEF Typed
<1>2. Typed /\ [Next]_vars => Typed'
  BY NextTyped
<1> QED BY <1>1, <1>2, InitTyped, PTL DEF Spec

-----------------------------------------------------------------------------
(* What every step leaves of the runs. *)

LEMMA RunsKept ==
  ASSUME Typed, [Next]_vars
  PROVE  /\ Len(runs) \in Nat /\ Len(runs)' \in Nat /\ Len(runs) <= Len(runs)'
         /\ \A i \in 1..Len(runs) :
              /\ runs'[i].machine = runs[i].machine /\ runs'[i].name = runs[i].name
              /\ runs'[i].uid = runs[i].uid /\ runs'[i].disk = runs[i].disk
              /\ runs'[i].kickstart = runs[i].kickstart
<1>1. runs \in Seq(Runs) /\ Len(runs) \in Nat
  BY DEF Typed, TypeOK, RouteTypeOK
<1>2. CASE runs' = runs
  BY <1>1, <1>2
<1>3. ASSUME NEW m \in Hosts, NEW k, StartRun(m, k)
      PROVE  /\ Len(runs') = Len(runs) + 1
             /\ \A i \in 1..Len(runs) : runs'[i] = runs[i]
  BY <1>1, <1>3 DEF StartRun
<1>4. ASSUME NEW m \in Hosts, EndRun(m)
      PROVE  /\ Len(runs') = Len(runs)
             /\ \A i \in 1..Len(runs) :
                  \E o \in {"installed", "failed"} :
                    runs'[i] = IF i = run[m] THEN [runs[i] EXCEPT !.outcome = o] ELSE runs[i]
  <2>1. run[m] \in 1..Len(runs)
    BY <1>1, <1>4 DEF EndRun, Typed, TypeOK, RouteTypeOK, InUse
  <2>2. PICK o \in {"installed", "failed"} : runs' = [runs EXCEPT ![run[m]].outcome = o]
    BY <1>4 DEF EndRun
  <2>3. runs' = [runs EXCEPT ![run[m]] = [runs[run[m]] EXCEPT !.outcome = o]]
    BY <2>2
  <2> QED BY <1>1, <2>1, <2>3
<1>5. ASSUME NEW m \in Hosts, EndRun(m), NEW i \in 1..Len(runs)
      PROVE  /\ runs'[i].machine = runs[i].machine /\ runs'[i].name = runs[i].name
             /\ runs'[i].uid = runs[i].uid /\ runs'[i].disk = runs[i].disk
             /\ runs'[i].kickstart = runs[i].kickstart
  <2>1. PICK o \in {"installed", "failed"} :
          runs'[i] = IF i = run[m] THEN [runs[i] EXCEPT !.outcome = o] ELSE runs[i]
    BY <1>4, <1>5
  <2>2. runs[i] \in Runs
    BY <1>1
  <2> QED BY <2>1, <2>2 DEF Runs
<1>6. ASSUME NEW m \in Hosts, ServeKickstart(m)
      PROVE  runs' = runs \/ \E k \in Kickstarts : StartRun(m, k)
  <2>1. HasKickstart(ref[m].name) => secret[ref[m].name] \in Kickstarts
    BY <1>6 DEF ServeKickstart, Typed, TypeOK, ObjectTypeOK, InUse, HostRefs
  <2> QED BY <1>6, <2>1 DEF ServeKickstart
<1>7. \/ runs' = runs
      \/ \E m \in Hosts : EndRun(m) \/ ServeKickstart(m)
  BY DEF Next, vars, Operate, Create, Delete, Edit, Begin, CallProvision, CheckInstallDisk,
         PowerDown, ReadForClear, ClearInstallReport, ReadForMark, MarkInstallStarted, PowerOn,
         EndCall, PowerOff, BootInstaller, Machine, StrayBoot, LookUp, Receive, Record, routeVars
<1> QED BY <1>1, <1>2, <1>3, <1>4, <1>5, <1>6, <1>7

-----------------------------------------------------------------------------
(***************************************************************************)
(* Who is wiped.  A ref is the spec its host had when it was looked up,    *)
(* and claims remembers that spec however often the host is edited or      *)
(* created anew before the Secret is read.                                 *)
(***************************************************************************)
Claimed(u, disk, m) ==
  \E c \in claims : c[1] = u /\ c[2].disk = disk /\ c[2].mac \in MACsOf[m]

Declares ==
  /\ \A h \in Hosts : Present(h) => <<uid[h], spec[h]>> \in claims
  /\ \A m \in Hosts : stage[m] = "found" => Claimed(ref[m].uid, ref[m].disk, m)
  /\ OnlyDeclaredAreWiped

LEMMA InitDeclares == Init => Declares
BY DEF Init, ObjectInit, RouteInit, Declares, OnlyDeclaredAreWiped, Present

LEMMA NextDeclares ==
  ASSUME Typed, Declares, [Next]_vars
  PROVE  Declares'
<1>1. claims \subseteq claims'
  BY DEF Next, vars, objectVars, Operate, Create, Delete, Edit, CreateHost, DeleteHost, EditHost,
         Begin, CallProvision, CheckInstallDisk, PowerDown, ReadForClear, ClearInstallReport,
         ReadForMark, MarkInstallStarted, PowerOn, EndCall, Machine, StrayBoot, Receive, Record,
         WriteInstallReport, NotesChanged
<1>2. \A h \in Hosts : Present(h)' => <<uid'[h], spec'[h]>> \in claims'
  <2>1. CASE UNCHANGED <<uid, spec, claims>>
    BY <2>1 DEF Declares, Present
  <2>2. ASSUME NEW g \in Hosts, Operate(g)
        PROVE  \A h \in Hosts : Present(h)' => <<uid'[h], spec'[h]>> \in claims'
    <3> USE DEF Declares, Present, Typed, TypeOK, ObjectTypeOK
    <3>1. CASE CreateHost(g)
      <4>1. PICK d \in Declared[g] :
              spec' = [spec EXCEPT ![g] = d[1]] /\ claims' = claims \cup {<<created + 1, d[1]>>}
        BY <3>1 DEF CreateHost
      <4>2. uid' = [uid EXCEPT ![g] = created + 1]
        BY <3>1 DEF CreateHost
      <4> QED BY <4>1, <4>2
    <3>2. CASE DeleteHost(g)
      BY <3>2 DEF DeleteHost
    <3>3. CASE EditHost(g)
      <4>1. PICK d \in Declared[g] :
              spec' = [spec EXCEPT ![g] = d[1]] /\ claims' = claims \cup {<<uid[g], d[1]>>}
        BY <3>3 DEF EditHost
      <4>2. uid' = uid
        BY <3>3 DEF EditHost
      <4> QED BY <4>1, <4>2
    <3> QED BY <2>2, <3>1, <3>2, <3>3 DEF Operate, Create, Delete, Edit
  <2> QED BY <2>1, <2>2
          DEF Next, vars, objectVars, Begin, CallProvision, CheckInstallDisk, PowerDown,
              ReadForClear, ClearInstallReport, ReadForMark, MarkInstallStarted, PowerOn, EndCall,
              Machine, StrayBoot, Receive, Record, WriteInstallReport, NotesChanged
<1>3. \A m \in Hosts : (stage'[m] = "found" => Claimed(ref[m].uid, ref[m].disk, m)')
  <2>1. ASSUME NEW m \in Hosts, stage'[m] = "found", stage[m] = "found", ref'[m] = ref[m]
        PROVE  Claimed(ref[m].uid, ref[m].disk, m)'
    BY <1>1, <2>1 DEF Declares, Claimed
  <2>2. ASSUME NEW m \in Hosts, LookUp(m), stage'[m] = "found"
        PROVE  Claimed(ref[m].uid, ref[m].disk, m)'
    <3>1. PICK h \in FindHostsByMAC(AnacondaMACs(m)) : ref' = [ref EXCEPT ![m] = NewHostRef(h)]
      BY <2>2 DEF LookUp, TurnAway, Typed, TypeOK, RouteTypeOK
    <3>2. h \in Hosts /\ Present(h) /\ spec[h].mac \in MACsOf[m]
      BY DEF FindHostsByMAC, AnacondaMACs
    <3>3. <<uid[h], spec[h]>> \in claims
      BY <3>2 DEF Declares
    <3>4. ref'[m].uid = uid[h] /\ ref'[m].disk = spec[h].disk
      BY <3>1 DEF NewHostRef, Typed, TypeOK, RouteTypeOK
    <3> QED BY <1>1, <3>2, <3>3, <3>4 DEF Claimed
  <2>3. \A m \in Hosts : stage'[m] = "found" => LookUp(m) \/ (stage[m] = "found" /\ ref'[m] = ref[m])
    <3> USE DEF Typed, TypeOK, RouteTypeOK
    <3>1. ASSUME NEW g \in Hosts, PowerOff(g) \/ BootInstaller(g), NEW m \in Hosts, stage'[m] = "found"
          PROVE  stage[m] = "found" /\ ref'[m] = ref[m]
      BY <3>1 DEF PowerOff, BootInstaller
    <3>2. ASSUME NEW g \in Hosts, Machine(g), NEW m \in Hosts, stage'[m] = "found"
          PROVE  LookUp(m) \/ (stage[m] = "found" /\ ref'[m] = ref[m])
      BY <3>2 DEF Machine, LookUp, TurnAway, ServeKickstart, StartRun, EndRun
    <3>3. CASE UNCHANGED <<stage, ref>>
      BY <3>3
    <3> QED BY <3>1, <3>2, <3>3
            DEF Next, vars, routeVars, Operate, Create, Delete, Edit, Begin, CallProvision,
                CheckInstallDisk, PowerDown, ReadForClear, ClearInstallReport, ReadForMark,
                MarkInstallStarted, PowerOn, EndCall, StrayBoot, Receive, Record
  <2> QED BY <2>1, <2>2, <2>3
<1>4. OnlyDeclaredAreWiped'
  <2>1. ASSUME NEW i \in 1..Len(runs)
        PROVE  \E c \in claims' :
                 /\ c[1] = runs'[i].uid /\ c[2].disk = runs'[i].disk
                 /\ c[2].mac \in MACsOf[runs'[i].machine]
                 /\ runs'[i].kickstart = "templated" => runs'[i].disk # NoDisk
    BY <1>1, RunsKept DEF Declares, OnlyDeclaredAreWiped
  <2>2. ASSUME NEW m \in Hosts, ServeKickstart(m), NEW i \in 1..Len(runs'), i \notin 1..Len(runs)
        PROVE  \E c \in claims' :
                 /\ c[1] = runs'[i].uid /\ c[2].disk = runs'[i].disk
                 /\ c[2].mac \in MACsOf[runs'[i].machine]
                 /\ runs'[i].kickstart = "templated" => runs'[i].disk # NoDisk
    <3>1. Renderable(secret[ref[m].name], ref[m].disk) /\ StartRun(m, secret[ref[m].name])
      BY <2>2 DEF ServeKickstart
    <3>2. /\ runs'[i].machine = m /\ runs'[i].uid = ref[m].uid /\ runs'[i].disk = ref[m].disk
          /\ runs'[i].kickstart = secret[ref[m].name]
      BY <2>2, <3>1 DEF StartRun, Typed, TypeOK, RouteTypeOK
    <3>3. Claimed(ref[m].uid, ref[m].disk, m)
      BY <2>2 DEF ServeKickstart, Declares
    <3>4. secret[ref[m].name] = "templated" => ref[m].disk # NoDisk
      BY <3>1 DEF Renderable
    <3> QED BY <1>1, <3>2, <3>3, <3>4 DEF Claimed
  <2>3. Len(runs') = Len(runs) \/ \E m \in Hosts : ServeKickstart(m)
    <3>1. \A m \in Hosts : EndRun(m) => Len(runs') = Len(runs)
      BY DEF EndRun, Typed, TypeOK, RouteTypeOK
    <3> QED BY <3>1
            DEF Next, vars, Operate, Create, Delete, Edit, Begin, CallProvision, CheckInstallDisk,
                PowerDown, ReadForClear, ClearInstallReport, ReadForMark, MarkInstallStarted,
                PowerOn, EndCall, PowerOff, BootInstaller, Machine, StrayBoot, LookUp, Receive,
                Record, routeVars
  <2> QED BY <2>1, <2>2, <2>3 DEF OnlyDeclaredAreWiped
<1> QED BY <1>2, <1>3, <1>4 DEF Declares

(* Whatever operators do while a kickstart request is answered, a machine   *)
(* is wiped only under a host that declared one of its addresses together   *)
(* with the disk that is wiped (HandleKickstart).                           *)
THEOREM DeclaredAreWiped == Spec => []OnlyDeclaredAreWiped
<1>1. Typed /\ Declares /\ [Next]_vars => (Typed /\ Declares)'
  BY NextTyped, NextDeclares
<1>2. Declares => OnlyDeclaredAreWiped
  BY DEF Declares
<1> QED BY <1>1, <1>2, InitTyped, InitDeclares, PTL DEF Spec

-----------------------------------------------------------------------------
(***************************************************************************)
(* Who is served.  While nothing is changed, what BeginInstall checked is  *)
(* what the route finds: the only host with one of the machine's           *)
(* addresses, its kickstart and its disk.                                  *)
(***************************************************************************)
Vouched ==
  /\ \A m \in Hosts : stage[m] \notin {"installing", "done"} => run[m] = 0
  /\ \A h \in Hosts : vouched[h] # "no" => Present(h) /\ HasKickstart(h)
  /\ \A h \in Hosts :
       vouched[h] = "checking" /\ at[h] \notin {"idle", "HostInstallDisk"} => HostInstallDisk(h)
  /\ \A h \in Hosts : vouched[h] = "yes" => HostInstallDisk(h)
  /\ \A h \in Hosts :
       vouched[h] = "yes" /\ OwnsItsMachine(h) /\ stage[h] = "found" => ref[h] = NewHostRef(h)
  /\ VouchedIsServed

LEMMA InitVouched == Init => Vouched
BY DEF Init, RouteInit, Vouched, VouchedIsServed

LEMMA NextVouched ==
  ASSUME Typed, Vouched, [Next]_vars
  PROVE  Vouched'
<1> USE DEF Typed, TypeOK, ObjectTypeOK, RouteTypeOK
<1>1. \A m \in Hosts : stage'[m] \notin {"installing", "done"} => run'[m] = 0
  <2>1. ASSUME NEW g \in Hosts,
               PowerOff(g) \/ BootInstaller(g) \/ LookUp(g) \/ ServeKickstart(g) \/ EndRun(g)
        PROVE  \A m \in Hosts : stage'[m] \notin {"installing", "done"} => run'[m] = 0
    BY <2>1 DEF PowerOff, BootInstaller, LookUp, TurnAway, ServeKickstart, StartRun, EndRun, Vouched
  <2>2. CASE UNCHANGED routeVars
    BY <2>2 DEF routeVars, Vouched
  <2> QED BY <2>1, <2>2
          DEF Next, vars, Operate, Create, Delete, Edit, Begin, CallProvision, CheckInstallDisk,
              PowerDown, ReadForClear, ClearInstallReport, ReadForMark, MarkInstallStarted,
              PowerOn, EndCall, Machine, StrayBoot, Receive, Record
<1>2. ASSUME NEW h \in Hosts, vouched'[h] # "no"
      PROVE  /\ UNCHANGED <<uid, spec, secret>>
             /\ vouched[h] # "no" \/ CallProvision(h)
  <2>1. ASSUME NEW g \in Hosts, Operate(g)
        PROVE  vouched'[h] = "no"
    BY <2>1 DEF Operate, Create, Delete, Edit
  <2> QED BY <1>2, <2>1
          DEF Next, vars, objectVars, historyVars, Begin, CallProvision, CheckInstallDisk,
              PowerDown, ReadForClear, ClearInstallReport, ReadForMark, MarkInstallStarted,
              PowerOn, EndCall, Machine, StrayBoot, Receive, Record, WriteInstallReport, NotesChanged
<1>3. ASSUME NEW h \in Hosts, vouched'[h] # "no"
      PROVE  Present(h)' /\ HasKickstart(h)'
  BY <1>2, <1>3 DEF Vouched, Present, HasKickstart, CallProvision
<1>4. ASSUME NEW h \in Hosts, vouched'[h] = "checking", at'[h] \notin {"idle", "HostInstallDisk"}
      PROVE  HostInstallDisk(h)'
  <2>1. UNCHANGED <<uid, spec, secret>>
    BY <1>2, <1>4
  <2>2. HostInstallDisk(h)' = HostInstallDisk(h)
    BY <2>1 DEF HostInstallDisk
  <2>3. CASE vouched[h] = "checking" /\ at'[h] = at[h]
    BY <1>4, <2>2, <2>3 DEF Vouched
  <2>4. CASE Begin(h)
    BY <1>4, <2>2, <2>4
       DEF Begin, CallProvision, CheckInstallDisk, PowerDown, ReadForClear, ClearInstallReport,
           ReadForMark, MarkInstallStarted, PowerOn, EndCall, Goto, historyVars, Vouched
  <2>5. ASSUME NEW g \in Hosts, g # h, Begin(g)
        PROVE  vouched'[h] = vouched[h] /\ at'[h] = at[h]
    BY <2>5
       DEF Begin, CallProvision, CheckInstallDisk, PowerDown, ReadForClear, ClearInstallReport,
           ReadForMark, MarkInstallStarted, PowerOn, EndCall, Goto, historyVars
  <2>6. ASSUME NEW g \in Hosts, Operate(g)
        PROVE  FALSE
    BY <1>4, <2>6 DEF Operate, Create, Delete, Edit
  <2>7. CASE UNCHANGED <<at, vouched>>
    BY <1>4, <2>3, <2>7
  <2> QED BY <1>4, <2>3, <2>4, <2>5, <2>6, <2>7
          DEF Next, vars, workerVars, historyVars, Machine, StrayBoot, Receive, Record
<1>5. ASSUME NEW h \in Hosts, vouched'[h] = "yes"
      PROVE  /\ HostInstallDisk(h)' /\ HostInstallDisk(h)
             /\ vouched[h] = "yes" \/ (PowerOn(h) /\ BootInstaller(h) /\ stage[h] = "off")
  <2>1. HostInstallDisk(h)' = HostInstallDisk(h)
    BY <1>2, <1>5 DEF HostInstallDisk
  <2>2. \/ vouched[h] = "yes"
        \/ /\ PowerOn(h) /\ BootInstaller(h) /\ stage[h] = "off"
           /\ vouched[h] = "checking"
    <3>1. ASSUME NEW g \in Hosts, Operate(g)
          PROVE  FALSE
      BY <1>5, <3>1 DEF Operate, Create, Delete, Edit
    <3>2. ASSUME NEW g \in Hosts, Begin(g)
          PROVE  \/ vouched[h] = "yes"
                 \/ /\ PowerOn(h) /\ BootInstaller(h) /\ stage[h] = "off"
                    /\ vouched[h] = "checking"
      BY <1>5, <3>2
         DEF Begin, CallProvision, CheckInstallDisk, PowerDown, ReadForClear, ClearInstallReport,
             ReadForMark, MarkInstallStarted, PowerOn, EndCall, historyVars
    <3> QED BY <1>5, <3>1, <3>2
            DEF Next, vars, historyVars, Machine, StrayBoot, Receive, Record
  <2>3. HostInstallDisk(h)
    BY <2>2 DEF Vouched, PowerOn
  <2> QED BY <2>1, <2>2, <2>3
<1>6. ASSUME NEW h \in Hosts, vouched'[h] = "yes", OwnsItsMachine(h)'
      PROVE  /\ stage'[h] = "found" => ref'[h] = NewHostRef(h)'
             /\ stage'[h] # "turned_away"
             /\ run'[h] # 0 => runs'[run'[h]].uid = uid'[h] /\ runs'[run'[h]].disk = spec'[h].disk
  <2>1. UNCHANGED <<uid, spec, secret>> /\ Present(h) /\ HasKickstart(h) /\ spec[h].disk # NoDisk
    BY <1>2, <1>3, <1>5, <1>6 DEF Present, HasKickstart, HostInstallDisk
  <2>2. OwnsItsMachine(h) /\ NewHostRef(h)' = NewHostRef(h)
    BY <1>6, <2>1 DEF OwnsItsMachine, Present, NewHostRef
  <2>3. CASE PowerOn(h) /\ BootInstaller(h) /\ stage[h] = "off"
    <3>1. stage'[h] = "fetching" /\ run'[h] = 0
      BY <2>3 DEF BootInstaller, Vouched
    <3> QED BY <3>1
  <2>4. CASE vouched[h] = "yes"
    <3>1. /\ stage[h] = "found" => ref[h] = NewHostRef(h)
          /\ stage[h] # "turned_away"
          /\ run[h] # 0 => runs[run[h]].uid = uid[h] /\ runs[run[h]].disk = spec[h].disk
      BY <2>2, <2>4 DEF Vouched, VouchedIsServed, Ran
    <3>2. run[h] # 0 => runs'[run[h]].uid = runs[run[h]].uid /\ runs'[run[h]].disk = runs[run[h]].disk
      <4>1. run[h] \in 0..Len(runs)
        OBVIOUS
      <4> QED BY <4>1, RunsKept
    <3>3. CASE stage'[h] = stage[h] /\ ref'[h] = ref[h] /\ run'[h] = run[h]
      BY <2>1, <2>2, <3>1, <3>2, <3>3
    <3>4. CASE PowerOff(h) \/ BootInstaller(h)
      BY <2>1, <3>1, <3>2, <3>4 DEF PowerOff, BootInstaller
    <3>5. CASE LookUp(h)
      <4>1. FindHostsByMAC(AnacondaMACs(h)) = {h}
        BY <2>2 DEF OwnsItsMachine, FindHostsByMAC, AnacondaMACs
      <4>2. stage'[h] = "found" /\ ref'[h] = NewHostRef(h) /\ run' = run
        BY <3>5, <4>1 DEF LookUp
      <4> QED BY <2>1, <2>2, <3>1, <3>2, <4>2
    <3>6. CASE ServeKickstart(h)
      <4>1. ref[h] = NewHostRef(h)
        BY <3>1, <3>6 DEF ServeKickstart
      <4>2. ref[h].name = h /\ ref[h].uid = uid[h] /\ ref[h].disk = spec[h].disk
        BY <4>1 DEF NewHostRef
      <4>3. HasKickstart(ref[h].name) /\ Renderable(secret[ref[h].name], ref[h].disk)
        BY <2>1, <4>2 DEF Renderable
      <4>4. CASE stage'[h] = "fetching" /\ UNCHANGED <<run, runs>>
        BY <2>1, <3>1, <4>4
      <4>5. CASE StartRun(h, secret[ref[h].name])
        <5>1. runs \in Seq(Runs) /\ Len(runs) \in Nat
          OBVIOUS
        <5>2. /\ run'[h] = Len(runs) + 1 /\ stage'[h] = "installing"
              /\ runs'[Len(runs) + 1].uid = ref[h].uid /\ runs'[Len(runs) + 1].disk = ref[h].disk
          BY <4>5, <5>1 DEF StartRun
        <5> QED BY <2>1, <4>2, <5>2
      <4> QED BY <3>6, <4>3, <4>4, <4>5 DEF ServeKickstart
    <3>7. CASE EndRun(h)
      BY <2>1, <3>1, <3>2, <3>7 DEF EndRun
    <3>8. ASSUME NEW g \in Hosts, g # h,
                 PowerOff(g) \/ BootInstaller(g) \/ LookUp(g) \/ ServeKickstart(g) \/ EndRun(g)
          PROVE  stage'[h] = stage[h] /\ ref'[h] = ref[h] /\ run'[h] = run[h]
      BY <3>8 DEF PowerOff, BootInstaller, LookUp, TurnAway, ServeKickstart, StartRun, EndRun
    <3>9. CASE UNCHANGED routeVars
      BY <3>3, <3>9 DEF routeVars
    <3> QED BY <3>3, <3>4, <3>5, <3>6, <3>7, <3>8, <3>9
            DEF Next, vars, Operate, Create, Delete, Edit, Begin, CallProvision,
                CheckInstallDisk, PowerDown, ReadForClear, ClearInstallReport, ReadForMark,
                MarkInstallStarted, PowerOn, EndCall, Machine, StrayBoot, Receive, Record
  <2> QED BY <1>5, <1>6, <2>3, <2>4
<1> QED BY <1>1, <1>3, <1>4, <1>5, <1>6 DEF Vouched, VouchedIsServed, Ran

(* A machine that BeginInstall powered on is given its own host's kickstart *)
(* with its host's disk and is not turned away, while no operator changes   *)
(* anything and the boot MAC is right and the host's alone.                 *)
THEOREM CheckedIsServed == Spec => []VouchedIsServed
<1>1. Typed /\ Vouched /\ [Next]_vars => (Typed /\ Vouched)'
  BY NextTyped, NextVouched
<1>2. Vouched => VouchedIsServed
  BY DEF Vouched
<1> QED BY <1>1, <1>2, InitTyped, InitVouched, PTL DEF Spec
=============================================================================
