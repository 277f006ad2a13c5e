-------------------------- MODULE LifecycleProofs ---------------------------
(***************************************************************************)
(* What holds of a host from its creation to its deletion, for any number  *)
(* of systems behind its BMC, any addresses and environments, and any      *)
(* number of edits, faults and moves.                                      *)
(***************************************************************************)
EXTENDS HostLifecycle, TLAPS

LEMMA ReachedIsInstalled ==
  ASSUME NEW address, NEW password_
  PROVE  /\ WithSystem(address, password_) \subseteq installed
         /\ \A s \in WithSystem(address, password_) :
              address.system = s \/ (address.system = NoSystem /\ installed = {s})
BY DEF WithSystem, System, ParseRedfishAddress, NoConn

LEMMA LoadedTypes ==
  ASSUME NEW env \in Environments
  PROVE  LoadConfig(env) \in [listen : Listen, base : Bases, timeout : Nat \ {0}]
<1>1. env \in [listen : Listen, base : {"", "dialable"}, timeout : Int]
  BY EnvironmentsAssumption
<1>2. EnvDuration(env.timeout, DefaultInstallTimeout) \in Nat \ {0}
  <2>1. env.timeout \in Int /\ DefaultInstallTimeout \in Nat /\ DefaultInstallTimeout # 0
    BY <1>1, EnvironmentsAssumption
  <2> QED BY <2>1 DEF EnvDuration
<1>3. BaseURLFor(env.listen) \in Bases
  BY <1>1 DEF BaseURLFor, Listen, Bases
<1> QED
  BY <1>1, <1>2, <1>3 DEF LoadConfig, Bases

LEMMA NewStatusType == NewStatus \in Statuses
BY DEF NewStatus, Statuses, States, Images, Volumes, Firmware, NoUID, None

LEMMA InitTypes == Init => TypeOK
<1> SUFFICES ASSUME Init PROVE TypeOK
  OBVIOUS
<1>1. BMCTypeOK
  BY AddressesAssumption DEF Init, BMCInit, BMCTypeOK
<1>2. PluginTypeOK
  BY LoadedTypes, Zenon DEF Init, PluginInit, PluginTypeOK, EnabledBy, Enabled, Start
<1>3. status \in Statuses
  BY NewStatusType DEF Init, Statuses
<1>4. meant \subseteq Systems
  <2>1. spec.address \in Addresses
    BY DEF Init, Specs
  <2> QED BY <2>1, AddressesAssumption DEF Init, Means, BMCInit
<1> QED
  BY <1>1, <1>2, <1>3, <1>4 DEF Init, TypeOK, Hosts, Specs, None

-----------------------------------------------------------------------------
(* What operators do. *)
LEMMA OperatorTypes ==
  ASSUME TypeOK, Operate
  PROVE  TypeOK'
<1> USE DEF TypeOK, bmcVars, pluginVars, hostVars, passVars, historyVars
<1>1. PluginTypeOK'
  BY DEF Operate, EditSpec, EditAddress, Rotate, Refresh, PressButton, Delete, Move, Create, PluginTypeOK
<1>2. counts' \in [uids : Nat, edits : Nat, faults : Nat]
  BY DEF Operate, EditSpec, EditAddress, Rotate, Refresh, PressButton, Delete, Move, Create, Edits, NextUID
<1>3. Means(spec'.address) \subseteq Systems /\ Means(spec.address) \subseteq Systems
  BY AddressesAssumption DEF Means, Specs, BMCTypeOK, Operate, EditSpec, EditAddress, Rotate, Refresh,
                             PressButton, Delete, Move, Create
<1>4. CASE EditSpec
  BY <1>1, <1>2, <1>4 DEF EditSpec, Specs, BMCTypeOK
<1>5. CASE EditAddress
  BY <1>1, <1>2, <1>3, <1>5 DEF EditAddress, Specs, BMCTypeOK
<1>6. CASE Rotate
  BY <1>1, <1>2, <1>6 DEF Rotate, BMCTypeOK
<1>7. CASE Refresh \/ Delete \/ Move
  <2>1. counts.uids + 1 \in Nat
    OBVIOUS
  <2>2. host' \in Hosts
    BY <1>7, <2>1 DEF Refresh, Delete, Move, Hosts
  <2> QED BY <1>1, <1>2, <1>7, <2>2 DEF Refresh, Delete, Move, BMCTypeOK
<1>8. CASE PressButton
  BY <1>1, <1>2, <1>8 DEF PressButton, BMCTypeOK
<1>9. CASE Create
  BY <1>1, <1>2, <1>3, <1>9, NewStatusType DEF Create, Hosts, BMCTypeOK, None
<1> QED BY <1>4, <1>5, <1>6, <1>7, <1>8, <1>9 DEF Operate

-----------------------------------------------------------------------------
(* What a pass may do to the BMC, whichever state it handles: the power and *)
(* the media of a system it reaches, and nothing else.                      *)
Touches ==
  /\ UNCHANGED <<installed, bmc, password, meant, probed>>
  /\ \E on \in BOOLEAN :
       \/ \E s \in Reached : power' = [power EXCEPT ![s] = on]
       \/ power' = power
  /\ touched' \subseteq touched \cup Reached

LEMMA HandleTouches ==
  ASSUME TypeOK, Handle
  PROVE  Touches
<1> USE DEF Touches, NoPower, bmcVars, historyVars
<1>1. CASE NoPower
  BY <1>1
<1>2. ASSUME NEW s \in Reached, NEW on \in BOOLEAN, SetPower(s, on)
      PROVE  Touches
  BY <1>2 DEF SetPower
<1>3. ASSUME NEW s \in Reached, Boots(s)
      PROVE  Touches
  BY <1>3 DEF Boots
<1>4. ASSUME data \in Reads, ManagePower
      PROVE  Touches
  BY <1>1, <1>2, <1>4 DEF ManagePower, Reads, Specs
<1>5. data \in Reads
  BY DEF TypeOK, Handle, HandleDeletion, HandleInspecting, HandlePreparing, HandleAvailable,
         HandleProvisioning, HandleProvisioned, HandleServicing, Deprovision, PowerOff,
         HandleDeleting, Handles
<1>6. CASE HandleDeletion \/ HandleInspecting \/ HandlePreparing \/ HandleServicing \/ HandleDeleting
  BY <1>1, <1>6, Zenon DEF HandleDeletion, HandleInspecting, HandlePreparing, HandleServicing, HandleDeleting
<1>7. CASE HandleAvailable \/ HandleProvisioned
  BY <1>1, <1>4, <1>5, <1>7, Zenon DEF HandleAvailable, HandleProvisioned
<1>8. CASE HandleProvisioning
  BY <1>1, <1>3, <1>8, Zenon DEF HandleProvisioning, Provision
<1>9. CASE Deprovision
  BY <1>9 DEF Deprovision
<1>10. CASE PowerOff
  BY <1>1, <1>2, <1>10, Zenon DEF PowerOff
<1> QED BY <1>6, <1>7, <1>8, <1>9, <1>10 DEF Handle

(* What a pass may record of the host. *)
LEMMA HandleRecords ==
  ASSUME TypeOK, Handle
  PROVE  /\ status' \in Statuses
         /\ install' \in {install, None, "running"}
         /\ host' \in Hosts
         /\ EndPass /\ UNCHANGED <<spec, secret, pluginVars, counts>>
<1> USE DEF TypeOK, hostVars, pluginVars, Handles
<1>1. \A state \in States : [status EXCEPT !.state = state] \in Statuses
  BY DEF Statuses
<1>2. NewStatus \in Statuses
  BY NewStatusType
<1>3. CASE HandleDeletion \/ HandleInspecting
  BY <1>1, <1>3 DEF Handle, HandleDeletion, HandleInspecting, Enter, States, Hosts
<1>4. CASE HandlePreparing \/ HandleAvailable \/ HandleServicing
  <2>1. data \in Reads
    BY <1>4 DEF HandlePreparing, HandleAvailable, HandleServicing
  <2>2. data.spec.raid \in Volumes /\ data.spec.image \in Images /\ data.spec.firmware \in Firmware
    BY <2>1 DEF Reads, Specs
  <2>3. /\ [status EXCEPT !.state = "available", !.raid = data.spec.raid] \in Statuses
        /\ [status EXCEPT !.state = "provisioning", !.image = data.spec.image] \in Statuses
        /\ [status EXCEPT !.state = "provisioned", !.firmware = data.spec.firmware] \in Statuses
    BY <2>2 DEF Statuses, States
  <2>4. status' \in Statuses
    BY <1>1, <1>4, <2>3 DEF HandlePreparing, HandleAvailable, HandleServicing, Enter, States
  <2> QED BY <1>4, <2>4 DEF Handle, HandlePreparing, HandleAvailable, HandleServicing
<1>5. CASE HandleProvisioning \/ HandleProvisioned
  BY <1>1, <1>5 DEF Handle, HandleProvisioning, HandleProvisioned, Provision, Enter, States
<1>6. CASE Deprovision \/ PowerOff
  <2>1. \A state \in States : [status EXCEPT !.state = state, !.image = None] \in Statuses
    BY DEF Statuses, Images
  <2>2. status' \in Statuses
    BY <1>1, <1>6, <2>1 DEF Deprovision, PowerOff, Enter, States
  <2> QED BY <1>6, <2>2 DEF Handle, Deprovision, PowerOff
<1>7. CASE HandleDeleting
  BY <1>2, <1>7 DEF Handle, HandleDeleting, Hosts, NoUID
<1> QED BY <1>3, <1>4, <1>5, <1>6, <1>7 DEF Handle

LEMMA PassTypes ==
  ASSUME TypeOK, Pass
  PROVE  TypeOK'
<1> USE DEF TypeOK, bmcVars, pluginVars, hostVars, passVars, historyVars
<1>1. CASE BeginPass
  BY <1>1 DEF BeginPass, BMCTypeOK, PluginTypeOK, Reads
<1>2. CASE Register
  <2>1. status' \in Statuses
    BY <1>2 DEF Register, Statuses, States, Claim, Reads, Hosts
  <2> QED BY <1>2, <2>1 DEF Register, BMCTypeOK, PluginTypeOK, Reads
<1>3. CASE RegisterFails
  BY <1>3 DEF RegisterFails, EndPass, BMCTypeOK, PluginTypeOK
<1>4. CASE Handle
  <2>1. Touches
    BY <1>4, HandleTouches
  <2>2. Reached \subseteq Systems
    BY ReachedIsInstalled DEF Reached, BMCTypeOK
  <2>3. BMCTypeOK' /\ touched' \subseteq Systems /\ meant' \subseteq Systems /\ probed' \subseteq Nat
    BY <2>1, <2>2 DEF Touches, BMCTypeOK
  <2>4. PluginTypeOK'
    BY <1>4 DEF Handle, PluginTypeOK
  <2> QED BY <1>4, <2>3, <2>4, HandleRecords DEF EndPass
<1> QED BY <1>1, <1>2, <1>3, <1>4 DEF Pass

LEMMA OtherTypes ==
  ASSUME TypeOK, Abort \/ BMCStep \/ Report
  PROVE  TypeOK'
<1> USE DEF TypeOK, bmcVars, pluginVars, hostVars, passVars, historyVars
<1>1. CASE Abort
  <2>1. PluginTypeOK'
    BY <1>1, Zenon DEF Abort, Reload, Start, EnabledBy, Enabled, PluginTypeOK
  <2> QED BY <1>1, <2>1 DEF Abort, EndPass, Fault, BMCTypeOK
<1>2. CASE BMCStep
  <2>1. BMCTypeOK'
    BY <1>2 DEF BMCStep, AddSystem, Fail, Recover, BMCTypeOK
  <2> QED BY <1>2, <2>1 DEF BMCStep, Fault, PluginTypeOK
<1>3. CASE Report
  BY <1>3 DEF Report, BMCTypeOK, PluginTypeOK
<1> QED BY <1>1, <1>2, <1>3

LEMMA StutterTypes ==
  ASSUME TypeOK, UNCHANGED vars
  PROVE  TypeOK'
BY DEF TypeOK, BMCTypeOK, PluginTypeOK, vars, bmcVars, pluginVars, hostVars, passVars, historyVars

(* A host's introduction, its passes and its plugin keep their types; in    *)
(* particular a bad timeout in the environment never becomes a budget.      *)
THEOREM LifecycleTypes == Spec => []TypeOK
<1>1. TypeOK /\ [Next]_vars => TypeOK'
  BY OperatorTypes, PassTypes, OtherTypes, StutterTypes DEF Next
<1> QED BY InitTypes, <1>1, PTL DEF Spec

-----------------------------------------------------------------------------
(* An address reaches no system but those meant, now or after the BMC gets *)
(* more of them: the one it names is meant, or the only one is.            *)
MeantBy(address) ==
  IF address.system # NoSystem
  THEN address.system \in meant
  ELSE \A s \in Systems : installed = {s} => s \in meant

Aimed ==
  /\ installed # {}
  /\ MeantBy(spec.address)
  /\ step # "idle" => MeantBy(data.spec.address)
  /\ touched \subseteq meant

LEMMA MeansIt ==
  ASSUME NEW address, Means(address) \subseteq meant
  PROVE  MeantBy(address)
BY DEF Means, MeantBy

(* More may be meant, and a BMC that serves some system may serve more. *)
LEMMA MeantStays ==
  ASSUME NEW address, MeantBy(address), meant \subseteq meant', installed # {},
         \/ installed' = installed
         \/ \E s \in Systems \ installed : installed' = installed \cup {s}
  PROVE  MeantBy(address)'
BY DEF MeantBy

LEMMA AimedStep ==
  ASSUME TypeOK, Aimed, [Next]_vars
  PROVE  Aimed'
<1> USE DEF Aimed, bmcVars, pluginVars, hostVars, passVars, historyVars
<1>1. ASSUME UNCHANGED <<installed, spec, touched>>, meant \subseteq meant',
             \/ UNCHANGED <<step, data>>
             \/ step' = "idle"
             \/ step' # "idle" /\ data'.spec = spec
             \/ step # "idle" /\ UNCHANGED data
      PROVE  Aimed'
  BY <1>1 DEF MeantBy
<1>2. CASE Rotate \/ Refresh \/ PressButton \/ Delete \/ Move \/ Create \/ Report \/ Abort
  BY <1>1, <1>2 DEF Rotate, Refresh, PressButton, Delete, Move, Create, Report, Abort, EndPass
<1>3. CASE BeginPass \/ Register \/ RegisterFails
  BY <1>1, <1>3 DEF BeginPass, Register, RegisterFails, EndPass
<1>4. CASE EditSpec
  <2>1. spec'.address = spec.address
    BY <1>4 DEF EditSpec, TypeOK, Specs
  <2> QED BY <1>4, <2>1 DEF EditSpec, MeantBy
<1>5. CASE EditAddress
  <2>1. PICK a \in Addresses : spec' = [spec EXCEPT !.address = a] /\ meant' = meant \cup Means(a)
    BY <1>5 DEF EditAddress
  <2>2. spec'.address = a
    BY <2>1 DEF TypeOK, Specs
  <2> QED BY <1>5, <2>1, <2>2 DEF EditAddress, MeantBy, Means
<1>6. CASE BMCStep
  BY <1>6 DEF BMCStep, AddSystem, Fail, Recover, MeantBy
<1>7. CASE Handle
  <2>1. Touches
    BY <1>7, HandleTouches
  <2>2. EndPass /\ UNCHANGED spec
    BY <1>7, HandleRecords
  <2>3. MeantBy(data.spec.address)
    BY <1>7 DEF Handle, HandleDeletion, HandleInspecting, HandlePreparing, HandleAvailable,
         HandleProvisioning, HandleProvisioned, HandleServicing, Deprovision, PowerOff,
         HandleDeleting, Handles
  <2>4. ASSUME NEW s \in Reached
        PROVE  s \in meant
    <3>1. s \in installed /\ (data.spec.address.system = s \/ (data.spec.address.system = NoSystem /\ installed = {s}))
      BY ReachedIsInstalled DEF Reached
    <3>2. s \in Systems /\ s # NoSystem
      BY <3>1, AddressesAssumption DEF TypeOK, BMCTypeOK
    <3> QED BY <2>3, <3>1, <3>2 DEF MeantBy
  <2> QED BY <2>1, <2>2, <2>4 DEF Touches, EndPass, MeantBy
<1>8. CASE UNCHANGED vars
  BY <1>8 DEF vars, MeantBy
<1> QED BY <1>2, <1>3, <1>4, <1>5, <1>6, <1>7, <1>8 DEF Next, Operate, Pass

(* No machine but the host's own is ever powered or has its media changed, *)
(* however many systems its BMC comes to serve.                            *)
THEOREM NeverAnothersMachine == Spec => []OnlyItsOwnMachine
<1>1. Init => Aimed
  BY MeansIt DEF Init, BMCInit, Aimed
<1>2. Aimed => OnlyItsOwnMachine
  BY DEF Aimed, OnlyItsOwnMachine
<1> QED BY <1>1, <1>2, AimedStep, LifecycleTypes, PTL DEF Spec

-----------------------------------------------------------------------------
Proven == status.good \subseteq probed

LEMMA ProvenStep ==
  ASSUME TypeOK, Proven, [Next]_vars
  PROVE  Proven'
<1> USE DEF Proven, bmcVars, pluginVars, hostVars, passVars, historyVars
<1>1. CASE Register
  <2>1. status'.good = {data.secret}
    BY <1>1 DEF Register, TypeOK, Statuses
  <2>2. data.secret \in probed'
    BY <1>1 DEF Register, Probes, CredentialsChanged
  <2> QED BY <2>1, <2>2
<1>2. CASE Handle
  <2>1. UNCHANGED probed
    BY <1>2, HandleTouches DEF Touches
  <2>2. status'.good \in {status.good, {}}
    <3>1. CASE HandleDeletion \/ HandleInspecting \/ HandlePreparing \/ HandleServicing
      BY <3>1 DEF HandleDeletion, HandleInspecting, HandlePreparing, HandleServicing, Enter, TypeOK, Statuses
    <3>2. CASE HandleAvailable \/ HandleProvisioned
      BY <3>2 DEF HandleAvailable, HandleProvisioned, Enter, TypeOK, Statuses
    <3>3. CASE HandleProvisioning
      BY <3>3 DEF HandleProvisioning, Provision, Enter, TypeOK, Statuses
    <3>4. CASE Deprovision \/ PowerOff
      BY <3>4 DEF Deprovision, PowerOff, Enter, TypeOK, Statuses
    <3>5. CASE HandleDeleting
      BY <3>5 DEF HandleDeleting, NewStatus
    <3> QED BY <1>2, <3>1, <3>2, <3>3, <3>4, <3>5 DEF Handle
  <2> QED BY <2>1, <2>2
<1>3. CASE Create
  BY <1>3 DEF Create, NewStatus
<1>4. CASE UNCHANGED <<status, probed>>
  BY <1>4
<1>5. CASE Operate /\ ~Create
  BY <1>4, <1>5 DEF Operate, EditSpec, EditAddress, Rotate, Refresh, PressButton, Delete, Move
<1> QED BY <1>1, <1>2, <1>3, <1>4, <1>5 DEF Next, Pass, BeginPass, RegisterFails, Abort, BMCStep, Report, vars

(* A password recorded as good was accepted in a probe, however passes and *)
(* rotations interleave.                                                   *)
THEOREM GoodWasProbed == Spec => []GoodIsProven
<1>1. Init => Proven
  BY DEF Init, NewStatus, Proven
<1>2. Proven => GoodIsProven
  BY DEF Proven, GoodIsProven
<1> QED BY <1>1, <1>2, ProvenStep, LifecycleTypes, PTL DEF Spec

-----------------------------------------------------------------------------
Reported == (CallbackEnabled <=> Enabled(cfg)) /\ InstallsAreReported

LEMMA ReportedStep ==
  ASSUME TypeOK, Reported, [Next]_vars
  PROVE  Reported'
<1> USE DEF Reported, InstallsAreReported, bmcVars, pluginVars, hostVars, passVars, historyVars
<1>1. (CallbackEnabled <=> Enabled(cfg))' /\ cfg' = cfg
  <2>1. CASE Abort
    BY <2>1, Zenon DEF Abort, Reload, EnabledBy, Enabled
  <2>2. CASE UNCHANGED pluginVars
    BY <2>2, Zenon DEF Enabled
  <2> QED
    BY <2>1, <2>2 DEF Next, Operate, EditSpec, EditAddress, Rotate, Refresh, PressButton, Delete, Move,
         Create, Pass, BeginPass, Register, RegisterFails, Handle, BMCStep, Report, vars
<1>2. ASSUME status'.state \notin {"provisioned", "servicing"}
      PROVE  Reported'
  BY <1>1, <1>2, Zenon
<1>3. CASE UNCHANGED <<status, install>>
  BY <1>1, <1>3 DEF Enabled
<1>4. ASSUME status'.state \in {"provisioned", "servicing"} => status.state \in {"provisioned", "servicing"},
             UNCHANGED install
      PROVE  Reported'
  BY <1>1, <1>4 DEF Enabled
<1>5. CASE Register
  BY <1>4, <1>5 DEF Register, TypeOK, Statuses
<1>6. CASE Report
  BY <1>1, <1>6 DEF Report, Enabled
<1>7. CASE Handle
  <2>1. CASE HandleProvisioning
    <3>1. CASE status' = status /\ status.state = "provisioning"
      BY <1>2, <3>1
    <3>2. CASE Installed(install) /\ UNCHANGED install
      BY <1>1, <3>2 DEF Installed, Enabled
    <3>3. CASE Enter("deprovisioning")
      BY <1>2, <3>3 DEF Enter, TypeOK, Statuses
    <3> QED BY <2>1, <3>1, <3>2, <3>3 DEF HandleProvisioning, Handles, Provision
  <2>2. CASE HandleDeletion \/ HandleInspecting \/ HandlePreparing \/ HandleAvailable
    BY <1>2, <2>2 DEF HandleDeletion, HandleInspecting, HandlePreparing, HandleAvailable, Handles, Enter,
                      TypeOK, Statuses
  <2>3. CASE HandleProvisioned \/ HandleServicing
    BY <1>4, <2>3 DEF HandleProvisioned, HandleServicing, Handles
  <2>4. CASE Deprovision
    BY <1>2, <2>4 DEF Deprovision, TypeOK, Statuses
  <2>5. CASE PowerOff
    BY <1>2, <2>5 DEF PowerOff, Handles, Enter, TypeOK, Statuses
  <2>6. CASE HandleDeleting
    BY <1>2, <2>6 DEF HandleDeleting, NewStatus
  <2> QED BY <1>7, <2>1, <2>2, <2>3, <2>4, <2>5, <2>6 DEF Handle
<1>8. CASE Create
  BY <1>2, <1>8 DEF Create, NewStatus
<1>9. CASE Operate /\ ~Create
  BY <1>3, <1>9 DEF Operate, EditSpec, EditAddress, Rotate, Refresh, PressButton, Delete, Move
<1> QED BY <1>3, <1>5, <1>6, <1>7, <1>8, <1>9
     DEF Next, Pass, BeginPass, RegisterFails, Abort, BMCStep, vars

(* A deployment with a listener configured passes off no install as        *)
(* finished that did not report it, whether or not the listener came up.   *)
THEOREM NothingPassesUnreported == Spec => []InstallsAreReported
<1>1. Init => Reported
  BY DEF Init, PluginInit, NewStatus, Reported, InstallsAreReported, EnabledBy
<1>2. Reported => InstallsAreReported
  BY DEF Reported
<1> QED BY <1>1, <1>2, ReportedStep, LifecycleTypes, PTL DEF Spec

-----------------------------------------------------------------------------
LEMMA RecordsStep ==
  ASSUME TypeOK, [Next]_vars, Exists, Exists'
  PROVE  /\ status'.raid = status.raid /\ status'.firmware = status.firmware
         /\ status.claim # NoUID => status'.claim = status.claim
<1> USE DEF TypeOK, Statuses, bmcVars, pluginVars, hostVars, passVars, historyVars
<1>1. CASE UNCHANGED status
  BY <1>1
<1>2. CASE Register
  BY <1>2 DEF Register, Claim
<1>3. CASE Handle
  <2>1. ~HandleDeleting
    BY DEF HandleDeleting, Exists
  <2> QED BY <1>3, <2>1 DEF Handle, HandleDeletion, HandleInspecting, HandlePreparing, HandleAvailable,
         HandleProvisioning, HandleProvisioned, HandleServicing, Deprovision, PowerOff, Provision,
         Enter, Prepares, Services
<1>4. CASE Operate
  BY <1>1, <1>4 DEF Operate, EditSpec, EditAddress, Rotate, Refresh, PressButton, Delete, Move, Create
<1> QED BY <1>1, <1>2, <1>3, <1>4 DEF Next, Pass, BeginPass, RegisterFails, Abort, BMCStep, Report, vars

(* No host is recorded to have volumes or firmware it asked for in vain. *)
THEOREM RefusedIsNotRecorded == Spec => RecordsNoChange
<1>1. TypeOK /\ [Next]_vars
        => [Exists /\ Exists' => status'.raid = status.raid /\ status'.firmware = status.firmware]_vars
  BY RecordsStep
<1> QED BY <1>1, LifecycleTypes, PTL DEF Spec, RecordsNoChange

(* A claim outlives the object it was made for, and no other replaces it. *)
THEOREM ClaimsStay == Spec => ClaimStays
<1>1. TypeOK /\ [Next]_vars
        => [Exists /\ Exists' /\ status.claim # NoUID => status'.claim = status.claim]_vars
  BY RecordsStep
<1> QED BY <1>1, LifecycleTypes, PTL DEF Spec, ClaimStays
=============================================================================
