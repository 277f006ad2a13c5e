--------------------------- MODULE HostLifecycle ----------------------------
(***************************************************************************)
(* A host from its creation to the end of its deletion, as the             *)
(* Provisioner interface sees it: BMO makes passes over the host, each on  *)
(* what it read at its start, and calls the provisioner's methods.         *)
(*                                                                         *)
(* BMO is external: which method it calls in which state, and what it      *)
(* makes of the answer, is what the methods' comments rely on.  Of a       *)
(* deploy there is only its outline; Provisioner has the rest.             *)
(***************************************************************************)
EXTENDS BMCService, PluginFactory

CONSTANTS
  MaxUIDs,        (* bound: creations and moves of the host          *)
  MaxEdits,       (* bound: what operators do otherwise              *)
  MaxFaults       (* bound: passes cut short, and outages of the BMC *)

ASSUME LifecycleAssumption == MaxUIDs \in Nat /\ MaxEdits \in Nat /\ MaxFaults \in Nat

VARIABLES
  host,           (* the BareMetalHost: its UID, deletion and annotation *)
  spec,           (* what its operator asks for                          *)
  secret,         (* the password in its BMC secret                      *)
  status,         (* what BMO records of it                              *)
  install,        (* what its install annotations say                    *)
  step,           (* where the pass is                                   *)
  data,           (* what the pass read at its start                     *)
  counts,         (* how far the bounds are used up                      *)
  (* The rest only properties read. *)
  meant,          (* the systems its operators meant by its addresses    *)
  touched,        (* the systems whose power or media it changed         *)
  probed          (* the passwords that a probe of this host had         *)

hostVars == <<host, spec, secret>>
passVars == <<status, install, step, data>>
historyVars == <<meant, touched, probed>>
vars == <<bmcVars, pluginVars, hostVars, passVars, counts, historyVars>>

NoUID == 0
NoData == <<>>
None == "none"

States == {"registering", "inspecting", "preparing", "available", "provisioning",
           "provisioned", "servicing", "deprovisioning", "powering off", "deleting"}

(* States a pass enters without registering the host first. *)
Leaving == {"powering off", "deleting"}

Images == {None, "live-iso", "qcow2"}
Volumes == {None, "raid"}
Firmware == {"old", "new"}

Specs == [address : Addresses, image : Images, raid : Volumes, firmware : Firmware, online : BOOLEAN]

Hosts == [uid : Nat, deleted : BOOLEAN, refresh : BOOLEAN]

Statuses == [state : States, claim : Nat, good : SUBSET Nat,
             image : Images, raid : Volumes, firmware : Firmware]

NewStatus ==
  [state |-> "registering", claim |-> NoUID, good |-> {},
   image |-> None, raid |-> None, firmware |-> "old"]

Exists == host.uid # NoUID

(* What an operator may mean by an address: the system it names, or the *)
(* only one there is.                                                   *)
Means(address) ==
  IF address.system # NoSystem THEN {address.system} ELSE {s \in installed : installed = {s}}

Init ==
  /\ BMCInit /\ PluginInit
  /\ host = [uid |-> 1, deleted |-> FALSE, refresh |-> FALSE]
  /\ spec \in {s \in Specs : s.image # "qcow2" /\ s.raid = None /\ s.firmware = "old" /\ s.online}
  /\ secret = 0
  /\ \E raid \in Volumes : status = [NewStatus EXCEPT !.raid = raid]
  /\ install = None
  /\ step = "idle"
  /\ data = NoData
  /\ counts = [uids |-> 1, edits |-> 0, faults |-> 0]
  /\ meant = Means(spec.address)
  /\ touched = {}
  /\ probed = {}

-----------------------------------------------------------------------------
(* Operators. *)
Edits == counts.edits < MaxEdits /\ counts' = [counts EXCEPT !.edits = @ + 1]

EditSpec ==
  /\ Exists /\ Edits
  /\ \E image \in Images, firmware \in Firmware, raid \in Volumes, online \in BOOLEAN :
       spec' \in {[spec EXCEPT !.image = image], [spec EXCEPT !.raid = raid],
                  [spec EXCEPT !.firmware = firmware], [spec EXCEPT !.online = online]}
  /\ UNCHANGED <<bmcVars, pluginVars, host, secret, passVars, historyVars>>

EditAddress ==
  /\ Exists /\ Edits
  /\ \E a \in Addresses : spec' = [spec EXCEPT !.address = a] /\ meant' = meant \cup Means(a)
  /\ UNCHANGED <<bmcVars, pluginVars, host, secret, passVars, touched, probed>>

(* The password changes on the BMC and in the secret, in either order. *)
Rotate ==
  /\ Edits
  /\ \/ password' = password + 1 /\ UNCHANGED secret
     \/ secret' = secret + 1 /\ UNCHANGED password
  /\ UNCHANGED <<installed, power, bmc, pluginVars, host, spec, passVars, historyVars>>

Refresh ==
  /\ Exists /\ Edits
  /\ host' = [host EXCEPT !.refresh = TRUE]
  /\ UNCHANGED <<bmcVars, pluginVars, spec, secret, passVars, historyVars>>

(* Someone presses the machine's power button. *)
PressButton ==
  /\ Edits
  /\ \E s \in installed \cap meant : power' = [power EXCEPT ![s] = ~@]
  /\ UNCHANGED <<installed, bmc, password, pluginVars, hostVars, passVars, historyVars>>

Delete ==
  /\ Exists /\ host' = [host EXCEPT !.deleted = TRUE]
  /\ UNCHANGED <<bmcVars, pluginVars, spec, secret, passVars, counts, historyVars>>

NextUID == counts.uids < MaxUIDs /\ counts' = [counts EXCEPT !.uids = @ + 1]

(* The host moves to another cluster: a new object, with the old status. *)
Move ==
  /\ Exists /\ ~host.deleted /\ step = "idle" /\ NextUID
  /\ host' = [host EXCEPT !.uid = counts.uids + 1]
  /\ UNCHANGED <<bmcVars, pluginVars, spec, secret, passVars, historyVars>>

Create ==
  /\ ~Exists /\ NextUID
  /\ host' = [uid |-> counts.uids + 1, deleted |-> FALSE, refresh |-> FALSE]
  /\ status' = NewStatus
  /\ install' = None
  /\ probed' = {}
  /\ meant' = meant \cup Means(spec.address)
  /\ UNCHANGED <<bmcVars, pluginVars, spec, secret, step, data, touched>>

Operate ==
  EditSpec \/ EditAddress \/ Rotate \/ Refresh \/ PressButton
    \/ Delete \/ Move \/ Create

-----------------------------------------------------------------------------
(* A pass. *)
EndPass == step' = "idle" /\ data' = NoData

BeginPass ==
  /\ Exists /\ step = "idle"
  /\ data' = [host |-> host, spec |-> spec, secret |-> secret]
  /\ step' = IF status.state \in Leaving \/ host.deleted THEN "Handle" ELSE "Register"
  /\ UNCHANGED <<bmcVars, pluginVars, hostVars, status, install, counts, historyVars>>

(* The system the pass reaches, if any. *)
Reached == WithSystem(data.spec.address, data.secret)

(* Seeded fault: the claim is the UID of the object at hand. *)
ClaimsUID(provisionerID) == data.host.uid

Claim(provisionerID) == IF provisionerID # NoUID THEN provisionerID ELSE data.host.uid

(* Seeded fault: only the first registration probes. *)
ProbesOnce(provisionerID, credentialsChanged) == provisionerID = NoUID

Probes(provisionerID, credentialsChanged) == provisionerID = NoUID \/ credentialsChanged

CredentialsChanged == status.good # {data.secret}

Registers ==
  /\ UsableBMCAddress(data.spec.address)
  /\ Claim(status.claim) # NoUID
  /\ Probes(status.claim, CredentialsChanged) => Reached # {}

Register ==
  /\ step = "Register" /\ Registers
  /\ status' = [status EXCEPT !.claim = Claim(@), !.good = {data.secret},
                              !.state = IF @ = "registering" THEN "inspecting" ELSE @]
  /\ probed' = IF Probes(status.claim, CredentialsChanged) THEN probed \cup {data.secret} ELSE probed
  /\ step' = "Handle"
  /\ UNCHANGED <<bmcVars, pluginVars, hostVars, install, data, counts, meant, touched>>

RegisterFails ==
  /\ step = "Register" /\ ~Registers
  /\ EndPass
  /\ UNCHANGED <<bmcVars, pluginVars, hostVars, status, install, counts, historyVars>>

Fault == counts.faults < MaxFaults /\ counts' = [counts EXCEPT !.faults = @ + 1]

(* Any call fails, or the controller restarts. *)
Abort ==
  /\ step # "idle" /\ EndPass
  /\ Fault /\ Reload
  /\ UNCHANGED <<bmcVars, hostVars, status, install, historyVars>>

-----------------------------------------------------------------------------
(* Seeded fault: there are no details when none are recorded. *)
NoDetails(refresh, hardwareData) ==
  [started |-> refresh, details |-> IF hardwareData /\ ~refresh THEN "recorded" ELSE None]

(* What the provisioner answers.  RAID is refused, asked for or there. *)
InspectHardware(refresh, hardwareData) ==
  IF refresh
  THEN [started |-> TRUE, details |-> None]
  ELSE [started |-> FALSE, details |-> IF hardwareData THEN "recorded" ELSE "hostname"]

(* Seeded fault: the volumes the host has are not looked at. *)
PreparesTarget(target, actual) == target = None

Prepares(target, actual) == target = None /\ actual = None

Services(firmware) == FALSE

Provisions(image) == image = "live-iso"

Installed(report) == ~CallbackEnabled \/ report = "succeeded"

(* Seeded fault: whatever the BMC answers is on. *)
AnswersAreOn(s) == TRUE

UpdateHardwareState(s) == power[s]

(* What powering the reached system on or off does to it. *)
SetPower(s, on) ==
  /\ power' = [power EXCEPT ![s] = on]
  /\ touched' = IF power[s] # on THEN touched \cup {s} ELSE touched
  /\ UNCHANGED <<installed, bmc, password, meant, probed>>

NoPower == UNCHANGED <<bmcVars, historyVars>>

-----------------------------------------------------------------------------
(* What BMO does in each state.  A pass ends with it. *)
Handles(state) == step = "Handle" /\ status.state = state /\ EndPass

Enter(state) == status' = [status EXCEPT !.state = state]

HandleDeletion ==
  /\ step = "Handle" /\ data.host.deleted /\ status.state \notin Leaving \cup {"deprovisioning"}
  /\ EndPass
  /\ Enter(IF status.state \in {"provisioning", "provisioned", "servicing"}
           THEN "deprovisioning" ELSE "powering off")
  /\ UNCHANGED <<hostVars, install>> /\ NoPower

Stays == ~data.host.deleted

HandleInspecting ==
  /\ Handles("inspecting") /\ Stays
  /\ \E hardwareData \in BOOLEAN :
       LET answer == InspectHardware(data.host.refresh, hardwareData)
       IN  /\ host' = IF answer.started THEN [host EXCEPT !.refresh = FALSE] ELSE host
           /\ Enter(IF answer.details = None THEN "inspecting" ELSE "preparing")
  /\ UNCHANGED <<spec, secret, install>> /\ NoPower

HandlePreparing ==
  /\ Handles("preparing") /\ Stays
  /\ IF data.host.refresh THEN Enter("inspecting")
     ELSE IF Prepares(data.spec.raid, status.raid)
          THEN status' = [status EXCEPT !.state = "available", !.raid = data.spec.raid]
          ELSE UNCHANGED status
  /\ UNCHANGED <<hostVars, install>> /\ NoPower

ManagePower ==
  \/ \E s \in Reached :
       IF UpdateHardwareState(s) = data.spec.online THEN NoPower ELSE SetPower(s, data.spec.online)
  \/ Reached = {} /\ NoPower

HandleAvailable ==
  /\ Handles("available") /\ Stays
  /\ \/ data.host.refresh /\ Enter("inspecting") /\ NoPower
     \/ ~data.host.refresh /\ data.spec.raid # status.raid /\ Enter("preparing") /\ NoPower
     \/ /\ ~data.host.refresh /\ data.spec.raid = status.raid /\ data.spec.image # None
        /\ status' = [status EXCEPT !.state = "provisioning", !.image = data.spec.image]
        /\ NoPower
     \/ /\ ~data.host.refresh /\ data.spec.raid = status.raid /\ data.spec.image = None
        /\ ManagePower /\ UNCHANGED status
  /\ UNCHANGED <<hostVars, install>>

(* BeginInstall powers the machine off and on again, FinishInstall on.     *)
Boots(s) ==
  /\ power' = [power EXCEPT ![s] = TRUE]
  /\ touched' = touched \cup {s}
  /\ UNCHANGED <<installed, bmc, password, meant, probed>>

Provision ==
  IF ~Provisions(data.spec.image) \/ Reached = {}
  THEN UNCHANGED <<status, install>> /\ NoPower
  ELSE \E s \in Reached :
         \/ install = None /\ install' = "running" /\ UNCHANGED status /\ Boots(s)
         \/ install # None /\ Installed(install) /\ Enter("provisioned") /\ UNCHANGED install /\ Boots(s)
         \/ install # None /\ ~Installed(install) /\ UNCHANGED <<status, install>> /\ NoPower

HandleProvisioning ==
  /\ Handles("provisioning") /\ Stays
  /\ \/ data.spec.image # status.image /\ Enter("deprovisioning") /\ UNCHANGED install /\ NoPower
     \/ data.spec.image = status.image /\ Provision
  /\ UNCHANGED hostVars

HandleProvisioned ==
  /\ Handles("provisioned") /\ Stays
  /\ \/ data.spec.image # status.image /\ Enter("deprovisioning") /\ NoPower
     \/ /\ data.spec.image = status.image /\ data.spec.firmware # status.firmware
        /\ Enter("servicing") /\ NoPower
     \/ /\ data.spec.image = status.image /\ data.spec.firmware = status.firmware
        /\ ManagePower /\ UNCHANGED status
  /\ UNCHANGED <<hostVars, install>>

HandleServicing ==
  /\ Handles("servicing") /\ Stays
  /\ IF data.spec.firmware = status.firmware THEN Enter("provisioned")
     ELSE IF Services(data.spec.firmware)
          THEN status' = [status EXCEPT !.state = "provisioned", !.firmware = data.spec.firmware]
          ELSE UNCHANGED status
  /\ UNCHANGED <<hostVars, install>> /\ NoPower

(* The install is forgotten, and a medium of the reached system is ejected. *)
Deprovision ==
  /\ Handles("deprovisioning")
  /\ status' = [status EXCEPT !.state = IF data.host.deleted THEN "powering off" ELSE "preparing",
                              !.image = None]
  /\ install' = None
  /\ touched' = touched \cup (IF UsableBMCAddress(data.spec.address) THEN Reached ELSE {})
  /\ UNCHANGED <<bmcVars, hostVars, meant, probed>>

PowerOff ==
  /\ Handles("powering off")
  /\ \/ ~UsableBMCAddress(data.spec.address) /\ Enter("deleting") /\ NoPower
     \/ /\ UsableBMCAddress(data.spec.address)
        /\ \E s \in Reached :
             IF power[s] THEN SetPower(s, FALSE) /\ UNCHANGED status
                         ELSE Enter("deleting") /\ NoPower
     \/ UsableBMCAddress(data.spec.address) /\ Reached = {} /\ UNCHANGED status /\ NoPower
  /\ UNCHANGED <<hostVars, install>>

(* Delete answers that there is nothing to do, and BMO lets the host go. *)
HandleDeleting ==
  /\ Handles("deleting")
  /\ host' = [uid |-> NoUID, deleted |-> FALSE, refresh |-> FALSE]
  /\ status' = NewStatus
  /\ UNCHANGED <<spec, secret, install>> /\ NoPower

Handle ==
  /\ \/ HandleDeletion \/ HandleInspecting \/ HandlePreparing \/ HandleAvailable
     \/ HandleProvisioning \/ HandleProvisioned \/ HandleServicing
     \/ Deprovision \/ PowerOff \/ HandleDeleting
  /\ UNCHANGED <<pluginVars, counts>>

-----------------------------------------------------------------------------
(* The machine, its listener and its BMC. *)
Report ==
  /\ install = "running" /\ Dialable
  /\ install' \in {"succeeded", "failed"}
  /\ UNCHANGED <<bmcVars, pluginVars, hostVars, status, step, data, counts, historyVars>>

BMCStep ==
  /\ \/ AddSystem /\ UNCHANGED counts
     \/ Fail /\ Fault
     \/ Recover /\ UNCHANGED counts
  /\ UNCHANGED <<pluginVars, hostVars, passVars, historyVars>>

Pass == BeginPass \/ Register \/ RegisterFails \/ Handle

Next ==
  \/ Operate \/ Pass \/ Abort \/ BMCStep \/ Report

Spec == Init /\ [][Next]_vars /\ WF_vars(Pass)

-----------------------------------------------------------------------------
Reads == [host : Hosts, spec : Specs, secret : Nat]

(* The type invariant of a host, its passes and its plugin. *)
TypeOK ==
  /\ BMCTypeOK /\ PluginTypeOK
  /\ host \in Hosts /\ spec \in Specs /\ secret \in Nat
  /\ status \in Statuses
  /\ install \in {None, "running", "succeeded", "failed"}
  /\ step \in {"idle", "Register", "Handle"}
  /\ IF step = "idle" THEN data = NoData ELSE data \in Reads
  /\ counts \in [uids : Nat, edits : Nat, faults : Nat]
  /\ meant \subseteq Systems /\ touched \subseteq Systems
  /\ probed \subseteq Nat

(* A host changes the power or the media of no system but those its        *)
(* operators meant by its addresses, whatever systems the BMC gets and     *)
(* however old the address is that a pass works with (Conn.System's "the   *)
(* wrong guess powers off somebody else's machine").                       *)
OnlyItsOwnMachine == touched \subseteq meant

(* Past its registration, the password on record as good is one that the   *)
(* BMC accepted from this host, also once it was rotated under passes that *)
(* had read the old one (Register probes when the credentials changed).    *)
GoodIsProven == Exists => status.good \subseteq probed

(* With a listener configured, no host is provisioned unless its install   *)
(* reported success, also when the listener never came up, came up in      *)
(* another process or renders an address no machine can dial               *)
(* (NewProvisionerFactory's "must fail installs, never pass them off").    *)
InstallsAreReported ==
  status.state \in {"provisioned", "servicing"} /\ Enabled(cfg) => install = "succeeded"

(* What is on record of the host's volumes and firmware stays what it was  *)
(* for as long as there is the host, whatever is asked for and in whatever *)
(* state, since nothing here changes either (Prepare and Service refuse).  *)
RecordsNoChange ==
  [][Exists /\ Exists' => status'.raid = status.raid /\ status'.firmware = status.firmware]_vars

(* A claim ends with the host, and does not change when the host moves to  *)
(* another cluster and gets a new UID (Register's ProvisionerID).          *)
ClaimStays == [][Exists /\ Exists' /\ status.claim # NoUID => status'.claim = status.claim]_vars

(* The BMC is reached by what the host's operator wrote. *)
Reachable == WithSystem(spec.address, secret) # {}

Introducing == {"registering", "inspecting", "preparing"}

(* A host whose BMC stays reachable and that has and wants no volumes gets *)
(* through registration, inspection and preparation, with or without       *)
(* hardware data and however often a fresh inspection is asked for         *)
(* (InspectHardware: either loop in Inspecting would be forever).          *)
HostsBecomeAvailable ==
  <>[](Reachable /\ Exists /\ ~host.deleted /\ spec.raid = None /\ status.raid = None)
    => <>[](status.state \notin Introducing)

(* A deletion ends when the BMC stays reachable, and also when the host's  *)
(* address is not usable, in whatever state it was and without credentials *)
(* (PowerOff and Deprovision must not wedge the finalizer).  The outline of *)
(* Deprovision here has no refused ejects: DeprovisionEnds is about those. *)
DeletionEnds ==
  <>[](Reachable \/ ~ParseRedfishAddress(spec.address).usable) => (host.deleted ~> ~host.deleted)

(* A host that stays available or provisioned and reachable ends up as     *)
(* powered as its operator asks, whoever presses its button                *)
(* (UpdateHardwareState, PowerOn and PowerOff).                            *)
PowerSettles ==
  <>[](Reachable /\ Exists /\ ~host.deleted /\ status.state \in {"available", "provisioned"})
    => <>[](\A s \in WithSystem(spec.address, secret) : power[s] = spec.online)
=============================================================================
