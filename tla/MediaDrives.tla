---------------------------- MODULE MediaDrives -----------------------------
(***************************************************************************)
(* The virtual media drives of one machine, and the calls of the           *)
(* provisioner that change them: a deploy's passes, a teardown, and the    *)
(* data images BMO attaches to a host in service.  redfish.Conn never      *)
(* names a drive: every call lists them and takes the first that fits.     *)
(* Machine has one drive; this module is about there being several.        *)
(*                                                                         *)
(* What a pass does between its calls to the drives (power, boot override, *)
(* annotations) is Provisioner's; here it only may end.                    *)
(***************************************************************************)
EXTENDS Naturals

CONSTANTS
  SystemMedia,      (* the media the system lists, numbered in list order   *)
  ManagerMedia,     (* the media its managers list                          *)
  CDs,              (* those of media type CD or DVD                        *)
  CallbackEnabled,  (* a listener is configured                             *)
  Faults            (* what may go wrong, as in Machine                     *)

Drives == SystemMedia \cup ManagerMedia

ASSUME DrivesAssumption ==
  /\ SystemMedia \subseteq Nat /\ ManagerMedia \subseteq Nat
  /\ SystemMedia \cap ManagerMedia = {}
  /\ CDs \subseteq Drives
ASSUME ListenerAssumption == CallbackEnabled \in BOOLEAN
ASSUME DriveFaultsAssumption == Faults \subseteq {"drop_insert", "bmc_gone", "clear_fails"}

VARIABLES
  drive,      (* what each drive holds                                       *)
  host,       (* the host's provisioning state                               *)
  stamped,    (* the host carries an install-started stamp                   *)
  pc,         (* the next call of the pass under way                         *)
  dataImage,  (* the DataImage of the host, as BMO has recorded it           *)
  single      (* this deploy started with at most one medium in the drives;  *)
              (* only properties read it                                     *)

driveVars == <<drive, host, stamped, pc, dataImage, single>>

(* "old" is whatever was in before this deploy, "iso" the image it installs. *)
Content == {"empty", "old", "iso", "data"}
HostStates == {"available", "provisioning", "provisioned", "deprovisioning"}
Calls == {"idle", "MediaStatus", "Eject", "Insert", "VerifyMedia", "BeginOn",
          "Await", "FinishEject", "FinishDone",
          "TeardownMedia", "TeardownEject", "TeardownDone"}
DataImages == {"none", "wanted", "attached", "unwanted"}

Init ==
  /\ drive \in [Drives -> {"empty", "old"}]
  /\ host = "available"
  /\ stamped = FALSE
  /\ pc = "idle"
  /\ dataImage = "none"
  /\ single = TRUE

-----------------------------------------------------------------------------
(* redfish.Conn. *)

(* The managers' media are only asked for when the system has none. *)
VirtualMedia == IF SystemMedia # {} THEN SystemMedia ELSE ManagerMedia

FirstOf(d, S) == d \in S /\ \A e \in S : d <= e

Occupied == {d \in VirtualMedia : drive[d] # "empty"}

Free == VirtualMedia \ Occupied

AtMostOne == \A d, e \in Occupied : d = e

(* Seeded fault: drives are taken in list order, CD or not. *)
AnyInsertable(d) == FirstOf(d, IF Free # {} THEN Free ELSE VirtualMedia)

InsertableMedia(d) ==
  FirstOf(d, IF Free \cap CDs # {} THEN Free \cap CDs
             ELSE IF Free # {} THEN Free ELSE VirtualMedia)

(* Seeded fault: the first drive listed is taken, whatever is in it. *)
FirstListed(d) == FirstOf(d, VirtualMedia)

InsertedMedia(d) == FirstOf(d, Occupied)

MediaStatus == Occupied # {}

InsertMedia(image) ==
  \E d \in VirtualMedia :
    /\ InsertableMedia(d)
    /\ \/ drive' = [drive EXCEPT ![d] = image]
       \/ "drop_insert" \in Faults /\ UNCHANGED drive

(* Seeded fault: an empty drive is ejected too. *)
EjectsBlindly ==
  \E d \in VirtualMedia \cup {0} :
    /\ IF MediaStatus THEN InsertedMedia(d) ELSE d = 0
    /\ drive' = [e \in Drives \cup {d} |-> IF e = d THEN "empty" ELSE drive[e]]

EjectMedia ==
  \/ ~MediaStatus /\ UNCHANGED drive
  \/ \E d \in VirtualMedia :
       InsertedMedia(d) /\ drive' = [drive EXCEPT ![d] = "empty"]

-----------------------------------------------------------------------------
Goto(call) == pc' = call /\ UNCHANGED <<host, dataImage, single>>

Complete(state) == pc' = "idle" /\ host' = state /\ UNCHANGED <<dataImage, single>>

(* Provision.  A medium beside a stamp is this run's. *)
CallProvision ==
  /\ pc = "idle" /\ host = "provisioning"
  /\ Goto("MediaStatus")
  /\ UNCHANGED <<drive, stamped>>

ReadMediaStatus ==
  /\ pc = "MediaStatus"
  /\ Goto(IF MediaStatus /\ stamped THEN "Await" ELSE IF MediaStatus THEN "Eject" ELSE "Insert")
  /\ UNCHANGED <<drive, stamped>>

(* BeginInstall. *)
BeginEject == pc = "Eject" /\ EjectMedia /\ Goto("Insert") /\ UNCHANGED stamped

BeginInsert == pc = "Insert" /\ InsertMedia("iso") /\ Goto("VerifyMedia") /\ UNCHANGED stamped

VerifyMedia ==
  /\ pc = "VerifyMedia"
  /\ Goto(IF MediaStatus THEN "BeginOn" ELSE "idle")
  /\ UNCHANGED <<drive, stamped>>

(* The stamp, and the power on after it. *)
BeginOn == pc = "BeginOn" /\ stamped' = TRUE /\ Goto("idle") /\ UNCHANGED drive

(* AwaitInstall and FinishInstall, on a verdict and a host that went down. *)
AwaitInstall ==
  /\ pc = "Await"
  /\ IF CallbackEnabled THEN Goto("FinishEject") ELSE Complete("provisioned")
  /\ UNCHANGED <<drive, stamped>>

(* Seeded fault: the media stays in. *)
KeepsMedia == pc = "FinishEject" /\ Goto("FinishDone") /\ UNCHANGED <<drive, stamped>>

FinishEject == pc = "FinishEject" /\ EjectMedia /\ Goto("FinishDone") /\ UNCHANGED stamped

FinishDone == pc = "FinishDone" /\ Complete("provisioned") /\ UNCHANGED <<drive, stamped>>

(* Deprovision ejects once, if the BMC answers and has something in. *)
CallDeprovision ==
  /\ pc = "idle" /\ host = "deprovisioning"
  /\ stamped' = FALSE \/ ("clear_fails" \in Faults /\ UNCHANGED stamped)
  /\ Goto("TeardownMedia")
  /\ UNCHANGED drive

TeardownMedia ==
  /\ pc = "TeardownMedia"
  /\ \/ MediaStatus /\ Goto("TeardownEject")
     \/ (~MediaStatus \/ "bmc_gone" \in Faults) /\ Complete("available")
  /\ UNCHANGED <<drive, stamped>>

TeardownEject ==
  pc = "TeardownEject" /\ EjectMedia /\ Goto("TeardownDone") /\ UNCHANGED stamped

TeardownDone == pc = "TeardownDone" /\ Complete("available") /\ UNCHANGED <<drive, stamped>>

(* A pass waits, refuses, fails or is cut short, and the next one starts over. *)
PassEnds == pc # "idle" /\ Goto("idle") /\ UNCHANGED <<drive, stamped>>

-----------------------------------------------------------------------------
(***************************************************************************)
(* Data images.  BMO asks for them on a host in service, from the host's   *)
(* own worker; a request it has not recorded it makes again.               *)
(***************************************************************************)
AttachDataImage ==
  /\ pc = "idle" /\ host = "provisioned" /\ dataImage = "wanted"
  /\ InsertMedia("data")
  /\ dataImage' \in {"wanted", "attached"}
  /\ UNCHANGED <<host, stamped, pc, single>>

DetachDataImage ==
  /\ pc = "idle" /\ host = "provisioned" /\ dataImage = "unwanted"
  /\ EjectMedia
  /\ dataImage' \in {"unwanted", "none"}
  /\ UNCHANGED <<host, stamped, pc, single>>

(* BMO lets go of the object once it is told that nothing is attached: by   *)
(* the drives, or, as the DataImage's own controller has no BMC address,    *)
(* without a look at them.                                                  *)
GetDataImageStatus ==
  /\ dataImage = "unwanted"
  /\ \E usable \in BOOLEAN :
       dataImage' = IF usable /\ MediaStatus THEN dataImage ELSE "none"
  /\ UNCHANGED <<drive, host, stamped, pc, single>>

EditDataImage ==
  /\ \/ dataImage = "none" /\ dataImage' = "wanted"
     \/ dataImage \in {"wanted", "attached"} /\ dataImage' = "unwanted"
  /\ UNCHANGED <<drive, host, stamped, pc, single>>

StartDeploy ==
  /\ pc = "idle" /\ host = "available"
  /\ host' = "provisioning"
  /\ single' = AtMostOne
  /\ drive' = [d \in Drives |-> IF drive[d] = "empty" THEN "empty" ELSE "old"]
  /\ UNCHANGED <<stamped, pc, dataImage>>

CancelDeploy ==
  /\ pc = "idle" /\ host \in {"provisioning", "provisioned"}
  /\ host' = "deprovisioning"
  /\ UNCHANGED <<drive, stamped, pc, dataImage, single>>

-----------------------------------------------------------------------------
DeployPass ==
  \/ CallProvision \/ ReadMediaStatus \/ BeginEject \/ BeginInsert \/ VerifyMedia \/ BeginOn
  \/ AwaitInstall \/ FinishEject \/ FinishDone

Teardown == CallDeprovision \/ TeardownMedia \/ TeardownEject \/ TeardownDone

DataImage == AttachDataImage \/ DetachDataImage \/ GetDataImageStatus \/ EditDataImage

Next == DeployPass \/ Teardown \/ PassEnds \/ DataImage \/ StartDeploy \/ CancelDeploy

Spec == Init /\ [][Next]_driveVars

-----------------------------------------------------------------------------
(***************************************************************************)
(* Why several drives act as one: the calls of a deploy that found at most *)
(* one medium never let a second one in, so that "the first inserted" and  *)
(* "this run's image" stay the same drive.                                 *)
(***************************************************************************)
DeployCalls == {"MediaStatus", "Eject", "Insert", "VerifyMedia", "BeginOn", "Await",
                "FinishEject", "FinishDone"}
TeardownCalls == {"TeardownMedia", "TeardownEject", "TeardownDone"}

OnlyItsImage ==
  \A d \in Occupied : drive[d] = "iso" /\ (VirtualMedia \cap CDs # {} => d \in CDs)

ActsAsOne ==
  /\ pc \in DeployCalls => host = "provisioning"
  /\ pc \in TeardownCalls => host = "deprovisioning"
  /\ \A d \in Drives \ VirtualMedia : drive[d] # "iso"
  /\ single /\ host = "provisioning" =>
       /\ AtMostOne
       /\ pc \in {"Insert", "FinishDone"} => Occupied = {}
       /\ pc \in {"VerifyMedia", "BeginOn"} => OnlyItsImage
       /\ pc = "BeginOn" => Occupied # {}
  /\ single /\ host = "provisioned" /\ CallbackEnabled => \A d \in Drives : drive[d] # "iso"

(* The type invariant of the drives and of the passes that use them. *)
TypeOK ==
  /\ drive \in [Drives -> Content]
  /\ host \in HostStates
  /\ stamped \in BOOLEAN
  /\ pc \in Calls
  /\ dataImage \in DataImages
  /\ single \in BOOLEAN

(* A deploy that found at most one medium powers its machine on with its    *)
(* own image in, alone, and in a CD drive if the machine has one, whichever *)
(* drive the old medium was in (the eject, insert and verify of             *)
(* BeginInstall, each choosing its drive anew).                             *)
BootsItsImage ==
  pc = "BeginOn" /\ single =>
    /\ \E d \in VirtualMedia : drive[d] = "iso" /\ (VirtualMedia \cap CDs # {} => d \in CDs)
    /\ AtMostOne

(* With a listener, such a deploy hands over a machine without its image in *)
(* any drive: FinishInstall's eject took the image and nothing else.        *)
ImageIsOut ==
  CallbackEnabled /\ host = "provisioned" /\ single => \A d \in Drives : drive[d] # "iso"
=============================================================================
