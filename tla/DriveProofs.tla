---------------------------- MODULE DriveProofs -----------------------------
(***************************************************************************)
(* Several drives act as one, whatever their number, their kinds and the   *)
(* drive the old medium was in, with passes ending at any call, inserts    *)
(* that attach nothing and teardowns that reach no BMC.                    *)
(***************************************************************************)
EXTENDS DriveRefinement, TLAPS

LEMMA DriveTypes ==
  ASSUME TypeOK, [Next]_driveVars
  PROVE  TypeOK'
<1> USE DEF TypeOK, Content, HostStates, Calls, DataImages, Goto, Complete
<1>1. ASSUME NEW image \in Content, InsertMedia(image)
      PROVE  drive' \in [Drives -> Content]
  BY <1>1 DEF InsertMedia
<1>2. ASSUME EjectMedia
      PROVE  drive' \in [Drives -> Content]
  BY <1>2 DEF EjectMedia
<1>3. CASE DeployPass
  BY <1>1, <1>2, <1>3
     DEF DeployPass, CallProvision, ReadMediaStatus, BeginEject, BeginInsert, VerifyMedia,
         BeginOn, AwaitInstall, FinishEject, FinishDone
<1>4. CASE Teardown
  BY <1>2, <1>4 DEF Teardown, CallDeprovision, TeardownMedia, TeardownEject, TeardownDone
<1>5. CASE DataImage
  BY <1>1, <1>2, <1>5
     DEF DataImage, AttachDataImage, DetachDataImage, GetDataImageStatus, EditDataImage
<1>6. CASE PassEnds
  BY <1>6 DEF PassEnds
<1>7. CASE StartDeploy
  BY <1>7 DEF StartDeploy, AtMostOne
<1>8. CASE CancelDeploy
  BY <1>8 DEF CancelDeploy
<1>9. CASE UNCHANGED driveVars
  BY <1>9 DEF driveVars
<1> QED BY <1>3, <1>4, <1>5, <1>6, <1>7, <1>8, <1>9 DEF Next

-----------------------------------------------------------------------------
(* What one call does to the drives a deploy sees. *)

LEMMA EjectTakesTheOnlyOne ==
  ASSUME TypeOK, AtMostOne, EjectMedia
  PROVE  Occupied' = {}
BY DEF TypeOK, AtMostOne, EjectMedia, MediaStatus, InsertedMedia, FirstOf, Occupied,
       VirtualMedia, Drives

LEMMA InsertFillsOne ==
  ASSUME TypeOK, Occupied = {}, InsertMedia("iso")
  PROVE  AtMostOne' /\ OnlyItsImage'
<1>1. Free = VirtualMedia
  BY DEF Free
<1>2. CASE UNCHANGED drive
  BY <1>2 DEF AtMostOne, OnlyItsImage, Occupied, VirtualMedia
<1>3. ASSUME NEW d \in VirtualMedia, InsertableMedia(d),
             drive' = [drive EXCEPT ![d] = "iso"]
      PROVE  AtMostOne' /\ OnlyItsImage'
  <2>1. VirtualMedia \cap CDs # {} => d \in CDs
    BY <1>1, <1>3 DEF InsertableMedia, FirstOf
  <2>2. Occupied' = {d} /\ drive'[d] = "iso"
    BY <1>3 DEF TypeOK, Occupied, VirtualMedia, Drives
  <2> QED BY <2>1, <2>2 DEF AtMostOne, OnlyItsImage, VirtualMedia
<1> QED BY <1>2, <1>3 DEF InsertMedia

(* Nothing but a deploy's insert puts its image into a drive. *)
LEMMA ImageOnlyInserted ==
  ASSUME TypeOK, NEW d \in Drives, drive[d] # "iso",
         \/ EjectMedia
         \/ InsertMedia("data")
         \/ drive' = [e \in Drives |-> IF drive[e] = "empty" THEN "empty" ELSE "old"]
  PROVE  drive'[d] # "iso"
BY DEF TypeOK, EjectMedia, InsertMedia

LEMMA SpareDrivesKept ==
  ASSUME TypeOK, NEW d \in Drives \ VirtualMedia, drive[d] # "iso", InsertMedia("iso")
  PROVE  drive'[d] # "iso"
BY DEF TypeOK, InsertMedia

-----------------------------------------------------------------------------
LEMMA OneInit ==
  ASSUME Init
  PROVE  TypeOK /\ ActsAsOne
BY DEF Init, TypeOK, Content, HostStates, Calls, DataImages, ActsAsOne, DeployCalls,
       TeardownCalls

LEMMA OneNext ==
  ASSUME TypeOK, ActsAsOne, [Next]_driveVars
  PROVE  ActsAsOne'
<1> USE DEF ActsAsOne, DeployCalls, TeardownCalls, Goto, Complete
<1>1. CASE CallProvision \/ VerifyMedia \/ BeginOn \/ AwaitInstall \/ FinishDone \/ PassEnds
  BY <1>1 DEF CallProvision, VerifyMedia, BeginOn, AwaitInstall, FinishDone, PassEnds,
       AtMostOne, OnlyItsImage, Occupied, VirtualMedia, MediaStatus
<1>2. CASE ReadMediaStatus
  BY <1>2 DEF ReadMediaStatus, AtMostOne, OnlyItsImage, Occupied, VirtualMedia, MediaStatus
<1>3. CASE BeginEject \/ FinishEject
  BY <1>3, EjectTakesTheOnlyOne, ImageOnlyInserted
     DEF BeginEject, FinishEject, AtMostOne, VirtualMedia
<1>4. CASE BeginInsert
  BY <1>4, InsertFillsOne, SpareDrivesKept DEF BeginInsert, VirtualMedia
<1>5. CASE Teardown
  BY <1>5, ImageOnlyInserted
     DEF Teardown, CallDeprovision, TeardownMedia, TeardownEject, TeardownDone, VirtualMedia
<1>6. CASE AttachDataImage \/ DetachDataImage
  BY <1>6, ImageOnlyInserted DEF AttachDataImage, DetachDataImage, VirtualMedia
<1>7. CASE GetDataImageStatus \/ EditDataImage \/ CancelDeploy
  BY <1>7 DEF GetDataImageStatus, EditDataImage, CancelDeploy, AtMostOne, OnlyItsImage,
       Occupied, VirtualMedia
<1>8. CASE StartDeploy
  <2>1. Occupied' = Occupied
    BY <1>8 DEF StartDeploy, Occupied, VirtualMedia, Drives
  <2> QED BY <1>8, <2>1, ImageOnlyInserted DEF StartDeploy, AtMostOne, VirtualMedia
<1>9. CASE UNCHANGED driveVars
  BY <1>9 DEF driveVars, AtMostOne, OnlyItsImage, Occupied, VirtualMedia
<1> QED
  BY <1>1, <1>2, <1>3, <1>4, <1>5, <1>6, <1>7, <1>8, <1>9 DEF Next, DeployPass, DataImage

LEMMA OneAlways == Spec => [](TypeOK /\ ActsAsOne)
  BY OneInit, OneNext, DriveTypes, PTL DEF Spec

(* A deploy that found at most one medium powers its machine on with its    *)
(* own image in, alone, and in a CD drive if the machine has one.           *)
THEOREM DeployBootsItsImage == Spec => []BootsItsImage
<1>1. ActsAsOne => BootsItsImage
  BY DEF ActsAsOne, BootsItsImage, DeployCalls, OnlyItsImage, Occupied
<1> QED BY <1>1, OneAlways, PTL

(* With a listener, such a deploy hands over a machine without its image in *)
(* any drive.                                                               *)
THEOREM DeployTakesItsImageOut == Spec => []ImageIsOut
<1>1. ActsAsOne => ImageIsOut
  BY DEF ActsAsOne, ImageIsOut
<1> QED BY <1>1, OneAlways, PTL

(* The drives and the passes that use them keep their types. *)
THEOREM DrivesKeepTypes == Spec => []TypeOK
BY OneAlways, PTL

-----------------------------------------------------------------------------
(* What a deploy's calls do, seen through Machine's one drive. *)

LEMMA EjectEmptiesOne ==
  ASSUME TypeOK, AtMostOne, EjectMedia
  PROVE  One!EjectMedia
<1>1. Medium' = "empty"
  BY EjectTakesTheOnlyOne DEF Medium
<1> QED BY <1>1 DEF One!EjectMedia

LEMMA InsertFillsTheOne ==
  ASSUME TypeOK, Occupied = {}, InsertMedia("iso")
  PROVE  One!InsertMedia
<1>1. CASE UNCHANGED drive
  <2>1. UNCHANGED drive /\ "drop_insert" \in Faults
    BY <1>1 DEF InsertMedia, TypeOK, Occupied, VirtualMedia, Drives
  <2> QED BY <2>1 DEF One!InsertMedia, Medium, Occupied, VirtualMedia
<1>2. CASE drive' # drive
  <2>1. Occupied' # {}
    BY <1>2 DEF InsertMedia, TypeOK, Occupied, VirtualMedia, Drives
  <2>2. \A d \in Occupied' : drive'[d] = "iso"
    BY InsertFillsOne DEF OnlyItsImage
  <2>3. Medium' = "iso"
    BY <2>1, <2>2 DEF Medium
  <2> QED BY <2>3 DEF One!InsertMedia
<1> QED BY <1>1, <1>2

LEMMA OneDriveStep ==
  ASSUME TypeOK, ActsAsOne, Next, single, host = "provisioning"
  PROVE  /\ BeginInsert => One!InsertMedia
         /\ BeginEject \/ FinishEject => One!EjectMedia
         /\ BeginInsert \/ BeginEject \/ FinishEject \/ UNCHANGED Medium
<1>1. ASSUME BeginInsert PROVE One!InsertMedia
  BY <1>1, InsertFillsTheOne DEF BeginInsert, ActsAsOne
<1>2. ASSUME BeginEject \/ FinishEject PROVE One!EjectMedia
  BY <1>2, EjectEmptiesOne DEF BeginEject, FinishEject, ActsAsOne
<1>3. BeginInsert \/ BeginEject \/ FinishEject \/ UNCHANGED drive
  BY DEF Next, DeployPass, CallProvision, ReadMediaStatus, VerifyMedia, BeginOn, AwaitInstall,
         FinishDone, Teardown, CallDeprovision, TeardownMedia, TeardownEject, TeardownDone,
         PassEnds, DataImage, AttachDataImage, DetachDataImage, GetDataImageStatus,
         EditDataImage, StartDeploy, CancelDeploy, ActsAsOne, TeardownCalls
<1>4. UNCHANGED drive => UNCHANGED Medium
  BY DEF Medium, Occupied, VirtualMedia
<1> QED BY <1>1, <1>2, <1>3, <1>4

(* A deploy that found at most one medium uses its drives as Machine's one  *)
(* drive: what Provisioner's proofs say of that drive they say of these.    *)
THEOREM DrivesActAsOne == Spec => DeployUsesOneDrive
<1>1. TypeOK /\ ActsAsOne /\ [Next]_driveVars
        => [single /\ host = "provisioning" =>
              /\ BeginInsert => One!InsertMedia
              /\ BeginEject \/ FinishEject => One!EjectMedia
              /\ BeginInsert \/ BeginEject \/ FinishEject \/ UNCHANGED Medium]_driveVars
  BY OneDriveStep
<1> QED BY <1>1, OneAlways, PTL DEF Spec, DeployUsesOneDrive
=============================================================================
