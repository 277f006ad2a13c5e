--------------------------- MODULE DriveRefinement --------------------------
(***************************************************************************)
(* What the drives of a machine look like to a pass that never names one:  *)
(* Machine's single drive, which Provisioner is written over.              *)
(***************************************************************************)
EXTENDS MediaDrives

(* What is in: a deploy's image counts only if nothing else is. *)
Medium ==
  IF Occupied = {} THEN "empty"
  ELSE IF \A d \in Occupied : drive[d] = "iso" THEN "iso"
  ELSE "stale"

(* Only the drive of the machine is at issue here. *)
One == INSTANCE Machine WITH
  drive <- Medium, power <- "Off", boot <- "Disabled", os <- "none",
  run <- 0, disk <- 0, posts <- {}

(* While a deploy that found at most one medium runs, a pass that inserts   *)
(* fills Machine's one drive, a pass that ejects empties it, and nothing    *)
(* else changes it, whichever drives redfish.Conn chose (insertableMedia,   *)
(* insertedMedia).                                                          *)
DeployUsesOneDrive ==
  [][single /\ host = "provisioning" =>
       /\ BeginInsert => One!InsertMedia
       /\ BeginEject \/ FinishEject => One!EjectMedia
       /\ BeginInsert \/ BeginEject \/ FinishEject \/ UNCHANGED Medium]_driveVars
=============================================================================
