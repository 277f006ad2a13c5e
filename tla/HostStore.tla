----------------------------- MODULE HostStore ------------------------------
(***************************************************************************)
(* The install state of one BareMetalHost, as kube.HostResolver keeps it:  *)
(* annotations on the host object.  Every read goes through the cached     *)
(* client, every write is a merge patch computed against what that client  *)
(* returned, so the informer's copy and the API server's are two values.   *)
(***************************************************************************)
EXTENDS InstallAnnotations, Sequences

CONSTANT
  MaxLag    (* how many writes the informer may be behind; 0 is no lag *)

ASSUME MaxLagAssumption == MaxLag \in Nat

VARIABLES
  api,      (* the annotations the API server holds                         *)
  cache,    (* the annotations the cached client returns                    *)
  unseen    (* versions written and not yet seen by the cache, oldest first *)

storeVars == <<api, cache, unseen>>

StoreTypeOK ==
  /\ api \in Annotations
  /\ cache \in Annotations
  /\ unseen \in Seq(Annotations)

StoreInit ==
  /\ api = NoAnnotations
  /\ cache = NoAnnotations
  /\ unseen = << >>

-----------------------------------------------------------------------------
(* The API server takes a version; the informer has it at once or lags. *)
Publish(a) ==
  /\ api' = a
  /\ \/ /\ unseen = << >>
        /\ cache' = a
        /\ UNCHANGED unseen
     \/ /\ Len(unseen) < MaxLag
        /\ unseen' = Append(unseen, a)
        /\ UNCHANGED cache

(* An empty patch leaves the object at the version it has. *)
MutateHostAnnotations(new) ==
  LET patched == MergePatch(cache, new, api)
  IN IF patched = api THEN UNCHANGED storeVars ELSE Publish(patched)

WriteInstallReport(ok, run) == MutateHostAnnotations(WithReport(cache, ok, run))

ClearInstallReport == MutateHostAnnotations(WithoutReport(cache))

MarkInstallStarted(stamp) == MutateHostAnnotations(WithStamp(cache, stamp))

ReadInstallReport == cache.result

InstallStartedAt == cache.started

(* The watch delivers the oldest version the informer has not seen. *)
CacheCatchesUp ==
  /\ unseen # << >>
  /\ cache' = Head(unseen)
  /\ unseen' = Tail(unseen)
  /\ UNCHANGED api
=============================================================================
