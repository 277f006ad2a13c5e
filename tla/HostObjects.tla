---------------------------- MODULE HostObjects -----------------------------
(***************************************************************************)
(* The BareMetalHosts of a cluster and their kickstart Secrets, as         *)
(* kube.HostResolver reads and patches them by name while operators create,*)
(* edit and delete them.                                                   *)
(*                                                                         *)
(* A read through the informer's cache may return an older version.  Every *)
(* reader here takes a get and its use as two steps, so an older version is*)
(* a get that was made earlier.                                            *)
(***************************************************************************)
EXTENDS InstallAnnotations

CONSTANTS
  Hosts,     (* namespaced names, numbered in list order                     *)
  MACs,      (* addresses, each standing for all its notations               *)
  NoMAC,     (* no boot MAC, or one that does not parse                      *)
  Disks,     (* device specs a root device hint renders to                   *)
  NoDisk,    (* hints no kickstart command can express, or none              *)
  Declared,  (* the specs and kickstarts operators may write for each host   *)
  MaxUIDs,   (* bound: hosts created                                         *)
  MaxEdits   (* bound: edits of hosts and Secrets                            *)

(* none: the host names no Secret, or one without a kickstart.  templated   *)
(* names .InstallDisk, plain does not.                                      *)
Kickstarts == {"none", "plain", "templated"}

HostSpecs == [mac : MACs \cup {NoMAC}, disk : Disks \cup {NoDisk}]

ASSUME HostsAssumption == Hosts \subseteq Nat
ASSUME AddressAssumption == NoMAC \notin MACs /\ NoDisk \notin Disks
ASSUME DeclaredAssumption == Declared \in [Hosts -> SUBSET (HostSpecs \X Kickstarts)]
ASSUME ObjectBoundsAssumption == MaxUIDs \in Nat /\ MaxEdits \in Nat

VARIABLES
  uid,       (* each host's UID, 0 while there is no object of that name     *)
  spec,      (* its boot MAC and root device hint                            *)
  secret,    (* what its preprovisioning Secret carries                      *)
  notes,     (* its install annotations                                      *)
  created,   (* how many hosts have been created; the last one's UID         *)
  edits,     (* how many edits have been made                                *)
  claims     (* every spec each UID has had; only properties read it         *)

objectVars == <<uid, spec, secret, notes, created, edits, claims>>

Blank == [mac |-> NoMAC, disk |-> NoDisk]

Present(h) == uid[h] # 0

ObjectTypeOK ==
  /\ uid \in [Hosts -> Nat]
  /\ spec \in [Hosts -> HostSpecs]
  /\ secret \in [Hosts -> Kickstarts]
  /\ notes \in [Hosts -> Annotations]
  /\ created \in Nat /\ edits \in Nat
  /\ claims \subseteq Nat \X HostSpecs

ObjectInit ==
  /\ uid = [h \in Hosts |-> 0]
  /\ spec = [h \in Hosts |-> Blank]
  /\ secret = [h \in Hosts |-> "none"]
  /\ notes = [h \in Hosts |-> NoAnnotations]
  /\ created = 0 /\ edits = 0
  /\ claims = {}

-----------------------------------------------------------------------------
(* Operators.  BMO's webhook keeps a boot MAC once it is set. *)
CreateHost(h) ==
  /\ ~Present(h) /\ created < MaxUIDs
  /\ created' = created + 1
  /\ uid' = [uid EXCEPT ![h] = created + 1]
  /\ \E d \in Declared[h] :
       /\ spec' = [spec EXCEPT ![h] = d[1]]
       /\ secret' = [secret EXCEPT ![h] = d[2]]
       /\ claims' = claims \cup {<<created + 1, d[1]>>}
  /\ notes' = [notes EXCEPT ![h] = NoAnnotations]
  /\ UNCHANGED edits

DeleteHost(h) ==
  /\ Present(h)
  /\ uid' = [uid EXCEPT ![h] = 0]
  /\ spec' = [spec EXCEPT ![h] = Blank]
  /\ notes' = [notes EXCEPT ![h] = NoAnnotations]
  /\ UNCHANGED <<secret, created, edits, claims>>

EditHost(h) ==
  /\ Present(h) /\ edits < MaxEdits
  /\ \E d \in Declared[h] :
       /\ spec[h].mac \in {NoMAC, d[1].mac}
       /\ d # <<spec[h], secret[h]>>
       /\ spec' = [spec EXCEPT ![h] = d[1]]
       /\ secret' = [secret EXCEPT ![h] = d[2]]
       /\ claims' = claims \cup {<<uid[h], d[1]>>}
  /\ edits' = edits + 1
  /\ UNCHANGED <<uid, notes, created>>

-----------------------------------------------------------------------------
(* HostResolver. *)

NewHostRef(h) == [name |-> h, uid |-> uid[h], disk |-> spec[h].disk]

HostRefs == [name : Hosts, uid : Nat \ {0}, disk : Disks \cup {NoDisk}]

(* Seeded fault: a host that declares no boot MAC matches any machine. *)
MatchesUnset(macs) == {h \in Hosts : spec[h].mac \in macs \cup {NoMAC}}

(* FindHostsByMAC.  NoMAC is never among the wanted addresses. *)
FindHostsByMAC(macs) == {h \in Hosts : Present(h) /\ spec[h].mac \in macs}

HasKickstart(h) == secret[h] # "none"

(* Seeded fault: the hint is not asked for. *)
AnyInstallDisk(h) == TRUE

HostInstallDisk(h) == spec[h].disk # NoDisk

(* MutateHostAnnotations, once new has been computed from base. *)
Patch(h, base, new) == notes' = [notes EXCEPT ![h] = MergePatch(base, new, notes[h])]

NotesChanged == UNCHANGED <<uid, spec, secret, created, edits, claims>>
=============================================================================
