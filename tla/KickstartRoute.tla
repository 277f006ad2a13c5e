--------------------------- MODULE KickstartRoute ---------------------------
(***************************************************************************)
(* The kickstart route of the listener and the machines that ask it.  The  *)
(* handler looks the host up by MAC and then reads the host's Secret; the  *)
(* ref it keeps in between is the host as it was.                          *)
(***************************************************************************)
EXTENDS HostObjects, Sequences

CONSTANT
  MACsOf   (* the addresses the machine behind each host's BMC reports *)

ASSUME MACsOfAssumption == MACsOf \in [Hosts -> SUBSET MACs]

(***************************************************************************)
(* A machine is known by the host whose BMC it is.  turned_away: the       *)
(* fallback powered it off.  After an error answer it is fetching still:   *)
(* it may ask again, or wait until it is powered off.                      *)
(***************************************************************************)
Stages == {"off", "fetching", "found", "turned_away", "installing", "done"}

Outcomes == {"under_way", "installed", "failed"}

VARIABLES
  stage,   (* where each machine is                                          *)
  ref,     (* the HostRef its kickstart request resolved to                  *)
  run,     (* the number of the run it is in                                 *)
  runs     (* every kickstart served: to which machine, rendered for whom,   *)
           (* and how the install it started went                            *)

routeVars == <<stage, ref, run, runs>>

NoRef == [name |-> 0, uid |-> 0, disk |-> NoDisk]

Runs == [machine : Hosts, name : Hosts, uid : Nat \ {0}, disk : Disks \cup {NoDisk},
         kickstart : {"plain", "templated"}, outcome : Outcomes]

RouteTypeOK ==
  /\ stage \in [Hosts -> Stages]
  /\ ref \in [Hosts -> HostRefs \cup {NoRef}]
  /\ runs \in Seq(Runs)
  /\ run \in [Hosts -> 0..Len(runs)]

RouteInit ==
  /\ stage = [m \in Hosts |-> "off"]
  /\ ref = [m \in Hosts |-> NoRef]
  /\ run = [m \in Hosts |-> 0]
  /\ runs = << >>

-----------------------------------------------------------------------------
AnacondaMACs(m) == MACsOf[m]

(* ServeFallbackKickstart. *)
TurnAway(m) == stage' = [stage EXCEPT ![m] = "turned_away"]

(* HandleKickstart, up to the lookup: of several hosts the first is used. *)
LookUp(m) ==
  LET found == FindHostsByMAC(AnacondaMACs(m))
  IN
  /\ stage[m] = "fetching"
  /\ \/ found = {} /\ TurnAway(m) /\ UNCHANGED ref
     \/ /\ stage' = [stage EXCEPT ![m] = "found"]
        /\ \E h \in found :
             (\A g \in found : h <= g) /\ ref' = [ref EXCEPT ![m] = NewHostRef(h)]
  /\ UNCHANGED <<run, runs>>

(* Seeded fault: a template naming a disk is rendered without one. *)
RendersAnything(kickstart, disk) == TRUE

Renderable(kickstart, disk) == kickstart = "plain" \/ disk # NoDisk

(* WriteKickstart: the installer wipes the rendered disk and goes on. *)
StartRun(m, kickstart) ==
  /\ runs' = Append(runs, [machine |-> m, name |-> ref[m].name, uid |-> ref[m].uid,
                           disk |-> ref[m].disk, kickstart |-> kickstart,
                           outcome |-> "under_way"])
  /\ run' = [run EXCEPT ![m] = Len(runs) + 1]
  /\ stage' = [stage EXCEPT ![m] = "installing"]

(* HandleKickstart, from the Secret on, which may not be read or not render. *)
ServeKickstart(m) ==
  LET content == secret[ref[m].name]
  IN
  /\ stage[m] = "found"
  /\ ref' = [ref EXCEPT ![m] = NoRef]
  /\ \/ stage' = [stage EXCEPT ![m] = "fetching"] /\ UNCHANGED <<run, runs>>
     \/ /\ ~HasKickstart(ref[m].name) \/ ~Renderable(content, ref[m].disk)
        /\ TurnAway(m)
        /\ UNCHANGED <<run, runs>>
     \/ /\ HasKickstart(ref[m].name) /\ Renderable(content, ref[m].disk)
        /\ StartRun(m, content)

(* The installer ends; the machine stays up until it is powered off. *)
EndRun(m) ==
  /\ stage[m] = "installing"
  /\ stage' = [stage EXCEPT ![m] = "done"]
  /\ \E outcome \in {"installed", "failed"} : runs' = [runs EXCEPT ![run[m]].outcome = outcome]
  /\ UNCHANGED <<ref, run>>

PowerOff(m) ==
  /\ stage' = [stage EXCEPT ![m] = "off"]
  /\ run' = [run EXCEPT ![m] = 0]
  /\ ref' = [ref EXCEPT ![m] = NoRef]
  /\ UNCHANGED runs

(* The machine boots the installer: its provisioner, or anyone's power on. *)
BootInstaller(m) ==
  /\ stage[m] \in {"off", "turned_away"}
  /\ stage' = [stage EXCEPT ![m] = "fetching"]
  /\ UNCHANGED <<ref, run, runs>>
=============================================================================
