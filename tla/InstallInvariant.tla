-------------------------- MODULE InstallInvariant --------------------------
(***************************************************************************)
(* Why a deploy is safe: what the provisioner's calls, the annotations,    *)
(* the drive and the machine owe each other at every moment.  Each part    *)
(* names the code it rests on; together they are inductive, which is what  *)
(* MediaProofs and InstallProofs prove.                                    *)
(***************************************************************************)
EXTENDS Provisioner

Installers == {"installer", "installing"}

(* The steps between finding the host off and powering it on. *)
DownSteps == {"Eject", "Insert", "VerifyMedia", "SetBoot", "VerifyBoot", "ClearReport",
              "MarkStarted", "BeginOn", "FinishEject", "FinishBoot", "FinishOn"}

(* BMO calls Provision, Deprovision and the power methods each in its states. *)
PassFitsState ==
  /\ pc \in ProvisionSteps => bmh = "provisioning"
  /\ pc \in DeprovisionSteps => bmh = "deprovisioning"
  /\ pc \in PowerSteps => bmh \in {"available", "provisioned"}

(* A machine without power runs nothing. *)
RunsOnPower == power \in {"Off", "PoweringOn"} => os = "none"

(* BeginInstall and FinishInstall check the power state, and nothing but    *)
(* their own power on changes it from off during a deploy.                  *)
StaysDown == pc \in DownSteps => power = "Off"

(* From FinishInstall's eject until the next deploy nothing can install. *)
OutOfReach ==
  /\ pc \in FinishTail => drive = "empty" /\ os \notin Installers
  /\ CallbackEnabled /\ bmh = "provisioned" => drive = "empty" /\ os \notin Installers

(* FinishInstall reports a host it has just powered on. *)
StaysUp == pc = "FinishDone" => power \in {"PoweringOn", "On"}

(* What the pass read of the drive is still so while it matters, and the    *)
(* media and the override are in place once they were verified.             *)
PassKnowsDrive ==
  /\ pc \in {"InstallStartedAt", "Preconditions", "BeginPower"} => (sawMedia <=> drive # "empty")
  /\ pc = "Insert" => drive = "empty"
  /\ pc = "VerifyMedia" => drive \in {"empty", "iso"}
  /\ pc \in {"SetBoot", "VerifyBoot", "ClearReport", "MarkStarted", "BeginOn"} => drive = "iso"
  /\ pc \in {"ClearReport", "MarkStarted", "BeginOn"} => CdIsNext

(* A teardown that reaches its BMC leaves nothing to install from. *)
NothingLeftIn ==
  "bmc_gone" \notin Faults =>
    /\ pc = "TeardownDone" => drive = "empty"
    /\ bmh = "available" => drive = "empty" \/ ~CdIsNext

(* A one time override is spent by the boot it directs. *)
OverrideSpent ==
  "once_ignored" \notin Faults =>
    /\ boot # "CdContinuous"
    /\ power \in {"On", "PoweringOff"} => boot # "CdOnce"

(* With a listener the only power on that finds media in is BeginInstall's, *)
(* and its run has not booted an installer yet.                             *)
FreshBoots ==
  /\ run <= begins
  /\ pc = "BeginOn" => run < begins
  /\ CallbackEnabled /\ Faults \cap {"bmc_gone", "once_ignored"} = {}
       /\ power = "PoweringOn" /\ boot = "CdOnce" /\ drive # "empty"
       => run < begins

(* All of this holds for every fault, every lag and every bound. *)
MediaInvariant ==
  /\ PassFitsState
  /\ RunsOnPower
  /\ StaysDown
  /\ OutOfReach
  /\ StaysUp
  /\ PassKnowsDrive
  /\ NothingLeftIn
  /\ OverrideSpent
  /\ FreshBoots

-----------------------------------------------------------------------------
(* FinishInstall is not cut short after its eject (Abort). *)
Uncut == ~({"abort", "abort_finish"} \subseteq Faults)

(* Reads are not stale: a get returns what the last patch left. *)
Coherent == cache = api /\ unseen = << >>

(* Where reads are not stale and no FinishInstall is cut short after its    *)
(* eject, the media stays beside the stamp of the install a deploy has      *)
(* begun, so that the next pass finds both and begins no second one.        *)
BegunOnce ==
  /\ disk <= begins
  /\ pc \in BeginSteps \ {"BeginOn"} => begins = base
  /\ bmh = "provisioning" => begins <= base + 1
  /\ bmh = "provisioning" /\ begins # base /\ pc \notin FinishTail
       => api.started # 0 /\ drive # "empty"

(* If Deprovision's clear succeeds too, no earlier deploy's stamp is left   *)
(* for a pass to come upon.                                                 *)
StampsOfThisDeploy ==
  /\ bmh = "available" => api.started = 0
  /\ pc \in {"TeardownMedia", "TeardownEject", "TeardownDone"} => api.started = 0
  /\ pc \in BeginSteps \ {"BeginOn"} => api.started = 0
  /\ bmh = "provisioning" /\ begins = base => api.started = 0

(* Even where a FinishInstall may be cut short, a pass that begins beside   *)
(* a stamp finds the drive empty, and then no installer is running.         *)
StampedIsLeft ==
  /\ bmh = "available" => api.started = 0
  /\ pc \in {"TeardownMedia", "TeardownEject", "TeardownDone"} => api.started = 0
  /\ pc \in {"Preconditions", "BeginPower", "CutPower"} /\ api.started # 0 => drive = "empty"
  /\ bmh = "provisioning" /\ api.started # 0 /\ drive = "empty" => os \notin Installers

(* Where reads are not stale and a report dies with the machine that sent   *)
(* it, every report and every verdict there is comes from the latest run.   *)
LatestReports ==
  /\ pc \in {"MarkStarted", "BeginOn"} => api.result = "none"
  /\ pc = "BeginOn" => api.started = begins
  /\ api.result # "none" => api.from = begins
  /\ os \in Installers => run = begins
  /\ posts # {} => power \in {"On", "PoweringOff"}
  /\ \A p \in posts : p.run = begins

-----------------------------------------------------------------------------
(***************************************************************************)
(* The rest holds while reads are not stale, reports die with the machine  *)
(* that sent them, Deprovision's clear succeeds and a one time override    *)
(* applies once.  A pass may be cut short at any call.                     *)
(***************************************************************************)
InOrder ==
  /\ MaxLag = 0
  /\ Faults \cap {"late_callback", "clear_fails", "once_ignored"} = {}

Undisturbed == InOrder /\ Uncut

(***************************************************************************)
(* What a FinishInstall that was cut short leaves: an install that is      *)
(* whole and reported, on a machine that runs no installer, and a drive    *)
(* that no longer says so.  The next pass begins an install over it.       *)
(***************************************************************************)
Landed ==
  /\ ~Uncut /\ CallbackEnabled
  /\ bmh \in {"provisioning", "deprovisioning"}
  /\ api.result = "succeeded" /\ disk = begins
  /\ os \notin Installers /\ posts = {}

(* The stamp is there from BeginInstall's mark to Deprovision's clear, and  *)
(* until FinishInstall ejects there is media to go with it.  A pass that    *)
(* begins beside a stamp does so over a landed install and an empty drive.  *)
StampedInstall ==
  /\ bmh = "available" => api.started = 0
  /\ pc \in {"TeardownMedia", "TeardownEject", "TeardownDone", "MarkStarted"} => api.started = 0
  /\ pc \in BeginSteps \ {"BeginOn"} /\ api.started # 0 => Landed
  /\ pc \in {"Preconditions", "BeginPower", "CutPower"} /\ api.started # 0 => drive = "empty"
  /\ pc \in {"BeginOn"} \cup AwaitSteps \cup FinishSteps => api.started # 0
  /\ pc \in AwaitSteps \cup FinishSteps => CallbackEnabled
  /\ bmh = "provisioning" /\ pc \notin FinishTail /\ api.started # 0 /\ drive = "empty" => Landed

(* The stamp numbers the latest install begun, one of this deploy, and a    *)
(* deploy that is never cut after its eject begins at most one.             *)
OneBeginPerDeploy ==
  /\ api.started # 0 => api.started = begins /\ base < begins
  /\ Uncut /\ bmh = "provisioning" /\ api.started = 0 => begins = base
  /\ Uncut /\ bmh = "provisioning" => begins <= base + 1

(* Nothing is reported of a run that is not the disk's. *)
ReportsAreTrue ==
  /\ disk <= begins
  /\ os \in Installers => posts = {}
  /\ pc \in FinishTail => posts = {}
  /\ \A p \in posts : disk = IF p.ok THEN begins ELSE 0

(* Where a BMC always answers a teardown, an override still waiting beside  *)
(* media belongs to a run whose installer has not booted.                   *)
FreshInstallersOnly ==
  "bmc_gone" \notin Faults /\ boot = "CdOnce" /\ drive # "empty" =>
    /\ bmh = "provisioned" \/ power = "PoweringOn" => run < begins
    /\ bmh = "provisioning" /\ api.started # 0 /\ api.result = "none" => run < begins

(* The verdict beside a stamp is true; only a landed install has one while  *)
(* its machine, off, could still boot the media.                            *)
VerdictIsTrue ==
  /\ api.started # 0 /\ api.result = "succeeded" => disk = begins
  /\ api.started # 0 /\ os \in Installers => api.result = "none"
  /\ api.started # 0 /\ boot = "CdOnce" /\ drive # "empty" /\ api.result # "none"
       => Landed /\ power = "Off"
  /\ pc \in FinishSteps => api.result = "succeeded" /\ disk = begins

(* Whatever is installing, or about to, has not installed this deploy yet.  *)
WorkInProgress ==
  Uncut /\ bmh = "provisioning" /\ api.started # 0
    /\ (os \in Installers \/ (boot = "CdOnce" /\ drive # "empty"))
  => disk <= base

DeployInvariant ==
  /\ Coherent
  /\ LatestReports
  /\ StampedInstall
  /\ OneBeginPerDeploy
  /\ ReportsAreTrue
  /\ FreshInstallersOnly
  /\ VerdictIsTrue
  /\ WorkInProgress
  /\ ProvisionedIsInstalled

(* Without a listener nothing ends an install, so a pass neither waits for  *)
(* a report nor shuts down, and the machine it started stays on.            *)
StartedStaysOn ==
  ~CallbackEnabled =>
    /\ pc \notin AwaitSteps \cup FinishSteps
    /\ bmh = "provisioning" /\ api.started # 0
         => pc = "BeginOn" \/ power \in {"PoweringOn", "On"}

(* The inductive invariant of a deploy in order: what the store, the    *)
(* drive, the override and the machine owe each other whichever call of     *)
(* Provision, Deprovision or a power method comes next.                     *)
InstallIsSafe == MediaInvariant /\ DeployInvariant
=============================================================================
