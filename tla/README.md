# Verification of the anaconda provisioner plugin

TLA+ models, TLC runs and TLAPS proofs for `src/out-of-tree`: a plugin that lets
the baremetal-operator (BMO) install machines with anaconda over Redfish virtual
media, without Ironic. Line numbers are those of the source at the modelled
commit; `PROJECT.json` maps every definition to the lines it stands for.

## The system

| Component | State it keeps | Operations | Talks to |
|---|---|---|---|
| Provisioner, `internal/anaconda/provisioner.go` | none between passes: each pass reads the drive, the power state and two annotations | `Register`, `InspectHardware`, `UpdateHardwareState`, `Provision` (`BeginInstall`, `AwaitInstall`, `FinishInstall`, `ShutDownAfterInstall`), `Deprovision`, `PowerOn`, `PowerOff`, `AttachDataImage`, `DetachDataImage`, `GetDataImageStatus`, `GetHealth` | called by BMO, calls the Redfish connection and the install state |
| Unsupported operations, `internal/anaconda/unsupported.go` | none | fixed refusals or empty results | called by BMO |
| Factory, `internal/anaconda/factory.go`, `plugin/main.go` | one listener per process | `NewProvisionerFactory`, `NewProvisioner`, starting the listener | configuration, both routes |
| Install state, `internal/kube/hostresolver.go` | `install-result`, `install-message`, `install-started` annotations on the host | `WriteInstallReport`, `ReadInstallReport`, `ClearInstallReport`, `MarkInstallStarted`, `InstallStartedAt` | API server through BMO's cached client |
| Hosts and Secrets, `internal/kube/hostresolver.go`, `internal/core/host.go` | none | lookup by MAC and by name, kickstart Secrets, hardware data, root device hints | API server |
| Redfish connection, `internal/redfish/redfish.go` | none; the BMC keeps power, boot override and virtual media | `System`, `PowerState`, `Reset`, `SetBoot`, `BootSource`, `InsertMedia`, `EjectMedia`, `MediaStatus`, `Health` | the BMC |
| BMC addresses, `internal/redfish/bmcaddress.go` | none | parsing: usable or not, which system | provisioner |
| Kickstart route, `internal/httpapi/kickstart.go`, `anaconda.go` | none | `HandleKickstart`: MAC headers to host, template to kickstart, or the fallback | hosts and Secrets, the installer |
| Callback route, `internal/httpapi/callback.go` | none | `HandleCallback`: UID check, body, verdict | install state, the installer |
| Configuration, `internal/core/config.go` | read once | parsing of the environment, base URL | factory |
| Deployment and build | none | scripts, manifests, image builds | - |

A deploy runs like this. BMO calls `Provision` again and again. With media in
the drive and a stamp on the host an install is under way and the pass is
`AwaitInstall`; otherwise it is `BeginInstall`, which gets the machine off,
replaces the media, asks for a one time boot from it, clears the last verdict,
stamps the start and powers on. The machine boots the installer, fetches its
kickstart, wipes and installs, and posts a verdict that `HandleCallback` writes
on the host. The next `AwaitInstall` reads it and `FinishInstall` shuts the
machine down, ejects, sets the disk as boot source, powers on, and the host is
provisioned. `Deprovision` clears the annotations and ejects, as best it can.

### What is hard about it

Nothing remembers where an install is: every pass works it out from the drive,
the power state and two annotations. Three parties change those concurrently
(the passes, the listener, the machine), the annotations are read through an
informer, a pass may end at any call, and BMCs accept writes they do not apply.
`PROJECT.json` lists the hazards one by one. The properties they call for:

- **Install state**: a clear, a stamp and a report each survive the others'
  patches; the verdict read belongs to the install it decides.
- **Provisioner**: a provisioned host is installed, by this deploy; a running
  install is not cut and a finished one not restarted; media changes only under
  a machine that is off; a deploy, a shutdown and a teardown end.
- **Redfish connection**: what was asked for is read back before it is relied on;
  with several drives, status, insert and eject agree on which one; with several
  systems, none but the host's own is touched.
- **Kickstart route**: a machine gets only the kickstart of the host that owns
  its MAC, or one that wipes nothing.
- **Callback route**: a report reaches the host it was sent for.
- **Configuration and factory**: no install passes for finished because no report
  could come.
- **A host's life**: it gets through registration and inspection, keeps its claim,
  records nothing that was refused, and can always be deleted.

## Modules

There are four models. They overlap where one abstracts what another has in full.

**One deploy, call by call.**

| Module | Models |
|---|---|
| `InstallAnnotations` | the annotations and what each writer does to them; the merge patch |
| `HostStore` | their copies: the API server's, the informer's, and the versions between |
| `Machine` | one machine with one drive and its BMC: the operations of `redfish.Conn` and what the machine does alone (boot, install, post, halt, go down) |
| `Provisioner` | the composition: `Provision`, `Deprovision`, `PowerOn`, `PowerOff` call by call, BMO's host states, both routes in outline, the operator, the clock |
| `InstallInvariant` | why a deploy is safe: the inductive invariants, by what each needs ruled out |
| `InstallContract` | the abstract specification: what BMO is promised of a deploy |
| `InstallRefinement` | `Provisioner` as an `InstallContract`, by a refinement mapping |
| `MCProvisioner` | sets of faults for the configurations |

**The drives.** `MediaDrives` has the choice of drive in every call of `Conn`, the
passes of a deploy and a teardown as far as they touch drives, and the data images
BMO attaches in between. `DriveRefinement` sees them as the one drive of `Machine`,
which `Provisioner` is written over. `MCDrives` gives it a machine whose system lists
a USB drive before two CD drives, and has one more under its manager.

**The listener.** `HostObjects` (hosts and Secrets that operators create, edit,
delete and create again), `KickstartRoute` (the lookup by MAC, then the Secret, and
the machines that ask), `CallbackRoute` (the UID check, the body and the get, the
patch, each a step of its own), and `Listener`, which composes them with the calls
of `BeginInstall` that read or write the host. `MCListener` declares the hosts.

**A host's life.** `BMCService` (what an address reaches, on a service that may
come to serve more systems), `PluginFactory` (environment, configuration, listener),
and `HostLifecycle`, which composes them with BMO's passes from registration to
deletion: `Register`, `InspectHardware`, `Prepare`, `UpdateHardwareState` and the
power calls, `Provision` and `Deprovision` in outline, `Service`, `PowerOff`,
`Delete`. `MCLifecycle` has the addresses and the environments.

The proofs are in `ProvisionerProofs`, `MediaProofs`, `InstallProofs`,
`ContractProofs`, `DriveProofs`, `ListenerProofs`, `ReportProofs` and
`LifecycleProofs`.

### How state and actions correspond to the code

**Provisioner.** `pc` is the call a pass makes next; `idle` is no pass. BMO gives a
host one worker, so there is at most one. **An action is one remote call together
with the decision taken on its answer**, so anything may happen between two calls
and nothing within one. A call is followed by `Goto` (the pass goes on), `Requeue`,
`Return(e)` (a result with an `ErrorMessage`, or none) or `Complete` (an empty
result, on which BMO moves the host on). `sawMedia` is the one value a pass carries
from one call to a later one: what `MediaStatus` said decides both halves of
`Provision` and whether `BeginInstall` ejects.

The chain of `BeginInstall` is `Preconditions`, `BeginPower` (`CutPower` and
requeue when up), `Eject` (if `sawMedia`), `Insert`, `VerifyMedia`, `SetBoot`,
`VerifyBoot`, `ClearReport`, `MarkStarted`, `BeginOn`. That of `AwaitInstall` is
`ReadReport`, `AwaitClock`, and that of `FinishInstall` is `FinishPower`
(`ShutdownClock`, then `ForceDown` or `SoftDown`, and requeue, when up),
`FinishEject`, `FinishBoot`, `FinishOn`, `FinishDone`.

Runs are numbered: `begins` counts the stamps made, an installer carries the
number of the latest run (`run`), the disk that of the run that installed it
(`disk`), a verdict that of the run that posted it (`from`, a history variable the
code does not have). A stamp is its number; `budgetSpent` is the newest stamp
older than `ANACONDA_INSTALL_TIMEOUT`, so `time.Since(started) > timeout` is
`started <= budgetSpent` and no clock value is needed.

`Abort` ends a pass at any call: an error of the API server or the BMC, a
timeout, a restart of the controller. A call that failed but took effect is the
abort at the next call. Aborts are bounded; the one failure that may go on for ever
is a refused eject (`EjectRefused`), since `BeginInstall`, `FinishInstall` and
`Deprovision` all return its error and nothing else ends the wait.

**The contract.** `begun` is the number of stamps this deploy has made, `installed`
whether its run is whole on the disk, `phase` the host's state. Every step of the
provisioner is a step of the contract or leaves these three alone: one install per
deploy, handed over when it is whole, and whole until the host is taken back.

**MediaDrives.** A drive holds nothing, this deploy's image, an older medium or a
data image. `InsertableMedia`, `InsertedMedia` and `VirtualMedia` choose as in
`redfish.go`, anew in every call. `stamped` and the power are as much of the rest
of a pass as the choice of drive depends on; `PassEnds` stands for every refusal,
wait, failure and restart between two calls.

**Listener.** The lookup by MAC yields a `ref`, a copy of the host as it was; the
Secret is read in the next step. A request is `HostUID` (the check), `Read` (the
body and the get of `MutateHostAnnotations`) and `Write` (the patch, by name). Every
reader takes its get and its use as two steps, so a stale cached read is a get
that was made earlier; a read older than its own request is in `HostStore` only.
An address stands for all its notations, which `NormalizeMAC` makes one. After an
error answer the installer is `fetching` still: it retries or waits.
History variables number the runs (`runs`), keep every spec a UID has had
(`claims`), and mark what an operator has not interfered with since (`vouched`).

**HostLifecycle.** `data` is what BMO read at the start of a pass, so that host,
spec and Secret may have changed when it is used. `Register` and each `Handle...`
are one step each: what of a deploy may go wrong within a pass is `Provisioner`'s.
`meant`, `touched` and `probed` are history.

### Assumptions about what is outside the code

- A machine's report that has not got through is lost with its power, unless the
  fault `late_callback` is on (a proxy or a slow handler still holds it).
- Without an override the firmware boots the disk.
- In `Provisioner`, only BMO changes the power, apart from warm resets and the
  fallback kickstart; in `Listener` anyone may power a machine on, in
  `HostLifecycle` anyone may press its button.
- A BMC applies a one time override once, unless `once_ignored` (`redfish.go:266`
  expects some that do not).
- A machine reports the addresses it has (`MACsOf`), and an installer posts to
  the URL of its own kickstart.
- BMO's webhook keeps a boot MAC once it is set; a finalizer keeps a host while its
  worker has it.
- BMO's states and what it makes of each answer are external: they are taken from
  the comments in `provisioner.go` and `unsupported.go` that rely on them.
- A BMC gains systems; that its only system is replaced by another is not modelled.
- `StartDeploy` marks whatever the drives hold as not this deploy's image.

## Runs

| Run | Instance | Shows |
|---|---|---|
| `deploy` | 3 deploys, 3 installs, 2 aborts; dropped inserts and overrides, refused ejects | the safety properties of a deploy, teardown and redeploy; that the strengthening used in the proofs is true; that all of it is an `InstallContract` |
| `disorder` | 1 deploy, 2 installs, lag of one write, late reports, one time override made permanent | what needs no order of events: media swaps and no installer in service, and `MediaInvariant`, which says why |
| `progress` | 2 deploys, 2 installs, 2 aborts; BMC gone, clear fails, ejects refused | every shutdown ends, and every deploy and teardown whose ejects are not refused for good, under fairness; a deploy begins one install, whatever an earlier one has left on the host |
| `drives` | 4 drives, 3 of them the system's, 2 of those CDs, each empty or not at first; dropped inserts, teardowns that clear or eject nothing | a deploy that found at most one medium boots its own image and takes it out, whatever data images came and went before, and uses the drives as `Machine`'s one |
| `listener` | 2 hosts, 3 addresses, 2 UIDs, 1 edit, 2 posts, 1 call, 1 stray boot | only declared disks are wiped, a checked host's machine is served its own kickstart, verdicts go home, are true and stay |
| `lifecycle` | 1 host, 2 systems, 3 addresses, 3 environments, 2 UIDs, 1 edit, 1 fault | no other machine is touched, nothing refused is recorded, no install passes unreported, and a host gets through its life, under fairness |

The remaining runs each show a disagreement between the code and what a comment,
the README or a test of the repository says of it (`findings` quotes the lines).
Each has one trouble on and one property violated. `deploy` and `progress` check the
same property without the trouble and it holds, or a theorem proves it:
`StartedWithoutListener` for `no_listener_cut_short`, and `InstallerBootsOnce` and
`BootsOnceInOrder` for `once_ignored`. That last property is in no passing run: it is
as good as the BMC's word, and `redfish.go:266` says that nothing may rely on it.

| Run | Trouble | What happens |
|---|---|---|
| `finish_cut_short` | a pass ends between `FinishInstall`'s eject and its power on | the next pass reads an empty drive and begins the finished install again: the disk is wiped a second time |
| `failed_forget` | `Deprovision` cannot clear, and cannot reach the BMC | the next deploy is finished by the last one's verdict, with nothing installed |
| `stale_stamp` | the informer has not seen the stamp | the pass cuts the power of the install it began |
| `hung_shutdown` | the host stays in `PoweringOff` | never forced off: `PoweringOff` is requeued before the budget is looked at |
| `no_listener_cut_short` | without a listener, a pass ends between the stamp and the power on | the host is called provisioned while it is off |
| `once_ignored` | the BMC applies a one time override continuously | the reboot that ends an install boots the installer again, against `provisioner.go:222`: the code does rely on `Once` applying once |

Four more disagreements have no run of their own. The hazards list them, the theorems'
assumptions name the first two, and TLC finds the first three when the trouble is let
into the models here:

- A report answered after the next run's clear decides that run
  (`VerdictIsThisRuns` under `late_callback`), while `hostresolver.go:210` says of the
  clear that a reinstall cannot read the last run's.
- A teardown that cannot reach the BMC leaves the media in, and the next power on
  boots the installer (`InstallerBootsOnlyInDeploy` under `bmc_gone`), while
  `provisioner_test.go:428` says that a deprovisioned host must stop booting it.
- A BMC that refuses the eject for good holds the finalizer (`DeprovisionEnds` without
  its condition, under `eject_fails`), while `provisioner.go:558` says that teardown
  must not wedge the finalizer and `provisioner_test.go:453` that it must not depend on
  the BMC.
- Without a listener and with two drives, a data image goes in beside the image the
  host was deployed from, while `provisioner.go:597` says that attaching replaces it.

### Bounds

Every unbounded counter has a named constant. In the deploy runs, two deploys are
the fewest in which one deploy can leave something for the next; `deploy` has a
third, so that what survives a teardown can also survive the deploy after it. In
an undisturbed deploy each deploy begins at most one install (`BegunOnce`), so
`MaxBegins = MaxDeploys` never disables `MarkStarted`; the runs whose faults let a
deploy begin more than one have a spare one. Two aborts cover a pass cut short and
its repetition cut short too. One lagging write is the fewest that makes a read
stale; `disorder` has a single deploy, since lag multiplies the states.

`drives` needs no counter. Three listed drives are the fewest with a first that is
no CD and a choice among CDs; the fourth, a manager's, must never be looked at.

In `listener`, two hosts are the fewest of which one can take the other's report
or machine, and two UIDs let one name be used twice. Two posts are a report and its
repetition, or two reports that race; one call of `BeginInstall` is enough for its
clear and its stamp to race with both. The symmetry is between the two requests,
which no property names. In `lifecycle`, one edit and one fault may come at any
point, so each handler meets each of them; two UIDs allow a move, or a deletion and
a new host. A rotation of a password on the BMC and in the secret takes two edits and
is not completed in the run: `GoodIsProven` is checked there for either change alone,
and `GoodWasProbed` proves it for any number of both. The theorems hold for every
value of all these bounds.

`listener` and `lifecycle` turn deadlock checking off: once their bounds are used
up and the host is gone nothing is left to do. In the other runs a host can always
be edited.

### Fairness

`Provisioner` assumes: BMO repeats the pass of a host that is being
provisioned or deprovisioned (it requeues on every unfinished result); a power
pass once begun goes on; time passes; a machine told to start starts and one
going down gets there (not under `hung_shutdown`); a watch delivers. Calls may fail,
but not for ever: `progress` has at most `MaxAborts` passes fail on an arbitrary call,
and ejects, which may be refused without a bound, are not refused for good where a
property says so (`EjectsGetThrough`: from some point on no pass ends at an eject).
`DeployResolves` and `DeprovisionEnds` need that, and TLC violates both without it;
`ReportedHostGoesDown` does not. No fairness of the code gives it: it is a condition
on the BMC, and a BMC that does not meet it holds the host. There is no
fairness on the installer, its report, the kickstart request, or on BMO starting
power passes or deploys: nothing makes those happen. `DeployResolves` therefore
rests on the budget, and on nothing the installer does. An error shown on the host
counts as resolution; the code keeps polling behind it.

`HostLifecycle` assumes `WF_vars(Pass)`: BMO passes over an existing host again and
again, and a pass once begun goes on. Nothing else is fair, the BMC's recovery and
the report included. Its liveness properties are conditional on a BMC that stays
reachable by what the operator wrote, and on a host that stays as asked for; its
outline of `Deprovision` has no refused ejects.
`MediaDrives` and `Listener` have safety properties only.

## Proofs

TLAPS proves, for every value of the constants:

**A deploy.** What is promised depends on what goes wrong, so each theorem names the
troubles it rules out, and no other: `Faults`, `MaxLag` and every bound are else free.

| Ruled out | Theorems |
|---|---|
| nothing | `TypeCorrect`, `MediaAlways`, `MediaIsSwappedDown` (no media swap under a running machine); with a listener `ServiceIsSafe` (no installer on a host in service) and `ProvisionedHostIsStarted` |
| a BMC that does not answer a teardown | with a listener, `NoInstallerAfterTeardown` |
| that, and a one time override that stays (which `redfish.go:266` expects) | with a listener, `InstallerBootsOnce` |
| stale reads, `FinishInstall` cut after its eject | `OneInstallPerDeploy`, `FinishedInstallIsKept` |
| those two, a failing clear in `Deprovision` | `RunningInstallIsLeft` |
| stale reads, a failing clear | `NoStampedInstallIsCut`: a running install is left alone also where `FinishInstall` may be cut after its eject |
| those two, every cut of a pass | without a listener, `StartedWithoutListener` |
| stale reads, reports that outlive their machine | `ReportsAreTheLatest`, `VerdictIsNeverAnOlderRuns`, `PowerOnIsPrepared` |
| stale reads, late reports, failing clears, an override that stays: `InOrder` | `InstallAlways`; with a listener `ProvisionedHostIsInstalled`; with a BMC that answers teardowns, listener or not, `BootsOnceInOrder` |
| those, and `FinishInstall` cut after its eject: `Undisturbed` | with a listener, `ImplementsContract`: the provisioner implements `InstallContract` |

In particular a host is never handed over uninstalled because a pass was cut short,
at whatever call: a `FinishInstall` that is cut after its eject costs a second
install (`finish_cut_short`), and no more. TLC finds
each property violated when one trouble named in its row is let in and the others
are not, so the rows cannot be shortened (but for late reports in
`BootsOnceInOrder`, which there are none of without a listener); the table of runs
keeps the cases that contradict a line of the repository.

The safety properties of the other models need nothing ruled out:

- `DrivesKeepTypes`, `DeployBootsItsImage`, `DeployTakesItsImageOut`,
  `DrivesActAsOne`: for any drives, media types and faults. The last one ties
  `MediaDrives` to `Machine`: while a deploy that found at most one medium runs, each
  insert and eject is one on a single drive, whichever drive each call chose. It says
  nothing of a data image put beside the deployed one afterwards.
- `ListenerTypes`, `DeclaredAreWiped`, `CheckedIsServed`, `VerdictsGoHome`,
  `SuccessIsTrue`, `ToldVerdictsStay`, `ClearedIsGone`: for any hosts, addresses,
  requests and interleaving.
- `LifecycleTypes`, `NeverAnothersMachine`, `GoodWasProbed`,
  `NothingPassesUnreported`, `RefusedIsNotRecorded`, `ClaimsStay`: for any systems,
  addresses, environments and edits.

They assume what their modules' `ASSUME`s say of the constants, which TLC evaluates.

### Along which argument

**A deploy.** No property is inductive, and the strengthenings come in the levels of
the table. `MediaInvariant` needs nothing: BMO calls each method in its states
(`PassFitsState`), so nobody but the pass powers the machine on (`StaysDown`,
`StaysUp`), what a pass read of the drive is still so (`PassKnowsDrive`), and after
the last eject nothing can install (`OutOfReach`); `NothingLeftIn` and
`OverrideSpent` name their own trouble. `BegunOnce` says the media stays in beside
the stamp until `FinishInstall` ejects, so that the next pass finds both and begins
nothing; `StampsOfThisDeploy` that no earlier stamp is there to be found; `StampedIsLeft`
that a pass which begins beside a stamp all the same finds no installer running;
`LatestReports` that a verdict, its report and its installer are of the latest run,
because a clear is only made on a machine that is off.

That a provisioned host is installed needs more, of a deploy in order: the verdict
`FinishInstall` acts on is true (`VerdictIsTrue`); that needs reports to tell what is
on the disk (`ReportsAreTrue`) and the stamp to number the run (`StampedInstall`,
`OneBeginPerDeploy`); the installer must not start over (`FreshInstallersOnly`,
`WorkInProgress`). A `FinishInstall` that was cut leaves a host on which this is
almost so: `Landed`, an install that is whole and reported and a drive that is
empty. It is the only state in which a pass begins beside a stamp.

Each lemma of `InstallProofs` takes one group of actions, one step per action; the
store's part is in `MutateInOrder`, `ClearInOrder`, `MarkInOrder` and
`WriteInOrder`, collected in `StoreSteps`. Without a listener `StartedStaysOn` takes
the place of a report. For the contract, the `...Seen` lemmas say which actions it
sees at all, and `ContractNext` maps those to its steps with the same invariant.

**The drives.** `ActsAsOne`: while a deploy that found at most one medium is under
way there is at most one, it is out at the insert, and at the power on it is this
deploy's. Then "the first inserted" and "this run's image" are the same drive, and
`Medium`, what the drives hold between them, changes as `Machine`'s drive does.

**The listener.** `Typed` adds to the types that no lookup and no request is about
a host or a run that is not there (`InUse`). `Declares` follows a host's spec from
`claims` through the `ref` to the run, `Vouched` a checked host through the two
steps of the route while no operator interferes. `Homeward` says where every
verdict and request is from, `Earning` that requests carry what their run came to,
`Settled` what a get under way has seen of the verdict that was told: `NotesSteps`
lists the patches that can reach a host's annotations, and each keeps it.

**A host's life.** `Aimed` says that the address a pass or a spec holds reaches only
systems its operators meant (`MeantBy`), which `AddSystem` keeps because an address
without a system reaches nothing once there are two. `Proven` and `Reported` are
what registration and the configuration keep; the others follow from the types.

Only model-checked: the six liveness properties (`DeployResolves`,
`ReportedHostGoesDown`, `DeprovisionEnds`, `HostsBecomeAvailable`, `DeletionEnds`,
`PowerSettles`: the prover has no fairness and no `ENABLED`) and the violation runs.
Every invariant and action property of a passing run is proved as well, and so is
`OneInstallerBootPerRun` for a BMC that keeps its word.

## Not modelled, and why

- `GetHealth`, `ReportBootMACCandidates`: they report what nothing in the program
  reads. The contents of HardwareData: `InspectHardware` passes them on.
- The install message: it accompanies the verdict and nothing reads it for a
  decision. Wording of errors, events and logs; the text of addresses and templates.
- Which `/dev/disk/by-*` link a root device hint becomes, and the format of stamps:
  pure text. A stamp that does not parse needs a hand edit.
- Redfish task polling and client timeouts: a call that fails. The fallback to the
  managers' drives when listing the system's own fails for one call only.
- BMC event subscriptions: fixed answers.
- A machine that never gets out of `PoweringOff` while `BeginInstall` waits for it:
  nothing in the repository promises an end, and `progress` assumes it gets out.
- `PoweringOn` and `PoweringOff` in `HostLifecycle`: they are in `Machine`.
- Scripts, manifests and image builds: no state of the program.
- The window between the get and the patch of `MutateHostAnnotations` in
  `Provisioner`: a read behind the API server is what lag gives there, and
  `Listener` has the two steps.

What a further round would take up, in this order: the listing of the system's
media failing for one call, with a manager shared by two machines; two hosts whose
addresses name the same system; and `Listener` without the outline of `BeginInstall`,
composed with `Provisioner` itself.
