# Verification of the bring-your-own-host infrastructure provider

TLA+ models, TLC runs and TLAPS proofs for the Cluster API provider in this
repository. `PROJECT.json` lists the components, runs, theorems and hazards and
maps every modelled definition to source lines.

## 1. The system

Machines of a workload cluster run on existing hosts. An agent on each host
registers it as a `ByoHost` object in the management cluster; the registered,
unclaimed hosts are the *capacity pool*. Cluster API creates a `ByoMachine` for
every machine it wants; the provider claims a host for it, the agent
bootstraps a Kubernetes node there, and when the machine is deleted the host
is cleaned up and returns to the pool.

| Component | State | Operations | What makes it correct |
|---|---|---|---|
| ByoMachine controller (`byomachine_controller.go`) | `ByoMachine` status and finalizer; round-robin index in memory | `reconcileNormal`, `attachByoHost`, `reconcileDelete`, `markHostForCleanup`, remediation | a host has one owner; a deleted machine releases its hosts and then goes |
| Host selection (`selectHostForClaim`) | index per cluster | filter, priority, round robin | the best fitting host; every machine is served |
| Lease (`tryAcquireLease`, `releaseLease`) | an annotation with a time | acquire by `Update`, release by patch | at most one claim in progress per host |
| ByoHost controller (`byohost_controller.go`) | `cleanup-started-at` annotation | record, force clean-up after a timeout | forced only when due, and the host is usable afterwards |
| Agent (`host_reconciler.go`) | conditions; node files, `/run/cluster-api/machine-id` | `reconcileNormal`, `hostCleanUp`, bootstrap, reset | no node of an earlier machine on a reused host |
| Registration (`host_registrar.go`) | the `ByoHost` object | `Register`, `UpdateHost` | idempotent across restarts |
| Agent certificates (`csr.go`, `main.go`), CSR approval (`byoadmission_controller.go`) | CSR, kubeconfig file, rotation timer | request, approve, write, rotate | an agent always has, in the end, a valid certificate |
| BootstrapKubeconfig controller | token secret, status | fill in data, create token, publish kubeconfig | a published token exists; late data is taken up |
| K8sInstallerConfig controller, installer registry | installation secret, status | make scripts for the host, create secret, report it | the agent gets scripts that fit for every claimed host |
| ByoCluster controller | finalizer, endpoint | ready, delete after the machines | no machine outlives its cluster |
| Node set-up (`host_reconciler.go`, `cloudinit/`, `drift.go`) | files, systemd units, services | install, bootstrap, reset, restart services | a reused host runs its own machine's kubelet |
| Capacity, GPU, metrics, webhooks | | report, validate | |

The components interact only through API objects and through the host's disk.
Three processes write a `ByoHost`: the two controllers and the agent. Each
reads a copy, edits it and lets the patch helper of Cluster API turn the
difference into up to **three separate calls**, in the order conditions,
metadata and spec, status. A call carries the fields that differ from the copy
*as read*; only conditions are merged with a conflict check. Nothing locks a
host from read to patch. The hard behaviours follow from that:

* a claim (labels, then `MachineRef`) or a release (labels, then `MachineRef`)
  can be half done, because a call fails or a process stops;
* a call computed from an old copy is applied to an object that has changed;
* the forced clean-up races the agent's own;
* what is on the disk and what the object says part ways (crash, reboot,
  failed reset, deleted object).

## 2. Modules

| Module | Content |
|---|---|
| `HostPool` | abstract specification of the pool: `Claim`, `Join`, `Reset`, `Release` on `owner` and `node` |
| `ByoHost` | the `ByoHost` record, the edits reconcilers make to a copy, the patch helper |
| `HostLifecycle` | ByoMachine controller, ByoHost controller, agents and environment on top of `ByoHost` |
| `HostSelection` | `selectHostForClaim` in the claim loop, with panic and restart |
| `HostClaim` | the lease with its expiry, several managers, informer caches that lag |
| `CleanupTimeout` | `getCleanupTimeout` as a function, with its theorems |
| `BootstrapToken` | the BootstrapKubeconfig controller and the life of a token |
| `Credentials` | CSR bootstrap and rotation of the agent, the ByoAdmission controller |
| `InstallerRegistry` | which installer is made for an OS, architecture and version |
| `Installation` | ByoCluster, ByoMachine and K8sInstallerConfig controller and the agent hand over the installation secret; pause and deletion |
| `TLSSecret` | which keys `createBootstrapSecretTLSBootstrap` puts into the secret |
| `NodeSetup` | install, bootstrap and reset on the host step by step, and the drift detector |
| `*Proofs` | TLAPS proofs about the module of that name |
| `MC*` | definitions for TLC |

The modules look at one system at different resolution. What is one step in one
is taken apart in another: `AttachLease` of `HostLifecycle` in `HostClaim`; its
`AgentCleanUp` and `AgentBootstrap` in `NodeSetup`; `MachineAttach` and
`AgentCleans` of `Installation` in `HostLifecycle`; the selection of a host in
`HostSelection`; the bootstrap kubeconfig of `Credentials` in `BootstrapToken`; the
keys of `NodeSetup` in `TLSSecret`, which it extends.

**`HostLifecycle`.** `host` holds the API objects, `machine` the ByoMachines,
`disk` the node and machine ID on each host. `mctl`, `hctl` and `agent[h]` are
the reconciles in progress, with the copy as read (`before`) and as edited
(`after`) and the next call (`pc`). Every API call is a step
(`MctlCall`, `HctlCall`, `AgentCall`), so processes interleave and stop between
calls. An edit is an operator of `ByoHost` (`Claimed`, `MarkedForCleanup`,
`ForceCleaned`, `CleanedUp`, ...).

Abstractions:

* The cluster label, the attached-machine label, `Spec.BootstrapSecret` and
  the annotations of a claim are written by one call and removed by one call:
  one field `label`. Machines have distinct names, so a label identifies one.
* Times keep only their order to the cleanup timeout (`fresh`, `old`).
  `TimePasses` happens between, not within, the API calls of a reconcile: the
  timeout is at least two minutes. The agent's work on the host may take longer.
* Everything that makes a host a node is `disk.node`. The agent runs with
  installation of components (`--skip-installation` unset).
* The lease is the optimistic lock of its `Update`: `AttachLease` is atomic.
  A lease left behind, or a copy that is not current, only makes a try miss
  (`AttachMiss`). `HostClaim` has the lease as an annotation.
* The ByoMachine controller reads ByoHosts from an informer cache. `unseen` is what
  the cache misses of a claim the controller has just made (fault `cache`);
  `FetchAttachedByoHost`, the fallback on the UID, `markHostForCleanup` and the
  remediation go by the cached copy (`Cached`), and the list of `attachByoHost` may
  (fault `list`). So `reconcileDelete` may drop the finalizer of a machine that has a
  host: the machine is then `overlooked`. Other delays are not modelled: a mark the
  cache misses would be made once more, a write of another process it misses is as
  one made after the read. ByoMachines, and the ByoHosts the agent and the ByoHost
  controller read, are current when a reconcile starts.
* A machine in TLS mode whose secret is left over from an earlier claim gives up
  (`AttachAbort`); `HostClaim` has the secret.
* One worker per controller, one manager: the defaults of the deployment
  (one replica, leader election, `MaxConcurrentReconciles` 1). With it, the
  branch of `attachByoHost` for a host that has a `MachineRef` (694-742) is
  only reachable through a late change of a listed host, or a list that is behind.
* A `ByoHost` has no finalizer, so it never carries a deletion timestamp and
  the branches for one (`reconcileDelete` 273-290, the agent's
  `reconcileDelete`) do not run.
* At most one step of a clean-up or bootstrap fails locally.

Faults are drawn from `FaultKinds`, at most `MaxFaults` in a behaviour: API call
fails (`api`), step on the host fails (`local`), a command of `resetNode` fails
unnoticed (`reset`), agent dies (`agent`), host reboots (`reboot`), manager
restarts (`manager`), cache misses a claim (`cache`), hosts are listed from such a
cache (`list`), machine is remediated (`remediate`), `ByoHost` object is deleted
(`delete`). The proofs hold for every value of both.

**`HostSelection`.** The list is an arbitrary order of the free hosts, fixed for
one `attachByoHost`; the index is kept per cluster and lost with the process. The
filtered lists of the code are sets of positions in that list, and `Rank` is a
host's index in them.

**`HostClaim`.** `api` holds the ByoHosts, `cache[w]` manager `w`'s informer cache,
`work[w]` its `attachByoHost` in progress. Reads go to the cache; only the `Update` of
`tryAcquireLease` checks the resource version, which is a flag: a copy is
current until somebody writes the object. The calls of the claim and of
`releaseLease` check nothing. Several managers are active during a change of
leader, or without leader election. The machine itself is read currently, the
release of a host is one step (`HostLifecycle` has its calls) that leaves a lease in
place. `secret` has the machines of `TLSMachines` whose TLS bootstrap secret exists:
it is created after the lease and before the claim, under a name fixed per machine,
so that a claim interrupted in between makes every later one fail; it goes with
the machine, or stays if the host alone was released. Faults: a call
fails and may have been applied (`api`), a manager stops (`crash`), a claim takes
longer than the 30 s of its lease (`stall`). With `stall` the claim is not
exclusive, and the properties except it. `Pooled` maps the module to `HostPool`: the
owner is the machine a host was returned for.

**`BootstrapToken`.** `Start`, `Create` and `Publish` are the parts of `Reconcile` between
its API calls. `known` is what the Cluster and the original object provide so
far; nothing watches it, so only a resync or a retry finds it. A reconcile of an
object that has data creates another token, in spite of the comment at line 71;
the model does as the code does. Tokens are reused once nobody refers to them.

**`Credentials`.** The agent's flow has the steps key file, request, wait, write,
clean. `Compatible` and the reuse of a CSR by name are those of client-go
(external). A certificate is `valid`, `due` (less than a fifth of its time left) or
`expired`. After a renewal the agent goes on with the certificate in memory
until it is restarted by the path unit that watches its kubeconfig. `moved`: the
temporary key file has a relative path, so an agent started elsewhere does not
find it. Rotation is behind the flag `CERTIFICATE_ROTATION` (`main.go:222`), off by
default; `disk.rotation` says whether the agent has it, and both are explored. A
kubeconfig torn by a crash while it is written (`csr.go:206`) keeps the
agent from starting; nothing but an operator repairs it, and the liveness
properties except it. A torn key file is not modelled.

**`Installation`.** One machine, its ByoCluster, config and host. `kind`, one of the
constant `Kinds`, is the join mode, the OS and architecture of the host, and whether
the ByoCluster is named like its Cluster (`alike`): the ByoCluster controller lists
machines by the ByoCluster's name, and a managed topology (`docs/cluster_class.md`)
generates another. A patch is its calls `conds`, `meta`, `status`, so that the K8sInstallerConfig controller may see the
condition before `HostInfo`. The hand-over goes: condition reason
`InstallationSecretNotAvailable`, config finds it, secret, status `Ready`, reference on
the host, agent. Assumptions: `InstallerRef` is set; users do not delete the config
or the secret; no machine is added once the deletion of the ByoCluster has
begun; a machine is deleted only when it has its finalizer (without: see
`finalizer_too_late` below); reads are current; claim and clean-up are single steps.

**`NodeSetup`.** A file or process is the number of the machine it was written or
started for, so that "of an earlier machine" can be said. The steps of
`bootstrapK8sNodeTLS`, `ScriptExecutor.Execute` and `resetNode` are sequences; each may fail,
and the agent may stop before each. `Runs` is the filter of `RunCmd`: a command with a
shell metacharacter is reported done and not executed, so an install script
never is; the binaries are there or not from the start. The drift detector
looks (`DriftChecks`) and starts (`DriftStarts`) in two steps. The CA is written to four
paths: `ca` is the one `resetNode` removes as a file and with its directory, `ca-copies`
the two that go with the directory only, `ca-bundle` the host's own bundle, which is
never restored. `spoiled` is a history
variable: what went wrong in the last clean-up, `service` (a stop failed or kubelet
was started again), `files` or `dirs` (a file resisted one of the two removals).
Node object, reboot, machine-ID file and forced clean-up are left to
`HostLifecycle`.

**`CleanupTimeout`.** Seconds and whole GiB, as the code computes; no capacity of a real
host overflows its 64 bits.

## 3. Runs

Passing:

| Run | Instance | Shows |
|---|---|---|
| `lifecycle_faults` | 2 machines, 1 host, 1 fault of 7 kinds; 3.0 M states | `OneOwner`, `PoolIsClean`, `ReleasedBeforeGone`, the inductive invariant `ClaimInv`, and refinement of `HostPool` |
| `deletion_completes` | 1 machine, 1 host, 2 faults of all 10 kinds, fair; 316 k states | `DeletionCompletes` |
| `selection` | 3 machines of 2 clusters, 3 hosts of 2 sizes and 2 priorities, fair; 11 k states | `PicksBest`, `MachineServed` in spite of panics |
| `host_claim` | 2 managers, 2 machines, one in TLS mode, 1 host, 2 faults, fair; 321 k states | `ClaimIsExclusive` by the lease's version check, `LeaseRemovedByHolder`, refinement of `HostPool` (`AttachImplementsPool`), `FreeHostIsClaimed` although a lease is left behind (unless a TLS secret is in the way, see `tls_claim_stuck`); the inductive invariant `LeaseInv` |
| `credentials` | 3 keys, 2 CSR objects, 3 certificates, rotation on or off, 2 faults of 6 kinds, fair; 315 k states | `ConfigUsable`, `DenialStands`, `BootstrapCompletes`, `RenewalCompletes`; the inductive invariant `KeyInv` |
| `bootstrap_token` | 3 tokens, 2 faults, fair; 142 k states | `PublishedTokenExists`, `DataCatchesUp` |
| `installation` | 6 kinds: 3 modes, a supported and an unsupported host, ByoCluster with its Cluster's name or another; 2 faults of 3 kinds, fair; 349 k states | `SecretBeforeReference`, `ScriptsFitHost`, `ClusterWaitsForMachines`, `InstallCompletes`, `ReleaseCompletes`; the inductive invariant `HandoverInv` |
| `node_setup` | 2 machines in turn, 3 modes, every set of keys the secret can have, 1 fault of 4 kinds, fair; 501 k states | `ConfigRemoved`, `RunsOwnMachine`, `NodeBootstraps`, `NodeServes`; the inductive invariant `SetupInv` |

Bounds. Two machines on one host give reuse with every overlap of one machine's
release and the next one's claim. One fault meets every step of every process,
two also the recovery from the first. `MaxRetries` is 2 (5 in the code): a retry and
giving up both happen. In `HostSelection`, `MaxArrivals` and `MaxMisses` bound the
churn; without them another machine could come and go so that each try of one
machine meets an index that does not fit. Keys, tokens and CSR objects are
reused when nobody refers to them, so their number bounds how many are in use at
one time and not how many there ever are; three certificates give two renewals
in a row. Two hosts for one machine need stale reads or half claims: the proofs
cover any number, and the invariants of `HostLifecycle` have also been checked with
one machine, two hosts and a cache that lags. The invariants of `NodeSetup` have also been checked with two
faults (3.6 M states): only then can a file resist both removals.

Some properties are stated with exceptions, each a behaviour of the code that one
of the tables below shows: `ReleasedBeforeGone` of machines that are not overlooked and did
not vanish (`deletion_overlooks`, `finalizer_too_late`), `OneOwner` if no claimed host is listed
(`claimed_over`), `FreeHostIsClaimed` if no TLS secret is in the way (`tls_claim_stuck`),
`ClusterWaitsForMachines` and `ReleaseCompletes` of a ByoCluster with its Cluster's name (`cluster_class`),
`ScriptsFitHost` of the kubeadm mode (`scripts_misfit`). `RenewalCompletes` is of an agent whose
flag turns rotation on; `ReleaseCompletes` also excepts a host that stays paused (`pause_strands_host`).

Fairness. A reconcile that has started runs on (weak fairness of its steps). A
key that keeps needing a reconcile gets one: queues are first-in first-out, and
errors, `RequeueAfter` and the informers' resync queue again; strong fairness per key
where one worker serves several. A dead agent and a dead manager are restarted
(systemd, the deployment). Watches deliver, so a cache catches up. Time passes: leases and tokens expire. Signer, cleaners
and garbage collector of Kubernetes work. A pause ends. The agent is only assumed
to serve a host that is not paused (its watch drops the events of one that is),
and the drift detector looks at both services at every tick. There is no
fairness on faults, users, administrators or the arrival of a new bootstrap
token.

Deadlock is not checked: when every machine is gone, and when the bounded faults
and objects are used up, the systems are at rest.

Statements of the repository that the code does not keep (each a run with a
counterexample; details under `findings` in `PROJECT.json`):

| Run | Statement | What happens |
|---|---|---|
| `half_claim_stuck` | a failed patch is retried | not after the last try: the label hides the host from `attachByoHost` |
| `pause_strands_host` | a host that is attached is resumed | not when the machine was deleted during the pause: `reconcileDelete` does not resume it and the agent ignores it |
| `finalizer_too_late` | the finalizer lets the controller clean up before the machine is removed | it is saved after the host is claimed; a machine deleted in between leaves its host claimed |
| `reset_races_drift` | a reset stops the services | the drift detector starts kubelet again in the middle of it |

Further deviations are kept as properties with a configuration that gives the
behaviour. They are not among the listed runs:

| Configuration (module) | Property | What happens |
|---|---|---|
| `deletion_overlooks` (`MCLifecycle`) | `DeletionSeesClaims` | `reconcileDelete` reads a cache that does not show the claim, and lets the machine go without its host |
| `claimed_over` (`MCLifecycle`) | `FreeAtClaim` | a host listed from such a cache is claimed although it belongs to a machine being deleted |
| `forced_too_early` (`MCLifecycle`) | `ForcedOnlyWhenDue` | a left-over `cleanup-started-at` forces the next clean-up at once |
| `bootstrap_misreported` (`MCLifecycle`) | `BootstrappedMeansJoined` | the forced clean-up sets the bootstrap condition; the next machine is never bootstrapped |
| `reference_lost` (`MCLifecycle`) | `ClaimKeepsReference` | the agent's late status call clears the `MachineRef` of the next claim |
| `reset_not_retried` (`MCLifecycle`) | `ResetIsRetried` | `resetNode` never reports a failure, so it is never retried |
| `tls_claim_stuck` (`HostClaim`) | `FailedClaimIsRetried` | a claim interrupted once the TLS secret exists fails on every later try |
| `index_panics` (`MCSelection`) | `NoPanic` | the round-robin index is not checked against a shorter list |
| `negative_priority` (`MCSelection`) | `MachineServed` | with negative priorities only, every try panics |
| `install_stuck` (`MCInstallation`) | `InstallIsAskedFor` | a pause replaces the reason the K8sInstallerConfig controller waits for, and nothing sets it again |
| `scripts_misfit` (`MCInstallation`) | `ScriptsFitEveryMode` | in TLS mode scripts are made from an empty `HostInfo` |
| `cluster_class` (`MCInstallation`) | `MachinesGoFirst` | a ByoCluster not named like its Cluster lists no machines and goes before them |
| `install_skipped` (`NodeSetup`) | `InstalledMeansPresent` | `RunCmd` skips the install script without an error, and the components are reported installed |
| `renewal_without_token` (`Credentials`) | `DueIsRenewed` | a renewal needs a live bootstrap token, which lasts thirty minutes |

## 4. Proofs

Every theorem holds for all values of the constants under the named assumptions
of the module: null values are not members, bounds are natural numbers, fault
kinds are among those listed. The number and kind of faults is not restricted
unless said.

**`HostLifecycleProofs`**, for any `Hosts`, `Machines`, `MaxRetries`,
`FaultKinds` and `MaxFaults` (assumptions: the null values are not members,
`MaxRetries > 0`, `MaxFaults` a natural, `FaultKinds` among the ten kinds):

* `TypeCorrect`: `Spec => []TypeOK`;
* `ClaimInvariant`: `Spec => [](TypeOK /\ ClaimInv)`;
* `OneOwnerAlways`, `ReleasedBeforeGoneAlways`, `PoolIsCleanAlways`;
* `PoolRefinement`: if no object is deleted, `resetNode` works and no claimed host is
  listed (`RecordsKept`), `Spec` implements `HostPool`.

`OneOwner` takes that no claimed host is listed (`ListsKept`), `PoolIsClean` takes
`RecordsKept`. `ReleasedBeforeGone` holds under every fault and however far the cache is
behind; it excepts the two ways in which the code does leave a host behind, the
phases `overlooked` (`reconcileDelete` went by a cache that missed a claim) and
`vanished` (deleted during or after a claim, before the finalizer was saved).

`OneOwner` is not inductive: a call may write what a copy held long ago. The
strengthening `ClaimInv` says why that is harmless:

1. `OnlyAttachClaims`: every edit in progress other than a claim keeps or clears
   the label and reference, so a late call can lose a claim but never forge one.
2. `ListIsFree`: while `attachByoHost` runs for `m`, the hosts it listed name `m` or
   nobody (`ListsKept`). Only it writes machines, and it is the only one of its kind.
3. `LabelsGuardNode`: a node on a disk belongs to the machine in the label; the
   label cannot change during a bootstrap; the agent drops labels only when the
   node is gone. This gives `PoolIsClean` and the refinement.
4. `ControlOK`: the reconciles in progress are well formed (`TypeOK` is not
   inductive without it, because of the retry counter).

`ClaimStep` has a step per action. `CallEffect`, `MergeEffect` and `EditEffect`
reduce every API call to its effect on label and reference. For the refinement,
`PoolMove` lists what one step may do to one host; `PoolMoveStep` turns such a
change into a step of `HostPool`.

**`HostClaimProofs`**: `LeaseInvariant`, `TypeCorrect`, `ClaimIsExclusiveAlways`,
`LeaseRemovedByHolderAlways` and `AttachRefinement`, for any number of managers, machines
and hosts. A claim's calls check nothing, so
exclusion rests on what the holder of the lease knows (`HolderKnows`): a successful
`Update` proves its cached copy was current, so label and reference it reads
afterwards are those of the object, and nobody who would change them can hold
the lease too (`OneHolder`). It holds for machines in either join mode: a claim
that fails at the TLS secret releases the lease like any other. `CacheCurrent` ties the version flag to the object.
`AttachRefinement` (if no claim stalls): `Spec` implements `HostPool`. The holder of the
lease knows that nobody has the host, so the end of its claim is a `Claim` of the
pool (`PoolStep`, `HandOverStep`).

**`BootstrapTokenProofs`**: `TokenInvariant`, `TypeCorrect`, `PublishedTokenExistsAlways`. The token a reconcile
is about to publish has been created, and one in use is not taken for new: that is
`TokenInv`, which `PublishedTokenExists` needs to be inductive.

**`CredentialsProofs`**: `KeyInvariant`, `TypeCorrect`, `ConfigUsableAlways`, `DenialStandsAlways`. `ConfigUsable` is not
inductive: the key in memory, the CSR's key and the certificate's must be tied
along the flow. `KeyInv` does so by the CSR's UID, which `Compatible` makes sure of
when a CSR of the same name is reused.

**`InstallationProofs`**: `HandoverInvariant`, `TypeCorrect`, `SecretBeforeReferenceAlways`,
`ScriptsFitHostAlways`, `ClusterWaitsAlways`, for any `Kinds`. The last is of a ByoCluster named
like its Cluster, the one before of the kubeadm mode; the properties say so, and of
the other kinds the opposite can be shown (`cluster_class`, `scripts_misfit`). The secret stays because the
config outlives the machine and the machine outlives its hold on the host;
`HandoverInv` says this of objects and of the reconciles in progress. The scripts fit
because the registry has no installer for the empty `HostInfo`
(`NothingForEmptyInfo`).

**`NodeSetupProofs`**: `SetupInvariant`, `TypeCorrect`, `ConfigRemovedAlways`, `RunsOwnMachineAlways`, for
any number of machines and faults. What a claimed host runs depends on what the
clean-up before the claim left, so `SetupInv` follows the clean-up: after its second
step no kubelet runs or is to be restarted, after its fourth no kube-proxy, after
its fifth the files are gone if their removal worked, after its last if either
removal did. In the pool no kubelet comes up, as the one the drift detector asks for
finds no credentials; so all a claimed host has is its machine's. `CopiesInv`
follows the copies of the CA bundle the same way. Each is said as far as `spoiled` permits. A first form of `RunsOwnMachine`,
without `OneRemovalDone`, was false with two faults: a `kubelet.conf` that resists
both removals lets the next machine's kubelet start as the last machine's.

**`HostSelectionProofs`**: `SelectInvariant`, `TypeCorrect`, `PicksBestAlways`, `SelectionDecides`,
`FreshIndexSelects`, for any finite set of hosts and any capacities and priorities.
`SelectInv` adds that a list names no host twice: so the candidates are no more than
the hosts of their priority, which bounds the index (`CandidatesBounded`). That the
maximum exists and is one (`FiniteMax`, `MaxPriorityIsMax`) and that every index below
the number of candidates is the rank of one (`RankOnto`) are inductions over finite
sets; they are proved by a least counterexample in the strict subset order, which
is well-founded. `SelectionDecides`: with candidates, a try either panics or selects.
`FreshIndexSelects` needs that no priority is negative, and shows why a restart
cures a panic: index 0 is then always within the candidates.

**`CleanupTimeout`**: `TimeoutIsBounded` (two to fifteen minutes for every capacity and value
of the environment variable), `LargerHostsWaitLonger`.

Model-checked only: the liveness properties (`DeletionCompletes`, `MachineServed`,
`FreeHostIsClaimed`, `BootstrapCompletes`, `RenewalCompletes`, `DataCatchesUp`, `InstallCompletes`,
`ReleaseCompletes`, `NodeBootstraps`, `NodeServes`), as fairness and `ENABLED` are beyond the
prover. Every invariant, every action property and every refinement of a passing run
is a theorem.

## 5. Not modelled

* The text of the install scripts, of cloud-init and of kubelet and kube-proxy
  configuration: no state of the provider depends on it, but for what makes
  `RunCmd` skip a command.
* The drift detector's checks of swap, modules, sysctl and IP forwarding: they
  rewrite settings that nothing else in the agent changes. Who reads the overwritten
  CA bundle of the host (`host_reconciler.go:721`, `ca-bundle` in `NodeSetup`): other programs.
* The search for the node in `setNodeProviderID`, beyond waiting for it.
* Hardware detection, GPU, metrics, events and logging: I/O.
* The webhook of `BootstrapKubeconfigTemplate`, which accepts everything, and the parsing
  of cloud-init. Generated deep copies, API registration, flags and the wiring of `main.go`.
* The `ByoMachineTemplate` controller, which is empty.
* The agent's classification of errors by their text: every outcome of it is a
  retry, which the models have.
