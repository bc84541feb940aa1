# Verification of egress-gateway

TLA+ models of the stateful core of the repository, TLC configurations that
check them on small instances, and TLAPS proofs of their safety properties for
every value of the constants. `PROJECT.json` maps every definition to the lines
it models.

## 1. The system

A Pod runs `gateway-daemon` beside an application. The daemon owns an inspection
CA, serves leaf certificates for intercepted TLS connections to the local Envoy
over delta SDS, embeds OPA as the authorization service, and supervises the proxy
(Envoy, or pilot-agent with its Envoy). An init container merges the published CA
into the application's trust bundle.

| Component | State | Operations | Talks to |
|---|---|---|---|
| Certificate service `internal/inspection/sds.go` | LRU cache, watches with their subscriptions, update and error queues, version counter | `DeltaSecrets` (one handler and one receiver goroutine for each stream), `process`, `updateLocked`, `enqueue`, `fail`, `remove` | Envoy over gRPC streams, the CA for issuance |
| Leaf issuance `internal/inspection/leaf.go` | none | `canonicalName`, `issue` | called under the service's mutex |
| Inspection CA `internal/inspection/ca.go` | state file, lock file, published certificate | `Open`, `publishCertificate`, `writeAtomic`, `Close`, `Bundle` | the Pod volumes, other daemons through them |
| `trust-init` `cmd/gateway-daemon/main.go` | the application's bundle | `trustInit` | reads what the CA published |
| Supervisor `internal/daemon/daemon.go` | lock, SDS socket, goroutines and result channels, proxy process group | `Run`, `checkOPA`, `checkOPALiveness`, `checkProxy` | OPA, SDS, proxy, signals |
| Readiness `internal/daemon/daemon.go` | none | `Ready` | the daemon's sockets, from another process |
| Request guard `internal/request/guard.lua` | per-request metadata | `envoy_on_request` | Envoy's filter chain, OPA |
| Configuration `config/config.go`, `config/tracing.go` | none | `Load`, `LoadTracing`, `Validate` | called by the supervisor |
| Proxy and OPA configuration `internal/daemon/{envoy,opa,tracing}.go` | generated files in the runtime directory | `prepareOPA`, `configurePolicyHost`, `prepareEnvoy` | the mounted OPA configuration, other daemons on the same directory |
| Enrolment `enrollment/compose.go`, `managed.json` | none | `ComposePod` | produces the Pod that runs the above |
| Management isolation `image/management-init.sh` | iptables rules | one idempotent script | kernel |

What is hard here, and which properties are about it:

* **Certificates shared by streams.** One stream's request evicts or reissues what
  another stream holds (`SubscribersCoherent`, `CertificatesStable`, `VersionsAdvance`); queues and
  clients that stall must not block the mutex (`RequestsAnswered`); an issuance may
  fail half way; the time of a request is read before the mutex is taken
  (`ServedLeafOutlivesTTL`); handlers and receivers end in any order
  (`StreamsBounded`, `StreamsEnd`).
* **A CA on volumes that outlive processes.** Kills, I/O errors, power failures and
  other daemons come between any two file operations (`OneAuthority`,
  `NeverReplaced`, `SingleAuthority`, `BundleTrustsSigner`, `TrustSpec`,
  `EventuallyServes`).
* **Two guards around an authorization.** The target must be the same when OPA decides
  and when the router acts, at two proxies, and the same for Lua and Go
  (`RoutedAsAuthorized`, `RoutedAsFirstAuthorized`, `RoutedToInspectedName`,
  `NamesAgree`).
* **Supervision.** Signals, service exits, probes and timeouts race in two selects and
  five deferred functions (`ResultPending`, `ExitStatus`, `StopHasCause`,
  `ChildReaped`, `GroupSignalled`, `PolicyBeforeProxy`, `ReadyMeansServing`,
  `StopCompletes`, `LossNoticed`, `Recovers`).
* **A runtime directory that is shared and a configuration that moves.** Two daemons may
  be given one directory, and the mounted OPA configuration may be replaced between
  the three times it is read (`RuntimeOwned`, `SnapshotStable`, `PolicyHosted`,
  `RoleDerived`). What
  the daemon accepts is read again by others: by OPA's exporter (`SpansProtected`), and
  by whoever mounts the directories (`DirectoriesDisjoint`).
* **A Pod that starts in pieces.** Each init container may be killed and run again, the
  proxy may die at any time, and the sandbox may be lost with its network rules while
  the volumes stay (`RulesIdempotent`, `ManagementShielded`, `BusinessProtected`,
  `PodStarts`). Options that are each legal must not combine into a Pod whose proxy runs
  as something else or shares a volume (`ProxyConfigured`, `BusinessIsolated`).

The complete list, each at its line, is under "hazards" in `PROJECT.json`.

## 2. Modules

| Module | Models | Theorems in |
|---|---|---|
| `SecretServer` | `sds.go` and the validity rules of `leaf.go` | `SecretServerProofs` |
| `SecretService` | what the certificate service promises; `SecretServer` implements it | `SecretServiceProofs` |
| `InspectionCA` | `ca.go` and `trust-init` | `InspectionCAProofs` |
| `TrustAnchor` | what the CA promises the application; `InspectionCA` implements it | `InspectionCAProofs` |
| `RequestGuard` | `guard.lua`, and `canonicalName` of `leaf.go` | `RequestGuardProofs` |
| `Daemon` | `daemon.go`: `Run` and `Ready` | `DaemonProofs` |
| `Config` | `config.go` and `tracing.go` of `config/`: functions of the environment | |
| `Startup` | the prologue of `Run` on a shared runtime directory, with `tracing.go`, `opa.go` and `envoy.go` of `internal/daemon/`; extends `Config` | `StartupProofs` |
| `Enrollment` | `compose.go` and `managed.json`: functions of a business Pod and the options; extends `Config` | `EnrollmentProofs` |
| `PodStartup` | the start of a composed Pod, `management-init.sh`, `trust-init` in its turn; extends `Enrollment` | `PodStartupProofs` |
| `MCSecretServer`, `MCInspectionCA`, `MCRequestGuard`, `MCDaemon`, `MCStartup`, `MCPodStartup` | instances for TLC | |

Operators that no specification uses (`ForgottenInList`, `LinkReplaces`, `ErrorKept`, ...)
stand before the definition of which they are a plausible wrong version; they are
the mutants that `PROJECT.json` names, each of which breaks the listed property.

### SecretServer

Variables keep the names of the fields. `mu` is the holder of the mutex; the
critical section of `process` is one step for each unsubscribed and each
requested name (`Unsubscribe`, `ServeInvalid`, `ServeCached`, `ServeIssued`,
`IssueFails`) and ends in `Broadcast`, so that clients, other goroutines and the
clock move in between. `handler` and `recv` are the two goroutines of a stream;
`handler = "sending"` is a handler inside `stream.Send`, which sees neither its
error queue nor further updates. `told` is a history variable: the version of each
name that was last put into a stream's queue. A slot of `Streams` is reused after
both goroutines have ended. Names are numbers, because `slices.Sorted` fixes the
order in which the names of a request are served and so which one is evicted;
`ValidNames` are those that `canonicalName` accepts. Nonces, protobuf encoding and
keys are left out: nothing reads them back. A response that adds and removes a
name counts as a removal for `told`, which is what the subscription becomes.

An update that fails at one name (`IssueFails`) keeps what it did to the cache
and tells nobody; `unannounced` collects the names it touched, and
`SubscribersCoherent` excepts exactly these until a later update mentions them.

### SecretService

The service without mutex, queues, LRU list, requests or clock: the present certificate of
each name, the streams in good standing with their subscriptions, and what each was last
told. Its main action, `Announce`, brings every live subscriber of a name up to date in
one step, or ends its stream. `SecretServer` maps to it by leaving failed streams out
(`Live`, `Subs`, `View`) and taking versions of the cache entries for certificates:

| `SecretServer` | `SecretService` |
|---|---|
| `Open` | `Open` |
| `Process` | `Subscribe` |
| `ProcessOverLimit`, `RecvFail`, `Abandon`, `ReturnError` | `Fail`, or nothing for a stream that failed before |
| `Unsubscribe` | `Withdraw`, or nothing |
| `ServeIssued` | `Issue` |
| `IssueFails` | `Abort` |
| `Broadcast` | `Announce` |
| every other step | nothing |

### InspectionCA

A CA is a number in the order of generation, 0 is no file. `pc` is the next file
operation of `Open` in each process; certificate and key are one file and one
value. `synced` and `pubSynced` say which directory entries survive a power
failure, `debris` and `foreign` what else is in a private directory, `unusable`
which CAs have expired or were damaged. `writeAtomic` syncs the temporary file before
the rename, so that a file is never incomplete; only its directory entry can be lost.
`served` is a history variable. `kills` counts kills and I/O errors, `outages` power
failures; the properties that a power failure can break are stated for `outages = 0`.

### TrustAnchor

The CA without directories, locks and file operations: the published anchor, whether it
is durable, what each daemon signs with, what the application trusts. `InspectionCA`
implements it, power failures included (`TrustSpec`), with `pub` for the anchor,
`pubSynced` for durable, the CA of every daemon whose `Open` has returned for its signer,
and `bundle` for what is trusted:

| `InspectionCA` | `TrustAnchor` |
|---|---|
| `Link` | `Publish` |
| `SyncPublic`, `LinkExists` that finds its own certificate | `Sign` |
| `Close`, `Kill`, `IOError`, `Refuse`, other ways out of `Open` | `Stop` |
| `TrustWrite` | `Trust` |
| `PowerLoss` | `PowerFails` |
| every other step | nothing |

### RequestGuard

One stream through the filters `gateway.request`, authorization, `gateway.dispatch` and
the router, at the workload proxy and then at the egress proxy, or at the egress proxy
only. `envoy_on_request` is the same code in both guards and chooses its branch by the
`metadata` of the stream; streams share no state. The authorization response may set
any authority, scheme and path of `Mutations`; a denial and an error of OPA are the
same refusal (`failure_mode_allow` is false). A name is a sequence of labels of
characters that stand for the classes the two canonical forms tell apart; `hostname`
translates the Lua code, `canonicalName` the Go code, `ParseAddr` what `netip` accepts.
The Kelvin sign stands for the letters that Go's `ToLower` maps into ASCII and Lua's
does not. The method and the other headers are not compared by the second guard and
not modelled beyond the refusal of CONNECT. That the route of a listener leads to the
egress listener of the same scheme is part of the deployment.

### Daemon

`pc` is the position of `Run`; the deferred functions are positions too, in the order
in which they run. Each goroutine whose result comes through a buffered channel is
one variable: `running`, `done` (the result is in the channel), `received` (it was
taken, the channel stays empty). A timer may expire at any time. `asked` is the
cancelled context, from which OPA's own context derives: OPA may stop before the
proxy. OPA's endpoint (`api`), its authorization socket (`authz`) and the readiness
of the proxy change by themselves, within `MaxFaults`. When `Run` has returned or
the process is killed, the container ends with every process in it, and is
started again unless it was asked to stop. `Ready` runs its checks one by one in
another process, across restarts. `cause`, `wasReady` and `dropped` are history variables;
`dropped` says that something `Ready` has checked was lost before its last check. What
nothing reads any more is forgotten: the loop's flag and the startup time when the
deferred functions begin (`Terminate`), and whether the startup time passes once the
proxy has been ready (`StartupExpires`).

### Config and Startup

`Config` holds no state. A path is its form and its segments, because `contains` compares
whole segments; a blank variable differs from one that is not set, which `Load` and
`LoadTracing` treat in different ways. `Startup` runs it: `pc` is the step of `Run` each
daemon has come to, `files` the generated files in the runtime directory, `socket` whose
listener the SDS path names (a killed daemon leaves its own there). `mount`, `inspected` and
`loaded` are the OPA configuration on its mount, the one `configurePolicyHost` saw, and
the one the runtime read; `Remount` replaces the first at any time. Only the parts of
a bootstrap that `prepareEnvoy` looks at are there: the HTTP connection managers with
their filters, the named clusters, the admin address. What a daemon does after its proxy is launched is in `Daemon`.

Without tracing inputs the daemon reads the mount itself, so a replacement between
`configurePolicyHost` and OPA's own reading makes OPA run a configuration that was not
inspected. `SnapshotStable` says that this cannot happen with tracing inputs, and
`PolicyHosted` what holds where the extension was found by the inspection, or is run from
the private copy; the run `StartupRemount` shows the rest.

A manager is in the `filter_chains` of a listener ("listed") or in a
`default_filter_chain` ("default"). `prepareEnvoy` visits the listed ones, hardens each of
their filters named `envoy.filters.http.ext_authz`, and is content with one such filter in
one of them (`Usable`). `PolicyHosted` claims exactly this: some listed manager asks OPA,
and no listed filter fails open. A listed manager without `ext_authz`, a manager in a
`default_filter_chain` and a filter of another name stay as they were written, which is
less than "on each ext_authz filter" (`docs/policy-contract.md:79-81`) may be read to say.
The bootstraps of the run have all of these.

### Enrollment and PodStartup

`ComposePod` is a function; `ComposeAccepts` says where it returns no error. The networking
library it calls is external: its outcome is accepted or not. In `PodStartup` the kubelet
runs the composed init containers in order (`at`, `active`), a sidecar counts as passed
when its startup probe succeeds, and restarts what dies. The script is one action for
each command and tool (`InstallRule`), with `-C || -A` as a test on the list; `Stage(n)` is
what an undisturbed run has after `n` commands. `cp` in `base-trust` writes in place and
may be killed half-way, leaving nothing, some whole blocks or a torn one (`CopyPart`). A
store cut between two blocks is one that `trust-init` would accept: it is the order of the
init containers that keeps `trust-init` from seeing it. The bundle is replaced as a whole. `SandboxLost` drops the rules and keeps the volumes. A packet is followed
through the rules by `LocalRejected` and `RemoteRejected`. UIDs are those the Pod states:
one that only an image states is not visible to `ComposePod` either.

## 3. Runs

| Run | Instance | Checks |
|---|---|---|
| SecretServerExpiry | 2 streams, 2 names, cache of 1, a clock of 5 instants, entries that expire and a CA that ends | `ServedLeafOutlivesTTL`, `VersionsAdvance` |
| SecretServerLimits | 3 streams and at most 2 watches, 2 names, a cache, a queue and a subscription of 1 | `StreamsBounded`, `ServiceSpec` |
| SecretServerBatches | 2 streams, requests of up to 3 names, cache of 2 | `CacheBounded`, `SubscribersCoherent`, `CertificatesStable` |
| SecretServerBatch | 1 stream, the same requests | violation of `OneAnswer` |
| SecretServerLive | 2 streams, clients that may stop reading | `RequestsAnswered`, `StreamsEnd` |
| InspectionCA | 3 daemons, 2 private directories, 1 kill or error, 1 power failure | `OneAuthority`, `SingleAuthority`, `BundleTrustsSigner`, `NeverReplaced`, `TrustSpec`, `EventuallyServes` |
| RequestGuard | all names of up to 4 of 12 labels; ports, paths, methods, encodings and connections with 3 names; 5 mutations | `RoutedAsAuthorized`, `RoutedAsFirstAuthorized`, `RoutedToInspectedName`, `NamesAgree` |
| Daemon | workload, pilot-agent and Envoy, 2 failures, a probe, fair scheduling | `ChildReaped`, `ResultPending`, `PolicyBeforeProxy`, `StopHasCause`, `ExitStatus`, `GroupSignalled`, `ReadyMeansServing`, `StopCompletes`, `LossNoticed`, `Recovers` |
| DaemonGroup | egress, pilot-agent and Envoy, 1 failure | violation of `GroupStopped` |
| Startup | one daemon with about eight hundred environments, bootstraps and OPA configurations, or two on one directory; 1 kill, 1 replaced mount | `RuntimeOwned`, `DirectoriesDisjoint`, `SnapshotStable`, `PolicyHosted`, `SpansProtected` |
| StartupRemount | the same | violation of `RoleDerived` |
| PodStartup | both roles, each check of `ComposePod` at both outcomes, 4 trust stores; 3 kills or lost sandboxes | `RulesIdempotent`, `ManagementShielded`, `BusinessProtected`, `BusinessIsolated`, `ProxyConfigured`, `PodStarts` |

Bounds. Two streams are enough for one to act on another; the third is there to be
refused. A cache smaller than the set of names makes every issuance an eviction;
`Batches` overlap so that a request evicts its own results and another stream's. A
queue of one is full after one update. `MaxVersion` bounds the certificates issued,
`MaxTime` the clock. Two private directories and three daemons give both kinds of
competition, for the lock and for the public directory; a kill and a power failure
reach a first start that is interrupted, taken over by another daemon and then loses what
it had not synced. `MaxCAs` exceeds what those failures allow to be generated. `SecretServerLive` issues one
certificate (`MaxVersion` of 1): enough to fill the queue of a stalled stream and to
fail a stream, and liveness checking is costly. The safety properties do not depend on the bounds:
they are proved for all of them (section 4).

`RequestGuard` bounds names by 10 bytes and labels by 3, so that its 12 labels reach
both limits, addresses (`255.0.0.0`), numbers that are no address (`256`, `02`) and
every place of an empty label.

`Startup` lays its three directories out in every way over eight paths (equal, nested,
siblings, unclean, blank, unset), and takes sizes and samplers at the limits of their
checks; one kill leaves a socket behind for the other daemon, one replaced mount falls
between any two of the three readings. In `PodStartup` a first fault can interrupt the
script, a second its repetition, and a third can lose the sandbox of the Pod that came up.

`CHECK_DEADLOCK FALSE` is set where the system stops: a container that was asked to
stop stays down, a request ends, a Pod is up, and what a daemon or `ComposePod`
refuses is never started.

### What the violations show

* **SecretServerBatch / OneAnswer.** `updateLocked` deletes an evicted name from
  `resources` but not an issued name from `removed`. A name that is cached, requested
  together with new names that sort before it, is evicted by one of them, then issued
  again: the response adds and removes it, and `process` drops its subscriptions. The
  test `TestSecretBatchCannotExceedCacheBound` (`sds_test.go:149`) calls such a response
  wrong and starts from an empty cache, where it cannot happen.
* **DaemonGroup / GroupStopped.** SIGKILL is sent to the group only while the direct child
  has not exited. If pilot-agent exits first, `Run` returns while its Envoy, sent
  SIGTERM only, may still run, although `docs/architecture.md:13` gives the process
  group a five-second bound. What does hold is that the group has been signalled
  (`GroupSignalled`). In a container the end of the daemon ends its Envoy too.
* **StartupRemount / RoleDerived.** `configurePolicyHost` adds the role override only if it
  finds the Policy extension in its own reading of the configuration. Without tracing
  inputs OPA reads the mount again; if it was replaced in between by one that enables the
  extension, OPA runs it with the role the file gives, and Envoy's bootstrap is not
  hardened. `docs/policy-contract.md:49` says that the role is derived from
  `GATEWAY_ROLE`.

### Fairness

* `SecretServer`: goroutines that can run do; a Go mutex hands itself to a waiter in
  bounded time (starvation mode), so steps that wait for `mu` are strongly fair.
  `FairSpec` assumes nothing else. `StreamsEnd` is stated under
  `TransportFairness`: clients read, `select` does not pass over the error case for
  ever, and gRPC makes `Recv` fail once the handler has returned.
* `InspectionCA`: a daemon that can take its next file operation does, and a failed one
  is started again. Kills and errors are finite in number.
* `Daemon`: `Run` is scheduled, `select` is not unfair to a ready case (it chooses at
  random), SIGKILL takes effect, `main` ends after `Run`. OPA and the proxy owe nothing,
  and the startup time may or may not pass. `LossNoticed` is stated for a startup time
  that does pass (`TimeFairness`). `Recovers` is stated under `RestartFairness`: OPA and
  the proxy come up in the end, and the orchestrator restarts the container; and under
  `TimeEnough`: from some time on the startup time of a run that lost nothing is long
  enough, while that of any other run passes. Without it the daemon may time out in every
  run. Its conclusion is that the daemon serves for ever from some time on.
* `PodStartup`: the kubelet starts the next container and restarts what died, a container
  that runs makes progress, and the proxy comes up when it is given the time
  (`WF_vars(RunInit)`, `WF_vars(RunProxy)`). That a killed init container is run again
  depends on the `restartPolicy` of the Pod, which `ComposePod` leaves to its caller: with
  `Never` the Pod fails instead, and `PodStarts` says nothing about it. Faults are finite in number. `PodStarts` asks it
  of Pods with a valid store and a valid tracing configuration only: with others
  `trust-init` or the daemon fails again and again, as it should.

## 4. Proofs

All proofs are for arbitrary constants; they use only the named assumptions in the
modules that declare them. `TimesAssumption` says that a leaf lives at least twice the
TTL (an hour and ten minutes in the code), `SizesAssumption` that a capacity is at
most `maxRequestNames` (checked by `NewSecretServer`). `DocsAssumption` and
`BootstrapsAssumption` say which fields the documents have that the daemon can parse,
`PathsAssumption` that the directories are paths, `InputsAssumption` that the init
containers of a Pod and the blocks of a store are lists, `ContainersAssumption` that
containers have the fields `ComposePod` reads and no two of a Pod one name, as Kubernetes
requires, `ValuesAssumption` that the marks for an unset and a blank variable are no
values of a variable; `BoundsAssumption` and `FaultsAssumption` only that the bounds are
numbers.

* **SecretServerProofs.** `IndInv` strengthens the properties by what holds inside the
  critical section: the mutex holder is registered and working (`Locked`), the response
  contains only certificates that are in the cache and unexpired (`ResponseCached`),
  every leaf outlives its entry by the TTL (`LeavesOutliveEntries`), and a name of a
  healthy stream is coherent, still to be visited, or about to be announced (`Settled`,
  `UpdateCoherent`). With the mutex free the last is `SubscribersCoherent`.
  Lemmas on sequences say what removing, pushing and evicting do to an injective
  list. `VersionsAdvance` needs two facts more (`VersionInv`): no version is ahead of the
  counter, so that a certificate issued after an eviction or a failed update is newer than
  what anyone still holds, and none that a stream holds is ahead of the cache, so that an
  announcement from the cache never goes back. Proved: `Invariance`, `TypeCorrect`,
  `CacheSafe`, `WatchLimit`, `Coherence`, `LeafUsable`, `Stability`,
  `VersionsAdvanceTheorem`.
* **InspectionCAProofs.** `CoreInv` relates the lock to the position (`LockHeld`), memory
  to files (`MemoryMatches`), and says that a CA is in one directory and one process
  (`CAsDistinct`). It is preserved by power failures too and yields `OneAuthority` and
  `NeverReplaced`: only `Rename`, `Link` and a power failure change a committed file, the
  first two only where there is none, the last only where it was not synced. Without power failures a published certificate stays, hence
  `TrustInv`, `SingleAuthority` and `BundleTrustsSigner`. `AnchorImplemented` proves the
  refinement of `TrustAnchor` step by step along the table in section 2, with power
  failures: by `CAsDistinct` nobody else holds the CA when a daemon begins to sign, and
  `ReadingCurrent` that what `trust-init` has read is still published when it writes.
* **RequestGuardProofs.** The lemmas say that lowering keeps labels and lengths, that
  `hostname` is the identity on its results (`HostnameTwice`, hence `TargetTwice`), that
  `canonicalName` agrees with it on everything it accepts (`AcceptedIsIssued`) and where
  it accepts more (`IssuedButRefused`). `GuardInv` says that behind the first filter the
  metadata hold a canonical target, equal to what OPA sees and, at the egress proxy, to
  what the workload's OPA allowed; the second guard then makes the headers equal to it.
* **DaemonProofs.** `DaemonInv` says which processes and results exist at each position
  (`Placed`), what OPA has reported on the way to the proxy (`Reported`), that a run
  that was neither asked to stop nor lost anything is not being taken down
  (`NothingLost`), and what a run being taken down will report (`StatusPlanned`); and of
  a probe that what it has checked is there, unless `dropped` (`ProbeInv`). All safety
  properties of `Daemon` follow, for both roles and proxy modes.

* **SecretServiceProofs.** `StreamLimit` adds that a working stream has subscribed to at most
  `maxRequestNames` names and queued at most `QueueLen` updates. `Implementation` proves
  the refinement step by step along the table in section 2; it needs from `IndInv` that a
  response contains only what is in the cache (for `Announce`), that whatever an
  unsubscribed name loses nobody live still wants (for `Withdraw`), and that only
  registered streams have failed or hold subscriptions.
* **StartupProofs.** `IndInv` says that the lock holder is the one daemon between `TakeLock` and
  its return (`LockHeld`), which makes everything it wrote into the runtime directory stay
  (`ListenerOwned`, `GuardsWritten`, `SnapshotKept`, `Hosted`). `PreparedEnforces` says what
  `prepareEnvoy` makes of any bootstrap it accepts, manager by manager. `DirectoriesApart` is
  about `contains` on arbitrary paths, `SpansSafe` about every accepted tracing
  configuration; `ExporterAgrees` relates the two readings of the environment.
* **PodStartupProofs.** The lemmas on the script say that a command repeated on the rules of
  a prefix yields the rules of a prefix (`StageStep`). The lemmas on the order compute, for
  every accepted Pod, at which position each container of the gateway stands and that
  no business container has its name (`Order`, `Turns`). With positions for names the
  invariant (`PosInv`) is: what is at a position below `at` has left its work behind.
  `SandboxLost` takes the rules and sets `at` back, which is why they are back before
  anything behind them runs. Proved: `PodIndInv`, `Idempotence`, `Shield`, `Protection`.

* **EnrollmentProofs.** About `ComposePod` on any Pod and any options it accepts.
  `InitFrom` and `ContainersFrom` say where each container of the composed Pod comes
  from, `GatewayReserved` that the gateway uses volumes it reserves only, `TrustMounted`
  what a trust mount does to a container of the business; with the refusals of
  `protectBusiness` (`BusinessRefused`) this is `BusinessIsolated`. `NotOverridden` says that no
  option reaches a variable the daemon reads, so `Load` fills in its defaults (`Loaded`),
  accepts them (`LoadSucceeds`), and finds each directory on a volume of its own
  (`DirectoryVolumes`): `ProxyConfigured`. Both are theorems of `PodStartup`.

Only model-checked: the liveness properties `RequestsAnswered`, `StreamsEnd`,
`EventuallyServes`, `StopCompletes`, `LossNoticed`, `Recovers` and `PodStarts` (the prover
has no fairness). Every safety property of a passing run is a theorem.

## 5. Not modelled

Cryptography, PEM and protobuf encoding, JSON beyond the fields that are read or replaced,
permission checks of files (an error outcome here), the registration of OPA's plugins,
the expansion of a Pod by the networking library, labels, images and resources of the
composed Pod, and the end-to-end harness under `cmd/gateway-e2e*` and `test/`, which is no
part of the runtime. Upstream OPA, Envoy, pilot-agent, gRPC and the kubelet are
environments that may do whatever the code allows for.

`publishCertificate` does not sync the public directory when it finds its
certificate there, and `Open` does not sync the private one when it finds a state
file. After kills right before these syncs a CA is served that a power failure can
still take away: a later start may then make another CA while bundles trust the lost
one. If the state file is lost and the published certificate is not, every later start
refuses. `SingleAuthority`, `BundleTrustsSigner` and `EventuallyServes` are therefore
claimed short of a power failure only; `OneAuthority` and `NeverReplaced` hold with
them, the latter saying that nothing but a power failure loses such a file.

When a request is over a limit or cannot be issued, `process` releases the mutex before
the stream is failed (`sds.go:138`, `sds.go:97`); `SecretServer` has both in one step
(`ProcessOverLimit`, `IssueFails`). In between another stream may still queue an update for
this one, which its handler may or may not send before it ends.

## 6. Plan

Done: the runtime directory and configuration (`Config`, `Startup`), the abstract
certificate service and its refinement (`SecretService`), enrolment, management isolation
and the order of a Pod's start (`Enrollment`, `PodStartup`), the abstract CA and its
refinement (`TrustAnchor`), and the proofs of the safety of all of them.

Left, in this order:

1. An Envoy client that reconnects with initial resource versions, composed with
   `SecretService` instead of the whole server.
2. `Daemon` in the place of the proxy's three states in `PodStartup`, with `Ready` as the
   startup probe.
