# A TLA+ verification of keybroker

keybroker gives a local AI client one narrow set of host capabilities through a
broker that owns the credentials. It runs as a Unix-socket service under its own
account; command line and MCP adapters talk to it; on managed hosts a root-owned
updater approves every use and replaces the executables from a signed channel.

This directory holds TLA+ modules of that system, TLC configurations that check
them on small instances, and proofs checked by TLAPS.

## 1. The system

### Components

| Component | Source | State it keeps | Operations |
|---|---|---|---|
| managed updater | `deploy/managed/release-manager.py` | `installed.json` (the ledger: current, previous, sequence, revocations, quarantine, lease), `transaction.json` (the journal), `updates.jsonl` (the audit trail), the `current` symlink (the pointer), `releases/<sha>/` (the stages), `update.lock` | `check`, `rollback`, `status`; `recover` at the start of the first two |
| broker core | `broker.go` | registered capabilities (fixed after start) | `Capabilities`, `Check`, `Invoke`; redaction of the recorded input |
| audit | `audit.go` | a JSONL file and a mutex | `NewJSONLAudit`, `Write` |
| socket service | `unix.go` | the socket file, the listener, one goroutine per connection | `ServeUnix`, `prepareSocketPath`, `handleUnixConnection` |
| socket client | `unix.go`, `paths.go` | none | `CheckUnix`, `InvokeUnix`, `CapabilitiesUnix`, each one dial, one request, ten seconds |
| peer credentials | `peer_linux.go`, `peer_darwin.go` | none | `trustedPeer` |
| command line | `cmd/keybroker/main.go` | none | `serve`, `wait`, `capabilities`, `check`, `invoke` |
| MCP adapter | `cmd/keybroker-mcp/main.go`, `managed.go` | none between lines | one JSON-RPC request per line; in managed mode a `check` of the updater before each use |
| installer | `deploy/managed/install.py` | everything above, once; `installation.json`, `installation-failed.json` | check the bundle, create every file exclusively, start, prove, record, or stop the failed install |
| release builder | `deploy/managed/build.py` | `release-preparation/<release>-<source id>/` (a bundle) | hash the sources, build, pin what was built |
| signature verifier | `cmd/keybroker-release-verify/main.go` | none | Ed25519 over standard input |
| service definitions | `deploy/keybroker.service`, `deploy/com.keybroker.service.plist`, and the unit `install.py` writes | none | start at boot, restart after a failure |

### How they interact

The wrappers and the managed MCP adapter run `release-manager.py check` (through
`sudo`) and only then talk to the socket. Each check is a process of its own; all of
them share the files under `/opt/keybroker-health` and serialise on `update.lock`. The
updater moves `current`, restarts the service, which executes `current/keybroker`,
and proves it by running the release's own command line against the socket. The
broker answers on the socket; each connection is a goroutine, and the audit mutex is
the only thing they share. The kernel releases `flock` and the file descriptors of a
process that dies; files stay as they are.

`build.py` hashes the listed sources, compiles them into a bundle named after the hash,
and writes, last, a copy of `install.py` that carries the hash of everything else. That
copy installs the bundle on a host: it creates the files of the updater, grants clients
the use of `check`, starts the service, proves it through the updater's `probe` and
seals the receipt. From the grant on, clients' checks run beside it.

### What is hard

- *crash recovery*: a transaction of the updater is a journal, a symlink, a service
  restart, a ledger and an unlink, each file replacement three system calls with
  a visible moment before the durable one;
- *partial failure*: the handlers that put the previous release back link, restart
  and probe, and can fail themselves;
- *long legal sequences*: upgrade, failed upgrade, rollback and revocation interleave
  over weeks, and every one of them leaves a trace in the ledger that another reads;
- *stale state*: the ledger is loaded once and written back whole;
- *concurrency of the broker*: decisions interleave with short writes, failed syncs,
  client timeouts, stops and power losses, and each must be on the disk before
  its answer leaves;
- *paths*: a starting and a stopping broker work on the same socket path by name;
- *approval and use*: a wrapper or the adapter asks for an approval, and only then
  resolves the pointer or asks the service, with other clients and the operator at work
  in between, and a time-out that leaves the asked updater running;
- *installing beside others*: two builds may share a bundle, two installers a host, and
  the last writes of an installer meet the first checks of clients.

`PROJECT.json` lists these hazards with the line where each bites.

### What makes each part correct

- *updater*: the files it leaves can always be decided by `recover` (`RecoverableDisk`);
  an approval agrees with the ledger, the pointer, the journal and the running
  service (`ApprovalsAreSound`); no release that is not newer is installed except by an
  operator (`OnlyRollbackDowngrades`, `NoEquivocation`); leases are never mixed
  (`LeaseBacked`); concurrent invocations lose no revocation (`NoLostUpdate`); what is
  left running is what is recorded (`ServedMatchesLedger`); transactions end
  (`LockReleased`, `TransactionResolves`); the audit trail accounts for every activation
  (`ActivationsAudited`); a power loss takes an activation back only with its journal
  (`UndoneIsJournalled`); who alone can bring a revoked or a quarantined release back
  (`RevokedStaysOut`, `QuarantinedStaysOut`, `RevokedRestart`), and on which two journals
  `recover` gives up (`RefusalIsStuck`); `installed.json` follows a five-move abstract
  ledger (`ImplementsLedger`);
- *broker and audit*: audit failure blocks invocation (`RepliesAreRecorded`), one
  record per invocation (`OneRecordEach`), a file that only grows and an answer that is
  never taken back (`ImplementsDecisionLog`), no request hangs (`EveryRequestEnds`), and the
  redactor hides what is below a key that names a secret, and nothing else
  (`RedactionIsExact`);
- *socket*: a supervised broker always starts and is reachable (`NoStartRefused`,
  `AcceptingIsReachable`); a broker that ends by itself cleans up (`CleanStop`);
- *clients*: an answer never comes from a release, of the service's or of the adapter's
  own code, that the host left before it gave the approval (`AnswersAreApproved`);
- *builder*: a bundle its installer accepts is one complete build (`LoadableIsComplete`),
  whose name and binaries come from the trees that stood while that build was at work and
  from no others (`SourceIdentity`), and no later build spoils it
  (`PreparedIsPreserved`);
- *installer*: what is installed is one build (`InstalledIsOneBuild`), nothing is granted
  before it is complete (`GrantsFollowStaging`), and the receipts of success and of
  failure are true (`SealedIsProven`, `StopReportIsTrue`).

## 2. The modules

| Module | Models | Extends / instantiates |
|---|---|---|
| `ReleaseLedger` | what the updater promises about `installed.json`, abstractly | |
| `ReleaseManager` | `check`, `rollback`, `recover` of class `Manager`, system call by system call | |
| `ReleaseManagerProperties` | types, invariants, action and liveness properties of it | `ReleaseManager`; instance of `ReleaseLedger` |
| `ReleaseManagerProofs` | the proofs | `ReleaseManagerProperties`, `TLAPS` |
| `AuditTrailProofs` | proof that the audit trail is complete | `ReleaseManagerProofs` |
| `LedgerProofs` | proof of the refinement, and of what follows from it | `ReleaseManagerProofs` |
| `ServiceProofs` | proofs about the service, downgrades, approvals, power losses, revocation and quarantine | `LedgerProofs`, `AuditTrailProofs` |
| `MCReleaseManager` | manifests and metadata for TLC | `ReleaseManagerProperties` |
| `ManagedUse`, `MCManagedUse` | the wrappers and the MCP adapter, composed with the updater and the service | `ReleaseManagerProperties` |
| `UseProofs` | proofs about clients and their approvals | `ManagedUse`, `ServiceProofs` |
| `BundleBuilder` | `build.py`, and `load_bundle` | |
| `HostInstaller`, `MCHostInstaller` | `install.py` with clients and reboots, composed with the builder | `BundleBuilder` |
| `InstallerProofs` | proofs about the builder and the installer | `HostInstaller`, `TLAPS` |
| `DecisionLog` | what the broker promises about its audit file, abstractly | |
| `BrokerService` | connections, `Check`, `Invoke`, `JSONLAudit.Write`, stops and power losses | instance of `DecisionLog` |
| `BrokerProofs` | proofs about the broker's audit | `BrokerService`, `TLAPS` |
| `AuditRedaction` | `redactMap`, `redactValue`, `sensitiveKey` | |
| `MCBrokerService` | requests and trees for TLC | `BrokerService`, `AuditRedaction` |
| `SocketLifecycle` | `ServeUnix` from `prepareSocketPath` to the deferred `os.Remove` | |
| `SocketProofs` | proofs about it | `SocketLifecycle`, `TLAPS` |

An operator introduced by a comment `Bug:` is a deliberately wrong variant of the
definition that follows it. No specification uses it: `PROJECT.json` names the property
that fails when it replaces the right one.

### ReleaseManager

One process is one invocation of `main()`. `pc[p]` is the step it is at, named after the
call (`recover`, `verify`, `fetch`, `saveSeen`, ..., `unlinkDone`), and within a file
replacement `io[p]` is the system call: `create` (`O_EXCL` on `X.new`), `rename`, `fsync`
of the directory. `mem[p]` is `self.state`. A manifest stands for its own SHA-256, so
`current`, `previous`, `metadata` and the keys of `revoked` and `failed` are manifests.

| Code | Actions |
|---|---|
| `main`: `flock`, `Manager()` | `Start`; the end of the process, `Exit`, is part of every action that returns or raises |
| `recover` | `RecoverTxn`, `RecoverNone`, `RecoverRefused`, then the shared link, restart, probe and unlink with the labels `...Rec` |
| `check` | `Verify`, `VerifyRefused`, `FetchOffline`, `FetchRefused`, `FetchRevoking`, `FetchCurrent`, `FetchUpgrade` |
| `prepare` | `Prepare`, `StageManifest`, `StageRoles`, `StageRefused` |
| `rollback` | `Choose`, then the transaction it shares with `check` |
| `atomic`, `link` | `Create`, `CreateRefused`, `Rename`, `Fsync`, `FsyncReturn` |
| `restart`, `probe`, `audit`, `unlink` | `Restart`, `ProbeNew`, `ProbeOld`, `ProbeRec`, `ProbeRefused`, `Audit`, `Unlink` |
| `except Exception` | `Raise`: the two `try` blocks go to `linkOld`, everything else ends the process |
| host | `Throw` (an exception at any step), `Kill`, `PowerLoss`, `Writeback`, `ServiceCrash`, `ServiceStart`, `OperatorClean`, `SetClock` |

The data is abstracted to what the properties tell apart. Signatures and pinning are
membership in `Approved`; the health of a release is membership in `Healthy`; the
validation of JSON, ownership and modes is accepted or refused; the three artefacts of
a release are one stage that is `absent`, `dir` (no manifest yet), `partial`, `torn` (a
leftover `.new` file) or `ready`. `probe` waits for a stopped service (`keybroker wait`),
so `ProbeNew` blocks while nothing runs and `ServiceStart` can still bring it up.
`status` only reads and is left out.

`release()` checks two things of a stage each time it is linked, proved or printed, and
`Intact` is both: that it is complete, and that its manifest was issued no more than 60
seconds (`Slack`) after the present clock (`Begun`). The clock of the host moves freely
over `Times`, so that it may be set back behind the issue of a release at any step.
`Proven` compares manifests where `probe` compares `ReleaseID` and `SourceID`: two
manifests of one build would be one release to the code and are two to the model.

Of `state/updates.jsonl`, which `audit` appends to and syncs, the model keeps
`disk.trail`, the release of the last line that reports an activation (`upgrade
verified`, `operator rollback`, `completed interrupted receipt`). The other lines change
nothing a property speaks of; an exception in writing one is an exception at the next
step. The installer's own line, `initial health installation verified`, is the initial
value.

`disk` is what processes see and `durable` what a power loss leaves. A journalling file
system with ordered metadata is assumed: `durable` is always an earlier `disk`, and an
`fsync` brings it up to date. The rename in `atomic` comes after the `fsync` of the
file's contents, so no file with half its contents is ever visible under its own
name. `unlink` of the journal and `mkdir` of a stage are not followed by an `fsync` in
the code, and so are not durable in the model until something else is. `Writeback` lets
the system commit at any time.

`OperatorClean` is what the comment in `atomic` ("Interrupted files stay for operator
review") leaves to a person: leftover `.new` files, and stages without a manifest,
are removed while no invocation holds the lock.

### ReleaseLedger and the refinement

The abstract ledger has five moves: `Observe` (a fresh manifest: its sequence and
revocations), `Renew` (a new lease for the installed release), `Upgrade`, `Quarantine`,
`Rollback`; and `Commit` and `Lose` for durability. Under `ledger <- disk.installed`,
`stable <- durable.installed` every step of `ReleaseManager` is one of these or a
stutter: processes, journals, pointers, stages and exceptions disappear.

### BrokerService

A connection goes `free`, `sent`, `decided`, `locked`, `appended`, `recorded` (or
`failed`), `closed`. `Respond` is every request that leaves no record, a foreign peer's
included; `Decide`, `Lock`, `AppendLine`, `Sync`, `Return` are `Invoke` and
`JSONLAudit.Write`. `AppendFails` is a refused `openAudit` or a short write, `SyncFails` a
failed `file.Sync`, `ClientTimeout` the ten seconds of `callUnix`. `log` is the sequence
of what appends left in the file, each whole or torn; `synced` how many a power loss
cannot take. Each record holds what `Invoke` and `Write` left of the input after
redacting it twice (`Logged`). The output of a result is not modelled. A client that asks
again after a time-out is another connection: the code has no request identity, and
`OneRecordEach` is about one connection.

### DecisionLog and the refinement

The abstract log has four moves: `Record` (one entry of a connection that has none and
was not answered, complete or torn), `Commit`, `Tell` (connections end, or are told what a
complete entry on the disk says), and `Lose`, which takes only what is not on the disk.
`BrokerService` maps its records to entries (`Trail`), `synced` to `safe`, and what an
invocation was answered to `told` (`Outcome`); goroutines, mutex and failures disappear,
and requests that leave no record are not told anything.

### AuditRedaction

A JSON value is a tree of maps, lists and leaves. A key is a sequence of pieces:
separators, and runs of letters, each in small or in capital letters, cut finely enough for
a marker to begin and end between two pieces wherever it occurs. `pass_WORD` is three
pieces, `tokens` the pieces `to`, `ken`, `s`; `sensitiveKey` folds the case, drops the
separators wherever they stand and searches the rest for a marker, as the code does.

The reference shares neither the markers nor the shape of the redactor. `Documented` is
the list of `docs/how-keybroker-works.md:122`, `Spells` looks for one of its names in the
key as it is written, `Entries` lists each leaf with the path to it, and `Shown` cuts a
path at its first secret key. Between the list and the code there is one difference, which
the reference names (`Unrecognised`, `Instead`): the document says "authorisation", the code
looks for "authorization". `redactValue` is a recursive operator, which is why it stands
outside `BrokerService` and is given to it as the constant `Redact`.

### ManagedUse

A client is `away`, at its wrapper's `gate` (waiting for `check`), about to `exec`, `open`
(the adapter between requests), in a `recheck`, or about to `invoke`. It is named after the
invocation of the updater it waits for. `Enter` and `Ask` start one; `GatePassed`,
`RecheckPassed` and their refusals read its answer; `Exec` resolves the pointer;
`RecheckTimesOut` gives up after 90 seconds and leaves the invocation running, as killing
`sudo` does; `Invoke` asks the service. `Background` is every other step of the updater
and the host, `OperatorRollback` the operator. `seen` is a history of what the pointer has
named since the last answer.

### BundleBuilder

One action per write of `build.py`; the content of a file stands for its hash, and the tree
may be edited at any step. `stood` is a history: for each build the trees that stood from
the hash of the sources to its end; `changed` is the bundles somebody edited by hand.
`Loadable` is what `load_bundle` accepts.

### HostInstaller

One action per step of `install.py --apply`, and two per file, as `write_new` creates it
exclusively and then fills it. `Plan` is the order of the files; `release` is all that
`stage_and_validate_release` writes. `Interrupt` is any exception (to
`stop_failed_install`, as soon as `ACTIVE_UNIT` is set) or a kill. `Claim` is the `mkdir` of
`/opt/keybroker-health`, which decides between two installers that passed the same
checks. `ClientCheck` to `ClientEnds` are a client's check from the grant on, as far as it
writes `installed.json`; the installer's own `Record` and `Rename` do so without
`update.lock`. Of the ledger only `last_verified_at` is kept. The two may write it back
from a copy that the other has replaced since, but at this time the copies differ in nothing
else: the policy the installer writes approves the one release it installs
(`install.py:200`), and the manifest of that release revokes nothing (`build.py:56`), so no
check can record a revocation, a quarantine or another sequence. `AtBoot` says what a
reboot starts.

### SocketLifecycle

One action per system call of `ServeUnix`. A socket file is named for the broker that
bound it, and every step acts on the path, as the code does: `Chmod`, `Unlink` (Go's
`UnixListener.Close` unlinks before it closes) and `Cleanup` (the deferred
`os.Remove`) hit whatever is there by then. `Cancel` is the cancelled context, whose
goroutine closes the listener; after `AcceptFails`, any other error of `Accept`, the
deferred `Close` does so instead, after `Cleanup`, and unlinks the path a second time.
`supervised` is chosen once: a supervisor runs one broker at a time; by hand they overlap.

## 3. What is checked

All of `ReleaseManager`'s runs use up to four manifests: `r1` installed first, `r2` its
successor, `r3` of a higher sequence than both, and `r4`, which equivocates: the sequence of
`r3`, and unhealthy. `r3` revokes `r1`, an older release, and `r2` revokes `r3`, a newer
one that the publisher withdrew: nothing in the code orders a revocation and the release
it names, so a host that has seen `r2` may still be offered `r3`. The clients' runs need no
withdrawal and have the first revocation only.

| Run | Question | Bounds |
|---|---|---|
| `crash` | do the files stay recoverable and the approvals sound whatever dies where; what does a power loss take back; who brings a revoked or quarantined release back? | 1 process at a time, 4 manifests, 3 faults, fixed clock |
| `lease` | does the ledger implement the abstract one; are leases ever mixed, does recorded time go back, is a printed approval durable; does every invocation end, every transaction resolve? | 1 process at a time, 3 manifests with overlapping lifetimes, all healthy, 3 clock readings, 2 faults, fairness |
| `managed` | does a concurrent invocation undo what another recorded; which release answers an approved client? | 2 clients, each command line or adapter, 3 manifests, 1 fault, clients symmetric |
| `install` | is what is installed one complete build, are grants last, are the receipts true? | 2 builds and 2 installers in any overlap, 2 binaries, 2 versions of the tree, 1 edit, a client, reboots, both platforms; builds and installers symmetric |
| `broker` | is a decision answered only when it is completely on the disk, and once; is the audit file a log of decisions; is redaction exact; does every request end? | 3 connections, 5 kinds of request, 2 faults, fairness; redaction on every tree of up to two of eight keys or two items over small maps, lists and leaves |
| `socket` | does the next broker start, is it reachable, is everything cleaned up? | 3 brokers, supervised or not, killed anywhere |

Why the bounds are enough. Four manifests are what the longest interesting history
needs: an upgrade, a second one that revokes the first release, a failed and
equivocating third, and rollbacks among them; the ledger itself remembers two releases.
A fault is an exception, a kill, a service crash or a power loss: with three, a
transaction is interrupted, its recovery is interrupted, and the recovery of that too.
As the lock admits one process at a time, a second process adds behaviour only through
what it reads outside the lock; `managed` has two, `NoLostUpdate` fails as soon as
the lock is dropped, and the theorems hold for any number. Two clients are enough for one
to be between approval and use while the other upgrades; three manifests let the release
behind an approval be left twice. Two builds and two installers are the least where one
finds what the other is making; two binaries the least that can be of two builds. The
three clock readings of `lease` are one at which only `r1` may be used (the others are issued
too far ahead), one in the life of all three, and one after the end of all, grace included;
the clock moves both ways, so that a transaction begun at one reading meets its recovery at
an earlier or a later one. The trees of `RedactionIsExact` have three
levels, and a redactor of one case per kind of node has nothing new to do on a fourth. Three connections
are the least where one holds the mutex, one waits and one has ended. Three brokers
are the least where one has been killed, one stops and one starts. Executions are not
bounded in length: upgrades and rollbacks go on for ever, and only the number of faults
and the set of manifests are bounded.

`CHECK_DEADLOCK FALSE` stands in `broker.cfg`, `torn_line.cfg`, `socket.cfg`,
`stale_race.cfg` and `install.cfg`: each connection is used once, each broker, build and
installer is started once, so these systems come to rest when all are used up. The updater's runs check for deadlock.

### Fairness

- `WF(Run(p))`: a live invocation makes progress. Every call it makes is bounded: 15
  seconds per download, a timeout on every subprocess.
- `WF` of some `Start(p, "check")`: clients keep using the host, and each use runs a check.
- `WF(ServiceStart)`: `Restart=on-failure` in the unit, `KeepAlive` in the property list,
  and the start at boot.
- `SF(OperatorClean)`: the operator, whom the code's comment names, reviews the leftovers.
  Strong, because it needs the lock free and checks come and go.
- `WF(Handle(c))`, `SF(Lock(c))`: the Go scheduler runs every goroutine, and `sync.Mutex`
  does not starve a waiter.

No fault is fair; after the last one the system must recover by itself. The clock is not
fair either. As long as it stands more than 60 seconds behind the issue of the release the
ledger names, `release()` refuses that release and with it every recovery:
`TransactionResolves` therefore begins where the clock has come back for good, and is
violated without that condition.

### Disagreements found

Six runs show a property that a line of the repository states and the code does not
keep. `PROJECT.json` quotes the lines.

| Run | What happens |
|---|---|
| `revoked_installed` | `check` compares a candidate with its own manifest's revocations only. A release an earlier manifest revoked is installed; if the upgrade to it is interrupted after its record, `recover` refuses it for ever ("recovery release revoked"). |
| `revoked_restarted` | A rollback off a revoked release whose proof fails starts the revoked release again. |
| `quarantine` | `rollback` does not look at the quarantine: upgrade, rollback, failed second upgrade, rollback installs a quarantined release. |
| `rollback_wedge` | A rollback off a revoked release that dies after its journal is written blocks `check` and `rollback` until the files are edited by hand. |
| `torn_line` | After a short write the next audit record shares a line with the fragment. |
| `stale_race` | A broker that dials between another one's `bind` and `listen` removes the socket of a broker that listens by then. |

What the updater ensures instead of the first four is stated as well, without any premise
on what the publisher revokes, checked in `crash` with manifests for which these four
disagreements do occur, and proved. The exceptions are necessary: without any one of them
TLC finds the property violated.

| Property | What holds |
|---|---|
| `RevokedStaysOut` | A release recorded as revoked is installed in two ways only: by an upgrade, because the channel presents it, approved, as the newest manifest; or when a power loss takes back the operator's rollback that had just left it, whose journal is then still there. |
| `RevokedRestart` | A release recorded as revoked is started in two ways only: to prove the upgrade to the newest manifest, or by the handler of a failed operator's rollback. No recovery and no failed upgrade starts one. |
| `QuarantinedStaysOut` | A quarantined release is installed again by an operator's rollback only, or when a power loss takes back the activation that replaced it. |
| `RefusalIsStuck` | What `recover` itself looks at makes it refuse two journals only: that of a rollback off a revoked release, and that of an upgrade, already recorded, to a revoked newest manifest. Its `link` and `probe` may fail besides, on a leftover `current.new` or on the clock, and are tried again by the next invocation. |
| `ApprovalsAreSound` | An approval names a revoked release only where `check` has just upgraded to it as the newest manifest. |

Looked at and not reported, because no line promises otherwise: a decision may be recorded whose client got an error (the sync failed) or
nothing (it timed out); the recorded time may drift back by 60 seconds with each check; a
second broker started by hand while the first stops can lose its socket to the
first one's deferred `os.Remove`, which is why `AcceptingIsReachable` is stated
under a supervisor; a process that dies between `mkdir` and the manifest blocks
that release until the operator removes the directory; a line of more than 64 KiB ends
the MCP adapter; every build of one tree issues the same sequence, so that a second
approved build of it equivocates; a failed `print` after the receipt was sealed stops the
service that the receipt calls healthy; `launchctl bootout` leaves the property list, so
that on macOS a service whose installation failed starts at the next boot (which is
why `StopReportIsTrue` is stated for Linux); `build.py` hashes the sources before it
compiles them and never compares again, so an edit during a build puts trees of two moments
under one name, which `SourceIdentity` bounds and does not exclude.

Two lines of the documentation are at odds with the code without a run of their own.
`docs/how-keybroker-works.md:120` says that the service appends "one JSON object per
decision"; the decision of a `check` request is not recorded, and the model reads the line
as one about invocations (`DecisionLog` maps the answer of a check to none).
`docs/how-keybroker-works.md:122` names the marker "authorisation"; `broker.go:171` matches
"authorization", so a value below the spelling of the document is logged as it is.
`RedactionIsExact` excepts exactly this name; without the exception TLC refutes it with a map
of that one key. One more remark on the redactor: `redactValue` descends into `map[string]any` and `[]any` only, which
is all JSON decodes to; another map or list type in an `AuditEvent` built in Go would
be kept as it is.

## 4. What is proved

All theorems hold for every value of the constants. About the updater they use
`ReleaseAssumption`, `TimeAssumption` and `ProcAssumption` of `ReleaseManager` alone: any
set of manifests and processes, any lifetimes and revocations, any number of faults.
About the broker they use `ConnAssumption` and `RequestAssumption`, about the socket
`BrokerAssumption`, about builder and installer the `BuilderAssumption` of
`BundleBuilder`. No theorem has a premise of its own: in particular none assumes
which releases a manifest revokes.

| Theorem | States | Module |
|---|---|---|
| `Invariance` | `Spec => []IInv` | `ReleaseManagerProofs` |
| `TypeCorrect`, `Recoverability` | `[]TypeOK`, `[]RecoverableDisk` | `ReleaseManagerProofs` |
| `AuditTrail` | `[]ActivationsAudited` | `AuditTrailProofs` |
| `LedgerRefinement` | `ImplementsLedger` | `LedgerProofs` |
| `Unequivocal`, `LeasesBacked`, `NothingForgotten` | `[]NoEquivocation`, `[]LeaseBacked`, `[]NoLostUpdate` | `LedgerProofs` |
| `ServedIsInstalled`, `NoDowngrade` | `[]ServedMatchesLedger`, `OnlyRollbackDowngrades` | `ServiceProofs` |
| `ApprovalsAgree` | `ApprovalsAreSound` | `ServiceProofs` |
| `UndoneJournalled`, `QuarantineKept` | `[]UndoneIsJournalled`, `QuarantinedStaysOut` | `ServiceProofs` |
| `RevokedKeptOut`, `RevokedStarted`, `RefusedOnlyThere` | `RevokedStaysOut`, `RevokedRestart`, `RefusalIsStuck` | `ServiceProofs` |
| `UseRefines` | `UseSpec => Spec` | `UseProofs` |
| `NothingForgottenInUse`, `SessionTypes`, `ApprovedInUse` | `[]NoLostUpdate`, `[]SessionTypeOK`, `[]AnswersAreApproved`, of `UseSpec` | `UseProofs` |
| `BuildTypeCorrect`, `AcceptedIsComplete`, `NamedAfterItsSources`, `PreparedStaysAccepted` | `[]BuildTypeOK`, `[]LoadableIsComplete`, `[]SourceIdentity`, `[]PreparedIsPreserved` | `InstallerProofs` |
| `HostTypeCorrect`, `GrantsComeLast`, `InstalledWhole`, `SealedHonestly`, `ReportedStopsHold` | `[]HostTypeOK`, `[]GrantsFollowStaging`, `[]InstalledIsOneBuild`, `[]SealedIsProven`, `[]StopReportIsTrue` | `InstallerProofs` |
| `OneAtWork` | at most one installer is active | `InstallerProofs` |
| `Auditing` | `Spec => []BrokerInv` | `BrokerProofs` |
| `BrokerTypes`, `DecisionsRecorded`, `RecordedOnce` | `[]TypeOK`, `[]RepliesAreRecorded`, `[]OneRecordEach` | `BrokerProofs` |
| `DecisionRefinement` | `ImplementsDecisionLog` | `BrokerProofs` |
| `Lifecycle` | `Spec => []SocketInv` | `SocketProofs` |
| `SocketTyped`, `Reachable`, `StartsAgain`, `StopsClean` | `[]TypeOK`, `[]AcceptingIsReachable`, `[]NoStartRefused`, `[]CleanStop` | `SocketProofs` |

`RecoverableDisk` says of the files alone that `recover` can decide: without a journal the
pointer agrees with the ledger; with one, both are named by it; and the releases both
name are completely staged. It is not inductive: whether the rename of the pointer
keeps it depends on the journal written some steps earlier, whether the rename of the
ledger does depends on the pointer, and both on the process's memory. `IInv` adds what
the holder of `update.lock` knows at each step (`Knows`): which release it has
chosen, that its memory agrees with the ledger except between `saveUpgraded` and the
unlink, whether the journal is absent, is exactly its own, or only present, and
which release the pointer names. `Holder` adds that everyone else is idle.

That proof has two layers. The `...Type` lemmas show that each action keeps
`TypeOK`, given `Holder` where a value is written. The `...Kept` lemmas show that it
keeps `RecoverableDisk` and every process's `Holder`; `GotoHolds`, `ExitHolds` and
`RaiseHolds` reduce the latter to what the one moving process must know at its next
step, so an action's proof is that `Knows` there. `NextIInv` puts the cases together.

The further theorems each add to `IInv` what it does not say:

- *The trail* (`TrailInv`). `ActivationsAudited` needs to know why the trail is right when
  the journal goes: `Audited` says that while a transaction is open the trail names one
  of its two releases, and at an unlink the one that is installed.
- *The refinement* (`MemoryInv`). A rename of `installed.json` writes what the process
  computed from the file it loaded many steps before, so a step is a move of the abstract
  ledger only if nothing came between. `Remembers` says, for each step, that the memory of
  the lock's holder is the ledger, or one named move away from it. `Simulation` then maps
  each action to a move, a commit, a loss or a stutter. `NothingForgotten` is a corollary.
- *What the moves keep* (`LedgersOK`). No equivocation and unmixed leases are shown once,
  for the five moves, of the visible and of the durable ledger.
- *The service* (`ServedInv`). Which release runs depends on the pointer; `Settled` are the
  steps from the passed probe to the end of the transaction, within which the release
  that runs is the one the pointer names. `NoDowngrade` uses the moves again: only a
  rollback goes down in sequence.
- *Approvals* (`VouchedInv`). An approval is printed at one of three steps, long after what
  makes it true was established: `Vouched` carries from `verify`, `fetch` and the passed
  probe that the release is not revoked, or is the newest manifest seen, and that the
  recorded activation is durable. With `Knows`, `Remembers` and `ServedInv` each of the
  three steps then gives `ApprovalSound`. That is all the code ensures: a manifest that
  revokes a release of a higher sequence leaves that release installable, which is the
  finding `revoked_installed` and the exception in the property.
- *Power losses* (`LossInv`). `UndoneIsJournalled` compares the files a process sees with
  those a power loss leaves. `AtStake` names the steps at which the two have to agree on
  ledger and journal: from the synced journal to the rename of the record that closes the
  transaction, and again at the unlink. `WriteLoss` shows it for the three system calls of a
  file replacement, `LossKept` reduces every other step to what it leaves alone.
- *What stays out*. `Installs` lists the only ways the installed release changes: the rename
  of an upgrade's or a rollback's record, or a power loss. `MemoryInv` keeps, from the fetch
  to the record, what was looked at: a candidate is approved, not quarantined and the newest
  manifest, or it is the previous release and not revoked. Of a power loss `LossInv` says
  what it takes back. For `RevokedStarted`, `MemoryInv` also keeps that no step towards an
  upgrade leaves a revoked release, so that what a failed upgrade puts back is none.
- *What recovery refuses* (`StuckInv`). `Settleable` says of the visible and of the durable
  files that an open journal beside a revoked installed release is that of a rollback off
  it, or of the upgrade that has just installed it. A journal is written when the decision was made, and the ledger under it is replaced
  later: `TxnStays` and `RenameStuck` show that no replacement turns a transaction
  that `recover` can settle into one that it cannot.
- *Clients* (`SessionInv`, `UseInv`). A step among clients is a step of the updater or none
  (`UseStep`), so its theorems carry over. `AnswersAreApproved` speaks of the moment
  of a request only. `Covered` says what holds at every step before it: the pointer is
  always in `seen`; a client that has an approval has seen the release it names and the
  one that runs; a client about to `exec` or `invoke` still has one. A new approval
  starts `seen` anew, which is right because `ApprovalsAgree` says that pointer and service
  agree at that moment; from then on `ServiceFollows` says that the service only
  changes to what the pointer names. `Unanswered`, that a running invocation has not
  answered, excludes an answer from the invocation that a client gave up on.
- *The builder* (`BuilderInv`). What `load_bundle` accepts depends on three files written at
  different times. `OneWorker` says that the exclusive `mkdir` leaves a bundle to one
  build; `Compiling`, `Listed` and `Booted` say what that build's step implies of
  binaries, manifest and bootstrap; `Pinned` says what the pin, written last, then fixes,
  by hash, whatever is edited later. `Seen`, `Named` and `Sourced` carry, from the hash of the
  sources over every compilation to the manifest, that what a build has collected comes from
  trees in its `stood`.
- *The installer* (`HostInv`). `Claim` lets one installer through (`OneInstaller`). `InOrder`
  says of the files alone that one is begun only when those before it are complete, which
  is what makes the grant come last, also after a kill; `Placed` and `Reached` say what
  the step of the installer at work implies of its copy of the bundle, its place in `Plan`,
  the service and the ledger.
- *The broker* (`BrokerInv`). `LogInv` says that each record is an event of its connection's
  and no connection has two; `StageInv` says what a goroutine's stage implies of its
  request, the mutex, its record and its answer. `Silent`, `Appends` and `DownKeeps` show
  it for the three shapes of a step: one that leaves the file alone, one that writes, one
  that ends the process. The refinement maps the same shapes: `Tells`, `Records` and
  `Loses`, the last from `Survives`, which says what a power loss leaves of the file.
- *The socket* (`SocketInv`). `OwnInv`, which holds for any overlap of brokers, says at which
  calls a broker may own the path and a listening socket; `CleanStop` follows. `AloneInv`
  adds, for one live broker at a time, that what `Lstat`, `Bind` or `Listen` found or made
  is still so at the next call; without a supervisor it fails, as `stale_race` shows.

Each of these invariants was checked by TLC, as an invariant of the run of its
component, before it was proved.

Only model-checked: liveness (`LockReleased`, `TransactionResolves`,
`EveryRequestEnds`), as fairness and `ENABLED` are outside what the prover supports, and
`RedactionIsExact`, as `redactValue` is recursive and what it computes for trees of
every depth needs an induction that the prover cannot instantiate.

## 5. What is not modelled, and what is left

Not modelled: peer credentials (one system call, the `owner` flag of a request); the
signature verifier (a pure function, `Approved`); the two service definitions as such
(they are the fairness above); the checks of path ownership and modes (`protected`,
`protectedDirectory`, `trustedSocket`, `validate_install_parent`: read-only, their verdict
is an accepted or refused step); the argument parsing and exit codes of the command
line; JSON-RPC framing; the dry run of the installer; file formats.

`HostInstaller` and `ReleaseManager` are not composed: the former models a client's check as
far as it touches what the installer writes, and its finished installation is the latter's
`Init` (the release staged, the ledger naming it, the pointer on it, no journal, the
service started).

The updater with its abstract ledger and its audit trail, its clients, the builder and the
installer, the broker with the redactor, and the life of the socket are modelled and
checked, and every safety property of the passing runs is proved but for those of section
4's last paragraph. Two relations between modules are stated in words only. That an
installer's finished host is the updater's `Init` is the remark above: `HostInstaller` keeps
of the ledger only whether it was recorded, so a formal mapping would restate the remark
field by field. And `BrokerService` and `SocketLifecycle` meet only in `up`: no answer
depends on how the socket came to be at its path, and no step of the socket's life on what
is being answered, except that `ServeUnix` may return with connections at work, which
`BrokerService` allows at any step (`Stop`).
