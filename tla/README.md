# Umbilical in TLA+

This directory specifies Umbilical, the authority layer that this repository adds to an
import of Buildbot, and the concurrent core of Buildbot below it, and checks and proves what
they promise. Umbilical decides whether a command may be started: durable facts in an SQLite
store grant the authority to start one process for one `ExecutionKey`, and that authority, once
consumed, never comes back. Buildbot decides which master builds a request, when a build has
its locks, and when a cloud worker is started for it. The modules are translated from the
Python source under `src/master/buildbot/`: `umbilical_*.py`, `locks.py`, and parts of
`process/`, `worker/`, `data/`, `db/` and `master.py`.

## 1. The system

| Component | State | Operations | Hard behaviour |
|---|---|---|---|
| Authority store (`umbilical_authority.py`) | five tables: generations of scopes, registered keys, command bindings, admissions, launches; one SQLite connection per handle | acquire/read/compare a generation; register/look up a key; bind/read a command hash; admit/read an admission; claim, mark UNKNOWN, record TERMINAL, read a launch; close | several processes, each with a handle; COMMIT that raises but is durable; ROLLBACK that raises (the handle is poisoned); exceptions that leave a transaction open; crash at any point; 30 s busy timeout |
| Creation and migration (same file) | the file, its schema version and tables | `initialize_new`, `open_existing`, `migrate_v1_to_v2` ... `migrate_v4_to_v5` | racing creators and migrators; the version is read before the lock; a crash after the path is reserved |
| Local execution (`umbilical_local_execution.py`) | the call in progress; the physical process | `execute_local_command`: claim, mark UNKNOWN, start, wait, record | crash between any two steps; orphan process; timeout against exit; uncertain store calls |
| Command identity (same file) | a frozen command | `LocalCommandSpec.snapshot`, `canonical_command_spec_bytes`, `command_spec_hash` | ambiguous framing; order of a mapping |
| Execution identity (`umbilical_execution_identity.py`) | none | `derive_execution_key` | ambiguous framing |
| WorkGraph client (`umbilical_workgraph_client.py`) | the checkout directory of a key; local variables of a run; the commit status on GitHub | `initialize_workgraph_client`, `run_workgraph_client` | several clients share the directory; checked trees change before they are used; lost answers; repeated runs; another controller takes the scope over |
| Validation wrapper (`umbilical_workgraph_validation.py`) | the running stage | `run_validation` | the trees change between its check and its stages |
| Interlocks (`locks.py`, with `process/build.py` and `process/buildstep.py`) | each lock: queue of waiters, owners, counters, `maxCount`; each build and step: what it waits for | `isAvailable`, `claim`, `release`, `waitUntilMaybeAvailable`, `stopWaitingUntilAvailable`, `setMaxCount`; `acquireLocks`, `releaseLocks`, `stopBuild`, `lostRemote`, `interrupt` | a woken waiter runs a reactor turn later; a build is stopped in between; several locks at once |
| Build requests (`process/buildrequestdistributor.py`, `process/builder.py`, `process/botmaster.py`, `data/` and `db/` of requests and buildsets) | claims, results and buildsets in the database; each master's distributor, builds and cancellations | choose, claim, build, return, complete, cancel | several masters and one database; messages lost before a subscription; crashes |
| Masters (`master.py`, `data/masters.py`, `db/masters.py`) | the row of each master; housekeeping under way | heartbeat, expiry, start | a master that died, or was silent too long, has claims left |
| Latent workers (`worker/latent.py`, `worker/base.py`, `process/workerforbuilder.py`) | the worker's state, the lock of its start and stop, three timers, the notifier, the connection | substantiate, insubstantiate, attach, detach, check, ping | every call may meet every state; starts and stops queue up; a worker attaches before its start has returned; several builds share one worker and its timers |
| Schedulers, `util/debounce.py`, `util/deferwaiter.py`; reporters, change sources, web, configuration, steps, migrations | - | - | not modelled, section 8 |

They interact as follows. A client derives the key and the command hash, and calls the store;
`execute_local_command` calls the store twice, starts the process, waits and calls the store
once more; the process is the wrapper, which reads the checkout and the contract repository.
The tables are shared by all controllers, the checkout directory by all clients of one key,
the commit status by all runs of one revision.

In Buildbot a master's distributor claims a request in the shared database and starts a build;
the build substantiates its latent worker, takes its locks, runs its steps, each of which may
take more locks, and at its end completes the request or returns it. Everything in one master
runs in one reactor thread; masters meet in the database and in its messages.

What makes each component correct:

- store: exclusive grants, immutable facts, forward-only launches, fenced admissions and
  claims, answers that stay true, tables its own validators accept;
- creation and migration: one creator, no reset, no half-migrated file;
- execution: at most one process per key, UNKNOWN durable before it, only its own exit code
  recorded, every call ends;
- identities: injective encodings;
- client: one authorized validation per revision and contract, stages on the exact tree,
  statuses that say what is recorded;
- interlocks: exclusive owners are alone, steps run with all their locks, no free lock with a
  queue that nobody wakes, every build ends;
- requests and masters: one build of a request at a time, cancellations reach it, buildsets have
  the worst result, every request is completed, a dead master's claims are released;
- latent workers: starts and stops alternate, nothing but a failure stops an instance in use, a
  build that waits is told, an idle instance is stopped.

The hazards behind these are listed with their source lines in `PROJECT.json`.

## 2. Modules

| Module | Models | Extends |
|---|---|---|
| `AuthorityTables` | rows, the relations of `_validate_store`, the check (`CanX`) and the effect of every operation, as pure operators | |
| `AuthorityLedger` | abstract: an append-only ledger, one fact per step | `AuthorityTables` |
| `AuthorityStore` | handles, transactions and their failures | `AuthorityTables`, instance of `AuthorityLedger` |
| `StoreLifecycle` | creation, opening and migration of the file | |
| `LaunchAuthority` | abstract: open, consumed, launched, recorded | |
| `LocalExecution` | controllers in `execute_local_command` and their processes | `AuthorityTables`, instance of `LaunchAuthority` |
| `WorkGraphClient` | clients, checkout, wrapper, publication; composes the table operations with the executor's steps | `AuthorityTables`, instance of `LaunchAuthority` |
| `CanonicalFraming` | length framing of byte strings | |
| `ExecutionIdentity`, `CommandIdentity` | the two canonical encodings | `CanonicalFraming` |
| `BuildLocks` | `BaseLock`, and builds and steps that take locks, are stopped, or lose their worker | |
| `RequestClaims` | masters, their distributors, builds, cancellations and housekeeping, over one database | |
| `LatentWorker` | a latent worker, the builds that want it, its instance and its connection | |
| `AuthorityTablesProofs`, `AuthorityStoreProofs`, `StoreLifecycleProofs`, `LocalExecutionProofs`, `BuildLocksProofs`, `RequestClaimsProofs`, `LatentWorkerProofs` | theorems | the module they name |
| `WorkGraphClientProofs` | theorems about the client, its keys and its commands | `WorkGraphClient`, `ExecutionIdentity`, `CommandIdentity` |
| `MC*` | instances for TLC | the module they name |

An operator whose comment says "a variant" is a definition changed the way a plausible bug
would change it. No specification uses a variant; it is there to be substituted for the
definition below it, which shows that the run then reports the property violated.

### How they correspond to the code

*Tables.* A store is a record with one function per table; `None`, or generation 0, is "no
row". `CanBind` is the conjunction of the checks in `bind_command_spec_hash` that raise, `Bound`
the row it inserts, and so for every operation. A `DUPLICATE`, `ALREADY_BOUND` or
`ALREADY_ADMITTED` call succeeds and leaves the tables as they are.

*Handles.* A writing operation is two steps: `BEGIN IMMEDIATE`, validation and statements
(`AcquireGeneration`, ..., `RecordExecutionTerminalResult`: they fill the handle's `draft`), and
the end of the transaction (`Commit`, `CommitRaises`, `StatementRaises`, `Abandon`, `Close`,
`DieInCommit`). Between them other handles may read the old tables, and their own
`BEGIN IMMEDIATE` fails with `Busy`. `careful` tells the three launch transitions, whose failed
COMMIT goes to `_handle_consequential_failure` and poisons the handle, from the others, which
roll back what is still open. A read is one step, since its deferred transaction is one
snapshot. `answer` keeps what the last call of a handle returned; it is what the properties
about callers are stated of.

*Executor.* `LocalExecution` uses the table operations as single steps, which
`ImplementsLedger` justifies, but lets each of them also raise after it was committed. `phase`
is the line of `execute_local_command` a controller is at, `child` what the operating system
knows of the process of a key. `Die` may happen anywhere and leaves the process running.

*Client.* `phase` is the line of `run_workgraph_client`. `prepare_exact_checkout` is four steps
because other clients can act between them: deleting the old directory file by file, removing
it, cloning without files, checking out. The directory of a process that runs cannot itself be
removed on Windows, the only host the client accepts, but its files can. `GiveUp` is any
exception without effect, and the death of the client, at any step. The contract repository,
the host and the scope's generation change at any time.

*Interlocks.* A step of `BuildLocks` is what runs between two returns to the reactor.
`_tryWakeUp` marks waiters as woken (`eventually(d.callback)`), and the callback, one of
`ClaimAll`, `WaitForLock`, `AcquireStopped`, is a later step. `phase` is where a build or step is,
`acquiring` its `_acquiringLock(s)`. `releaseLocks` (scheduled by `eventually`) and the recording
of the result happen in either order. `pending` is what the distributor still has to look at:
a request refused for a lock is looked at again only when `_tryScheduleBuildsAfterLockUnlock`
says so.

*Requests.* A database transaction is one step. `chooser` is a run of the activity loop with its
cache of unclaimed requests; `starting` is `_starting_brid_to_cancel`; `job` is a build of a
request in a master, by the line of `startBuild` or `buildFinished` it is at; `cancel` a
`_buildrequest_canceled` in progress. A message goes to the masters that listen when it is sent.
`Resubmit` is the transaction that deletes a claim, `TellUnclaimed` the event that follows it, two
waits of `unclaimBuildRequests` (`data/buildrequests.py:242`); `telling` counts the events in between. A crash,
at any stage of a master, leaves the database; of the events it was about to send `telling` keeps
the number until the master starts again, which only the properties read. `fresh` stands for a recent
`last_active`.

*Latent worker.* `lock` is the queue of `_start_stop_lock`. Twisted's `DeferredLock` runs the next
holder inside `release`, before the code that follows the release: the steps `Grant...` and `Rest`
come before any other (`Quiet`). `build` is where each builder's build is; `conn` keeps a
connection whose other end is gone apart from one that works. Once there is an instance its worker may
connect whatever else is awaited: `start_instance` (`latent.py:111`, and the ordinary order in
`docker.py`, whose `start_instance` returns after the connection), a check or a stop. `attached()` is three steps:
`Connect`; `WorkerConnected`, after which the missing timer is stopped (`base.py:491`); and its end, `AttachedReturns`,
well or, also over a live connection, with an exception. A ping that fails closes the connection
under every other build of the worker (`PingReturns`). `MaxBuilds` is `max_builds`.

*Encodings.* A text is the sequence of its UTF-8 bytes. `Word(n)` is any injective fixed-width
encoding of a length, which is all that is used of the eight big-endian bytes. Base64 and
SHA-256 are taken as one to one.

## 3. Runs

| Run | Instance | States | Shows |
|---|---|---|---|
| `authority_store` | 2 handles, 1 key, 2 hashes, 2 scopes, 2 exit codes, generations to 2 | 182,621 | `StoreStaysValid`, `AnswersStayTrue`, `GrantsAreExclusive`, `ImplementsLedger` |
| `local_execution` | 2 controllers, 1 key, 2 hashes, 1 scope, 2 exit codes, generations to 2 | 6,750 | `AtMostOneLaunch`, `LaunchedUnderUnknown`, `TerminalIsObserved`, `ImplementsLaunchAuthority`, `EveryCallEnds` |
| `store_lifecycle` | 3 processes, 2 rows | 376 | `TablesMatchVersion`, `OpenMeansCurrent`, `HistoryIsKept`, `FailedInitializationIsFinal` |
| `workgraph` | 1 client, 1 revision, 2 contracts, 2 hosts, generations to 2 | 692,664 | `OneAuthorizedRun`, `StagesRunOnExactTree`, `GreenMeansValidated`, `RedMeansRecorded`, `NoGenerationNoAuthority` |
| `workgraph_two` | 2 clients, 1 revision, 1 contract | - | `StagesRunOnExactTree` is violated, section 4 |
| `identities` | texts of 1 or 2 bytes over an alphabet that contains the length bytes; 624 commands over an alphabet of counts, lengths and label bytes | 1,919 | `KeysAreInjective`, `BytesIdentifyCommands` |
| `build_locks` | 3 builds with a step each, 3 locks, one build that may be stopped or lose its worker, one lock whose `maxCount` changes | 31,435 | `OwnersAreCompatible`, `RunningHoldsLocks`, `WaitersAreInterested`, `NoLostWakeUp`, `EveryBuildEnds` |
| `build_locks_order` | 3 builds, 1 step, 2 locks taken in one order | - | `WaitersProceed` is violated, section 4 |
| `request_claims` | 2 masters with 1 open request or 1 master with 2, one cancellation, 2 crashes at any stage, 1 retry, one master that may expire | 969,268 | `OneBuildAtATime`, `CancelReaches`, `BuildsetIsFaithful`, `EveryRequestEnds` |
| `request_takeover` | 2 masters, 1 request, 1 crash | - | `HousekeepingReleases` is violated, section 4 |
| `latent_worker` | 2 builders, 2 builds each, 2 at a time, 1 connection lost or too early, 1 stop; start, check, attach and ping may fail | 726,928 | `StateTellsTheTask`, `OnlyFailuresStopAUsedWorker`, `OneInstance`, `OnlyTwoWaitsAreEndless` |
| `latent_idle` | 2 builders, 2 builds each, 2 stops, no faults | - | `IdleIsStopped` is violated, section 4 |

Every passing run also checks the module's `TypeOK`, except `identities`, which has no state.

The properties in words:

- `AnswersStayTrue`: whatever a call told its caller stays true of the durable tables, through
  later operations of every handle, failed COMMITs and crashes.
- `GrantsAreExclusive`: two handles are never both told that they acquired one generation, newly
  registered, bound or admitted one key, or moved one launch on.
- `StoreStaysValid`: no history leaves tables that `_validate_store` refuses. Since every
  operation starts with that validation, this is what keeps the store usable.
- `ImplementsLedger`: the committed tables change one fact at a time, each under the fence that
  is current when it is recorded.
- `TerminalIsObserved`: a terminal row holds the exit code of the one process started for the
  key; never that of a killed, running or never-started one.
- `GreenMeansValidated`, `RedMeansRecorded`: a commit is shown green only if for some contract the
  authorized wrapper passed both stages on the exact tree; red only with a recorded non-zero
  result.
- `FailedInitializationIsFinal`: a path whose initialization failed is never silently reset.
- `OwnersAreCompatible`: an exclusive owner is alone, and the counters every availability check
  relies on agree with the owners, whatever was claimed, abandoned or reconfigured.
- `RunningHoldsLocks`: a step that runs owns its locks and those of its build.
- `WaitersAreInterested`, `NoLostWakeUp`: no queue has an entry of somebody who gave up, and a free
  lock with a queue has a waiter that was woken.
- `OneBuildAtATime`: while a build of a request is under way its master holds the claim, the
  request is incomplete, and no other master builds it.
- `CancelReaches`: a cancellation that a master has handled has stopped its build, whether it met
  the build before, while or after it subscribed to stop messages.
- `BuildsetIsFaithful`: a complete buildset has complete requests and the worst of their results.
- `StateTellsTheTask`: the states of an insubstantiation are those in which one holds the lock, a
  remembered build belongs to one state only, and an instance to a state that will use or stop it.
- `OnlyFailuresStopAUsedWorker`: while a build runs over a live connection, nothing asks that its
  instance be stopped or checked, whatever timers, stops of other builds, pings and late connections there are,
  except a start or a check that has just failed. The exception is in the code: a start and a check may
  still be awaited when the worker has attached and its build runs, and `_substantiation_failed` does not
  look at the state (`latent.py:327`, `484`).
- `OneInstance`: as long as the worker has done one build at a time, `start_instance` is not called
  for an instance that runs. Without the condition it is not true of the code: see *What TLC found beyond
  the runs*.
- `OnlyTwoWaitsAreEndless`: a build that waits for its worker for ever does so for one of two reasons: the
  insubstantiation it had forced came to the lock after another one and did nothing
  (`latent.py:520`), or the missing timer, which every wait, attach and start of the worker
  shares, does not run for the start it waits for, and the worker never connects.
- `EveryRequestEnds`: a request is completed in the end, or one of the following is why it is not: a
  master that stays down holds its claim, or crashed after it had deleted the claim and before it told of it;
  it had started again after a crash, freed the request and crashed before it looked for it; a
  master crashed again while it came up; a cancelled start has wedged a worker.
- `EveryBuildEnds`: nobody is forgotten in a queue.
- `BytesIdentifyCommands`: two requests have the same canonical bytes if and only if they would
  start the same command, whatever the insertion order of the environment.

### Bounds, and why they are enough

*Keys and scopes.* Rows of different keys never meet in a check, except through the
generation of their scope, so one key shows what a key can live through; two scopes show that a
fence of one scope does not pass for the other. *Generations* to 2 give a takeover while an
admission or a call is in progress, and the overflow check at `MaxGeneration`. *Two hashes*
give a conflicting binding; *two exit codes* a wrong one. *Two handles, controllers or clients*
give every race of one with another; the theorems of section 6 hold for any number. *Three
processes* are a creator or a migrator, its competitor and an opener. `started` counts to 2
and `rows` to `MaxRows`: more is the same.

*Builds and locks.* Three builds are an owner, a waiter and one behind it; the waiter's locks
are each contended by another build, and its step's by both. *Masters.* Two race for one request, and one dies; one master
with two requests has the buildset's races with itself. Both situations are starts of one run.
A second crash reaches a master that comes
up after the first, or that freed its own request. *Latent worker.* Two builders share an instance, at
once (`MaxBuilds` is 2) or one after the other; two builds each let one
come while the instance of the other stops, or starts. Bounds on crashes, retries, stops and lost connections
are constants, all of them 1, or 2 where a run needs it.

*Symmetry* is used for handles and processes, which the modules treat alike, and in no run with
a liveness property.

*Deadlock* is checked except in `store_lifecycle`, where a path whose initialization failed really
admits no further step, and in the runs of Buildbot, whose bounded work comes to its end; there
the liveness properties say that nothing stays undone.

### Fairness

`EveryCallEnds` assumes weak fairness of each controller's own step, and nothing of the
process it started, of other controllers or of restarts. The code justifies it: SQLite gives up
on a busy store after 30 seconds (`_connect_rw`), and `subprocess.run` on the process after
`timeout_seconds`, which `LocalCommandSpec` requires to be positive. With the timeout taken away
the property fails. No liveness is claimed for the client: its `git` calls have no timeout.

`EveryBuildEnds` assumes weak fairness of what the reactor has scheduled (callbacks of locks,
releases), of the distributor, of the end of a step that runs (commands end or time out) and of the
database. Nobody has to stop a build, and no worker has to be lost.

`EveryRequestEnds` assumes weak fairness of what each master that runs does (one fairness for all its
steps: between two crashes they are finitely many, so that whatever is due is done) and of starts that are allowed.
Crashes, expiries and cancellations are not fair.

`OnlyTwoWaitsAreEndless` assumes weak fairness of the tasks of the lock and of the backend's answers
(`start_instance`, `stop_instance` and `check_instance` return); strong fairness of the check timer; and one
strong fairness of everything else that is due: timers, the end of `attached()`, of a connection that
is gone, of a ping, and the steps of builds, which other reactor steps may overtake again and again but
which have their turn. No worker has to connect, and no connection has to be lost or noticed to be.

### What TLC found beyond the runs

These properties fail in the code, in instances of the same modules. They are why the properties above
are worded as they are; each is a hazard of `PROJECT.json`.

- Of two builds at once, b1 finds its connection dropped and forces an insubstantiation, which waits for the
  lock behind another one; b2 meanwhile has the worker started; b1's insubstantiation finds it
  SUBSTANTIATING, with the start for b2 still in the queue, and queues one for b1. Two starts are queued, and the second one
  calls `start_instance` over the instance of the first, which the backends refuse (`docker.py:268`).
- A check is awaited, the worker attaches and a build runs; the check fails, and the instance is
  stopped under the build. `_check_instance_timer_fired_impl` means to check only "between call to start_instance() and
  successful attachment of the worker" (`latent.py:463`), but looks before it waits.
- A build whose forced insubstantiation is overtaken waits for ever, and so does one whose worker never connects
  when the missing timer was stopped by an attach or a failed start of before.
- A master crashes between the transaction that deletes a claim and the event: the request is free, and a
  master that is up and idle is never told. There is no periodic look at unclaimed requests, although
  `docs/developer/br-claiming.rst:60` says that masters "periodically poll" for them.
- A master crashes with a claim, makes its row inactive as it starts, and crashes before its
  housekeeping: at the next start the row does not change, no housekeeping is done
  (`data/masters.py:128`), and the claim stays, until this master or nobody releases it.

## 4. Disagreements between code and documentation

1. `workgraph_two`: the checkout directory depends on the key alone, and
   `prepare_exact_checkout` (`umbilical_workgraph_client.py:265`) deletes an existing one without
   holding any authority. Two clients run for one revision. Client B looks the key up and finds
   no launch. Client A verifies its checkout, claims the launch and starts the wrapper, which
   verifies both trees. B now deletes the files of the directory; A's stages run on what is left,
   and their exit code becomes the irrevocable result of the revision. `run_validation` is
   documented as "Verify both exact clean trees, then optionally run the fixed validation stages"
   (`umbilical_workgraph_validation.py:90`). With one client at a time the property holds
   (`workgraph`, and section 6 for any constants), and with any number of clients as long as no two
   run for one key; that one wrapper runs at most, and that red is recorded, holds always.
2. `build_locks_order`: every build takes A before B, yet two of them wait for each other. b1 waits
   for B at the head of its queue; b2 claims A and its step queues for B behind b1; B is released
   and b1 woken; b1 finds A taken and waits for A, but keeps its place in the queue of B, which
   `isAvailable` counts as being ahead of the step. B stays free for ever. The manual says that
   the times at which locks are taken prevent deadlocks (`docs/manual/configuration/interlocks.rst:81`).
3. `request_takeover`: the housekeeping for a dead master is to "unclaim all of the build requests
   owned by the deactivated instance" (`data/masters.py:170`), but `unclaimBuildRequests` deletes
   only claims of the master that runs it (`db/buildrequests.py:226`). The request is never built.
4. `latent_idle`: `_substantiate` does not look, once it has the lock, whether it was cancelled
   (`worker/latent.py:303`). After two stops of builds that wait, an instance is started for nobody,
   and runs for ever, although `build_wait_timeout` says how long a worker waits for another build
   "before it shuts down" (`docs/manual/configuration/workers.rst:269`).

## 5. Abstract specifications

`AuthorityLedger` has no handles, locks or failures; `AuthorityStore` implements it with
`ledger <- db`. Its `NewAdmission` and `Consume` take the generation that is current, so the
refinement says that no admission and no claim ever slips past a takeover.
`LaunchAuthority` gives each key a stage and the set of recorded codes; `LocalExecution`
implements it with `fate`, computed from the launch row and the processes started.
`WorkGraphClient` implements it too, with a `fate` of its launch rows and wrappers: what the
executor promises of one call survives the checkout, the publication and the other clients around it.

## 6. Theorems

All are proved for every value of the constants, under the named assumptions of the modules:
`MaxGeneration` is a positive number; `None` is not a hash, an exit code, a row, a call or whatever
else it stands for the absence of; `Word`
is an injective encoding of lengths in a fixed number of bytes; texts are non-empty and no longer
than a length word can say; bytes are numbers, and a command's texts, lists and environments have
sizes that a word can say. TLC evaluates the same assumptions on every instance.

- `AuthorityTablesProofs`: each operation takes a valid store to a valid store (one lemma per
  operation). This is where the cross-table relations matter: `AdmissionsValid` keeps a later
  generation from invalidating an admission, `LaunchesValid` ties a launch to binding and
  admission.
- `AuthorityStoreProofs`: `StoreIsInvariant` proves `IInv`. `StoreStaysValid`, `AnswersStayTrue` and
  `GrantsAreExclusive` are not inductive alone: a `Commit` makes durable whatever the handle had
  prepared. `IInv` adds `OneWriter` (at most one handle holds the write lock) and `DraftsAreSound`
  (the writer's draft is one sound step from the committed tables, its pending answer is true
  of the draft, and conflicts with no answer already given). `OneWriter` keeps the committed
  tables still under a draft. From `IInv` follow `StoreIsTyped`, `StoreNeverLocksItselfOut`,
  `StoreAnswersStayTrue`, `StoreGrantsAreExclusive` and the refinement `StoreImplementsLedger`.
- `LocalExecutionProofs`: `ExecutionIsInvariant` proves `IInv`, which adds to the properties that one
  controller owns a key between its claim and its return (`OneOwner`), and what the owner knows
  of the row and of the process (`OwnerKnowsLaunch`, `OwnerKnowsChild`). From it follow
  `OneLaunchPerKey`, `LaunchesAreDurable`, `TerminalsAreObserved`, `ExecutionIsTyped` and the
  refinement `ExecutionImplementsLaunchAuthority`.
- `WorkGraphClientProofs`: `ClientIsInvariant` proves `IInv` for any number of clients, revisions and
  contracts. The properties are not inductive: that one wrapper is authorized needs to know who may
  still start it. `IInv` says that between its claim and its return one client owns a launch, what
  its `phase` implies of the row and of the wrapper, that a wrapper that was started has left its
  row UNKNOWN or TERMINAL, and that what was published is the recorded code. From it follow
  `ClientIsTyped`, `OneWrapperPerKey`, `RedIsRecorded` and `AuthorityNeedsGeneration`.
- `WorkGraphClientProofs`, the fates: `ClientImplementsLaunchAuthority` proves the refinement without
  any condition, unlike what is said of the trees below, since no overlap of clients touches the
  authority. The abstract step that records a code needs more than `IInv`: `FatesAreInvariant` proves
  `FateInv`, by which who is about to launch has an UNKNOWN row, who waits has launched one wrapper,
  who is about to record has seen it exit with that code, and a terminal row keeps it.
- `WorkGraphClientProofs`, the trees: what the stages see is not part of `IInv`, since finding 1 breaks
  it. `TreesAreInvariant` proves `TreeInv` of behaviours in which no two runs of a key overlap
  (`[]OneRunPerKey`, a condition on the clients that nothing in the code enforces): a run that builds
  the directory has found no launch of its key, so that no wrapper was ever started in it; the directory of a
  wrapper that passed its verification stays exact, even when its client died and another run of
  the same key comes along; and an exit code is observed before it is recorded and published. From
  it follow `StagesRunOnTheVerifiedTree` and `GreenIsValidated`. With one client the condition
  holds of every state (`OneClientIsSound`), which is the instance `workgraph` checks.
- `WorkGraphClientProofs`, the keys: a frame delimits itself, hence `ExecutionKeyIsInjective` for texts of
  any content and length, and `DerivedKeysAreInjective`. `PairsStandForTheirKeys` applies it to
  the inputs the client derives its key from (`validation_contract_id`): distinct pairs of revision
  and contract have distinct keys, which is why `WorkGraphClient` may take the pair for the key.
- `WorkGraphClientProofs`, the commands: `CanonicalBytesIdentify` proves that two commands have the same
  canonical bytes if and only if they would start the same process, for argument lists and
  environments of any size, and `CommandsAreIdentified` says so of every command frozen after another.
  A code that delimits itself stays so when a list of them is flattened after its count
  (by induction up to the number of items), and the environment is such a list because its order by name
  exists and is unique: an item's place is the number of the items before it.
- `BuildLocksProofs`, for any number of locks, builds and steps, any lists of accesses and any
  limits. `LocksAreInvariant` proves `IInv`, four parts. `LocksTyped` and `OthersTyped` are the types.
  `LocksLawful`: a queue has nobody twice and only requesters that asked for the lock; exclusive
  owners are alone and the counters are the sums of what the owners claimed; the limit is a configured
  one; the head of the queue of a lock without owners was woken. `LocksHeld`: who owns a lock runs
  or is at its end, an active step has a build that runs, and who runs without having been stopped
  owns what it asked for. `NoLostWakeUp` is not inductive (somebody was woken, but the one that
  was may be stopped); that the head was is. It stays so because `_tryWakeUp`
  always wakes the head of a free lock, and because nobody starts to wait at the head of a free lock:
  every access fits every limit. That the counters stay
  the sums needs that nobody claims a lock it owns, hence `LocksHeld`. From `IInv` follow `TypeCorrect`,
  `OwnersStayCompatible`, `NoWakeUpIsLost` and `OnlyTheLiveOwnLocks` without further assumption, and
  `RunningStepsHoldTheirLocks` for steps that do not outlive a stop: a step with `alwaysRun` in a build that was
  stopped while it waited runs without the build's locks. Sums over the owners are handled by
  induction over finite sets, stated with a set in place of the predicate (`FiniteInduction`, from
  `WFMin`).
- `BuildLocksProofs`, the waiters: call a lock plain if everybody takes one unit of it and its limit is
  never changed. `WokenWaitersAreServed`: until a waiter that was woken on a plain lock claims or gives
  up, the lock is available to it, because `_tryWakeUp` counts those it passes and newcomers count those
  ahead (`WokenServed`). `StepsWaitOnce`: a step that takes plain locks therefore never waits a second
  time for a lock, and meets the assertion of `stopWaitingUntilAvailable` with the only deferred it
  has. `NobodyWaitsBehindTheDead`: then no queue keeps a requester that was stopped. Both are about steps of builds
  that may be stopped, and assume that such a build takes one lock itself. The conditions are
  on the constants, and the code needs them: `stopBuild` gives up the build's last wait only, so that a
  build with two locks leaves its entry in the queue of the first; if `maxCount` is lowered after the
  wake-up, or a waiter asks for more units than are free (`_tryWakeUp` looks for one free unit,
  `isAvailable` for all it asks), it was woken for nothing, its step waits again, and of two waits for
  one lock an interruption gives up only one. TLC finds both in instances of three steps and one lock
  whose limit or whose counts vary. `SingleWaitersStayInterested` is the same without plain locks, for behaviours in which
  no step waits twice.
- `StoreLifecycleProofs`: `LifecycleIsInvariant` proves `IInv` for any number of processes and rows. It
  adds to the properties that a path has one creator (`OneCreator`), that who writes holds the lock
  (`LockIsHeld`), and that the version a migrator read before it had the lock is still the file's
  once it has it (`MigrationIsCurrent`), which is what the check inside the transaction is for. From it follow `LifecycleIsTyped`, `FilesAreConsistent` and
  `OpenStoresAreCurrent`, and, step by step, `HistoryOfStoresIsKept` and `FailuresAreFinal`.
- `RequestClaimsProofs`: `ClusterIsTyped` and `BuildsetsAreFaithful` hold for any number of masters,
  requests and buildsets without further assumption; the second because a result is never changed
  (`ResultsAreFinal`). The others are about behaviours in which `MastersStayApart` holds of every state:
  no master runs while another cleans up after it, and one that cleans up after itself is not about to
  complete a request it claimed for a cancellation. Nothing in the code enforces it: the first part
  is that a master which was expired comes back only when nobody cleans up after it, the
  second that no cancellation meets its own housekeeping. `OneBuildAtATime` is not inductive: a claim may
  be lost to housekeeping, to a return and to nobody else, and each has to be shown harmless.
  `ClaimsStaySound` proves `Claimed`: who builds, is to start or cancels a request has its claim and
  does one of the three; a master builds nothing before it is up and cancels nothing before it listens;
  a master cleans up after itself before it is up; and what a housekeeping has read is still
  claimed by the master it cleans up after. From it follow `ReturnsBuildOnce` and, with
  what a cancellation relies on, `ReturnsAreCancelled`: a request that starts is in
  `_starting_brid_to_cancel` until its build listens to stop messages, a master that was told to
  stop it keeps the claim and has marked it, a distributor starts nothing while the worker is
  busy (`CancelsReach`), and a master has nothing to stop before it is up (`QuietUntilUp`). `ClaimsAreSound` shows that the
  condition holds of every state if no expired master starts again (`NobodyReturns`): who is not
  fresh is then down for good, and only such a master is cleaned up after by another (`Departed`).
  `RequestsAreBuiltOnce` and `CancellationsReach` follow. Without the condition the property fails:
  a master that returns hears of a cancellation while its forced housekeeping is under way, claims
  the request to complete it, and loses the claim to itself, section 8.
- `LatentWorkerProofs`, for any number of builders and builds, under every fault and without an
  assumption on when a worker attaches. `WorkerIsSound`: state, holder of the lock, remembered build and instance agree,
  whence `WorkerIsTyped` and `StateTells`. `WorkerIsUndisturbed` adds that the build wait timer runs
  for nobody (`IdleIsEmpty`), that a live connection has an instance (`LiveHasInstance`), and that a worker that
  is in use over a live connection is not being attached, not missed and not waited for (`AttachEnds`, `LiveIsNotMissed`,
  `LiveIsAnswered`): of all that queues a task for the lock only a start and a check that were awaited before are
  left, hence `UsedWorkersAreLeft`. `WorkerIsInOrder` is about behaviours in which the worker does
  one build at a time (`[]OneBuild`): an insubstantiation that a build forced is of a build that
  still waits, and no start is queued or forced beside another start (`InOrder`), so that whoever
  comes to the lock finds the worker as it was when it was asked to come; hence `OneInstanceAtATime`. The condition is
  on the use of the worker, `max_builds = 1` and builds that end before the next begins, and
  it is needed (*What TLC found beyond the runs*).

## 7. What is only model-checked

- All liveness (`EveryCallEnds`, `EveryBuildEnds`, `EveryRequestEnds`, `OnlyTwoWaitsAreEndless`): beyond
  the proof system.
- `BuildLocks` outside the conditions named in section 6; there `WaitersAreInterested` and
  `RunningHoldsLocks` fail in the code, and the instance of `build_locks` meets them.
- `LatentWorker` with several builds at a time, as far as `WorkerIsInOrder` and `OneInstance` go. `RequestClaims` with masters that return while
  another cleans up after them is in no run either; section 6 says what is known of it.
- The disagreements of section 4: a theorem cannot state a counterexample, TLC finds it.

## 8. What is not modelled, and why

- Argument validation (types, lengths, NUL bytes): a refused argument changes no state.
- Corruption of the file by other programs, and the exact-SQL comparison of
  `_validate_exact_store`: the model's tables are those this program writes.
- Win32 path handling, Known Folders, `os.replace`-like details of the checkout: the model keeps
  whether the directory is absent, partial or exact.
- What the stages write into the tree, and grandchildren that outlive a killed wrapper. The
  wrapper's two verifications are one step.
- The wording of GitHub answers: a call succeeds or the run gives up. A lost answer to an
  applied POST ends the run as a delivered one does.
- Interlocks: accesses of count zero always succeed and are left out; a build has at most one step
  with locks; a stopped build gives up only its last wait (`process/build.py:732`), and its `alwaysRun`
  steps run without the build's locks, which the instances leave out (`AlwaysRun = {}`).
- Requests: collapsing, priorities, choice of the worker, clean shutdown, reconfiguration that removes
  a builder; a build of several requests; a master that returns after it was expired (`MayReturn`),
  which can make a cancelled request be built again (a listed hazard), is in no run; the theorems of
  section 6 cover such masters as far as they stay apart from the housekeeping.
- Masters: the housekeeping of workers, builders, schedulers, change sources, builds and steps.
- Latent workers: `stopService`, `build_wait_timeout` of zero or below, latent machines, quarantine.
  While `attached()` of a connection that was lost has not returned, no further connection is accepted.
- Schedulers, debouncing: next in the plan. Reporters, change sources, the web server, configuration,
  steps' commands and schema migrations are input/output and rendering; TLC has nothing to
  find in them.

## 9. Plan

Done, in this order: tables, store and ledger; executor; client and wrapper; file life cycle;
encodings; their proofs; interlocks; request claims and masters; latent workers; the proofs about
the client, the life cycle, the claims, the latent worker and the interlocks; the encoding of
commands for all of them, the client's refinement of `LaunchAuthority`, and the claims when masters
return.

Next:

1. `Debounce` and the schedulers' tree-stable timers.
2. A composition of `LocalExecution` with the handles of `AuthorityStore`, which would replace the
   one-step store calls by their transactions.
3. `RequestClaims` with collapsing and clean shutdown; `LatentWorker` with `stopService`.

## 10. Running the checks

    tlc -config MCAuthorityStore.cfg MCAuthorityStore      (one minute)
    tlc -config MCLatentWorker.cfg MCLatentWorker          (two minutes)
    tlc -config MCRequestClaims.cfg MCRequestClaims        (three minutes)
    tlapm RequestClaimsProofs.tla                          (a minute)
    tlapm WorkGraphClientProofs.tla                        (two and a half minutes)
    tlapm BuildLocksProofs.tla                             (a minute and a half)

`PROJECT.json` names every run, the definitions with the source lines they model, the variants, the
hazards and the theorems.
