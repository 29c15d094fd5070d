---------------------------- MODULE LatentWorker ----------------------------
(***************************************************************************)
(* A latent worker: an instance that is started for the builds that want   *)
(* the worker and stopped afterwards (worker/latent.py), the builds that   *)
(* wait for it (process/build.py, process/workerforbuilder.py), and the    *)
(* connection of its worker (worker/base.py).                              *)
(*                                                                         *)
(* Everything runs in one reactor: an action is what happens between two   *)
(* waits.  What holds or awaits _start_stop_lock is a task in lock; its    *)
(* release lets the next task go on at once, before the code that follows  *)
(* the release: those steps, Grant and Rest, go before any other.          *)
(* build_wait_timeout is positive, and there is no latent machine.  A worker*)
(* may attach before start_instance returned, its connection may be lost in *)
(* silence, and start_instance, stop_instance, check_instance, a ping and   *)
(* attached() take as long as they like; only attached() of a connection    *)
(* that was lost is over before another one is accepted.                    *)
(***************************************************************************)
EXTENDS Naturals, Sequences, FiniteSets

CONSTANTS
  Build, None,
  Attempts,   \* the builds each builder starts
  MaxBuilds,  \* max_builds of the worker: the builds it does at a time
  Faults,     \* what fails: start_instance, check_instance, attached() of a
              \* connection that is live, or a ping over one
  MaxDrops,   \* the connections that are lost on their own, or come too early
  MaxStops    \* the times a user stops a build that waits

ASSUME LatentAssumption ==
  /\ Faults \subseteq {"start", "check", "attach", "ping"}
  /\ IsFiniteSet(Build) /\ None \notin Build
  /\ MaxBuilds \in Nat /\ Attempts \in Nat /\ MaxDrops \in Nat /\ MaxStops \in Nat

VARIABLES
  state,      \* of the worker
  substantiation_build,
  lock,       \* the tasks at _start_stop_lock; the first holds it
  held,       \* free, granted: its task is to go on, or working: it waits
  rest,       \* the code that follows the release under way
  build,      \* the build of each builder
  conn,       \* none, live, or stale: the master does not know that it is gone
  attaching,  \* attached(): before line 491 of base.py, after it, or none
  missing, build_wait, check,  \* the timers
  instance,   \* whether there is one
  left, drops, stops          \* the bounds

timers == <<missing, build_wait, check>>
bounds == <<left, drops, stops>>
vars == <<state, substantiation_build, lock, held, rest, build, conn, attaching,
          timers, instance, bounds>>

Task == [kind : {"start"}, for : Build] \cup
        [kind : {"insubstantiate"}, for : Build \cup {None}] \cup
        [kind : {"check"}, for : {None}]
Start(b) == [kind |-> "start", for |-> b]
\* force_substantiation_build is b.
Insubstantiation(b) == [kind |-> "insubstantiate", for |-> b]
Check == [kind |-> "check", for |-> None]

Substantiating == {"SUBSTANTIATING", "SUBSTANTIATING_STARTING"}
Insubstantiating == {"INSUBSTANTIATING", "INSUBSTANTIATING_SUBSTANTIATING"}

\* Every variable keeps its type, and the lock is free when nobody waits for it.
TypeOK ==
  /\ state \in {"NOT_SUBSTANTIATED", "SUBSTANTIATED"} \cup Substantiating \cup Insubstantiating
  /\ substantiation_build \in Build \cup {None}
  /\ lock \in Seq(Task)
  /\ held \in {"free", "granted", "working"} /\ (held = "free" <=> lock = <<>>)
  /\ rest \in {None, "started", "not started", "checked"}
  /\ build \in [Build -> {"idle", "preparing", "waiting", "ready", "pinging", "refused", "running"}]
  /\ conn \in {"none", "live", "stale"} /\ attaching \in {"no", "connected", "listed"}
  /\ {missing, build_wait, check, instance} \subseteq BOOLEAN
  /\ left \in [Build -> 0..Attempts] /\ drops \in 0..MaxDrops /\ stops \in 0..MaxStops

Init ==
  /\ state = "NOT_SUBSTANTIATED" /\ substantiation_build = None
  /\ lock = <<>> /\ held = "free" /\ rest = None
  /\ build = [b \in Build |-> "idle"]
  /\ conn = "none" /\ attaching = "no"
  /\ missing = FALSE /\ build_wait = FALSE /\ check = FALSE
  /\ instance = FALSE
  /\ left = [b \in Build |-> Attempts] /\ drops = 0 /\ stops = 0

-----------------------------------------------------------------------------
(* The lock, and the notifier *)

Quiet == held # "granted" /\ rest = None

Acquire(t) ==
  /\ lock' = Append(lock, t)
  /\ held' = IF lock = <<>> THEN "granted" ELSE held

\* A variant: the lock does not look whether anybody waits.
ReleaseToNobody(q) ==
  /\ lock' = Tail(lock) \o q
  /\ held' = "granted"

\* The holder releases the lock after it has queued the tasks q.
Release(q) ==
  /\ lock' = Tail(lock) \o q
  /\ held' = IF lock' = <<>> THEN "free" ELSE "granted"

Waiting(b) == build[b] = "waiting"

\* The builds that wait are told the result.
Notified(result) == [b \in Build |-> IF Waiting(b) THEN result ELSE build[b]]

\* A variant: the build that was to follow is remembered.
CancelOnlyTheState ==
  /\ IF state = "INSUBSTANTIATING_SUBSTANTIATING"
     THEN state' = "INSUBSTANTIATING" /\ build' = Notified("refused")
     ELSE UNCHANGED <<state, build>>
  /\ UNCHANGED substantiation_build

\* insubstantiate, before it waits for the lock.
CancelNext ==
  IF state = "INSUBSTANTIATING_SUBSTANTIATING"
  THEN /\ state' = "INSUBSTANTIATING" /\ substantiation_build' = None
       /\ build' = Notified("refused")
  ELSE UNCHANGED <<state, substantiation_build, build>>

\* _substantiation_failed, before its insubstantiation waits for the lock.
SubstantiationFailed ==
  IF state \in Substantiating
  THEN build' = Notified("refused") /\ UNCHANGED <<state, substantiation_build>>
  ELSE CancelNext

-----------------------------------------------------------------------------
(* The tasks *)

HolderIs(kind) == lock # <<>> /\ Head(lock).kind = kind

\* _substantiate goes on, and calls start_instance.
GrantStart ==
  /\ held = "granted" /\ HolderIs("start")
  /\ state' = "SUBSTANTIATING_STARTING" /\ held' = "working" /\ instance' = TRUE
  /\ UNCHANGED <<substantiation_build, lock, rest, build, conn, attaching, timers, bounds>>

\* The instance is gone, and with it the worker's end of a connection.
InstanceIsGone ==
  /\ instance' = FALSE
  /\ conn' = IF conn = "live" THEN "stale" ELSE conn

\* A start that fails may leave the instance behind.
StartInstanceReturns ==
  /\ Quiet /\ held = "working" /\ HolderIs("start")
  /\ Release(<<>>)
  /\ \/ rest' = "started" /\ UNCHANGED <<instance, conn>>
     \/ /\ "start" \in Faults
        /\ rest' = "not started"
        /\ InstanceIsGone \/ UNCHANGED <<instance, conn>>
  /\ UNCHANGED <<state, substantiation_build, build, attaching, timers, bounds>>

\* What insubstantiate does at its end.
Insubstantiated(s, b) ==
  IF s = "INSUBSTANTIATING_SUBSTANTIATING"
  THEN state' = "SUBSTANTIATING" /\ Release(<<Start(b)>>)
  ELSE state' = "NOT_SUBSTANTIATED" /\ Release(<<>>)

\* A variant: a start that has not led to a connection is not stopped.
StopsOnlyTheSubstantiated == state = "SUBSTANTIATED"

\* prev_state: whether there may be an instance to stop.
StopsInstance == state \in {"SUBSTANTIATING_STARTING", "SUBSTANTIATED"}

\* A variant: the builds that wait are not told.
InsubstantiateSilently ==
  /\ held = "granted" /\ HolderIs("insubstantiate")
  /\ LET for == Head(lock).for
         next == IF for = None THEN "INSUBSTANTIATING" ELSE "INSUBSTANTIATING_SUBSTANTIATING"
     IN
     \/ /\ state = "NOT_SUBSTANTIATED"
        /\ Release(<<>>)
        /\ UNCHANGED <<state, substantiation_build, build_wait, check>>
     \/ /\ state \in Substantiating \cup {"SUBSTANTIATED"}
        /\ build_wait' = FALSE /\ check' = FALSE
        /\ IF StopsInstance
           THEN /\ state' = next /\ substantiation_build' = for
                /\ held' = "working" /\ UNCHANGED lock
           ELSE Insubstantiated(next, for) /\ UNCHANGED substantiation_build
  /\ UNCHANGED <<rest, build, conn, attaching, missing, instance, bounds>>

\* insubstantiate goes on, and calls stop_instance if there may be one.
GrantInsubstantiate ==
  /\ held = "granted" /\ HolderIs("insubstantiate")
  /\ LET for == Head(lock).for
         next == IF for = None THEN "INSUBSTANTIATING" ELSE "INSUBSTANTIATING_SUBSTANTIATING"
     IN
     \/ /\ state = "NOT_SUBSTANTIATED"
        /\ Release(<<>>)
        /\ UNCHANGED <<state, substantiation_build, build, build_wait, check>>
     \/ /\ state \in Substantiating \cup {"SUBSTANTIATED"}
        /\ build' = IF state \in Substantiating THEN Notified("refused") ELSE build
        /\ build_wait' = FALSE /\ check' = FALSE
        /\ IF StopsInstance
           THEN /\ state' = next /\ substantiation_build' = for
                /\ held' = "working" /\ UNCHANGED lock
           ELSE Insubstantiated(next, for) /\ UNCHANGED substantiation_build
  /\ UNCHANGED <<rest, conn, attaching, missing, instance, bounds>>

StopInstanceReturns ==
  /\ Quiet /\ held = "working" /\ HolderIs("insubstantiate")
  /\ Insubstantiated(state, substantiation_build)
  /\ substantiation_build' = None /\ InstanceIsGone
  /\ UNCHANGED <<rest, build, attaching, timers, bounds>>

GrantCheck ==
  /\ held = "granted" /\ HolderIs("check")
  /\ held' = "working"
  /\ UNCHANGED <<state, substantiation_build, lock, rest, build, conn, attaching, timers,
                 instance, bounds>>

\* A check that fails queues an insubstantiation before it releases the lock.
CheckInstanceReturns ==
  /\ Quiet /\ held = "working" /\ HolderIs("check")
  /\ \/ /\ Release(<<>>)
        /\ rest' = "checked"
        /\ UNCHANGED <<state, substantiation_build, build>>
     \/ /\ "check" \in Faults
        /\ SubstantiationFailed
        /\ Release(<<Insubstantiation(None)>>)
        /\ UNCHANGED rest
  /\ UNCHANGED <<conn, attaching, timers, instance, bounds>>

\* The code after a release, once the tasks it let go on wait.
Rest ==
  /\ held # "granted" /\ rest # None
  /\ rest' = None
  /\ IF rest = "not started"
     THEN /\ missing' = FALSE
          /\ SubstantiationFailed /\ Acquire(Insubstantiation(None))
          /\ UNCHANGED check
     ELSE /\ check' = TRUE
          /\ UNCHANGED <<state, substantiation_build, lock, held, build, missing>>
  /\ UNCHANGED <<conn, attaching, build_wait, instance, bounds>>

-----------------------------------------------------------------------------
(* The timers *)

\* A variant: the state is not looked at.
CheckAnyInstance ==
  /\ Quiet /\ check
  /\ check' = FALSE
  /\ IF lock = <<>> THEN Acquire(Check) ELSE UNCHANGED <<lock, held>>
  /\ UNCHANGED <<state, substantiation_build, rest, build, conn, attaching, missing,
                 build_wait, instance, bounds>>

\* Only an instance that is to connect is checked.
CheckInstance ==
  /\ Quiet /\ check
  /\ check' = FALSE
  /\ IF state = "SUBSTANTIATING_STARTING" /\ lock = <<>>
     THEN Acquire(Check) ELSE UNCHANGED <<lock, held>>
  /\ UNCHANGED <<state, substantiation_build, rest, build, conn, attaching, missing,
                 build_wait, instance, bounds>>

MissingTimerFires ==
  /\ Quiet /\ missing
  /\ missing' = FALSE
  /\ SubstantiationFailed /\ Acquire(Insubstantiation(None))
  /\ UNCHANGED <<rest, conn, attaching, build_wait, check, instance, bounds>>

\* _soft_disconnect
BuildWaitTimerFires ==
  /\ Quiet /\ build_wait
  /\ build_wait' = FALSE /\ missing' = FALSE
  /\ conn' = IF conn = "live" THEN "stale" ELSE conn
  /\ CancelNext /\ Acquire(Insubstantiation(None))
  /\ UNCHANGED <<rest, attaching, check, instance, bounds>>

-----------------------------------------------------------------------------
(* The connection *)

\* attached(): a worker that nobody waits for is turned away, and one that comes
\* when the master does not know yet that the connection before is gone fails.
Connect ==
  /\ Quiet /\ instance /\ conn # "live"
  /\ conn = "none" => attaching = "no"
  /\ check' = FALSE
  /\ \/ /\ state = "SUBSTANTIATING_STARTING" /\ conn = "none"
        /\ conn' = "live" /\ attaching' = "connected"
        /\ UNCHANGED <<state, substantiation_build, lock, held, build, drops>>
     \/ /\ state = "SUBSTANTIATING_STARTING" /\ conn = "stale"
        /\ drops < MaxDrops /\ drops' = drops + 1
        /\ SubstantiationFailed /\ Acquire(Insubstantiation(None))
        /\ UNCHANGED <<conn, attaching>>
     \/ /\ state # "SUBSTANTIATING_STARTING"
        /\ UNCHANGED <<state, substantiation_build, lock, held, build, conn, attaching, drops>>
  /\ UNCHANGED <<rest, missing, build_wait, instance, left, stops>>

\* The end of attached().
Attached ==
  /\ attaching' = "no"
  /\ state' = IF state \in Substantiating THEN "SUBSTANTIATED" ELSE state
  /\ build' = Notified("ready")

\* workerConnected is done, and the builders are sent, if still connected.
WorkerConnected ==
  /\ Quiet /\ attaching = "connected"
  /\ missing' = FALSE
  /\ IF conn = "none" THEN Attached ELSE attaching' = "listed" /\ UNCHANGED <<state, build>>
  /\ UNCHANGED <<substantiation_build, lock, held, rest, conn, build_wait, check, instance,
                 bounds>>

AttachedReturns ==
  /\ Quiet /\ attaching = "listed"
  /\ \/ Attached /\ UNCHANGED <<substantiation_build, lock, held>>
     \/ /\ conn = "live" => "attach" \in Faults
        /\ attaching' = "no"
        /\ SubstantiationFailed /\ Acquire(Insubstantiation(None))
  /\ UNCHANGED <<rest, conn, timers, instance, bounds>>

\* detached(), and lostRemote of the builds that use the connection: of one that
\* stop_instance takes away, that is gone already, or that is lost on its own.
Detached ==
  /\ Quiet /\ conn # "none"
  /\ conn' = "none"
  /\ IF conn = "live" /\ state \notin Insubstantiating
     THEN drops < MaxDrops /\ drops' = drops + 1 ELSE UNCHANGED drops
  /\ build' = [b \in Build |-> IF build[b] \in {"pinging", "running"} THEN "refused" ELSE build[b]]
  /\ UNCHANGED <<state, substantiation_build, lock, held, rest, attaching, timers,
                 instance, left, stops>>

-----------------------------------------------------------------------------
(* The builds *)

Busy(b) == build[b] # "idle"
Building == {b \in Build : Busy(b)}

\* canStartBuild, and buildStarted.
StartBuild(b) ==
  /\ Quiet /\ ~Busy(b) /\ left[b] > 0
  /\ conn # "none" \/ Building = {}
  /\ Cardinality(Building) < MaxBuilds
  /\ build' = [build EXCEPT ![b] = "preparing"]
  /\ left' = [left EXCEPT ![b] = @ - 1]
  /\ build_wait' = FALSE
  /\ UNCHANGED <<state, substantiation_build, lock, held, rest, conn, attaching,
                 missing, check, instance, drops, stops>>

\* substantiate: a dropped connection, a worker to start, or one that stops.
Substantiate(b) ==
  /\ Quiet /\ build[b] = "preparing"
  /\ LET waits == build' = [build EXCEPT ![b] = "waiting"] IN
     \/ /\ state = "SUBSTANTIATED" /\ conn # "none"
        /\ build' = [build EXCEPT ![b] = "ready"]
        /\ UNCHANGED <<state, substantiation_build, lock, held, missing>>
     \/ /\ state \in Substantiating \cup {"INSUBSTANTIATING_SUBSTANTIATING"}
        /\ waits
        /\ UNCHANGED <<state, substantiation_build, lock, held, missing>>
     \/ /\ state = "SUBSTANTIATED" /\ conn = "none"
        /\ waits /\ missing' = TRUE /\ Acquire(Insubstantiation(b))
        /\ UNCHANGED <<state, substantiation_build>>
     \/ /\ state = "NOT_SUBSTANTIATED"
        /\ waits /\ missing' = TRUE /\ state' = "SUBSTANTIATING" /\ Acquire(Start(b))
        /\ UNCHANGED substantiation_build
     \/ /\ state = "INSUBSTANTIATING"
        /\ waits /\ missing' = TRUE
        /\ state' = "INSUBSTANTIATING_SUBSTANTIATING" /\ substantiation_build' = b
        /\ UNCHANGED <<lock, held>>
  /\ UNCHANGED <<rest, conn, attaching, build_wait, check, instance, bounds>>

\* A build that waits is stopped: insubstantiate_if_needed.
StopBuild(b) ==
  /\ Quiet /\ Waiting(b) /\ stops < MaxStops
  /\ stops' = stops + 1
  /\ CancelNext /\ Acquire(Insubstantiation(None))
  /\ UNCHANGED <<rest, conn, attaching, timers, instance, left, drops>>

\* ping(), of a worker that is substantiated.
Ping(b) ==
  /\ Quiet /\ build[b] = "ready"
  /\ build' = [build EXCEPT ![b] =
       IF state = "SUBSTANTIATED" /\ conn # "none" THEN "pinging" ELSE "refused"]
  /\ UNCHANGED <<state, substantiation_build, lock, held, rest, conn, attaching, timers,
                 instance, bounds>>

\* Its answer: a ping that fails closes the connection, whoever uses it.
PingReturns(b) ==
  /\ Quiet /\ build[b] = "pinging"
  /\ \/ /\ conn = "live"
        /\ build' = [build EXCEPT ![b] = "running"] /\ UNCHANGED conn
     \/ /\ conn = "live" => "ping" \in Faults
        /\ build' = [build EXCEPT ![b] = "refused"] /\ conn' = "stale"
  /\ UNCHANGED <<state, substantiation_build, lock, held, rest, attaching, timers, instance,
                 bounds>>

\* buildFinished: of a build that ran, or that goes back to its queue.
FinishBuild(b) ==
  /\ Quiet /\ build[b] \in {"running", "refused"}
  /\ build' = [build EXCEPT ![b] = "idle"]
  /\ build_wait' = (build_wait \/ Building = {b})
  /\ UNCHANGED <<state, substantiation_build, lock, held, rest, conn, attaching, missing,
                 check, instance, bounds>>

-----------------------------------------------------------------------------
OfLock == GrantStart \/ GrantInsubstantiate \/ GrantCheck \/ Rest
OfInstance == StartInstanceReturns \/ StopInstanceReturns \/ CheckInstanceReturns
OfTimers == CheckInstance \/ MissingTimerFires \/ BuildWaitTimerFires
OfConnection == WorkerConnected \/ AttachedReturns \/ Detached \/ Connect
OfBuild(b) == Substantiate(b) \/ Ping(b) \/ PingReturns(b) \/ FinishBuild(b)

Next ==
  \/ OfLock \/ OfInstance \/ OfTimers \/ OfConnection
  \/ \E b \in Build : OfBuild(b) \/ StartBuild(b) \/ StopBuild(b)

Spec == Init /\ [][Next]_vars

\* What is due: a timer, an answer of the worker, the end of a connection that is
\* gone, a step of a build.
Due ==
  \/ MissingTimerFires \/ BuildWaitTimerFires
  \/ WorkerConnected \/ AttachedReturns \/ (conn = "stale" /\ Detached)
  \/ \E b \in Build : OfBuild(b)

\* The reactor goes on: the backend answers, and what is due again and again is
\* done (one fairness for all of it is enough, for the bounds leave finitely many
\* such steps; checks have their own, for they go on until a worker connects). No
\* worker has to connect, and no connection has to be lost.
FairSpec ==
  /\ Spec
  /\ WF_vars(OfLock) /\ WF_vars(OfInstance)
  /\ SF_vars(CheckInstance) /\ SF_vars(Due)

-----------------------------------------------------------------------------
(* Properties *)

\* The states of an insubstantiation are those in which one holds the lock, as
\* the comments of States and the assertions of insubstantiate have it; only
\* INSUBSTANTIATING_SUBSTANTIATING has a build that follows; and an instance is
\* one that is to connect, that has, or that is being stopped.
StateTellsTheTask ==
  /\ state \in Insubstantiating <=> HolderIs("insubstantiate") /\ held = "working"
  /\ state = "INSUBSTANTIATING_SUBSTANTIATING" <=> substantiation_build # None
  /\ instance => \/ state \in {"SUBSTANTIATING_STARTING", "SUBSTANTIATED"}
                 \/ HolderIs("insubstantiate")

OneBuild == \A b, c \in Build : Busy(b) /\ Busy(c) => b = c
StartsAnother == held = "granted" /\ HolderIs("start") /\ instance

\* While the worker does one build at a time, start_instance is not called for an
\* instance that runs, which the backends refuse: raise ValueError('instance
\* active') (worker/docker.py, openstack.py, ec2.py). No start overtakes the stop
\* before it, whatever fails, is stopped, is dropped or comes too early. Two builds
\* can each have a start made for them: one whose connection was dropped forces an
\* insubstantiation, which waits, and finds the worker being started for the other.
OneInstance == []OneBuild => []~StartsAnother

\* Somebody joined the queue of the lock in this step.
Queued == lock' \notin {lock, SubSeq(lock, 2, Len(lock))}
Running(b) == build[b] = "running"

\* While a build runs over a live connection, nobody asks that its instance be
\* stopped or checked, whatever timers, stops of other builds, pings and late
\* connections there are, except for a start or a check that has just failed.
OnlyFailuresStopAUsedWorker ==
  [][state = "SUBSTANTIATED" /\ conn = "live" /\ (\E b \in Build : Running(b)) /\ Queued
     => Rest \/ CheckInstanceReturns]_vars

\* The insubstantiation that a build forced has come to the lock too late: another
\* one was before it.
Overtaken(b) ==
  held = "granted" /\ Head(lock) = Insubstantiation(b) /\ state = "NOT_SUBSTANTIATED"

\* Nothing tells that the worker is missing.
Unwatched == state = "SUBSTANTIATING_STARTING" /\ ~missing

\* A build waits for ever for two reasons only: its forced insubstantiation was
\* overtaken, or the one missing timer, which every wait and every attached()
\* shares, is not there for the start it waits for. Whatever else is cancelled,
\* fails, is dropped or comes too late, it is told.
OnlyTwoWaitsAreEndless ==
  \A b \in Build : <>[]Waiting(b) => (<>Overtaken(b) \/ <>[]Unwatched)

\* An instance that no build uses is shut down, build_wait_timeout after the
\* last of them: docs/manual/configuration/workers.rst, "how long a latent
\* worker should wait after a build for another build before it shuts down".
IdleIsStopped == []<>(~instance \/ Building # {})
=============================================================================
