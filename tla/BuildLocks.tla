----------------------------- MODULE BuildLocks -----------------------------
(***************************************************************************)
(* Interlocks (buildbot/locks.py) and the builds and steps that wait for   *)
(* them (process/build.py, process/buildstep.py, process/builder.py).      *)
(*                                                                         *)
(* Everything runs in one reactor thread: a step of this model is what     *)
(* runs between two returns to the reactor.  A waiter that is woken is     *)
(* called back later (eventually); a build that is stopped, or loses its   *)
(* worker, may be anywhere in between.                                     *)
(***************************************************************************)
EXTENDS Integers, FiniteSets, SequencesExt

CONSTANTS
  Lock,
  Build,       \* builds, each on a worker of its own
  Step,        \* steps that take locks, or that run even in a stopped build
  Of,          \* each step: its build; a build has at most one of these steps
  Locks,       \* each build and step: the accesses it asks for, in order
  AlwaysRun,   \* the steps with alwaysRun
  MayStop,     \* the builds a user may stop, or whose worker may be lost
  MaxCounts    \* each lock: the values configuration gives its maxCount

Requester == Build \cup Step
Mode == {"counting", "exclusive"}
Access == [lock : Lock, mode : Mode, count : Nat \ {0}]

\* A step may not take a lock of its build (_setup_locks), an exclusive access
\* counts one, and every access can be granted.
ASSUME LocksAssumption ==
  /\ Build \cap Step = {} /\ AlwaysRun \subseteq Step /\ MayStop \subseteq Build
  /\ Of \in [Step -> Build]
  /\ \A s, t \in Step : Of[s] = Of[t] => s = t
  /\ MaxCounts \in [Lock -> SUBSET (Nat \ {0})]
  /\ \A r \in Requester :
       /\ Locks[r] \in Seq(Access)
       /\ \A i, j \in DOMAIN Locks[r] :
            Locks[r][i].lock = Locks[r][j].lock => i = j
       /\ \A i \in DOMAIN Locks[r] :
            /\ Locks[r][i].mode = "exclusive" => Locks[r][i].count = 1
            /\ \A m \in MaxCounts[Locks[r][i].lock] : Locks[r][i].count <= m
  /\ \A s \in Step : \A i \in DOMAIN Locks[s] : \A j \in DOMAIN Locks[Of[s]] :
       Locks[s][i].lock # Locks[Of[s]][j].lock

VARIABLES
  maxCount,   \* each lock: BaseLock.maxCount
  waiting,    \* each lock: its queue of waiters, and whether each was woken
  owners,     \* each lock: its owners
  claimed,    \* each lock: _claimed_excl and _claimed_counting
  phase,      \* where each build and step is
  acquiring,  \* each requester: the locks of _acquiringLock(s), in order
  stopped,    \* the builds and steps with stopped set
  lost,       \* the builds whose connection is gone
  pending     \* the builds whose request the distributor is yet to look at

vars == <<maxCount, waiting, owners, claimed, phase, acquiring, stopped, lost,
          pending>>

Waiter == [who : Requester, woken : BOOLEAN]

\* queued: no build yet; starting: up to acquireLocks; waiting: on a deferred
\* of a lock; woken: its callback is scheduled; running: its steps run;
\* leaving: a step that was cancelled before it ran; finishing: buildFinished
\* was called, after which the locks are released and the result recorded.
Phase == {"queued", "starting", "waiting", "woken", "running", "leaving",
          "finishing", "released", "recorded", "done"}

\* Every variable keeps its type.
TypeOK ==
  /\ maxCount \in [Lock -> Nat \ {0}]
  /\ waiting \in [Lock -> Seq(Waiter)]
  /\ owners \in [Lock -> SUBSET Requester]
  /\ claimed \in [Lock -> [exclusive : Nat, counting : Nat]]
  /\ phase \in [Requester -> Phase]
  /\ acquiring \in [Requester -> Seq(Lock)]
  /\ stopped \subseteq Requester
  /\ lost \subseteq Build
  /\ pending \subseteq Build

Init ==
  /\ maxCount \in {m \in [Lock -> UNION {MaxCounts[l] : l \in Lock}] :
                     \A l \in Lock : m[l] \in MaxCounts[l]}
  /\ waiting = [l \in Lock |-> <<>>]
  /\ owners = [l \in Lock |-> {}]
  /\ claimed = [l \in Lock |-> [exclusive |-> 0, counting |-> 0]]
  /\ phase = [r \in Requester |-> "queued"]
  /\ acquiring = [r \in Requester |-> <<>>]
  /\ stopped = {}
  /\ lost = {}
  /\ pending = Build

-----------------------------------------------------------------------------
(* BaseLock *)

LocksOf(r) == {Locks[r][i].lock : i \in DOMAIN Locks[r]}
Need(r, l) == Locks[r][CHOOSE i \in DOMAIN Locks[r] : Locks[r][i].lock = l]

\* _find_waiting: the place of r in a queue, where it has at most one.
Places(q, r) == {i \in DOMAIN q : q[i].who = r}
Place(q, r) == CHOOSE i \in Places(q, r) : TRUE
Without(q, r) == IF Places(q, r) = {} THEN q ELSE RemoveAt(q, Place(q, r))

Waits(r, l) == Places(waiting[l], r) # {}

Ahead(r, l) ==
  IF Waits(r, l) THEN SubSeq(waiting[l], 1, Place(waiting[l], r) - 1) ELSE waiting[l]

\* An access of a requester; ahead of it, the waiters that came before it.
\* Counting accesses are compared with the number of waiters ahead.
Grants(l, access, ahead) ==
  /\ claimed[l].exclusive = 0
  /\ \/ /\ access.mode = "counting"
        /\ claimed[l].counting + Len(ahead) + access.count <= maxCount[l]
        /\ \A i \in DOMAIN ahead : Need(ahead[i].who, l).mode = "counting"
     \/ /\ access.mode = "exclusive"
        /\ claimed[l].counting = 0
        /\ ahead = <<>>

IsAvailable(r, l) == Grants(l, Need(r, l), Ahead(r, l))

Charge(c, access, sign) ==
  [c EXCEPT ![access.mode] = @ + sign * access.count]

\* _tryWakeUp counts the waiters it passes as if they had claimed already, and
\* stops at the first one it would not wake.
PassedBefore(l, q, i, mode) ==
  FoldLeft(LAMBDA sum, e : IF Need(e.who, l).mode = mode
                           THEN sum + Need(e.who, l).count ELSE sum,
           0, SubSeq(q, 1, i - 1))

Passes(l, q, c, max, i) ==
  LET excl == c.exclusive + PassedBefore(l, q, i, "exclusive")
      counting == c.counting + PassedBefore(l, q, i, "counting")
  IN excl = 0 /\ IF Need(q[i].who, l).mode = "counting"
                 THEN counting < max ELSE counting = 0

TryWakeUp(l, q, c, max) ==
  [i \in DOMAIN q |->
     [q[i] EXCEPT !.woken = @ \/ \A j \in 1..i : Passes(l, q, c, max, j)]]

\* With the queues w, the callbacks of the newly woken waiters are scheduled.
Rings(w) ==
  [r \in Requester |->
     IF /\ phase[r] = "waiting"
        /\ \E l \in Lock : /\ [who |-> r, woken |-> FALSE] \in ToSet(waiting[l])
                           /\ [who |-> r, woken |-> TRUE] \in ToSet(w[l])
     THEN "woken" ELSE phase[r]]

\* setMaxCount, when the master is reconfigured.
SetMaxCount(l) ==
  /\ \E m \in MaxCounts[l] \ {maxCount[l]} :
       /\ maxCount' = [maxCount EXCEPT ![l] = m]
       /\ waiting' = IF m > maxCount[l]
                     THEN [waiting EXCEPT ![l] = TryWakeUp(l, @, claimed[l], m)]
                     ELSE waiting
  /\ phase' = Rings(waiting')
  /\ UNCHANGED <<owners, claimed, acquiring, stopped, lost, pending>>

-----------------------------------------------------------------------------
(* acquireLocks of a build and of a step *)

Acquires(r) == phase[r] \in {"starting", "woken"} /\ r \notin stopped

\* A variant: a stopped step runs when it is called back.
RunsOn(r) == "running"

\* A stopped requester goes on without its locks: a build to the steps that
\* always run, a step to its end.
GoesOn(r) == IF r \in Build THEN "running" ELSE "leaving"
ForgetsLock(r) == IF r \in Build THEN <<>> ELSE acquiring[r]

AcquireStopped(r) ==
  /\ phase[r] \in {"starting", "woken"} /\ r \in stopped
  /\ phase' = [phase EXCEPT ![r] = GoesOn(r)]
  /\ acquiring' = [acquiring EXCEPT ![r] = ForgetsLock(r)]
  /\ UNCHANGED <<maxCount, waiting, owners, claimed, stopped, lost, pending>>

\* A variant: claim as soon as one of the locks is free.
ClaimAny(r) ==
  /\ Acquires(r)
  /\ LocksOf(r) # {} => \E l \in LocksOf(r) : IsAvailable(r, l)
  /\ owners' = [l \in Lock |->
       IF l \in LocksOf(r) THEN owners[l] \cup {r} ELSE owners[l]]
  /\ claimed' = [l \in Lock |->
       IF l \in LocksOf(r) THEN Charge(claimed[l], Need(r, l), 1) ELSE claimed[l]]
  /\ phase' = [phase EXCEPT ![r] = "running"]
  /\ UNCHANGED <<maxCount, waiting, acquiring, stopped, lost, pending>>

\* claim, for every lock, once all of them are available.
ClaimAll(r) ==
  /\ Acquires(r)
  /\ \A l \in LocksOf(r) : IsAvailable(r, l)
  /\ owners' = [l \in Lock |->
       IF l \in LocksOf(r) THEN owners[l] \cup {r} ELSE owners[l]]
  /\ claimed' = [l \in Lock |->
       IF l \in LocksOf(r) THEN Charge(claimed[l], Need(r, l), 1) ELSE claimed[l]]
  /\ waiting' = [l \in Lock |->
       IF l \in LocksOf(r) THEN Without(waiting[l], r) ELSE waiting[l]]
  /\ phase' = [phase EXCEPT ![r] = "running"]
  /\ acquiring' = [acquiring EXCEPT ![r] = <<>>]
  /\ UNCHANGED <<maxCount, stopped, lost, pending>>

FirstUnavailable(r) ==
  LET unavailable == {i \in DOMAIN Locks[r] : ~IsAvailable(r, Locks[r][i].lock)}
  IN Locks[r][CHOOSE i \in unavailable : \A j \in unavailable : i <= j].lock

\* waitUntilMaybeAvailable: a waiter that was woken keeps its place.
WaitForLock(r) ==
  /\ Acquires(r)
  /\ \E l \in LocksOf(r) : ~IsAvailable(r, l)
  /\ LET l == FirstUnavailable(r) IN
     /\ waiting' = [waiting EXCEPT ![l] =
          IF Waits(r, l)
          THEN [i \in DOMAIN @ |->
                  IF @[i].who = r THEN [who |-> r, woken |-> FALSE] ELSE @[i]]
          ELSE Append(@, [who |-> r, woken |-> FALSE])]
     /\ acquiring' = [acquiring EXCEPT ![r] = Append(ForgetsLock(r), l)]
  /\ phase' = [phase EXCEPT ![r] = "waiting"]
  /\ UNCHANGED <<maxCount, owners, claimed, stopped, lost, pending>>

\* A variant: release does not ask whether r owns the lock.
ReleaseUnasked(r) ==
  /\ owners' = [l \in Lock |-> owners[l] \ {r}]
  /\ claimed' = [l \in Lock |->
       IF l \in LocksOf(r) THEN Charge(claimed[l], Need(r, l), -1) ELSE claimed[l]]
  /\ waiting' = waiting

\* The locks of r become free, and their waiters are woken.
Release(r) ==
  LET freed == {l \in LocksOf(r) : r \in owners[l]} IN
  /\ owners' = [l \in Lock |-> owners[l] \ {r}]
  /\ claimed' = [l \in Lock |->
       IF l \in freed THEN Charge(claimed[l], Need(r, l), -1) ELSE claimed[l]]
  /\ waiting' = [l \in Lock |->
       IF l \in freed THEN TryWakeUp(l, waiting[l], claimed'[l], maxCount[l])
                      ELSE waiting[l]]

-----------------------------------------------------------------------------
(* A build *)

\* canStartBuild asks on behalf of nobody: behind all the waiters of the lock.
CanStartBuild(b) ==
  \A l \in LocksOf(b) : Grants(l, Need(b, l), waiting[l])

\* The distributor looks at a request once, until it is told to look again.
Distribute(b) ==
  /\ phase[b] = "queued" /\ b \in pending
  /\ pending' = pending \ {b}
  /\ phase' = [phase EXCEPT ![b] = IF CanStartBuild(b) THEN "starting" ELSE @]
  /\ UNCHANGED <<maxCount, waiting, owners, claimed, acquiring, stopped, lost>>

Active(s) == phase[s] \in {"starting", "waiting", "woken", "running", "leaving"}
StepsOf(b) == {s \in Step : Of[s] = b}
CurrentStep(b) == {s \in StepsOf(b) : Active(s)}

\* getNextStep: without a connection no step starts, in a stopped build only
\* the ones that always run do.
StartStep(s) ==
  /\ phase[s] = "queued"
  /\ phase[Of[s]] = "running" /\ Of[s] \notin lost
  /\ Of[s] \in stopped => s \in AlwaysRun
  /\ phase' = [phase EXCEPT ![s] = "starting"]
  /\ UNCHANGED <<maxCount, waiting, owners, claimed, acquiring, stopped, lost,
                 pending>>

FinishStep(s) ==
  /\ phase[s] \in {"running", "leaving"}
  /\ Release(s)
  /\ phase' = [Rings(waiting') EXCEPT ![s] = "done"]
  /\ UNCHANGED <<maxCount, acquiring, stopped, lost, pending>>

\* buildFinished, of a build whose steps are over or whose worker did not come up.
FinishBuild(b) ==
  /\ \/ phase[b] = "running" /\ CurrentStep(b) = {}
     \/ phase[b] = "starting" /\ b \in MayStop
  /\ phase' = [phase EXCEPT ![b] = "finishing"]
  /\ UNCHANGED <<maxCount, waiting, owners, claimed, acquiring, stopped, lost,
                 pending>>

\* A variant: as soon as the one or the other is done.
RescheduleEarly(b, over) ==
  pending' = IF ~over /\ Locks[b] # <<>>
             THEN {c \in Build : phase[c] = "queued"} ELSE pending

\* _tryScheduleBuildsAfterLockUnlock: a build that asked for locks, once they
\* are released and its result is recorded.
Reschedule(b, over) ==
  pending' = IF over /\ Locks[b] # <<>>
             THEN {c \in Build : phase[c] = "queued"} ELSE pending

ReleaseLocks(b) ==
  /\ phase[b] \in {"finishing", "recorded"}
  /\ Release(b)
  /\ phase' = [Rings(waiting') EXCEPT
       ![b] = IF phase[b] = "recorded" THEN "done" ELSE "released"]
  /\ Reschedule(b, phase[b] = "recorded")
  /\ UNCHANGED <<maxCount, acquiring, stopped, lost>>

RecordFinished(b) ==
  /\ phase[b] \in {"finishing", "released"}
  /\ phase' = [phase EXCEPT
       ![b] = IF @ = "released" THEN "done" ELSE "recorded"]
  /\ Reschedule(b, phase[b] = "released")
  /\ UNCHANGED <<maxCount, waiting, owners, claimed, acquiring, stopped, lost>>

-----------------------------------------------------------------------------
(* A build is stopped by its user, or loses its worker *)

\* An interrupted step gives up its waits in order, up to one that
\* stopWaitingUntilAvailable refuses: of two waits for one lock, the older one
\* while the waiter is not woken, else the second.
Refused(s, i) ==
  LET l == acquiring[s][i]
      same == {j \in DOMAIN acquiring[s] : acquiring[s][j] = l}
  IN \/ ~Waits(s, l)
     \/ [who |-> s, woken |-> FALSE] \in ToSet(waiting[l]) /\ \E j \in same : j > i
     \/ [who |-> s, woken |-> TRUE] \in ToSet(waiting[l]) /\ \E j \in same : j < i

GivenUp(s) ==
  {acquiring[s][i] : i \in {i \in DOMAIN acquiring[s] :
                              \A j \in 1..i : ~Refused(s, j)}}

\* Two variants: a waiter that was woken stays; it wakes nobody in its place.
AbandonedIfAsleep(r, ls) ==
  [l \in Lock |-> IF l \in ls /\ [who |-> r, woken |-> TRUE] \notin ToSet(waiting[l])
                  THEN Without(waiting[l], r) ELSE waiting[l]]
AbandonedSilently(r, ls) ==
  [l \in Lock |-> IF l \in ls THEN Without(waiting[l], r) ELSE waiting[l]]

\* stopWaitingUntilAvailable of r on the locks ls: a waiter that was already
\* woken passes its turn on.
Abandoned(r, ls) ==
  [l \in Lock |->
     LET left == Without(waiting[l], r) IN
     IF l \notin ls THEN waiting[l]
     ELSE IF [who |-> r, woken |-> TRUE] \in ToSet(waiting[l])
          THEN TryWakeUp(l, left, claimed[l], maxCount[l])
          ELSE left]

\* r gives up its waits on ls; the callback of one not yet woken runs at once.
StopWaiting(r, ls) ==
  LET calledBack ==
        \E l \in ls : [who |-> r, woken |-> FALSE] \in ToSet(waiting[l])
  IN /\ waiting' = Abandoned(r, ls)
     /\ phase' = [Rings(waiting') EXCEPT
          ![r] = IF calledBack THEN GoesOn(r) ELSE @]
     /\ acquiring' = [acquiring EXCEPT ![r] =
          IF r \in Build
          THEN (IF calledBack THEN <<>> ELSE @)
          ELSE IF ls = ToSet(@) THEN <<>> ELSE @]

Interrupt(s) ==
  IF s \in stopped
  THEN UNCHANGED <<waiting, phase, acquiring>>
  ELSE StopWaiting(s, GivenUp(s))

Stoppable(b) ==
  b \in MayStop /\ phase[b] \in {"starting", "waiting", "woken", "running"}

\* stopBuild. A second call changes nothing more.
StopBuild(b) ==
  /\ Stoppable(b) /\ b \notin stopped
  /\ stopped' = stopped \cup {b} \cup CurrentStep(b)
  /\ IF CurrentStep(b) = {}
     THEN StopWaiting(b, ToSet(acquiring[b]))
     ELSE \A s \in CurrentStep(b) : Interrupt(s)
  /\ UNCHANGED <<maxCount, owners, claimed, lost, pending>>

\* lostRemote. A step is interrupted instead of the build.
LostRemote(b) ==
  /\ Stoppable(b) /\ b \notin lost
  /\ lost' = lost \cup {b}
  /\ stopped' = stopped \cup (IF CurrentStep(b) = {} THEN {b} ELSE CurrentStep(b))
  /\ IF CurrentStep(b) = {}
     THEN StopWaiting(b, {l \in ToSet(acquiring[b]) : Waits(b, l)})
     ELSE \A s \in CurrentStep(b) : Interrupt(s)
  /\ UNCHANGED <<maxCount, owners, claimed, pending>>

-----------------------------------------------------------------------------
Next ==
  \/ \E l \in Lock : SetMaxCount(l)
  \/ \E r \in Requester : AcquireStopped(r) \/ ClaimAll(r) \/ WaitForLock(r)
  \/ \E s \in Step : StartStep(s) \/ FinishStep(s)
  \/ \E b \in Build : \/ Distribute(b) \/ FinishBuild(b) \/ ReleaseLocks(b)
                      \/ RecordFinished(b) \/ StopBuild(b) \/ LostRemote(b)

Spec == Init /\ [][Next]_vars

\* The reactor runs what is scheduled; a step's command ends, or times out;
\* the database answers. Nobody has to stop a build or to reconfigure.
FairSpec ==
  /\ Spec
  /\ \A r \in Requester : WF_vars(AcquireStopped(r) \/ ClaimAll(r) \/ WaitForLock(r))
  /\ \A s \in Step : WF_vars(FinishStep(s))
  /\ \A b \in Build :
       /\ WF_vars(Distribute(b)) /\ WF_vars(FinishBuild(b))
       /\ WF_vars(ReleaseLocks(b)) /\ WF_vars(RecordFinished(b))

-----------------------------------------------------------------------------
(* Properties *)

\* Whatever is claimed, released, abandoned or reconfigured in between, an
\* exclusive owner is the only owner of its lock, and the counters, which every
\* availability check relies on, agree with the owners and stay within the
\* largest limit the lock ever had (BaseLock: "must match self.owners").
Total(l, mode) ==
  LET of == {r \in owners[l] : Need(r, l).mode = mode}
  IN MapThenSumSet(LAMBDA r : Need(r, l).count, of)
OwnersAreCompatible ==
  \A l \in Lock :
    /\ \A r \in owners[l] : Need(r, l).mode = "exclusive" => owners[l] = {r}
    /\ claimed[l].exclusive = Total(l, "exclusive")
    /\ claimed[l].counting = Total(l, "counting")
    /\ \E m \in MaxCounts[l] : claimed[l].counting <= m

\* A step that runs owns its locks and those of its build, and so excludes every
\* other (interlocks.rst: a build or step proceeds only with all its locks).
RunningHoldsLocks ==
  \A s \in Step : phase[s] = "running" =>
    /\ \A l \in LocksOf(s) : s \in owners[l]
    /\ \A l \in LocksOf(Of[s]) : Of[s] \in owners[l]

\* Who is in a queue is still acquiring its locks: nobody waits behind a
\* requester that has given up (waitUntilMaybeAvailable: the caller must claim
\* the lock or say that it is no longer interested).
WaitersAreInterested ==
  \A l \in Lock : \A i \in DOMAIN waiting[l] :
    phase[waiting[l][i].who] \in {"waiting", "woken"}

\* There is no free lock with a queue and no one to wake it up
\* (stopWaitingUntilAvailable): some waiter has been woken.
NoLostWakeUp ==
  \A l \in Lock : waiting[l] # <<>> /\ owners[l] = {} =>
    \E i \in DOMAIN waiting[l] : waiting[l][i].woken

\* Builds and steps that wait for locks all of them take in one order do not
\* wait for one another for ever (interlocks.rst: locks are taken at the start
\* of a build or a step only, "to prevent deadlocks").
WaitersProceed ==
  \A r \in Requester :
    phase[r] \in {"waiting", "woken"} ~> phase[r] \notin {"waiting", "woken"}

\* No build is left behind: a queued request is started, and whatever waits
\* for locks gets them or is stopped, until every build is over.
EveryBuildEnds ==
  \A b \in Build : phase[b] # "done" ~> phase[b] = "done"
=============================================================================
