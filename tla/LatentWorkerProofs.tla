------------------------- MODULE LatentWorkerProofs -------------------------
(***************************************************************************)
(* Theorems about LatentWorker, for any number of builds, attempts, lost   *)
(* connections and stops.                                                  *)
(*                                                                         *)
(* Sound is what the state tells.  Undisturbed is why only a failure asks  *)
(* for the instance of a build that runs.  InOrder, about the tasks of the *)
(* lock, holds of a worker that does one build at a time, and is why no    *)
(* start is made for an instance that runs.                                *)
(***************************************************************************)
EXTENDS LatentWorker, FiniteSetTheorems, TLAPS

\* The states of an insubstantiation, and its task at work.
Stopping == HolderIs("insubstantiate") /\ held = "working"
StoppingShows == state \in Insubstantiating <=> Stopping

\* A build follows exactly in the state that says so.
FollowerShows == state = "INSUBSTANTIATING_SUBSTANTIATING" <=> substantiation_build # None

\* An instance is one that is to connect, that has, or that is being stopped.
InstanceShows ==
  instance => state \in {"SUBSTANTIATING_STARTING", "SUBSTANTIATED"} \cup Insubstantiating

Sound == TypeOK /\ StoppingShows /\ FollowerShows /\ InstanceShows

-----------------------------------------------------------------------------
(* The lock, and the notifier *)

BuildState == {"idle", "preparing", "waiting", "ready", "pinging", "refused", "running"}

\* A task that asks for the lock leaves its holder as it is.
LEMMA Acquiring ==
  ASSUME TypeOK, NEW t \in Task, Acquire(t)
  PROVE  /\ lock' \in Seq(Task) /\ lock' # <<>>
         /\ held' \in {"granted", "working"}
         /\ lock # <<>> => Head(lock') = Head(lock) /\ held' = held
         /\ lock = <<>> => Head(lock') = t /\ held' = "granted"
<1>1. /\ lock \in Seq(Task) /\ held \in {"free", "granted", "working"}
      /\ held = "free" <=> lock = <<>>
      /\ lock' = Append(lock, t)
      /\ held' = IF lock = <<>> THEN "granted" ELSE held
  BY DEF TypeOK, Acquire
<1>2. /\ lock' \in Seq(Task) /\ Len(lock') = Len(lock) + 1
      /\ \A i \in 1..Len(lock) : lock'[i] = lock[i]
      /\ lock'[Len(lock) + 1] = t
  BY <1>1
<1>3. CASE lock = <<>>
  BY <1>1, <1>2, <1>3
<1>4. CASE lock # <<>>
  <2>1. Len(lock) \in Nat \ {0}
    BY <1>1, <1>4
  <2>2. Head(lock') = lock'[1] /\ Head(lock) = lock[1] /\ lock' # <<>>
    BY <1>1, <1>2, <1>4, <2>1
  <2> QED
    BY <1>1, <1>2, <1>4, <2>1, <2>2
<1> QED
  BY <1>3, <1>4

\* After a release nobody is at work.
LEMMA Releasing ==
  ASSUME TypeOK, lock # <<>>, NEW q \in Seq(Task), Release(q)
  PROVE  /\ lock' \in Seq(Task)
         /\ held' \in {"free", "granted"}
         /\ held' = "free" <=> lock' = <<>>
<1>1. lock \in Seq(Task)
  BY DEF TypeOK
<1>2. Tail(lock) \in Seq(Task)
  BY <1>1
<1>3. Tail(lock) \o q \in Seq(Task)
  BY <1>2
<1> QED
  BY <1>3 DEF Release

\* What the tasks of the lock are.
LEMMA Tasks ==
  /\ \A b \in Build : Start(b) \in Task
  /\ \A b \in Build \cup {None} : Insubstantiation(b) \in Task
  /\ Check \in Task
BY DEF Task, Start, Insubstantiation, Check

\* The notifier only tells the builds that wait.
LEMMA Telling ==
  ASSUME build \in [Build -> BuildState], NEW r \in BuildState
  PROVE  Notified(r) \in [Build -> BuildState]
BY DEF Notified

\* Giving up the build that follows leaves the insubstantiation under way.
LEMMA Cancelling ==
  ASSUME TypeOK, FollowerShows, CancelNext \/ SubstantiationFailed
  PROVE  /\ state' \in {state, "INSUBSTANTIATING"}
         /\ state' # state => state = "INSUBSTANTIATING_SUBSTANTIATING"
         /\ substantiation_build' \in Build \cup {None}
         /\ build' \in [Build -> BuildState]
         /\ FollowerShows'
<1>1. build \in [Build -> BuildState]
  BY DEF TypeOK, BuildState
<1>2. Notified("refused") \in [Build -> BuildState]
  BY <1>1, Telling DEF BuildState
<1>3. CASE CancelNext
  BY <1>1, <1>2, <1>3 DEF CancelNext, TypeOK, FollowerShows
<1>4. CASE state \in Substantiating /\ SubstantiationFailed
  BY <1>1, <1>2, <1>4 DEF SubstantiationFailed, TypeOK, FollowerShows, Substantiating
<1> QED
  BY <1>3, <1>4 DEF SubstantiationFailed

-----------------------------------------------------------------------------
(* What holds whatever goes wrong *)

\* A worker starts sound: stopped, with a free lock and no instance.
LEMMA SoundAtFirst == Init => Sound
<1> SUFFICES ASSUME Init PROVE Sound
  OBVIOUS
<1>1. TypeOK
  <2>1. lock \in Seq(Task) /\ (held = "free" <=> lock = <<>>)
    BY DEF Init
  <2>2. build \in [Build -> {"idle", "preparing", "waiting", "ready", "pinging", "refused", "running"}]
        /\ left \in [Build -> 0..Attempts] /\ drops \in 0..MaxDrops /\ stops \in 0..MaxStops
    BY LatentAssumption DEF Init
  <2> QED
    BY <2>1, <2>2 DEF Init, TypeOK
<1>2. StoppingShows /\ FollowerShows /\ InstanceShows
  BY LatentAssumption DEF Init, StoppingShows, Stopping, FollowerShows, InstanceShows,
     HolderIs, Insubstantiating
<1> QED
  BY <1>1, <1>2 DEF Sound

\* Nobody gets to work, or stops working, when a task asks for the lock.
LEMMA StoppingWhenAsked ==
  ASSUME TypeOK, NEW t \in Task, Acquire(t)
  PROVE  Stopping' <=> Stopping
<1>1. CASE lock = <<>>
  BY <1>1, Acquiring DEF Stopping, HolderIs
<1>2. CASE lock # <<>>
  BY <1>2, Acquiring DEF Stopping, HolderIs
<1> QED
  BY <1>1, <1>2

\* After a release nobody is at work, an insubstantiation neither.
LEMMA StoppingWhenReleased ==
  ASSUME TypeOK, lock # <<>>, NEW q \in Seq(Task), Release(q)
  PROVE  ~Stopping'
<1>1. held' \in {"free", "granted"}
  BY Releasing
<1> QED
  BY <1>1 DEF Stopping

\* What leaves the lock, the state and the instance alone.
LEMMA SoundElsewhere ==
  ASSUME Sound, UNCHANGED <<state, substantiation_build, lock, held, instance>>, TypeOK'
  PROVE  Sound'
BY DEF Sound, StoppingShows, Stopping, HolderIs, FollowerShows, InstanceShows

\* What may give up the build that follows, and asks for an insubstantiation.
LEMMA SoundWhenGivenUp ==
  ASSUME Sound, CancelNext \/ SubstantiationFailed, Acquire(Insubstantiation(None)),
         UNCHANGED instance,
         rest' \in {rest, None}, conn' \in {conn, "stale"},
         attaching' \in {attaching, "no"}, {missing', build_wait', check'} \subseteq BOOLEAN,
         left' = left, drops' \in 0..MaxDrops, stops' \in 0..MaxStops
  PROVE  Sound'
<1>1. TypeOK /\ StoppingShows /\ FollowerShows /\ InstanceShows
  BY DEF Sound
<1>2. Insubstantiation(None) \in Task
  BY Tasks
<1>3. /\ state' \in {state, "INSUBSTANTIATING"}
      /\ state' # state => state = "INSUBSTANTIATING_SUBSTANTIATING"
      /\ substantiation_build' \in Build \cup {None}
      /\ build' \in [Build -> BuildState]
      /\ FollowerShows'
  BY <1>1, Cancelling
<1>4. state \in Insubstantiating <=> state' \in Insubstantiating
  BY <1>3 DEF Insubstantiating
<1>5. /\ lock' \in Seq(Task) /\ lock' # <<>> /\ held' \in {"granted", "working"}
  BY <1>1, <1>2, Acquiring
<1>6. TypeOK'
  BY <1>1, <1>3, <1>5 DEF TypeOK, BuildState, Insubstantiating
<1>7. StoppingShows'
  BY <1>1, <1>2, <1>4, StoppingWhenAsked DEF StoppingShows
<1>8. InstanceShows'
  BY <1>1, <1>3 DEF InstanceShows, Insubstantiating
<1> QED
  BY <1>3, <1>6, <1>7, <1>8 DEF Sound

\* The holder that is no insubstantiation releases the lock.
LEMMA SoundWhenReleased ==
  ASSUME Sound, lock # <<>>, ~Stopping, NEW q \in Seq(Task), Release(q),
         UNCHANGED <<state, substantiation_build, build, attaching, timers, bounds>>,
         rest' \in {rest, "started", "not started", "checked"},
         instance' \in {instance, FALSE}, conn' \in {conn, "stale"}
  PROVE  Sound'
<1>1. TypeOK /\ StoppingShows /\ FollowerShows /\ InstanceShows
  BY DEF Sound
<1>2. /\ lock' \in Seq(Task) /\ held' \in {"free", "granted"}
      /\ held' = "free" <=> lock' = <<>>
  BY <1>1, Releasing
<1>3. TypeOK'
  <2>1. instance' \in BOOLEAN /\ conn' \in {"none", "live", "stale"}
    BY <1>1 DEF TypeOK
  <2>2. rest' \in {None, "started", "not started", "checked"}
    BY <1>1 DEF TypeOK
  <2> QED
    BY <1>1, <1>2, <2>1, <2>2 DEF TypeOK, timers, bounds
<1>4. StoppingShows'
  BY <1>1, StoppingWhenReleased DEF StoppingShows
<1>5. FollowerShows' /\ InstanceShows'
  <2>1. instance \in BOOLEAN
    BY <1>1 DEF TypeOK
  <2>2. state' = state /\ substantiation_build' = substantiation_build
    OBVIOUS
  <2>3. instance' => instance
    BY <2>1
  <2> QED
    BY <1>1, <2>2, <2>3, Zenon DEF FollowerShows, InstanceShows
<1> QED
  BY <1>3, <1>4, <1>5 DEF Sound

\* _substantiate goes on, and start_instance is called.
LEMMA SoundGrantStart ==
  ASSUME Sound, GrantStart
  PROVE  Sound'
<1>1. TypeOK /\ StoppingShows /\ FollowerShows /\ InstanceShows
  BY DEF Sound
<1>2. TypeOK'
  BY <1>1 DEF TypeOK, GrantStart, Substantiating, timers, bounds
<1>3. ~Stopping' /\ ~Stopping
  BY DEF GrantStart, Stopping, HolderIs
<1>4. StoppingShows' /\ FollowerShows' /\ InstanceShows'
  BY <1>1, <1>3 DEF GrantStart, StoppingShows, FollowerShows, InstanceShows,
     Insubstantiating
<1> QED
  BY <1>2, <1>4 DEF Sound

\* What insubstantiate does at its end, of an instance that is gone.
LEMMA SoundWhenInsubstantiated ==
  ASSUME Sound, lock # <<>>, ~instance',
         NEW s, NEW b, s = "INSUBSTANTIATING_SUBSTANTIATING" => b \in Build,
         Insubstantiated(s, b), substantiation_build' = None,
         build' \in [Build -> BuildState], conn' \in {conn, "stale"},
         {missing', build_wait', check', instance'} \subseteq BOOLEAN,
         UNCHANGED <<rest, attaching, bounds>>
  PROVE  Sound'
<1>1. TypeOK
  BY DEF Sound
<1>2. PICK q \in Seq(Task) : Release(q)
  <2>1. CASE s = "INSUBSTANTIATING_SUBSTANTIATING"
    <3>1. Start(b) \in Task /\ Release(<<Start(b)>>)
      BY <2>1, Tasks DEF Insubstantiated
    <3>2. <<Start(b)>> \in Seq(Task)
      BY <3>1
    <3> QED
      BY <3>1, <3>2
  <2>2. CASE s # "INSUBSTANTIATING_SUBSTANTIATING"
    <3>1. Release(<<>>)
      BY <2>2 DEF Insubstantiated
    <3>2. <<>> \in Seq(Task)
      OBVIOUS
    <3> QED
      BY <3>1, <3>2
  <2> QED
    BY <2>1, <2>2
<1>3. /\ lock' \in Seq(Task) /\ held' \in {"free", "granted"}
      /\ held' = "free" <=> lock' = <<>>
  BY <1>1, <1>2, Releasing
<1>4. state' \in {"SUBSTANTIATING", "NOT_SUBSTANTIATED"}
  BY DEF Insubstantiated
<1>5. TypeOK'
  BY <1>1, <1>3, <1>4 DEF TypeOK, BuildState, Substantiating, bounds
<1>6. StoppingShows'
  BY <1>1, <1>2, <1>4, StoppingWhenReleased DEF StoppingShows, Insubstantiating
<1>7. FollowerShows' /\ InstanceShows'
  BY <1>4 DEF FollowerShows, InstanceShows
<1> QED
  BY <1>5, <1>6, <1>7 DEF Sound

\* insubstantiate goes on, in whatever state it finds the worker.
LEMMA SoundGrantInsubstantiate ==
  ASSUME Sound, GrantInsubstantiate
  PROVE  Sound'
<1> DEFINE for == Head(lock).for
           next == IF for = None THEN "INSUBSTANTIATING" ELSE "INSUBSTANTIATING_SUBSTANTIATING"
<1>1. TypeOK /\ StoppingShows /\ FollowerShows /\ InstanceShows
  BY DEF Sound
<1>2. held = "granted" /\ lock # <<>> /\ HolderIs("insubstantiate") /\ ~Stopping
  BY DEF GrantInsubstantiate, HolderIs, Stopping
<1>3. for \in Build \cup {None}
  <2>1. lock \in Seq(Task) /\ lock # <<>>
    BY <1>1, <1>2 DEF TypeOK
  <2>2. Head(lock) \in Task
    BY <2>1
  <2> QED
    BY <2>2, <1>2 DEF Task, HolderIs
<1>4. UNCHANGED <<rest, conn, attaching, missing, instance, bounds>>
  BY DEF GrantInsubstantiate
<1>5. state \notin Insubstantiating /\ substantiation_build = None
  BY <1>1, <1>2 DEF StoppingShows, FollowerShows, Insubstantiating, TypeOK
<1>6. CASE /\ state = "NOT_SUBSTANTIATED"
           /\ Release(<<>>)
           /\ UNCHANGED <<state, substantiation_build, build, build_wait, check>>
  <2>1. <<>> \in Seq(Task)
    OBVIOUS
  <2> QED
    BY <1>2, <1>4, <1>6, <2>1, SoundWhenReleased DEF timers
<1>7. CASE /\ state \in Substantiating \cup {"SUBSTANTIATED"}
           /\ build' = IF state \in Substantiating THEN Notified("refused") ELSE build
           /\ build_wait' = FALSE /\ check' = FALSE
           /\ IF state = "SUBSTANTIATING"
              THEN Insubstantiated(next, for) /\ UNCHANGED substantiation_build
              ELSE /\ state' = next /\ substantiation_build' = for
                   /\ held' = "working" /\ UNCHANGED lock
  <2>1. build' \in [Build -> BuildState]
    <3>1. build \in [Build -> BuildState]
      BY <1>1 DEF TypeOK, BuildState
    <3>2. Notified("refused") \in [Build -> BuildState]
      BY <3>1, Telling DEF BuildState
    <3> QED
      BY <1>7, <3>1, <3>2
  <2>2. CASE state = "SUBSTANTIATING"
    <3>1. Insubstantiated(next, for) /\ substantiation_build' = None
      BY <1>5, <1>7, <2>2
    <3>2. next = "INSUBSTANTIATING_SUBSTANTIATING" => for \in Build
      BY <1>3
    <3>3. ~instance /\ instance' = instance
      BY <1>1, <1>4, <2>2 DEF InstanceShows, Insubstantiating
    <3>4. conn' = conn
          /\ {missing', build_wait', check', instance'} \subseteq BOOLEAN
          /\ UNCHANGED <<rest, attaching, bounds>>
      BY <1>1, <1>4, <1>7 DEF TypeOK
    <3> HIDE DEF next, for
    <3> QED
      BY <1>2, <2>1, <3>1, <3>2, <3>3, <3>4, SoundWhenInsubstantiated
  <2>3. CASE state # "SUBSTANTIATING"
    <3>1. /\ state' = next /\ substantiation_build' = for
          /\ held' = "working" /\ lock' = lock
      BY <1>7, <2>3
    <3>2. state' \in Insubstantiating /\ Stopping'
      BY <1>2, <3>1 DEF Insubstantiating, Stopping, HolderIs
    <3>3. FollowerShows'
      BY <3>1 DEF FollowerShows
    <3>4. TypeOK'
      BY <1>1, <1>2, <1>3, <1>4, <1>7, <2>1, <3>1 DEF TypeOK, BuildState, Insubstantiating, bounds
    <3> QED
      BY <3>2, <3>3, <3>4 DEF Sound, StoppingShows, InstanceShows
  <2> QED
    BY <2>2, <2>3
<1> QED
  BY <1>6, <1>7 DEF GrantInsubstantiate, StopsInstance, Substantiating

\* The tasks that the lock lets go on, and the code after a release, keep it sound.
LEMMA SoundOfLock ==
  ASSUME Sound, OfLock
  PROVE  Sound'
<1>1. TypeOK
  BY DEF Sound
<1>2. CASE GrantCheck
  <2>1. TypeOK' /\ ~Stopping /\ ~Stopping'
    BY <1>1, <1>2 DEF GrantCheck, TypeOK, Stopping, HolderIs, timers, bounds
  <2> QED
    BY <1>2, <2>1 DEF GrantCheck, Sound, StoppingShows, FollowerShows, InstanceShows
<1>3. CASE Rest
  <2>1. CASE rest = "not started"
    BY <1>1, <1>3, <2>1, SoundWhenGivenUp DEF Rest, TypeOK, bounds
  <2>2. CASE rest # "not started"
    <3>1. TypeOK'
      BY <1>1, <1>3, <2>2 DEF Rest, TypeOK, bounds
    <3> QED
      BY <1>3, <2>2, <3>1, SoundElsewhere DEF Rest
  <2> QED
    BY <2>1, <2>2
<1> QED
  BY <1>2, <1>3, SoundGrantStart, SoundGrantInsubstantiate DEF OfLock

\* So do the answers of start_instance, stop_instance and check_instance,
LEMMA SoundOfInstance ==
  ASSUME Sound, OfInstance
  PROVE  Sound'
<1>1. TypeOK /\ StoppingShows /\ FollowerShows /\ InstanceShows
  BY DEF Sound
<1>2. <<>> \in Seq(Task) /\ <<Insubstantiation(None)>> \in Seq(Task)
  BY Tasks
<1>3. CASE StartInstanceReturns
  <2>1. lock # <<>> /\ ~Stopping
    BY <1>3 DEF StartInstanceReturns, HolderIs, Stopping
  <2> QED
    BY <1>2, <1>3, <2>1, SoundWhenReleased DEF StartInstanceReturns, InstanceIsGone
<1>4. CASE StopInstanceReturns
  <2>1. lock # <<>> /\ ~instance' /\ conn' \in {conn, "stale"}
    BY <1>4 DEF StopInstanceReturns, InstanceIsGone, HolderIs
  <2>2. state = "INSUBSTANTIATING_SUBSTANTIATING" => substantiation_build \in Build
    BY <1>1 DEF FollowerShows, TypeOK
  <2>3. build' \in [Build -> BuildState]
        /\ {missing', build_wait', check', instance'} \subseteq BOOLEAN
    BY <1>1, <1>4 DEF StopInstanceReturns, InstanceIsGone, TypeOK, BuildState, timers
  <2> QED
    BY <1>4, <2>1, <2>2, <2>3, SoundWhenInsubstantiated DEF StopInstanceReturns
<1>5. CASE CheckInstanceReturns
  <2>1. lock # <<>> /\ ~Stopping /\ state \notin Insubstantiating
        /\ UNCHANGED <<conn, attaching, timers, instance, bounds>>
    BY <1>1, <1>5 DEF CheckInstanceReturns, HolderIs, Stopping, StoppingShows
  <2>2. CASE /\ Release(<<>>)
             /\ rest' = "checked"
             /\ UNCHANGED <<state, substantiation_build, build>>
    BY <1>2, <2>1, <2>2, SoundWhenReleased
  <2>3. CASE /\ SubstantiationFailed
             /\ Release(<<Insubstantiation(None)>>)
             /\ UNCHANGED rest
    <3>1. /\ state' = state /\ substantiation_build' \in Build \cup {None}
          /\ build' \in [Build -> BuildState] /\ FollowerShows'
      BY <1>1, <2>1, <2>3, Cancelling DEF Insubstantiating
    <3>2. /\ lock' \in Seq(Task) /\ held' \in {"free", "granted"}
          /\ held' = "free" <=> lock' = <<>>
          /\ ~Stopping'
      BY <1>1, <1>2, <2>1, <2>3, Releasing, StoppingWhenReleased
    <3>3. TypeOK'
      BY <1>1, <2>1, <2>3, <3>1, <3>2 DEF TypeOK, BuildState, timers, bounds
    <3>4. StoppingShows' /\ InstanceShows'
      BY <1>1, <2>1, <3>1, <3>2 DEF StoppingShows, InstanceShows
    <3> QED
      BY <3>1, <3>3, <3>4 DEF Sound
  <2> QED
    BY <1>5, <2>2, <2>3 DEF CheckInstanceReturns
<1> QED
  BY <1>3, <1>4, <1>5 DEF OfInstance

\* the timers,
LEMMA SoundOfTimers ==
  ASSUME Sound, OfTimers
  PROVE  Sound'
<1>1. TypeOK /\ StoppingShows /\ FollowerShows /\ InstanceShows
  BY DEF Sound
<1>2. CASE CheckInstance
  <2>1. UNCHANGED <<state, substantiation_build, rest, build, conn, attaching, missing,
                    build_wait, instance, bounds>> /\ check' = FALSE
    BY <1>2 DEF CheckInstance
  <2>2. /\ lock' \in Seq(Task) /\ held' \in {"free", "granted", "working"}
        /\ (held' = "free" <=> lock' = <<>>) /\ (Stopping' <=> Stopping)
    <3>1. CASE Acquire(Check)
      BY <1>1, <3>1, Tasks, Acquiring, StoppingWhenAsked
    <3>2. CASE UNCHANGED <<lock, held>>
      BY <1>1, <3>2 DEF TypeOK, Stopping, HolderIs
    <3> QED
      BY <1>2, <3>1, <3>2 DEF CheckInstance
  <2>3. TypeOK'
    BY <1>1, <2>1, <2>2 DEF TypeOK, bounds
  <2> QED
    BY <1>1, <2>1, <2>2, <2>3 DEF Sound, StoppingShows, FollowerShows, InstanceShows
<1>3. CASE MissingTimerFires
  BY <1>1, <1>3, SoundWhenGivenUp DEF MissingTimerFires, TypeOK, bounds
<1>4. CASE BuildWaitTimerFires
  BY <1>1, <1>4, SoundWhenGivenUp DEF BuildWaitTimerFires, TypeOK, bounds
<1> QED
  BY <1>2, <1>3, <1>4 DEF OfTimers

\* The end of attached() makes a worker that substantiates one that is.
LEMMA SoundWhenAttached ==
  ASSUME Sound, Attached, UNCHANGED <<substantiation_build, lock, held, instance, rest, bounds>>,
         UNCHANGED conn, {missing', build_wait', check'} \subseteq BOOLEAN
  PROVE  Sound'
<1>1. TypeOK /\ StoppingShows /\ FollowerShows /\ InstanceShows
  BY DEF Sound
<1>2. build' \in [Build -> BuildState]
  BY <1>1, Telling DEF TypeOK, BuildState, Attached
<1>3. state' \in {state, "SUBSTANTIATED"} /\ (state' # state => state \in Substantiating)
      /\ attaching' = "no"
  BY DEF Attached
<1>4. TypeOK'
  BY <1>1, <1>2, <1>3 DEF TypeOK, BuildState, bounds
<1>5. Stopping' <=> Stopping
  BY DEF Stopping, HolderIs
<1>6. StoppingShows' /\ FollowerShows' /\ InstanceShows'
  BY <1>1, <1>3, <1>5 DEF StoppingShows, FollowerShows, InstanceShows,
     Substantiating, Insubstantiating
<1> QED
  BY <1>4, <1>6 DEF Sound

\* A connection that is lost on its own, or comes too early, is counted.
LEMMA DropsAreCounted ==
  ASSUME TypeOK, drops < MaxDrops /\ drops' = drops + 1
  PROVE  drops' \in 0..MaxDrops
<1>1. drops \in 0..MaxDrops /\ MaxDrops \in Nat
  BY LatentAssumption DEF TypeOK
<1> QED
  BY <1>1

\* the connection,
LEMMA SoundOfConnection ==
  ASSUME Sound, OfConnection
  PROVE  Sound'
<1>1. TypeOK /\ StoppingShows /\ FollowerShows /\ InstanceShows
  BY DEF Sound
<1>2. CASE Connect
  <2>1. check' = FALSE /\ UNCHANGED <<rest, missing, build_wait, instance, left, stops>>
    BY <1>2 DEF Connect
  <2>2. CASE SubstantiationFailed /\ Acquire(Insubstantiation(None))
             /\ drops < MaxDrops /\ drops' = drops + 1 /\ UNCHANGED <<conn, attaching>>
    BY <1>1, <2>1, <2>2, SoundWhenGivenUp, DropsAreCounted DEF TypeOK
  <2>3. CASE /\ UNCHANGED <<state, substantiation_build, lock, held, build, drops>>
             /\ conn' \in {conn, "live"} /\ attaching' \in {attaching, "connected"}
    <3>1. TypeOK'
      BY <1>1, <2>1, <2>3 DEF TypeOK
    <3> QED
      BY <2>1, <2>3, <3>1, SoundElsewhere
  <2> QED
    BY <1>2, <2>2, <2>3 DEF Connect
<1>3. CASE Detached
  <2>1. drops' \in 0..MaxDrops
    BY <1>1, <1>3, DropsAreCounted DEF Detached, TypeOK
  <2>2. TypeOK'
    BY <1>1, <1>3, <2>1 DEF Detached, TypeOK, timers
  <2> QED
    BY <1>3, <2>2, SoundElsewhere DEF Detached
<1>4. CASE WorkerConnected
  <2>1. missing' = FALSE
        /\ UNCHANGED <<substantiation_build, lock, held, rest, conn, build_wait, check,
                       instance, bounds>>
    BY <1>4 DEF WorkerConnected
  <2>2. CASE Attached
    BY <1>1, <2>1, <2>2, SoundWhenAttached DEF TypeOK
  <2>3. CASE attaching' = "listed" /\ UNCHANGED <<state, build>>
    <3>1. TypeOK'
      BY <1>1, <2>1, <2>3 DEF TypeOK, bounds
    <3> QED
      BY <2>1, <2>3, <3>1, SoundElsewhere
  <2> QED
    BY <1>4, <2>2, <2>3 DEF WorkerConnected
<1>5. CASE AttachedReturns
  <2>1. UNCHANGED <<rest, conn, timers, instance, bounds>>
    BY <1>5 DEF AttachedReturns
  <2>2. {missing', build_wait', check'} \subseteq BOOLEAN
    BY <1>1, <2>1 DEF TypeOK, timers
  <2>3. CASE Attached /\ UNCHANGED <<substantiation_build, lock, held>>
    BY <2>1, <2>2, <2>3, SoundWhenAttached
  <2>4. CASE attaching' = "no" /\ SubstantiationFailed /\ Acquire(Insubstantiation(None))
    BY <1>1, <2>1, <2>2, <2>4, SoundWhenGivenUp DEF TypeOK, bounds
  <2> QED
    BY <1>5, <2>3, <2>4 DEF AttachedReturns
<1> QED
  BY <1>2, <1>3, <1>4, <1>5 DEF OfConnection

\* and the builds.
LEMMA SoundOfBuild ==
  ASSUME Sound, NEW b \in Build, OfBuild(b) \/ StartBuild(b) \/ StopBuild(b)
  PROVE  Sound'
<1>1. TypeOK /\ StoppingShows /\ FollowerShows /\ InstanceShows
  BY DEF Sound
<1>2. CASE StartBuild(b)
  <2>1. left' \in [Build -> 0..Attempts]
    <3>1. left \in [Build -> 0..Attempts] /\ Attempts \in Nat
      BY <1>1, LatentAssumption DEF TypeOK
    <3>2. left[b] > 0 /\ left' = [left EXCEPT ![b] = @ - 1]
      BY <1>2 DEF StartBuild
    <3>3. left[b] - 1 \in 0..Attempts
      BY <3>1, <3>2
    <3> QED
      BY <3>1, <3>2, <3>3
  <2>2. TypeOK'
    BY <1>1, <1>2, <2>1 DEF StartBuild, TypeOK
  <2> QED
    BY <1>2, <2>2, SoundElsewhere DEF StartBuild
<1>3. CASE StopBuild(b)
  <2>1. stops' \in 0..MaxStops
    <3>1. stops \in 0..MaxStops /\ MaxStops \in Nat
      BY <1>1, LatentAssumption DEF TypeOK
    <3>2. stops < MaxStops /\ stops' = stops + 1
      BY <1>3 DEF StopBuild
    <3> QED
      BY <3>1, <3>2
  <2> QED
    BY <1>1, <1>3, <2>1, SoundWhenGivenUp DEF StopBuild, TypeOK, timers
<1>4. CASE Ping(b)
  <2>1. TypeOK'
    BY <1>1, <1>4 DEF Ping, TypeOK, timers, bounds
  <2> QED
    BY <1>4, <2>1, SoundElsewhere DEF Ping
<1>5. CASE FinishBuild(b)
  <2>1. build_wait' \in BOOLEAN
    BY <1>1, <1>5 DEF FinishBuild, TypeOK
  <2>2. TypeOK'
    BY <1>1, <1>5, <2>1 DEF FinishBuild, TypeOK, bounds
  <2> QED
    BY <1>5, <2>2, SoundElsewhere DEF FinishBuild
<1>6. CASE Substantiate(b)
  <2>1. UNCHANGED <<rest, conn, attaching, build_wait, check, instance, bounds>>
    BY <1>6 DEF Substantiate
  <2>2. build' \in [Build -> BuildState] /\ missing' \in BOOLEAN
    BY <1>1, <1>6 DEF Substantiate, TypeOK, BuildState
  <2>3. CASE UNCHANGED <<state, substantiation_build, lock, held>>
    <3>1. TypeOK'
      BY <1>1, <2>1, <2>2, <2>3 DEF TypeOK, BuildState, bounds
    <3> QED
      BY <2>1, <2>3, <3>1, SoundElsewhere
  <2>4. CASE /\ state = "SUBSTANTIATED" /\ Acquire(Insubstantiation(b))
             /\ UNCHANGED <<state, substantiation_build>>
    <3>1. Insubstantiation(b) \in Task
      BY Tasks
    <3>2. /\ lock' \in Seq(Task) /\ lock' # <<>> /\ held' \in {"granted", "working"}
          /\ Stopping' <=> Stopping
      BY <1>1, <2>4, <3>1, Acquiring, StoppingWhenAsked
    <3>3. TypeOK'
      BY <1>1, <2>1, <2>2, <2>4, <3>2 DEF TypeOK, BuildState, bounds
    <3> QED
      BY <1>1, <2>1, <2>4, <3>2, <3>3 DEF Sound, StoppingShows, FollowerShows, InstanceShows
  <2>5. CASE /\ state = "NOT_SUBSTANTIATED" /\ state' = "SUBSTANTIATING"
             /\ Acquire(Start(b)) /\ UNCHANGED substantiation_build
    <3>1. Start(b) \in Task
      BY Tasks
    <3>2. /\ lock' \in Seq(Task) /\ lock' # <<>> /\ held' \in {"granted", "working"}
          /\ Stopping' <=> Stopping
      BY <1>1, <2>5, <3>1, Acquiring, StoppingWhenAsked
    <3>3. TypeOK'
      BY <1>1, <2>1, <2>2, <2>5, <3>2 DEF TypeOK, BuildState, Substantiating, bounds
    <3> QED
      BY <1>1, <2>1, <2>5, <3>2, <3>3 DEF Sound, StoppingShows, FollowerShows,
         InstanceShows, Insubstantiating
  <2>6. CASE /\ state = "INSUBSTANTIATING"
             /\ state' = "INSUBSTANTIATING_SUBSTANTIATING" /\ substantiation_build' = b
             /\ UNCHANGED <<lock, held>>
    <3>1. Stopping' <=> Stopping
      BY <2>6 DEF Stopping, HolderIs
    <3>2. TypeOK'
      BY <1>1, <2>1, <2>2, <2>6 DEF TypeOK, BuildState, Insubstantiating, bounds
    <3>3. b # None
      BY LatentAssumption
    <3> QED
      BY <1>1, <2>1, <2>6, <3>1, <3>2, <3>3 DEF Sound, StoppingShows, FollowerShows,
         InstanceShows, Insubstantiating
  <2> QED
    BY <1>6, <2>3, <2>4, <2>5, <2>6 DEF Substantiate
<1>7. CASE PingReturns(b)
  <2>1. UNCHANGED <<state, substantiation_build, lock, held, rest, attaching, timers,
                    instance, bounds>>
    BY <1>7 DEF PingReturns
  <2>2. build' \in [Build -> BuildState] /\ conn' \in {conn, "stale"}
    BY <1>1, <1>7 DEF PingReturns, TypeOK, BuildState
  <2>3. TypeOK'
    BY <1>1, <2>1, <2>2 DEF TypeOK, BuildState, timers, bounds
  <2> QED
    BY <2>1, <2>3, SoundElsewhere
<1> QED
  BY <1>2, <1>3, <1>4, <1>5, <1>6, <1>7 DEF OfBuild

\* Whatever goes wrong, the state, the holder of the lock, the build that follows
\* and the instance agree: no callback of worker/latent.py leaves them apart.
THEOREM WorkerIsSound == Spec => []Sound
<1>1. ASSUME Sound, [Next]_vars PROVE Sound'
  <2>1. CASE UNCHANGED vars
    <3>1. TypeOK'
      BY <1>1, <2>1 DEF Sound, TypeOK, vars, timers, bounds
    <3> QED
      BY <1>1, <2>1, <3>1, SoundElsewhere DEF vars
  <2> QED
    BY <1>1, <2>1, SoundOfLock, SoundOfInstance, SoundOfTimers, SoundOfConnection,
       SoundOfBuild DEF Next
<1> QED
  BY <1>1, SoundAtFirst, PTL DEF Spec

\* Every variable of the latent worker keeps its type.
THEOREM WorkerIsTyped == Spec => []TypeOK
<1>1. Sound => TypeOK
  BY DEF Sound
<1> QED
  BY <1>1, WorkerIsSound, PTL

\* The state says what the lock is held for, which build follows, and where an
\* instance may be: what the assertions of insubstantiate rely on.
THEOREM StateTells == Spec => []StateTellsTheTask
<1>1. Sound => StateTellsTheTask
  BY DEF Sound, StateTellsTheTask, StoppingShows, Stopping, FollowerShows, InstanceShows
<1> QED
  BY <1>1, WorkerIsSound, PTL

-----------------------------------------------------------------------------
(* Why only a failure asks for the instance of a build that runs *)

\* The build wait timer runs when there is no build.
IdleIsEmpty == build_wait => \A b \in Build : build[b] = "idle"

\* A worker that is substantiated is not being attached.
AttachEnds == state = "SUBSTANTIATED" => attaching = "no"

LiveHasInstance == conn = "live" => instance

\* Nobody misses a worker that is connected, once attached() has stopped the timer,
\* and nobody waits for one that is substantiated.
LiveIsNotMissed ==
  conn = "live" /\ state \in {"SUBSTANTIATING_STARTING", "SUBSTANTIATED"}
    => missing = FALSE \/ attaching = "connected"
LiveIsAnswered ==
  conn = "live" /\ state = "SUBSTANTIATED" => \A b \in Build : ~Waiting(b)

Undisturbed ==
  IdleIsEmpty /\ AttachEnds /\ LiveHasInstance /\ LiveIsNotMissed /\ LiveIsAnswered

\* A connection is not there when the worker is stopped or not started yet.
LEMMA NoLiveWithoutInstance ==
  ASSUME Sound, Undisturbed, state \in {"SUBSTANTIATING", "NOT_SUBSTANTIATED"}
  PROVE  conn # "live"
BY DEF Sound, Undisturbed, InstanceShows, LiveHasInstance, Insubstantiating

\* The notifier tells nobody of a worker without builds, and then nobody waits.
LEMMA ToldOfNobody ==
  ASSUME Sound, NEW r \in BuildState, build' \in {build, Notified(r)}, IdleIsEmpty,
         build_wait' \in {build_wait, FALSE}
  PROVE  IdleIsEmpty'
BY DEF IdleIsEmpty, Notified, Waiting, Sound, TypeOK

\* To give up the build that follows, or the ones that wait, disturbs nobody.
LEMMA UndisturbedWhenGivenUp ==
  ASSUME Sound, Undisturbed, CancelNext \/ SubstantiationFailed,
         conn' \in {conn, "stale"}, attaching' \in {attaching, "no"}, instance' = instance,
         missing' \in {missing, FALSE}, build_wait' \in {build_wait, FALSE},
         attaching = "connected" => attaching' = attaching
  PROVE  Undisturbed'
<1>1. TypeOK /\ FollowerShows
  BY DEF Sound
<1>2. state' \in {state, "INSUBSTANTIATING"}
  BY <1>1, Cancelling
<1>3. build' \in {build, Notified("refused")}
  BY DEF CancelNext, SubstantiationFailed
<1>4. IdleIsEmpty'
  BY <1>3, ToldOfNobody DEF Undisturbed, BuildState
<1>5. AttachEnds' /\ LiveHasInstance' /\ LiveIsNotMissed'
  BY <1>2 DEF Undisturbed, AttachEnds, LiveHasInstance, LiveIsNotMissed
<1>6. LiveIsAnswered'
  <2>1. \A b \in Build : Waiting(b)' => Waiting(b)
    BY <1>1, <1>3 DEF Waiting, Notified, TypeOK
  <2> QED
    BY <1>2, <2>1 DEF Undisturbed, LiveIsAnswered
<1> QED
  BY <1>4, <1>5, <1>6 DEF Undisturbed

\* What the tasks of the lock leave alone.
LEMMA UndisturbedWhenLeft ==
  ASSUME Undisturbed, UNCHANGED <<build, attaching, missing>>,
         build_wait' \in {build_wait, FALSE},
         UNCHANGED <<instance, conn>> \/ InstanceIsGone,
         state' \in {state} \cup Insubstantiating \cup {"SUBSTANTIATING", "NOT_SUBSTANTIATED"}
  PROVE  Undisturbed'
<1>1. IdleIsEmpty' /\ AttachEnds'
  <2>1. build_wait' = build_wait \/ ~build_wait'
    OBVIOUS
  <2> QED
    BY <2>1 DEF Undisturbed, IdleIsEmpty, AttachEnds, Insubstantiating
<1>2. conn' = "live" => conn = "live" /\ instance' = instance
  BY DEF InstanceIsGone
<1>3. state' \in {"SUBSTANTIATING_STARTING", "SUBSTANTIATED"} => state' = state
  BY DEF Insubstantiating
<1>4. LiveHasInstance' /\ LiveIsNotMissed' /\ LiveIsAnswered'
  BY <1>2, <1>3 DEF Undisturbed, LiveHasInstance, LiveIsNotMissed, LiveIsAnswered, Waiting
<1> QED
  BY <1>1, <1>4 DEF Undisturbed

\* The tasks that the lock lets go on, and the code after a release.
LEMMA UndisturbedOfLock ==
  ASSUME Sound, Undisturbed, OfLock
  PROVE  Undisturbed'
<1>1. CASE GrantStart
  <2>1. ~Stopping
    BY <1>1 DEF GrantStart, Stopping, HolderIs
  <2>2. state \notin Insubstantiating
    BY <2>1 DEF Sound, StoppingShows
  <2>3. conn = "live" => state \in {"SUBSTANTIATING_STARTING", "SUBSTANTIATED"}
    BY <2>2, NoLiveWithoutInstance DEF Sound, TypeOK, Substantiating, Insubstantiating
  <2> QED
    BY <1>1, <2>3 DEF GrantStart, Undisturbed, IdleIsEmpty, AttachEnds, LiveHasInstance,
       LiveIsNotMissed, LiveIsAnswered, timers, Waiting
<1>2. CASE GrantInsubstantiate
  <2>1. UNCHANGED <<conn, attaching, missing, instance>>
        /\ build_wait' \in {build_wait, FALSE}
    BY <1>2 DEF GrantInsubstantiate
  <2>2. build' \in {build, Notified("refused")}
        /\ state' \in Insubstantiating \cup {"SUBSTANTIATING", "NOT_SUBSTANTIATED"}
    BY <1>2 DEF GrantInsubstantiate, StopsInstance, Insubstantiated, Insubstantiating
  <2>3. IdleIsEmpty'
    BY <2>1, <2>2, ToldOfNobody DEF Undisturbed, BuildState
  <2> QED
    BY <2>1, <2>2, <2>3 DEF Undisturbed, AttachEnds, LiveHasInstance, LiveIsNotMissed,
       LiveIsAnswered, Insubstantiating
<1>3. CASE GrantCheck
  BY <1>3, UndisturbedWhenLeft DEF GrantCheck, timers
<1>4. CASE Rest
  <2>1. CASE rest = "not started"
    BY <1>4, <2>1, UndisturbedWhenGivenUp DEF Rest
  <2>2. CASE rest # "not started"
    BY <1>4, <2>2, UndisturbedWhenLeft DEF Rest
  <2> QED
    BY <2>1, <2>2
<1> QED
  BY <1>1, <1>2, <1>3, <1>4 DEF OfLock

\* The answers of the backend,
LEMMA UndisturbedOfInstance ==
  ASSUME Sound, Undisturbed, OfInstance
  PROVE  Undisturbed'
<1>1. CASE StartInstanceReturns
  BY <1>1, UndisturbedWhenLeft DEF StartInstanceReturns, timers
<1>2. CASE StopInstanceReturns
  BY <1>2, UndisturbedWhenLeft DEF StopInstanceReturns, Insubstantiated, timers
<1>3. CASE CheckInstanceReturns
  <2>1. CASE UNCHANGED <<state, substantiation_build, build>>
    BY <1>3, <2>1, UndisturbedWhenLeft DEF CheckInstanceReturns, timers
  <2>2. CASE SubstantiationFailed
    BY <1>3, <2>2, UndisturbedWhenGivenUp DEF CheckInstanceReturns, timers
  <2> QED
    BY <1>3, <2>1, <2>2 DEF CheckInstanceReturns
<1> QED
  BY <1>1, <1>2, <1>3 DEF OfInstance

\* the timers,
LEMMA UndisturbedOfTimers ==
  ASSUME Sound, Undisturbed, OfTimers
  PROVE  Undisturbed'
<1>1. CASE CheckInstance
  BY <1>1, UndisturbedWhenLeft DEF CheckInstance
<1>2. CASE MissingTimerFires
  BY <1>2, UndisturbedWhenGivenUp DEF MissingTimerFires
<1>3. CASE BuildWaitTimerFires
  BY <1>3, UndisturbedWhenGivenUp DEF BuildWaitTimerFires
<1> QED
  BY <1>1, <1>2, <1>3 DEF OfTimers

\* attached(), which answers every build that waits,
LEMMA UndisturbedWhenAttached ==
  ASSUME Sound, Undisturbed, Attached, UNCHANGED <<conn, build_wait, instance>>,
         missing' = FALSE \/ (attaching = "listed" /\ missing' = missing)
  PROVE  Undisturbed'
<1>1. IdleIsEmpty'
  BY ToldOfNobody DEF Attached, Undisturbed, BuildState
<1>2. AttachEnds' /\ LiveHasInstance'
  BY DEF Attached, Undisturbed, AttachEnds, LiveHasInstance
<1>3. LiveIsNotMissed'
  <2>1. conn = "live" => state # "SUBSTANTIATING"
    BY NoLiveWithoutInstance
  <2> QED
    BY <2>1 DEF Attached, Undisturbed, LiveIsNotMissed, Substantiating
<1>4. LiveIsAnswered'
  BY DEF Attached, LiveIsAnswered, Notified, Waiting
<1> QED
  BY <1>1, <1>2, <1>3, <1>4 DEF Undisturbed

\* the rest of the connection,
LEMMA UndisturbedOfConnection ==
  ASSUME Sound, Undisturbed, OfConnection
  PROVE  Undisturbed'
<1>1. CASE WorkerConnected
  <2>1. CASE Attached
    BY <1>1, <2>1, UndisturbedWhenAttached DEF WorkerConnected
  <2>2. CASE attaching' = "listed" /\ UNCHANGED <<state, build>>
    BY <1>1, <2>2 DEF WorkerConnected, Undisturbed, IdleIsEmpty, AttachEnds, LiveHasInstance,
       LiveIsNotMissed, LiveIsAnswered, Waiting
  <2> QED
    BY <1>1, <2>1, <2>2 DEF WorkerConnected
<1>2. CASE AttachedReturns
  <2>1. CASE Attached
    BY <1>2, <2>1, UndisturbedWhenAttached DEF AttachedReturns, timers
  <2>2. CASE attaching' = "no" /\ SubstantiationFailed
    BY <1>2, <2>2, UndisturbedWhenGivenUp DEF AttachedReturns, timers
  <2> QED
    BY <1>2, <2>1, <2>2 DEF AttachedReturns
<1>3. CASE Detached
  BY <1>3 DEF Detached, Undisturbed, IdleIsEmpty, AttachEnds, LiveHasInstance,
     LiveIsNotMissed, LiveIsAnswered, timers
<1>4. CASE Connect
  <2>1. UNCHANGED <<missing, build_wait, instance>> /\ instance /\ conn # "live"
    BY <1>4 DEF Connect
  <2>2. CASE SubstantiationFailed /\ UNCHANGED <<conn, attaching>>
    BY <2>1, <2>2, UndisturbedWhenGivenUp
  <2>3. CASE UNCHANGED <<state, build, conn, attaching>>
    BY <2>1, <2>3, UndisturbedWhenLeft
  <2>4. CASE state = "SUBSTANTIATING_STARTING" /\ conn' = "live" /\ attaching' = "connected"
             /\ UNCHANGED <<state, build>>
    BY <2>1, <2>4 DEF Undisturbed, IdleIsEmpty, AttachEnds, LiveHasInstance,
       LiveIsNotMissed, LiveIsAnswered
  <2> QED
    BY <1>4, <2>2, <2>3, <2>4 DEF Connect
<1> QED
  BY <1>1, <1>2, <1>3, <1>4 DEF OfConnection

\* One build goes on, and its worker is where it was, or is asked for.
LEMMA UndisturbedWhenBuilding ==
  ASSUME Sound, Undisturbed, NEW b \in Build, Busy(b), NEW s \in BuildState,
         build' = [build EXCEPT ![b] = s], UNCHANGED <<attaching, build_wait, instance>>,
         conn' \in {conn, "stale"},
         \/ state' = state /\ missing' = missing /\ (s = "waiting" => state # "SUBSTANTIATED")
         \/ state' = state /\ conn = "none"
         \/ state' \notin {"SUBSTANTIATING_STARTING", "SUBSTANTIATED"}
  PROVE  Undisturbed'
<1>1. build \in [Build -> BuildState]
  BY DEF Sound, TypeOK, BuildState
<1>2. IdleIsEmpty'
  <2>1. build_wait = FALSE
    BY DEF Undisturbed, IdleIsEmpty, Busy, Sound, TypeOK
  <2> QED
    BY <2>1 DEF IdleIsEmpty
<1>3. AttachEnds' /\ LiveHasInstance' /\ LiveIsNotMissed'
  BY DEF Undisturbed, AttachEnds, LiveHasInstance, LiveIsNotMissed
<1>4. LiveIsAnswered'
  BY <1>1 DEF Undisturbed, LiveIsAnswered, Waiting, Substantiating
<1> QED
  BY <1>2, <1>3, <1>4 DEF Undisturbed

\* and the builds.
LEMMA UndisturbedOfBuild ==
  ASSUME Sound, Undisturbed, NEW b \in Build, OfBuild(b) \/ StartBuild(b) \/ StopBuild(b)
  PROVE  Undisturbed'
<1>1. build \in [Build -> BuildState]
  BY DEF Sound, TypeOK, BuildState
<1>2. CASE StartBuild(b)
  BY <1>1, <1>2 DEF StartBuild, Undisturbed, IdleIsEmpty, AttachEnds, LiveHasInstance,
     LiveIsNotMissed, LiveIsAnswered, Waiting
<1>3. CASE StopBuild(b)
  BY <1>3, UndisturbedWhenGivenUp DEF StopBuild, timers
<1>4. CASE Substantiate(b)
  <2>1. Busy(b) /\ UNCHANGED <<conn, attaching, build_wait, instance>>
    BY <1>4 DEF Substantiate, Busy
  <2>2. CASE build' = [build EXCEPT ![b] = "ready"]
    BY <1>4, <2>1, <2>2, UndisturbedWhenBuilding DEF Substantiate, BuildState
  <2>3. CASE /\ build' = [build EXCEPT ![b] = "waiting"]
             /\ \/ UNCHANGED <<state, missing>> /\ state # "SUBSTANTIATED"
                \/ state' = state /\ conn = "none"
                \/ state' \in {"SUBSTANTIATING", "INSUBSTANTIATING_SUBSTANTIATING"}
    BY <2>1, <2>3, UndisturbedWhenBuilding DEF BuildState
  <2> QED
    BY <1>4, <2>2, <2>3 DEF Substantiate, Substantiating
<1>5. CASE Ping(b)
  BY <1>5, UndisturbedWhenBuilding DEF Ping, Busy, BuildState, timers
<1>6. CASE PingReturns(b)
  BY <1>6, UndisturbedWhenBuilding DEF PingReturns, Busy, BuildState, timers
<1>7. CASE FinishBuild(b)
  <2>1. IdleIsEmpty'
    BY <1>1, <1>7 DEF FinishBuild, Undisturbed, IdleIsEmpty, Building, Busy
  <2> QED
    BY <1>1, <1>7, <2>1 DEF FinishBuild, Undisturbed, AttachEnds, LiveHasInstance,
       LiveIsNotMissed, LiveIsAnswered, Waiting
<1> QED
  BY <1>2, <1>3, <1>4, <1>5, <1>6, <1>7 DEF OfBuild

\* The timers, the connection and the builds agree, whatever goes wrong: the build
\* wait timer runs for nobody, and a worker that builds use is not missed.
THEOREM WorkerIsUndisturbed == Spec => []Undisturbed
<1>1. Init => Undisturbed
  BY DEF Init, Undisturbed, IdleIsEmpty, AttachEnds, LiveHasInstance, LiveIsNotMissed,
     LiveIsAnswered
<1>2. ASSUME Sound, Undisturbed, [Next]_vars PROVE Undisturbed'
  <2>1. CASE UNCHANGED vars
    BY <1>2, <2>1, UndisturbedWhenLeft DEF vars, timers
  <2> QED
    BY <1>2, <2>1, UndisturbedOfLock, UndisturbedOfInstance, UndisturbedOfTimers,
       UndisturbedOfConnection, UndisturbedOfBuild DEF Next
<1> QED
  BY <1>1, <1>2, WorkerIsSound, PTL DEF Spec

\* What the lock does not queue when it is released to the next task.
LEMMA ReleasedToTheNext ==
  ASSUME TypeOK, lock # <<>>, Release(<<>>)
  PROVE  lock' = SubSeq(lock, 2, Len(lock))
<1>1. lock \in Seq(Task)
  BY DEF TypeOK
<1>2. Tail(lock) \in Seq(Task)
  BY <1>1
<1>3. lock' = Tail(lock) \o <<>>
  BY DEF Release
<1>4. lock' = Tail(lock)
  BY <1>2, <1>3
<1> QED
  BY <1>1, <1>4

\* No step but a failure makes a task for a worker that builds use.
LEMMA UsedWorkerIsLeft ==
  ASSUME Sound, Undisturbed, state = "SUBSTANTIATED", conn = "live",
         NEW c \in Build, Running(c), Next, ~Rest, ~CheckInstanceReturns
  PROVE  ~Queued
<1>1. TypeOK /\ StoppingShows
  BY DEF Sound
<1>2. build_wait = FALSE
  BY <1>1 DEF Undisturbed, IdleIsEmpty, Running, TypeOK
<1>3. attaching = "no" /\ missing = FALSE /\ \A b \in Build : ~Waiting(b)
  BY DEF Undisturbed, AttachEnds, LiveIsNotMissed, LiveIsAnswered
<1>4. ~StopInstanceReturns
  BY <1>1 DEF StopInstanceReturns, StoppingShows, Stopping, Insubstantiating
<1>5. CASE OfLock
  BY <1>5 DEF OfLock, GrantStart, GrantInsubstantiate, StopsInstance, GrantCheck, Queued
<1>6. CASE StartInstanceReturns
  <2>1. lock # <<>> /\ Release(<<>>)
    BY <1>6 DEF StartInstanceReturns, HolderIs
  <2> QED
    BY <1>1, <2>1, ReleasedToTheNext DEF Queued
<1>7. CASE OfTimers
  <2>1. ~MissingTimerFires /\ ~BuildWaitTimerFires
    BY <1>2, <1>3 DEF MissingTimerFires, BuildWaitTimerFires
  <2>2. CASE CheckInstance
    BY <2>2 DEF CheckInstance, Queued
  <2> QED
    BY <1>7, <2>1, <2>2 DEF OfTimers
<1>8. CASE OfConnection
  BY <1>3, <1>8 DEF OfConnection, WorkerConnected, AttachedReturns, Detached, Connect, Queued
<1>9. ASSUME NEW b \in Build, OfBuild(b) \/ StartBuild(b) \/ StopBuild(b)
      PROVE  ~Queued
  BY <1>3, <1>9 DEF OfBuild, Substantiate, Substantiating, Ping, PingReturns, FinishBuild,
     StartBuild, StopBuild, Queued
<1> QED
  BY <1>4, <1>5, <1>6, <1>7, <1>8, <1>9 DEF Next, OfInstance

\* Whatever timers, checks, failures, stopped builds and lost or late connections
\* there are: a worker on which a build runs is not asked for (_substantiation_failed,
\* insubstantiate, _check_instance_timer_fired), but by a start or a check that has
\* just failed.
THEOREM UsedWorkersAreLeft == Spec => OnlyFailuresStopAUsedWorker
<1>1. ASSUME Sound, Undisturbed, [Next]_vars
      PROVE  [state = "SUBSTANTIATED" /\ conn = "live" /\ (\E b \in Build : Running(b)) /\ Queued
                => Rest \/ CheckInstanceReturns]_vars
  BY <1>1, UsedWorkerIsLeft
<1> QED
  BY <1>1, WorkerIsSound, WorkerIsUndisturbed, PTL DEF Spec, OnlyFailuresStopAUsedWorker

-----------------------------------------------------------------------------
(* The order of the tasks, if the worker does one build at a time *)

NotStarted == {"NOT_SUBSTANTIATED", "SUBSTANTIATING"}

\* The tasks that wait for the lock, or are about to go on with it.
Waits(i) == i \in 1..Len(lock) /\ (held = "working" => i # 1)
Forced(i) == Waits(i) /\ lock[i].kind = "insubstantiate" /\ lock[i].for # None

\* A start is the last of the tasks that go on at once, of a worker not started.
StartsGoOn ==
  \A i \in 1..Len(lock) : Waits(i) /\ lock[i].kind = "start"
    => i = Len(lock) /\ held = "granted" /\ state \in NotStarted

\* A check finds the lock free.
ChecksGoOn ==
  \A i \in 1..Len(lock) : Waits(i) /\ lock[i].kind = "check"
    => i = 1 /\ held = "granted" /\ state = "SUBSTANTIATING_STARTING"

\* There is one forced insubstantiation; its build waits, and nobody answers it.
ForcedWaits ==
  /\ \A i \in 1..Len(lock) : Forced(i) =>
       /\ Waiting(lock[i].for) /\ attaching = "no"
       /\ state \in {"SUBSTANTIATED", "INSUBSTANTIATING", "NOT_SUBSTANTIATED"}
  /\ \A i, j \in 1..Len(lock) : Forced(i) /\ Forced(j) => i = j

\* Who works at the worker has one that is started.
WorkShows == held = "working" => state \notin NotStarted

InOrder == StartsGoOn /\ ChecksGoOn /\ ForcedWaits /\ WorkShows /\ OneBuild

\* What a forced insubstantiation needs is there after a step, if it was before.
ForcedStays ==
  \A i \in 1..Len(lock) : Forced(i) =>
    /\ build'[lock[i].for] = "waiting" /\ attaching' = "no"
    /\ state' \in {"SUBSTANTIATED", "INSUBSTANTIATING", "NOT_SUBSTANTIATED"}

\* An insubstantiation is forced for a build.
LEMMA ForcedFor ==
  ASSUME Sound, NEW i \in 1..Len(lock), Forced(i)
  PROVE  lock[i].for \in Build
<1>1. lock \in Seq(Task)
  BY DEF Sound, TypeOK
<1>2. lock[i] \in Task
  BY <1>1
<1> QED
  BY <1>2 DEF Forced, Task

\* Nobody waits for the lock by force when the worker is started for somebody, when
\* a worker attaches, or when the one build does not wait.
LEMMA NobodyForces ==
  ASSUME Sound, InOrder,
         \/ state \in Substantiating \cup {"INSUBSTANTIATING_SUBSTANTIATING"}
         \/ attaching # "no"
         \/ \E b \in Build : Busy(b) /\ ~Waiting(b)
  PROVE  \A i \in 1..Len(lock) : ~Forced(i)
<1> SUFFICES ASSUME NEW i \in 1..Len(lock), Forced(i) PROVE FALSE
  OBVIOUS
<1>1. /\ Waiting(lock[i].for) /\ attaching = "no"
      /\ state \in {"SUBSTANTIATED", "INSUBSTANTIATING", "NOT_SUBSTANTIATED"}
  BY DEF InOrder, ForcedWaits
<1>2. lock[i].for \in Build
  BY ForcedFor
<1>3. ASSUME NEW b \in Build, Busy(b), ~Waiting(b) PROVE FALSE
  BY <1>1, <1>2, <1>3 DEF InOrder, OneBuild, Busy, Waiting
<1> QED
  BY <1>1, <1>3 DEF Substantiating

\* A step that leaves the lock alone.
LEMMA InOrderElsewhere ==
  ASSUME InOrder, held # "granted", UNCHANGED <<lock, held>>, OneBuild', WorkShows', ForcedStays
  PROVE  InOrder'
<1>1. \A i \in 1..Len(lock) : (Waits(i)' <=> Waits(i)) /\ (Forced(i)' <=> Forced(i))
  BY DEF Waits, Forced
<1>2. StartsGoOn' /\ ChecksGoOn'
  BY <1>1 DEF InOrder, StartsGoOn, ChecksGoOn
<1>3. ForcedWaits'
  BY <1>1 DEF InOrder, ForcedWaits, ForcedStays, Waiting
<1> QED
  BY <1>2, <1>3 DEF InOrder

\* A task that asks for the lock comes after the tasks that wait.
LEMMA InOrderWhenAsked ==
  ASSUME Sound, InOrder, held # "granted", NEW t \in Task, Acquire(t),
         OneBuild', WorkShows', ForcedStays,
         t.kind = "start" => lock = <<>> /\ state' \in NotStarted,
         t.kind = "check" => lock = <<>> /\ state' = "SUBSTANTIATING_STARTING",
         t.kind = "insubstantiate" /\ t.for # None =>
           /\ \A i \in 1..Len(lock) : ~Forced(i)
           /\ build'[t.for] = "waiting" /\ attaching' = "no"
           /\ state' \in {"SUBSTANTIATED", "INSUBSTANTIATING", "NOT_SUBSTANTIATED"}
  PROVE  InOrder'
<1>1. lock \in Seq(Task) /\ lock' = Append(lock, t) /\ Len(lock) \in Nat
  <2>1. lock \in Seq(Task) /\ lock' = Append(lock, t)
    BY DEF Sound, TypeOK, Acquire
  <2> QED
    BY <2>1
<1>0. PICK n \in Nat : n = Len(lock) + 1
  BY <1>1
<1>2. /\ Len(lock') = n /\ lock'[n] = t
      /\ \A i \in 1..Len(lock) : lock'[i] = lock[i]
  BY <1>0, <1>1
<1>3. lock = <<>> => Len(lock) = 0 /\ held' = "granted"
  BY DEF Acquire
<1>4. lock # <<>> => held' = held
  BY DEF Acquire
<1>5. 1..Len(lock') = 1..Len(lock) \cup {n}
  BY <1>0, <1>1, <1>2
<1>6. \A i \in 1..Len(lock) : Waits(i)' => Waits(i) /\ lock # <<>>
  BY <1>1, <1>3, <1>4 DEF Waits
<1>7. StartsGoOn' /\ ChecksGoOn'
  <2>1. ASSUME NEW i \in 1..Len(lock'), Waits(i)', lock'[i].kind \in {"start", "check"}
        PROVE  i = n /\ lock = <<>>
    <3>1. i \notin 1..Len(lock)
      BY <1>2, <1>6, <2>1 DEF InOrder, StartsGoOn, ChecksGoOn
    <3> QED
      BY <1>2, <1>5, <2>1, <3>1
  <2>2. lock = <<>> => n = 1
    BY <1>0, <1>3
  <2> QED
    BY <1>2, <1>3, <2>1, <2>2 DEF StartsGoOn, ChecksGoOn
<1>8. ForcedWaits'
  <2>1. \A i \in 1..Len(lock) : Forced(i)' => Forced(i)
    BY <1>2, <1>6 DEF Forced
  <2>2. Forced(n)' => t.kind = "insubstantiate" /\ t.for # None
    BY <1>2 DEF Forced
  <2>3. ASSUME NEW i \in 1..Len(lock'), Forced(i)'
        PROVE  /\ build'[lock'[i].for] = "waiting" /\ attaching' = "no"
               /\ state' \in {"SUBSTANTIATED", "INSUBSTANTIATING", "NOT_SUBSTANTIATED"}
    <3>1. CASE i \in 1..Len(lock)
      BY <1>2, <2>1, <2>3, <3>1 DEF ForcedStays
    <3>2. CASE i = n
      BY <1>2, <2>2, <2>3, <3>2
    <3> QED
      BY <1>5, <3>1, <3>2
  <2>4. ASSUME NEW i \in 1..Len(lock'), NEW j \in 1..Len(lock'), Forced(i)', Forced(j)'
        PROVE  i = j
    BY <1>5, <2>1, <2>2, <2>4 DEF InOrder, ForcedWaits
  <2> QED
    BY <2>3, <2>4 DEF ForcedWaits, Waiting
<1> QED
  BY <1>7, <1>8 DEF InOrder

\* The holder releases the lock to the next task; what it queues comes last.
LEMMA InOrderWhenReleased ==
  ASSUME Sound, InOrder, lock # <<>>, NEW q \in Seq(Task), Len(q) \in 0..1, Release(q),
         OneBuild', ForcedStays,
         q # <<>> => /\ held = "working" /\ q[1].kind # "check"
                     /\ (q[1].kind = "insubstantiate" => q[1].for = None),
         \/ state' \in NotStarted
         \/ held = "working" /\ (q # <<>> => q[1].kind # "start")
  PROVE  InOrder'
<1>0. lock \in Seq(Task)
  BY DEF Sound, TypeOK
<1>12. PICK n \in Nat \ {0} : n = Len(lock)
  BY <1>0
<1>1. lock \in Seq(Task) /\ n \in Nat \ {0} /\ lock' = Tail(lock) \o q
  BY <1>0 DEF Release
<1>2. /\ Tail(lock) \in Seq(Task) /\ Len(Tail(lock)) = n - 1
      /\ \A i \in 1..(n - 1) : Tail(lock)[i] = lock[i + 1]
  BY <1>1, <1>12
<1>3. /\ Len(lock') = n - 1 + Len(q)
      /\ \A i \in 1..(n - 1) : lock'[i] = lock[i + 1]
      /\ Len(q) = 1 => lock'[n] = q[1]
  BY <1>1, <1>2
<1>4. q = <<>> <=> Len(q) = 0
  OBVIOUS
<1>5. /\ \A i \in 1..(n - 1) : i + 1 \in 1..n /\ i + 1 # 1
      /\ \A i \in 1..Len(lock') : i \in 1..(n - 1) \/ (i = n /\ Len(q) = 1)
  <2>1. Len(q) = 0 \/ Len(q) = 1
    OBVIOUS
  <2>2. n \in Nat \ {0} /\ Len(lock') = n - 1 + Len(q)
    BY <1>3
  <2>3. Len(lock') = n - 1 \/ (Len(lock') = n /\ Len(q) = 1)
    <3>1. CASE Len(q) = 0
      BY <2>2, <3>1
    <3>2. CASE Len(q) = 1
      BY <2>2, <3>2
    <3> QED
      BY <2>1, <3>1, <3>2
  <2> QED
    BY <2>2, <2>3
<1>6. lock' # <<>> => held' = "granted"
  BY DEF Release
<1>7. held' # "working"
  BY DEF Release
<1>8. \A i \in 1..(n - 1) : Waits(i + 1)
  BY <1>12, <1>5 DEF Waits
<1>9. StartsGoOn'
  <2> SUFFICES ASSUME NEW i \in 1..Len(lock'), lock'[i].kind = "start"
               PROVE  i = Len(lock') /\ held' = "granted" /\ state' \in NotStarted
    BY DEF StartsGoOn
  <2>1. held' = "granted"
    BY <1>3, <1>6
  <2>2. CASE i \in 1..(n - 1)
    <3>1. i + 1 \in 1..n /\ lock[i + 1].kind = "start" /\ Waits(i + 1)
      BY <1>3, <1>5, <1>8, <2>2
    <3>2. i + 1 = n /\ held = "granted"
      BY <1>12, <3>1 DEF InOrder, StartsGoOn
    <3>3. q = <<>> /\ state' \in NotStarted
      BY <3>2
    <3> QED
      BY <1>1, <1>3, <1>4, <2>1, <2>2, <3>2, <3>3
  <2>3. CASE i = n /\ Len(q) = 1
    BY <1>1, <1>3, <1>4, <2>1, <2>3
  <2> QED
    BY <1>5, <2>2, <2>3
<1>10. ChecksGoOn'
  <2>1. ASSUME NEW i \in 1..Len(lock'), lock'[i].kind = "check" PROVE FALSE
    <3>1. CASE i \in 1..(n - 1)
      BY <1>12, <1>3, <1>5, <1>8, <2>1, <3>1 DEF InOrder, ChecksGoOn
    <3>2. CASE i = n /\ Len(q) = 1
      BY <1>3, <1>4, <2>1, <3>2
    <3> QED
      BY <1>5, <3>1, <3>2
  <2> QED
    BY <2>1 DEF ChecksGoOn
<1>11. \A i \in 1..Len(lock') :
         Forced(i)' => i \in 1..(n - 1) /\ Forced(i + 1) /\ lock'[i] = lock[i + 1]
  <2> SUFFICES ASSUME NEW i \in 1..Len(lock'), Forced(i)'
               PROVE  i \in 1..(n - 1) /\ Forced(i + 1) /\ lock'[i] = lock[i + 1]
    OBVIOUS
  <2>1. lock'[i].kind = "insubstantiate" /\ lock'[i].for # None
    BY DEF Forced
  <2>2. ~(i = n /\ Len(q) = 1)
    BY <1>3, <1>4, <2>1
  <2> QED
    BY <1>3, <1>5, <1>8, <2>1, <2>2 DEF Forced
<1>13. ForcedWaits'
  <2>1. \A i \in 1..(n - 1) : i + 1 \in 1..Len(lock)
    BY <1>12, <1>5
  <2>2. ASSUME NEW i \in 1..Len(lock'), Forced(i)'
        PROVE  /\ build'[lock'[i].for] = "waiting" /\ lock'[i] = lock[i + 1] /\ attaching' = "no"
               /\ state' \in {"SUBSTANTIATED", "INSUBSTANTIATING", "NOT_SUBSTANTIATED"}
    BY <1>11, <2>1, <2>2 DEF ForcedStays
  <2>3. ASSUME NEW i \in 1..Len(lock'), NEW j \in 1..Len(lock'), Forced(i)', Forced(j)'
        PROVE  i = j
    <3>1. i + 1 = j + 1
      BY <1>11, <2>1, <2>3 DEF InOrder, ForcedWaits
    <3> QED
      BY <3>1
  <2> QED
    BY <2>2, <2>3 DEF ForcedWaits, Waiting
<1> QED
  BY <1>7, <1>9, <1>10, <1>13 DEF InOrder, WorkShows

\* The task that the lock was granted to gets to work; none that waits behind it is
\* a start.
LEMMA InOrderAtWork ==
  ASSUME InOrder, held = "granted", held' = "working", lock' = lock, UNCHANGED attaching,
         OneBuild', state' \notin NotStarted,
         \A i \in 1..Len(lock) : Forced(i) /\ i # 1 =>
           /\ build'[lock[i].for] = "waiting"
           /\ state' \in {"SUBSTANTIATED", "INSUBSTANTIATING", "NOT_SUBSTANTIATED"},
         state \notin NotStarted \/ Len(lock) = 1
  PROVE  InOrder'
<1>1. \A i \in 1..Len(lock) : Waits(i)' => Waits(i) /\ i # 1
  BY DEF Waits
<1>2. StartsGoOn' /\ ChecksGoOn'
  BY <1>1 DEF InOrder, StartsGoOn, ChecksGoOn
<1>3. \A i \in 1..Len(lock) : Forced(i)' => Forced(i) /\ i # 1
  BY <1>1 DEF Forced
<1>4. ForcedWaits'
  BY <1>3 DEF InOrder, ForcedWaits, Waiting
<1> QED
  BY <1>2, <1>4 DEF InOrder, WorkShows

\* To give up the build that follows, or the ones that wait, leaves a build that
\* forces an insubstantiation.
LEMMA GivingUp ==
  ASSUME Sound, InOrder, CancelNext \/ SubstantiationFailed, attaching' \in {attaching, "no"}
  PROVE  /\ OneBuild' /\ ForcedStays
         /\ state \in NotStarted <=> state' \in NotStarted
<1>1. TypeOK /\ FollowerShows
  BY DEF Sound
<1>2. build' \in {build, Notified("refused")}
      /\ (state \notin Substantiating \cup {"INSUBSTANTIATING_SUBSTANTIATING"}
            => UNCHANGED <<state, build>>)
  BY DEF CancelNext, SubstantiationFailed
<1>3. OneBuild'
  BY <1>1, <1>2 DEF InOrder, OneBuild, Busy, Notified, Waiting, TypeOK
<1>4. ForcedStays
  <2>1. CASE state \in Substantiating \cup {"INSUBSTANTIATING_SUBSTANTIATING"}
    BY <2>1, NobodyForces DEF ForcedStays
  <2>2. CASE state \notin Substantiating \cup {"INSUBSTANTIATING_SUBSTANTIATING"}
    BY <1>2, <2>2 DEF InOrder, ForcedWaits, ForcedStays, Waiting
  <2> QED
    BY <2>1, <2>2
<1>5. state \in NotStarted <=> state' \in NotStarted
  <2>1. state' = state \/ (state = "INSUBSTANTIATING_SUBSTANTIATING" /\ state' = "INSUBSTANTIATING")
    BY <1>1, Cancelling
  <2> QED
    BY <2>1 DEF NotStarted
<1> QED
  BY <1>3, <1>4, <1>5

\* What gives them up and asks for an insubstantiation.
LEMMA InOrderWhenGivenUp ==
  ASSUME Sound, InOrder, held # "granted", CancelNext \/ SubstantiationFailed,
         Acquire(Insubstantiation(None)), attaching' \in {attaching, "no"}
  PROVE  InOrder'
<1>1. OneBuild' /\ ForcedStays /\ (state \in NotStarted <=> state' \in NotStarted)
  BY GivingUp
<1>2. WorkShows'
  BY <1>1 DEF InOrder, WorkShows, Acquire
<1>3. Insubstantiation(None) \in Task /\ Insubstantiation(None).kind = "insubstantiate"
      /\ Insubstantiation(None).for = None
  BY Tasks DEF Insubstantiation
<1> QED
  BY <1>1, <1>2, <1>3, InOrderWhenAsked

\* What leaves the lock, the state and the builds alone.
LEMMA InOrderWhenLeft ==
  ASSUME InOrder, held # "granted", UNCHANGED <<state, lock, held, build>>,
         attaching' \in {attaching, "no"}
  PROVE  InOrder'
<1>1. OneBuild' /\ WorkShows' /\ ForcedStays
  BY DEF InOrder, OneBuild, Busy, WorkShows, ForcedWaits, ForcedStays, Waiting
<1> QED
  BY <1>1, InOrderElsewhere

\* The tasks go on in their order,
LEMMA InOrderOfLock ==
  ASSUME Sound, InOrder, OfLock
  PROVE  InOrder'
<1>1. lock \in Seq(Task)
  BY DEF Sound, TypeOK
<1>2. ASSUME held = "granted", lock # <<>> PROVE 1 \in 1..Len(lock) /\ Waits(1) /\ lock[1] = Head(lock)
  BY <1>1, <1>2 DEF Waits
<1>3. CASE GrantStart
  <2>1. held = "granted" /\ lock # <<>> /\ Head(lock).kind = "start"
        /\ state' = "SUBSTANTIATING_STARTING" /\ held' = "working"
        /\ UNCHANGED <<lock, build, attaching>>
    BY <1>3 DEF GrantStart, HolderIs
  <2>2. Len(lock) = 1
    BY <1>2, <2>1 DEF InOrder, StartsGoOn
  <2>3. OneBuild' /\ state' \notin NotStarted
    BY <2>1 DEF InOrder, OneBuild, Busy, NotStarted
  <2> QED
    BY <2>1, <2>2, <2>3, InOrderAtWork
<1>4. CASE GrantCheck
  <2>1. held = "granted" /\ lock # <<>> /\ Head(lock).kind = "check" /\ held' = "working"
        /\ UNCHANGED <<state, lock, build, attaching>>
    BY <1>4 DEF GrantCheck, HolderIs
  <2>2. state = "SUBSTANTIATING_STARTING"
    BY <1>2, <2>1 DEF InOrder, ChecksGoOn
  <2>3. OneBuild' /\ state' \notin NotStarted
    BY <2>1, <2>2 DEF InOrder, OneBuild, Busy, NotStarted
  <2>4. \A i \in 1..Len(lock) : ~Forced(i)
    BY <2>2, NobodyForces DEF Substantiating
  <2> QED
    BY <2>1, <2>2, <2>3, <2>4, InOrderAtWork
<1>5. CASE GrantInsubstantiate
  <2> DEFINE for == Head(lock).for
             next == IF for = None THEN "INSUBSTANTIATING" ELSE "INSUBSTANTIATING_SUBSTANTIATING"
  <2>1. held = "granted" /\ lock # <<>> /\ Head(lock).kind = "insubstantiate"
        /\ attaching' = attaching
    BY <1>5 DEF GrantInsubstantiate, HolderIs
  <2>2. for # None => Forced(1)
    BY <1>2, <2>1 DEF Forced
  <2>3. build' \in {build, Notified("refused")}
    BY <1>5 DEF GrantInsubstantiate
  <2>4. OneBuild'
    BY <2>3 DEF InOrder, OneBuild, Busy, Notified, Waiting, Sound, TypeOK
  <2>5. CASE state = "NOT_SUBSTANTIATED" /\ Release(<<>>) /\ UNCHANGED <<state, build>>
    <3>1. ForcedStays
      BY <2>1, <2>5 DEF InOrder, ForcedWaits, ForcedStays, Waiting
    <3>2. <<>> \in Seq(Task) /\ Len(<<>>) \in 0..1 /\ state' \in NotStarted
      BY <2>5 DEF NotStarted
    <3> QED
      BY <2>1, <2>4, <2>5, <3>1, <3>2, InOrderWhenReleased
  <2>6. CASE state = "SUBSTANTIATING" /\ Insubstantiated(next, for)
    <3>1. \A i \in 1..Len(lock) : ~Forced(i)
      BY <2>6, NobodyForces DEF Substantiating
    <3>2. for = None
      BY <1>2, <2>1, <2>2, <3>1
    <3>3. state' = "NOT_SUBSTANTIATED" /\ Release(<<>>)
      BY <2>6, <3>2 DEF Insubstantiated
    <3>4. <<>> \in Seq(Task) /\ Len(<<>>) \in 0..1 /\ state' \in NotStarted /\ ForcedStays
      BY <3>1, <3>3 DEF NotStarted, ForcedStays
    <3> QED
      BY <2>1, <2>4, <3>3, <3>4, InOrderWhenReleased
  <2>7. CASE state = "SUBSTANTIATING_STARTING" /\ state' = next /\ held' = "working" /\ lock' = lock
    <3>1. \A i \in 1..Len(lock) : ~Forced(i)
      BY <2>7, NobodyForces DEF Substantiating
    <3>2. state \notin NotStarted /\ state' \notin NotStarted
      BY <2>7 DEF NotStarted
    <3> QED
      BY <2>1, <2>4, <2>7, <3>1, <3>2, InOrderAtWork
  <2>8. CASE state = "SUBSTANTIATED" /\ state' = next /\ held' = "working"
             /\ UNCHANGED <<lock, build>>
    <3>1. state \notin NotStarted /\ state' \notin NotStarted
      BY <2>8 DEF NotStarted
    <3>2. ASSUME NEW i \in 1..Len(lock), Forced(i), i # 1
          PROVE  build'[lock[i].for] = "waiting" /\ state' = "INSUBSTANTIATING"
      <4>1. ~Forced(1)
        BY <1>2, <2>1, <3>2 DEF InOrder, ForcedWaits
      <4> QED
        BY <2>2, <2>8, <3>2, <4>1 DEF InOrder, ForcedWaits, Waiting
    <3> QED
      BY <2>1, <2>4, <2>8, <3>1, <3>2, InOrderAtWork
  <2> QED
    BY <1>5, <2>5, <2>6, <2>7, <2>8 DEF GrantInsubstantiate, StopsInstance, Substantiating
<1>6. CASE Rest
  <2>1. held # "granted" /\ attaching' = attaching
    BY <1>6 DEF Rest
  <2>2. CASE SubstantiationFailed /\ Acquire(Insubstantiation(None))
    BY <2>1, <2>2, InOrderWhenGivenUp
  <2>3. CASE UNCHANGED <<state, lock, held, build>>
    BY <2>1, <2>3, InOrderWhenLeft
  <2> QED
    BY <1>6, <2>2, <2>3 DEF Rest
<1> QED
  BY <1>3, <1>4, <1>5, <1>6 DEF OfLock

\* the backend answers who is at work,
LEMMA InOrderOfInstance ==
  ASSUME Sound, InOrder, OfInstance
  PROVE  InOrder'
<1>1. held = "working" /\ lock # <<>> /\ UNCHANGED attaching
  BY DEF OfInstance, StartInstanceReturns, StopInstanceReturns, CheckInstanceReturns, HolderIs
<1>2. <<>> \in Seq(Task) /\ Len(<<>>) \in 0..1
  OBVIOUS
<1>3. CASE UNCHANGED <<state, build>> /\ Release(<<>>)
  <2>1. OneBuild' /\ ForcedStays
    BY <1>1, <1>3 DEF InOrder, OneBuild, Busy, ForcedWaits, ForcedStays, Waiting
  <2> QED
    BY <1>1, <1>2, <1>3, <2>1, InOrderWhenReleased
<1>4. CASE SubstantiationFailed /\ Release(<<Insubstantiation(None)>>)
  <2> DEFINE q == <<Insubstantiation(None)>>
  <2>1. OneBuild' /\ ForcedStays
    BY <1>1, <1>4, GivingUp
  <2>2. Insubstantiation(None) \in Task /\ Insubstantiation(None).kind = "insubstantiate"
        /\ Insubstantiation(None).for = None
    BY Tasks DEF Insubstantiation
  <2>3. q \in Seq(Task) /\ Len(q) \in 0..1 /\ q[1] = Insubstantiation(None)
    BY <2>2
  <2> HIDE DEF q
  <2>4. Release(q)
    BY <1>4 DEF q
  <2> QED
    BY <1>1, <2>1, <2>2, <2>3, <2>4, InOrderWhenReleased
<1>5. CASE StopInstanceReturns
  <2>1. build' = build /\ Insubstantiated(state, substantiation_build)
    BY <1>5 DEF StopInstanceReturns
  <2>2. state \in Insubstantiating
        /\ (state = "INSUBSTANTIATING_SUBSTANTIATING" => substantiation_build \in Build)
    BY <1>5 DEF StopInstanceReturns, Sound, TypeOK, StoppingShows, Stopping, FollowerShows
  <2>3. OneBuild'
    BY <2>1 DEF InOrder, OneBuild, Busy
  <2>4. CASE state = "INSUBSTANTIATING"
    <3>1. state' = "NOT_SUBSTANTIATED" /\ Release(<<>>)
      BY <2>1, <2>4 DEF Insubstantiated
    <3>2. ForcedStays /\ state' \in NotStarted
      BY <1>1, <2>1, <3>1 DEF InOrder, ForcedWaits, ForcedStays, Waiting, NotStarted
    <3> QED
      BY <1>1, <1>2, <2>3, <3>1, <3>2, InOrderWhenReleased
  <2>5. CASE state = "INSUBSTANTIATING_SUBSTANTIATING"
    <3> DEFINE t == Start(substantiation_build)
               q == <<t>>
    <3>1. state' = "SUBSTANTIATING" /\ Release(q)
      BY <2>1, <2>5 DEF Insubstantiated
    <3>2. t \in Task /\ t.kind = "start"
      BY <2>2, <2>5, Tasks DEF Start
    <3>3. q \in Seq(Task) /\ Len(q) \in 0..1 /\ q[1] = t
      BY <3>2
    <3>4. ForcedStays /\ state' \in NotStarted
      BY <2>5, <3>1, NobodyForces DEF ForcedStays, NotStarted
    <3> HIDE DEF t, q
    <3> QED
      BY <1>1, <2>3, <3>1, <3>2, <3>3, <3>4, InOrderWhenReleased
  <2> QED
    BY <2>2, <2>4, <2>5 DEF Insubstantiating
<1> QED
  BY <1>3, <1>4, <1>5 DEF OfInstance, StartInstanceReturns, CheckInstanceReturns

\* the timers,
LEMMA InOrderOfTimers ==
  ASSUME Sound, InOrder, OfTimers
  PROVE  InOrder'
<1>1. held # "granted" /\ UNCHANGED attaching
  BY DEF OfTimers, CheckInstance, MissingTimerFires, BuildWaitTimerFires, Quiet
<1>2. CASE CheckInstance
  <2>1. CASE UNCHANGED <<lock, held>>
    BY <1>1, <1>2, <2>1, InOrderWhenLeft DEF CheckInstance
  <2>2. CASE state = "SUBSTANTIATING_STARTING" /\ lock = <<>> /\ Acquire(Check)
    <3>1. UNCHANGED <<state, build>>
      BY <1>2 DEF CheckInstance
    <3>2. OneBuild' /\ WorkShows'
      BY <2>2, <3>1 DEF InOrder, OneBuild, Busy, WorkShows, NotStarted
    <3>3. ForcedStays
      BY <2>2, NobodyForces DEF Substantiating, ForcedStays
    <3>4. Check \in Task /\ Check.kind = "check"
      BY Tasks DEF Check
    <3> QED
      BY <1>1, <2>2, <3>1, <3>2, <3>3, <3>4, InOrderWhenAsked
  <2> QED
    BY <1>2, <2>1, <2>2 DEF CheckInstance
<1>3. CASE MissingTimerFires
  BY <1>1, <1>3, InOrderWhenGivenUp DEF MissingTimerFires
<1>4. CASE BuildWaitTimerFires
  BY <1>1, <1>4, InOrderWhenGivenUp DEF BuildWaitTimerFires
<1> QED
  BY <1>2, <1>3, <1>4 DEF OfTimers

\* the end of attached(), which nobody forces an insubstantiation before,
LEMMA InOrderWhenAttached ==
  ASSUME Sound, InOrder, held # "granted", attaching # "no", Attached, UNCHANGED <<lock, held>>
  PROVE  InOrder'
<1>1. ForcedStays
  BY NobodyForces DEF ForcedStays
<1>2. OneBuild'
  BY DEF Attached, InOrder, OneBuild, Busy, Notified, Waiting, Sound, TypeOK
<1>3. WorkShows'
  BY DEF Attached, InOrder, WorkShows, NotStarted
<1> QED
  BY <1>1, <1>2, <1>3, InOrderElsewhere

\* the connection,
LEMMA InOrderOfConnection ==
  ASSUME Sound, InOrder, OfConnection
  PROVE  InOrder'
<1>1. held # "granted"
  BY DEF OfConnection, WorkerConnected, AttachedReturns, Detached, Connect, Quiet
<1>2. CASE WorkerConnected
  <2>1. CASE Attached
    BY <1>1, <1>2, <2>1, InOrderWhenAttached DEF WorkerConnected
  <2>2. CASE attaching' = "listed" /\ UNCHANGED <<state, build>>
    <3>1. ForcedStays
      BY <1>2, NobodyForces DEF WorkerConnected, ForcedStays
    <3>2. OneBuild' /\ WorkShows' /\ UNCHANGED <<lock, held>>
      BY <1>2, <2>2 DEF WorkerConnected, InOrder, OneBuild, Busy, WorkShows
    <3> QED
      BY <1>1, <3>1, <3>2, InOrderElsewhere
  <2> QED
    BY <1>2, <2>1, <2>2 DEF WorkerConnected
<1>3. CASE AttachedReturns
  <2>1. CASE Attached /\ UNCHANGED <<lock, held>>
    BY <1>1, <1>3, <2>1, InOrderWhenAttached DEF AttachedReturns
  <2>2. CASE attaching' = "no" /\ SubstantiationFailed /\ Acquire(Insubstantiation(None))
    BY <1>1, <2>2, InOrderWhenGivenUp
  <2> QED
    BY <1>3, <2>1, <2>2 DEF AttachedReturns
<1>4. CASE Detached
  <2>1. UNCHANGED <<state, lock, held, attaching>>
    BY <1>4 DEF Detached
  <2>2. \A b \in Build : /\ Busy(b)' => Busy(b)
                         /\ Waiting(b) => Waiting(b)'
    BY <1>4 DEF Detached, Busy, Waiting
  <2>3. OneBuild' /\ WorkShows'
    BY <2>1, <2>2 DEF InOrder, OneBuild, WorkShows
  <2>4. ForcedStays
    <3> SUFFICES ASSUME NEW i \in 1..Len(lock), Forced(i)
                 PROVE  build'[lock[i].for] = "waiting"
      BY <2>1 DEF InOrder, ForcedWaits, ForcedStays
    <3>1. lock[i].for \in Build
      BY ForcedFor
    <3> QED
      BY <2>2, <3>1 DEF InOrder, ForcedWaits, Waiting
  <2> QED
    BY <1>1, <2>1, <2>3, <2>4, InOrderElsewhere
<1>5. CASE Connect
  <2>1. CASE state = "SUBSTANTIATING_STARTING" /\ UNCHANGED <<state, lock, held, build>>
    <3>1. ForcedStays
      BY <2>1, NobodyForces DEF Substantiating, ForcedStays
    <3>2. OneBuild' /\ WorkShows'
      BY <2>1 DEF InOrder, OneBuild, Busy, WorkShows
    <3> QED
      BY <1>1, <2>1, <3>1, <3>2, InOrderElsewhere
  <2>2. CASE SubstantiationFailed /\ Acquire(Insubstantiation(None)) /\ UNCHANGED attaching
    BY <1>1, <2>2, InOrderWhenGivenUp
  <2>3. CASE UNCHANGED <<state, lock, held, build, attaching>>
    BY <1>1, <2>3, InOrderWhenLeft
  <2> QED
    BY <1>5, <2>1, <2>2, <2>3 DEF Connect
<1> QED
  BY <1>2, <1>3, <1>4, <1>5 DEF OfConnection

\* A worker that goes on to do one build at a time starts one when it has none.
LEMMA StartedAlone ==
  ASSUME Sound, OneBuild', NEW b \in Build, StartBuild(b)
  PROVE  \A c \in Build : ~Busy(c)
<1>1. ~Busy(b) /\ build' = [build EXCEPT ![b] = "preparing"]
  BY DEF StartBuild
<1>2. build \in [Build -> BuildState]
  BY DEF Sound, TypeOK, BuildState
<1>3. ASSUME NEW c \in Build, Busy(c) PROVE FALSE
  <2>1. c # b /\ Busy(c)' /\ Busy(b)'
    BY <1>1, <1>2, <1>3 DEF Busy
  <2> QED
    BY <2>1 DEF OneBuild
<1> QED
  BY <1>3

\* and the one build.
LEMMA InOrderOfBuild ==
  ASSUME Sound, Undisturbed, InOrder, OneBuild',
         NEW b \in Build, OfBuild(b) \/ StartBuild(b) \/ StopBuild(b)
  PROVE  InOrder'
<1>1. held # "granted" /\ UNCHANGED attaching
  BY DEF OfBuild, Substantiate, Ping, PingReturns, FinishBuild, StartBuild, StopBuild, Quiet
<1>2. build \in [Build -> BuildState]
  BY DEF Sound, TypeOK, BuildState
<1>3. CASE StopBuild(b)
  BY <1>1, <1>3, InOrderWhenGivenUp DEF StopBuild
<1>4. CASE StartBuild(b)
  <2>1. \A c \in Build : ~Busy(c)
    BY <1>4, StartedAlone
  <2>2. UNCHANGED <<state, lock, held>> /\ build' = [build EXCEPT ![b] = "preparing"]
    BY <1>4 DEF StartBuild
  <2>3. OneBuild'
    BY <1>2, <2>1, <2>2 DEF OneBuild, Busy
  <2>4. ForcedStays /\ WorkShows'
    <3>1. \A c \in Build : ~Waiting(c)
      BY <2>1 DEF Busy, Waiting
    <3>2. ASSUME NEW i \in 1..Len(lock), Forced(i) PROVE FALSE
      <4>1. lock[i].for \in Build
        BY <3>2, ForcedFor
      <4> QED
        BY <3>1, <3>2, <4>1 DEF InOrder, ForcedWaits
    <3> QED
      BY <2>2, <3>2 DEF ForcedStays, InOrder, WorkShows
  <2> QED
    BY <1>1, <2>2, <2>3, <2>4, InOrderElsewhere
<1>5. CASE OfBuild(b)
  <2>1. Busy(b) /\ ~Waiting(b)
    BY <1>5 DEF OfBuild, Substantiate, Ping, PingReturns, FinishBuild, Busy, Waiting
  <2>2. \A i \in 1..Len(lock) : ~Forced(i)
    BY <2>1, NobodyForces
  <2>3. ForcedStays
    BY <2>2 DEF ForcedStays
  <2>4. PICK s \in BuildState : build' = [build EXCEPT ![b] = s]
    BY <1>5 DEF OfBuild, Substantiate, Ping, PingReturns, FinishBuild, BuildState
  <2>5. OneBuild'
    BY <1>2, <2>1, <2>4 DEF InOrder, OneBuild, Busy
  <2>6. CASE UNCHANGED <<lock, held>> /\ (state' \in NotStarted => state' = state)
    <3>1. WorkShows'
      BY <2>6 DEF InOrder, WorkShows
    <3> QED
      BY <1>1, <2>3, <2>5, <2>6, <3>1, InOrderElsewhere
  <2>7. CASE state = "NOT_SUBSTANTIATED" /\ state' = "SUBSTANTIATING" /\ Acquire(Start(b))
    <3>1. held # "working"
      BY <2>7 DEF InOrder, WorkShows, NotStarted
    <3>2. lock = <<>>
      BY <1>1, <3>1 DEF Sound, TypeOK
    <3>3. WorkShows' /\ state' \in NotStarted
      BY <2>7, <3>2 DEF WorkShows, Acquire, NotStarted
    <3>4. Start(b) \in Task /\ Start(b).kind = "start"
      BY Tasks DEF Start
    <3> QED
      BY <1>1, <2>3, <2>5, <2>7, <3>2, <3>3, <3>4, InOrderWhenAsked
  <2>8. CASE /\ Substantiate(b) /\ build' = [build EXCEPT ![b] = "waiting"]
             /\ state = "SUBSTANTIATED" /\ state' = state /\ Acquire(Insubstantiation(b))
    <3>1. WorkShows'
      BY <2>8 DEF WorkShows, NotStarted
    <3>2. attaching' = "no"
      BY <1>1, <2>8 DEF Undisturbed, AttachEnds
    <3>3. Insubstantiation(b) \in Task /\ Insubstantiation(b).kind = "insubstantiate"
          /\ Insubstantiation(b).for = b
      BY Tasks DEF Insubstantiation
    <3>4. build'[b] = "waiting"
      BY <1>2, <2>8
    <3> QED
      BY <1>1, <2>2, <2>3, <2>5, <2>8, <3>1, <3>2, <3>3, <3>4, InOrderWhenAsked
  <2>9. CASE Substantiate(b)
    BY <2>6, <2>7, <2>8, <2>9 DEF Substantiate, NotStarted
  <2>10. CASE ~Substantiate(b)
    BY <1>5, <2>6, <2>10 DEF OfBuild, Ping, PingReturns, FinishBuild
  <2> QED
    BY <2>9, <2>10
<1> QED
  BY <1>3, <1>4, <1>5

\* While the worker does one build at a time, a start is the last of the tasks that
\* wait for _start_stop_lock, and a forced insubstantiation has a build that waits
\* for it (_substantiate, insubstantiate).
THEOREM WorkerIsInOrder == Spec => ([]OneBuild => []InOrder)
<1>1. Init => InOrder
  <2> SUFFICES ASSUME Init PROVE InOrder
    OBVIOUS
  <2>1. Len(lock) = 0 /\ held = "free" /\ \A b \in Build : ~Busy(b)
    BY DEF Init, Busy
  <2> QED
    BY <2>1 DEF InOrder, StartsGoOn, ChecksGoOn, ForcedWaits, WorkShows, OneBuild
<1>2. Sound /\ Undisturbed /\ InOrder /\ OneBuild' /\ [Next]_vars => InOrder'
  <2> SUFFICES ASSUME Sound, Undisturbed, InOrder, OneBuild', [Next]_vars PROVE InOrder'
    OBVIOUS
  <2>1. CASE UNCHANGED vars
    BY <2>1 DEF vars, InOrder, StartsGoOn, ChecksGoOn, ForcedWaits, WorkShows, OneBuild,
       Waits, Forced, Waiting, Busy
  <2> QED
    BY <2>1, InOrderOfLock, InOrderOfInstance, InOrderOfTimers, InOrderOfConnection,
       InOrderOfBuild DEF Next
<1> QED
  BY <1>1, <1>2, WorkerIsSound, WorkerIsUndisturbed, PTL DEF Spec

\* start_instance is not called for an instance that runs (_substantiate), while the
\* worker does one build at a time: the start is for a worker that is not started,
\* and that one has no instance.
THEOREM OneInstanceAtATime == Spec => OneInstance
<1>1. Sound /\ InOrder => ~StartsAnother
  <2> SUFFICES ASSUME Sound, InOrder, StartsAnother PROVE FALSE
    OBVIOUS
  <2>1. lock \in Seq(Task) /\ lock # <<>> /\ held = "granted" /\ Head(lock).kind = "start"
    BY DEF Sound, TypeOK, StartsAnother, HolderIs
  <2>2. 1 \in 1..Len(lock) /\ lock[1] = Head(lock) /\ Waits(1)
    BY <2>1 DEF Waits
  <2>3. state \in NotStarted
    BY <2>1, <2>2 DEF InOrder, StartsGoOn
  <2> QED
    BY <2>3 DEF NotStarted, Sound, InstanceShows, Insubstantiating, StartsAnother
<1> QED
  BY <1>1, WorkerIsSound, WorkerIsInOrder, PTL DEF OneInstance
=============================================================================
