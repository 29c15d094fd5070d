--------------------------- MODULE LocalExecution ---------------------------
(***************************************************************************)
(* Controllers that call execute_local_command on one authority store      *)
(* (buildbot/umbilical_local_execution.py), and the physical processes     *)
(* they start.                                                             *)
(*                                                                         *)
(* Every controller has its own handle.  A call of the store is one step:  *)
(* AuthorityStore.tla shows that whatever its handles do, the committed    *)
(* tables change by one whole operation at a time.  A call that raises may *)
(* nevertheless have been committed.  A controller can die at any step and *)
(* be started again; the process it launched may outlive it.               *)
(***************************************************************************)
EXTENDS AuthorityTables

CONSTANT Controller

VARIABLES
  db,        \* the committed tables of the authority store
  phase,     \* where each controller is in execute_local_command
  call,      \* the arguments of that call
  observed,  \* the exit code subprocess.run returned to the controller
  child      \* each key: the physical processes started for it

vars == <<db, phase, call, observed, child>>

Phase == {"idle", "claiming", "marking", "launching", "waiting", "recording",
          "returned", "raised"}

Call == [key : Key, scope : Scope, generation : Generation, hash : Hash]

\* started: the number of processes ever started for the key, counted to 2;
\* command, alive, exit: what the last of them runs, whether it still does,
\* and the exit code it left (None while it runs, or when it was killed).
Child == [started : 0..2, command : Hash \cup {None}, alive : BOOLEAN,
          exit : ExitCode \cup {None}]
NoChild == [started |-> 0, command |-> None, alive |-> FALSE, exit |-> None]

ASSUME CallAssumption == None \notin Call

\* Every variable keeps its type.
TypeOK ==
  /\ db \in Store
  /\ phase \in [Controller -> Phase]
  /\ call \in [Controller -> Call \cup {None}]
  /\ observed \in [Controller -> ExitCode \cup {None}]
  /\ child \in [Key -> Child]

Init ==
  /\ db = EmptyStore
  /\ phase = [p \in Controller |-> "idle"]
  /\ call = [p \in Controller |-> None]
  /\ observed = [p \in Controller |-> None]
  /\ child = [k \in Key |-> NoChild]

-----------------------------------------------------------------------------
(* The controllers' other store operations. *)

Administer(d) ==
  /\ db' = d
  /\ UNCHANGED <<phase, call, observed, child>>

AcquireGeneration(s) == CanAcquire(db, s) /\ Administer(Acquired(db, s))
RegisterKey(k) == k \notin db.keys /\ Administer(Registered(db, k))
BindCommand(k, c) == CanBind(db, k, c) /\ Administer(Bound(db, k, c))
Admit(k, s, g) == CanAdmit(db, k, s, g) /\ Administer(Admitted(db, k, s, g))

-----------------------------------------------------------------------------
(* execute_local_command *)

\* The command is hashed once; the call then uses that frozen hash only.
Start(p) ==
  /\ phase[p] \in {"idle", "returned", "raised"}
  /\ \E c \in Call : call' = [call EXCEPT ![p] = c]
  /\ phase' = [phase EXCEPT ![p] = "claiming"]
  /\ observed' = [observed EXCEPT ![p] = None]
  /\ UNCHANGED <<db, child>>

Goto(p, ph) == phase' = [phase EXCEPT ![p] = ph]

\* One store call: it succeeds, or raises with no effect (a failed check, an
\* SQLite error, a poisoned handle), or raises although it was committed.
StoreCall(p, allowed, d, next) ==
  /\ \/ allowed /\ db' = d /\ Goto(p, next)
     \/ allowed /\ db' = d /\ Goto(p, "raised")
     \/ db' = db /\ Goto(p, "raised")
  /\ UNCHANGED <<call, observed, child>>

\* A variant: the process is started under INTENT.
ClaimThenLaunch(p) ==
  /\ phase[p] = "claiming"
  /\ LET a == call[p] IN
     StoreCall(p, CanClaim(db, a.key, a.scope, a.generation, a.hash),
               Claimed(db, a.key, a.scope, a.generation, a.hash), "launching")

Claim(p) ==
  /\ phase[p] = "claiming"
  /\ LET a == call[p] IN
     StoreCall(p, CanClaim(db, a.key, a.scope, a.generation, a.hash),
               Claimed(db, a.key, a.scope, a.generation, a.hash), "marking")

MarkUnknown(p) ==
  /\ phase[p] = "marking"
  /\ LET a == call[p] IN
     StoreCall(p, CanMarkUnknown(db, a.key, a.hash),
               MarkedUnknown(db, a.key), "launching")

\* subprocess.run creates the process.
Launch(p) ==
  /\ phase[p] = "launching"
  /\ LET k == call[p].key IN
     child' = [child EXCEPT ![k] =
       [started |-> IF @.started < 2 THEN @.started + 1 ELSE 2,
        command |-> call[p].hash, alive |-> TRUE, exit |-> None]]
  /\ Goto(p, "waiting")
  /\ UNCHANGED <<db, call, observed>>

\* A variant: a process that never started is recorded with an exit code.
LaunchFailsWithCode(p) ==
  /\ phase[p] = "launching"
  /\ \E x \in ExitCode : observed' = [observed EXCEPT ![p] = x]
  /\ Goto(p, "recording")
  /\ UNCHANGED <<db, call, child>>

\* The executable or the working directory is missing: no process, OSError.
LaunchFails(p) ==
  /\ phase[p] = "launching"
  /\ Goto(p, "raised")
  /\ UNCHANGED <<db, call, observed, child>>

ChildExits(k) ==
  /\ child[k].alive
  /\ \E x \in ExitCode :
       child' = [child EXCEPT ![k].alive = FALSE, ![k].exit = x]
  /\ UNCHANGED <<db, phase, call, observed>>

\* subprocess.run returns the exit code of the process it waited for.
ObserveExit(p) ==
  /\ phase[p] = "waiting"
  /\ ~child[call[p].key].alive
  /\ observed' = [observed EXCEPT ![p] = child[call[p].key].exit]
  /\ Goto(p, "recording")
  /\ UNCHANGED <<db, call, child>>

\* Two variants: no timeout; the timeout is recorded as an exit code.
NoTimeOut(p) == FALSE /\ UNCHANGED vars
TimeOutWithCode(p) ==
  /\ phase[p] = "waiting"
  /\ child[call[p].key].alive
  /\ child' = [child EXCEPT ![call[p].key].alive = FALSE]
  /\ \E x \in ExitCode : observed' = [observed EXCEPT ![p] = x]
  /\ Goto(p, "recording")
  /\ UNCHANGED <<db, call>>

\* TimeoutExpired, or an interrupt, while the process runs: it is killed.
TimeOut(p) ==
  /\ phase[p] = "waiting"
  /\ child[call[p].key].alive
  /\ child' = [child EXCEPT ![call[p].key].alive = FALSE]
  /\ Goto(p, "raised")
  /\ UNCHANGED <<db, call, observed>>

RecordTerminal(p) ==
  /\ phase[p] = "recording"
  /\ LET a == call[p] IN
     StoreCall(p, CanRecordTerminal(db, a.key, a.hash),
               TerminalRecorded(db, a.key, observed[p]), "returned")

\* The controller's process dies; a new one may be started in its place.
Die(p) ==
  /\ phase[p] # "idle"
  /\ phase' = [phase EXCEPT ![p] = "idle"]
  /\ call' = [call EXCEPT ![p] = None]
  /\ observed' = [observed EXCEPT ![p] = None]
  /\ UNCHANGED <<db, child>>

Step(p) ==
  \/ Claim(p)
  \/ MarkUnknown(p)
  \/ Launch(p)
  \/ LaunchFails(p)
  \/ ObserveExit(p)
  \/ TimeOut(p)
  \/ RecordTerminal(p)

Next ==
  \/ \E s \in Scope : AcquireGeneration(s)
  \/ \E k \in Key :
       \/ RegisterKey(k)
       \/ \E c \in Hash : BindCommand(k, c)
       \/ \E s \in Scope, g \in Generation : Admit(k, s, g)
       \/ ChildExits(k)
  \/ \E p \in Controller : Start(p) \/ Step(p) \/ Die(p)

Spec == Init /\ [][Next]_vars

\* SQLite gives up on a busy store after 30 seconds and subprocess.run on the
\* process after timeout_seconds, so a controller that lives takes its steps.
FairSpec == Spec /\ \A p \in Controller : WF_vars(Step(p))

-----------------------------------------------------------------------------
(***************************************************************************)
(* Correctness.                                                            *)
(***************************************************************************)

\* At most one physical process is ever started for an ExecutionKey, over all
\* controllers, retries, uncertain commits and crashes.
AtMostOneLaunch == \A k \in Key : child[k].started <= 1

\* A process exists only for a key whose durable launch row is UNKNOWN or
\* later, and it runs the command that row and the binding name.
LaunchedUnderUnknown ==
  \A k \in Key : child[k].started > 0 =>
    /\ db.launches[k] # None
    /\ db.launches[k].state \in {"unknown", "terminal"}
    /\ child[k].command = db.launches[k].hash
    /\ child[k].command = db.bindings[k]

\* A terminal row holds the exit code of the one process started for the key,
\* never a killed, running or never-started one's.
TerminalIsObserved ==
  \A k \in Key :
    (db.launches[k] # None /\ db.launches[k].state = "terminal") =>
      /\ child[k].started = 1
      /\ ~child[k].alive
      /\ child[k].exit = db.launches[k].exit_code

\* Whatever fails, the abstract life of every key is that of LaunchAuthority.
fate == [k \in Key |->
  LET l == db.launches[k] IN
  [stage |-> IF l = None THEN "open"
             ELSE IF l.state = "terminal" THEN "recorded"
             ELSE IF child[k].started > 0 THEN "launched"
             ELSE "consumed",
   codes |-> IF l # None /\ l.state = "terminal" THEN {l.exit_code} ELSE {}]]

Authority == INSTANCE LaunchAuthority
ImplementsLaunchAuthority == Authority!FateSpec

\* A call of execute_local_command returns or raises, unless its controller
\* dies: no store error, timeout or lost process leaves it waiting forever.
EveryCallEnds ==
  \A p \in Controller :
    phase[p] = "claiming" ~> phase[p] \in {"idle", "returned", "raised"}

-----------------------------------------------------------------------------
(***************************************************************************)
(* The inductive invariant behind these: after its claim a controller is   *)
(* the only one that goes on with the key, and knows its launch row.       *)
(***************************************************************************)
Owns(p) == phase[p] \in {"marking", "launching", "waiting", "recording"}

OneOwner ==
  \A p, q \in Controller :
    (Owns(p) /\ Owns(q) /\ call[p].key = call[q].key) => p = q

OwnerKnowsLaunch ==
  \A p \in Controller :
    /\ phase[p] # "idle" => call[p] # None
    /\ phase[p] = "marking" => HasLaunch(db, call[p].key, call[p].hash, "intent")
    /\ phase[p] \in {"launching", "waiting", "recording"} =>
         HasLaunch(db, call[p].key, call[p].hash, "unknown")

OwnerKnowsChild ==
  \A p \in Controller :
    LET c == child[call[p].key] IN
    /\ phase[p] = "launching" => c.started = 0
    /\ phase[p] = "waiting" => c.started = 1 /\ (c.alive \/ c.exit # None)
    /\ phase[p] = "recording" =>
         /\ c.started = 1
         /\ ~c.alive
         /\ c.exit # None
         /\ c.exit = observed[p]

AliveWasStarted == \A k \in Key : child[k].alive => child[k].started > 0

IInv ==
  /\ TypeOK
  /\ ValidStore(db)
  /\ AliveWasStarted
  /\ AtMostOneLaunch
  /\ LaunchedUnderUnknown
  /\ TerminalIsObserved
  /\ OneOwner
  /\ OwnerKnowsLaunch
  /\ OwnerKnowsChild
=============================================================================
