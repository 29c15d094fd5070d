------------------------ MODULE LocalExecutionProofs ------------------------
(***************************************************************************)
(* Proofs about LocalExecution.tla: execute_local_command starts at most   *)
(* one process for a key, for every number of controllers, keys, commands, *)
(* scopes and generations, and whatever fails.                             *)
(***************************************************************************)
EXTENDS LocalExecution, AuthorityTablesProofs

\* The invariant in parts that one step disturbs or leaves alone.
Launches ==
  /\ AliveWasStarted
  /\ AtMostOneLaunch
  /\ LaunchedUnderUnknown
  /\ TerminalIsObserved

Owners == OneOwner /\ OwnerKnowsLaunch /\ OwnerKnowsChild

\* Steps that take a controller to a phase in which it owns nothing, and
\* leave the tables and the processes alone, keep the invariant.
LEMMA NotOwningKeepsIInv ==
  ASSUME IInv, NEW p \in Controller, UNCHANGED <<db, child>>,
         NEW ph \in {"idle", "claiming", "returned", "raised"},
         phase' = [phase EXCEPT ![p] = ph],
         NEW c \in Call \cup {None}, call' = [call EXCEPT ![p] = c],
         ph # "idle" => c # None,
         NEW o \in ExitCode \cup {None}, observed' = [observed EXCEPT ![p] = o]
  PROVE  IInv'
  <1>1. TypeOK'
    BY DEF IInv, TypeOK, Phase
  <1>2. ValidStore(db)' /\ Launches'
    BY DEF IInv, Launches, AliveWasStarted, AtMostOneLaunch, LaunchedUnderUnknown,
        TerminalIsObserved
  <1>3. Owners'
    BY DEF IInv, TypeOK, Owners, OneOwner, Owns, OwnerKnowsLaunch, OwnerKnowsChild
  <1>4. QED
    BY <1>1, <1>2, <1>3 DEF IInv, Launches, Owners

\* A store call that raises without effect.
LEMMA RaisingKeepsIInv ==
  ASSUME IInv, NEW p \in Controller, phase[p] # "idle", Goto(p, "raised"),
         UNCHANGED <<db, call, observed, child>>
  PROVE  IInv'
  <1>1. /\ call[p] \in Call \cup {None} /\ call[p] # None
        /\ observed[p] \in ExitCode \cup {None}
        /\ call' = [call EXCEPT ![p] = call[p]]
        /\ observed' = [observed EXCEPT ![p] = observed[p]]
    BY DEF IInv, TypeOK, OwnerKnowsLaunch
  <1>2. phase' = [phase EXCEPT ![p] = "raised"]
    BY DEF Goto
  <1>3. QED
    BY <1>1, <1>2, NotOwningKeepsIInv

\* The store operations that do not concern launches keep the invariant.
LEMMA AdministerKeepsIInv ==
  ASSUME IInv, NEW d \in Store, ValidStore(d), d.launches = db.launches, Administer(d)
  PROVE  IInv'
  <1>1. /\ db' = d
        /\ UNCHANGED <<phase, call, observed, child>>
    BY DEF Administer
  <1>2. TypeOK' /\ ValidStore(db)'
    BY <1>1 DEF IInv, TypeOK
  <1>3. \A k \in Key : d.launches[k] # None => d.bindings[k] = d.launches[k].hash
    BY DEF ValidStore, LaunchesValid
  <1>4. Launches'
    BY <1>1, <1>3 DEF IInv, Launches, AliveWasStarted, AtMostOneLaunch, LaunchedUnderUnknown,
        TerminalIsObserved
  <1>5. Owners'
    BY <1>1
    DEF IInv, Owners, OneOwner, Owns, OwnerKnowsLaunch, OwnerKnowsChild, HasLaunch
  <1>6. QED
    BY <1>2, <1>4, <1>5 DEF IInv, Launches, Owners

\* A committed change of one launch row by the controller that calls, which
\* goes on with the key or raises.  Nobody else owns the key.
RowStep(p, d, l, ph) ==
  LET k == call[p].key IN
  /\ phase[p] # "idle" /\ call[p] # None /\ k \in Key
  /\ d \in Store /\ ValidStore(d) /\ l \in ExecutionLaunch /\ l # None
  /\ d.launches = [db.launches EXCEPT ![k] = l]
  /\ l.hash = call[p].hash
  /\ db' = d
  /\ UNCHANGED <<call, observed, child>>
  /\ ph \in Phase
  /\ phase' = [phase EXCEPT ![p] = ph]
  /\ \A q \in Controller \ {p} : Owns(q) => call[q].key # k
  /\ child[k].started > 0 =>
       l.state \in {"unknown", "terminal"} /\ child[k].command = l.hash
  /\ l.state = "terminal" =>
       /\ child[k].started = 1
       /\ ~child[k].alive
       /\ child[k].exit = l.exit_code
  /\ \/ ph \in {"raised", "returned"}
     \/ ph = "marking" /\ l.state = "intent"
     \/ ph = "launching" /\ l.state = "unknown" /\ ~(child[k].started > 0)

\* Such a step keeps the invariant.
LEMMA LaunchRowKeepsIInv ==
  ASSUME IInv, NEW p \in Controller, NEW d, NEW l, NEW ph, RowStep(p, d, l, ph)
  PROVE  IInv'
  <1> DEFINE k == call[p].key
  <1> USE DEF RowStep
  <1>1. TypeOK' /\ ValidStore(db)'
    BY DEF IInv, TypeOK
  <1>2. d.launches[k] = l /\ \A j \in Key \ {k} : d.launches[j] = db.launches[j]
    BY DEF IInv, TypeOK, Store
  <1>3. \A j \in Key : d.launches[j] # None => d.bindings[j] = d.launches[j].hash
    BY DEF ValidStore, LaunchesValid
  <1>4. Launches'
    <2>1. AliveWasStarted' /\ AtMostOneLaunch'
      BY DEF IInv, AliveWasStarted, AtMostOneLaunch
    <2>2. LaunchedUnderUnknown'
      <3>1. SUFFICES ASSUME NEW j \in Key, child'[j].started > 0
                     PROVE  /\ d.launches[j] # None
                            /\ d.launches[j].state \in {"unknown", "terminal"}
                            /\ child'[j].command = d.launches[j].hash
                            /\ child'[j].command = d.bindings[j]
        BY DEF LaunchedUnderUnknown
      <3>2. CASE j = k
        BY <1>2, <1>3, <3>1, <3>2
      <3>3. CASE j # k
        BY <1>2, <1>3, <3>1, <3>3 DEF IInv, LaunchedUnderUnknown
      <3>4. QED
        BY <3>2, <3>3
    <2>3. TerminalIsObserved'
      BY <1>2 DEF IInv, TerminalIsObserved
    <2>4. QED
      BY <2>1, <2>2, <2>3 DEF Launches
  <1>5. \A q \in Controller \ {p} : phase'[q] = phase[q] /\ (Owns(q)' <=> Owns(q))
    BY DEF IInv, TypeOK, Owns
  <1>6. phase'[p] = ph
    BY DEF IInv, TypeOK
  <1>7. OneOwner'
    BY <1>5 DEF IInv, OneOwner
  <1>8. ASSUME NEW q \in Controller, q # p, Owns(q)
        PROVE  call[q].key \in Key \ {k}
    BY <1>8 DEF IInv, TypeOK, Owns, OwnerKnowsLaunch, Call
  <1>9. OwnerKnowsLaunch'
    <2>1. ASSUME NEW q \in Controller, q # p
          PROVE  /\ phase'[q] # "idle" => call'[q] # None
                 /\ phase'[q] = "marking" =>
                      HasLaunch(d, call'[q].key, call'[q].hash, "intent")
                 /\ phase'[q] \in {"launching", "waiting", "recording"} =>
                      HasLaunch(d, call'[q].key, call'[q].hash, "unknown")
      BY <1>2, <1>5, <1>8, <2>1 DEF IInv, OwnerKnowsLaunch, Owns, HasLaunch
    <2>2. /\ phase'[p] # "idle" => call'[p] # None
          /\ phase'[p] = "marking" =>
               HasLaunch(d, call'[p].key, call'[p].hash, "intent")
          /\ phase'[p] \in {"launching", "waiting", "recording"} =>
               HasLaunch(d, call'[p].key, call'[p].hash, "unknown")
      BY <1>2, <1>6 DEF HasLaunch
    <2>3. QED
      BY <2>1, <2>2 DEF OwnerKnowsLaunch
  <1>10. OwnerKnowsChild'
    <2>1. child[k].started \in 0..2
      BY DEF IInv, TypeOK, Child
    <2>2. phase'[p] = "launching" => child[k].started = 0
      BY <1>6, <2>1
    <2>3. phase'[p] \notin {"waiting", "recording"}
      BY <1>6
    <2>4. QED
      BY <1>5, <2>2, <2>3 DEF IInv, OwnerKnowsChild
  <1>11. QED
    BY <1>1, <1>4, <1>7, <1>9, <1>10 DEF IInv, Launches

\* What the invariant says of a controller that is in a call.
LEMMA InCall ==
  ASSUME IInv, NEW p \in Controller, phase[p] # "idle"
  PROVE  /\ call[p] \in Call /\ call[p] # None
         /\ call[p].key \in Key /\ call[p].scope \in Scope
         /\ call[p].generation \in Generation /\ call[p].hash \in Hash
         /\ Owns(p) => \A q \in Controller \ {p} : Owns(q) => call[q].key # call[p].key
  <1>1. call[p] \in Call /\ call[p] # None
    BY DEF IInv, TypeOK, OwnerKnowsLaunch
  <1>2. QED
    BY <1>1 DEF Call, IInv, OneOwner

\* The claim keeps the invariant: it makes its controller the first owner.
LEMMA ClaimKeepsIInv ==
  ASSUME IInv, NEW p \in Controller, Claim(p)
  PROVE  IInv'
  <1> DEFINE a == call[p]
             d == Claimed(db, a.key, a.scope, a.generation, a.hash)
             l == [hash |-> a.hash, scope |-> a.scope, generation |-> a.generation,
                   state |-> "intent", exit_code |-> None]
  <1>1. CASE db' = db /\ Goto(p, "raised")
    BY <1>1, RaisingKeepsIInv DEF Claim, StoreCall
  <1>2. CASE ~(db' = db /\ Goto(p, "raised"))
    <2>1. /\ phase[p] = "claiming"
          /\ CanClaim(db, a.key, a.scope, a.generation, a.hash)
          /\ db' = d
          /\ Goto(p, "marking") \/ Goto(p, "raised")
          /\ UNCHANGED <<call, observed, child>>
      BY <1>2 DEF Claim, StoreCall
    <2>2. /\ a \in Call /\ a # None
          /\ a.key \in Key /\ a.scope \in Scope
          /\ a.generation \in Generation /\ a.hash \in Hash
      BY <2>1, InCall
    <2>3. /\ d \in Store /\ ValidStore(d)
          /\ l \in ExecutionLaunch /\ l # None
          /\ d = [db EXCEPT !.launches = [db.launches EXCEPT ![a.key] = l]]
      <3>1. db \in Store /\ ValidStore(db)
        BY DEF IInv, TypeOK
      <3>2. QED
        BY <2>1, <2>2, <3>1, ClaimedIsValid
    <2>4. db.launches[a.key] = None
      BY <2>1 DEF CanClaim
    <2>5. ~(child[a.key].started > 0)
      BY <2>2, <2>4 DEF IInv, LaunchedUnderUnknown
    <2>6. \A q \in Controller \ {p} : Owns(q) => call[q].key # a.key
      BY <2>4 DEF IInv, OwnerKnowsLaunch, Owns, HasLaunch
    <2>7. d.launches = [db.launches EXCEPT ![a.key] = l]
      BY <2>3 DEF IInv, TypeOK, Store
    <2>8. l.hash = call[p].hash /\ l.state = "intent"
      OBVIOUS
    <2> DEFINE k == call[p].key
    <2>9. phase[p] # "idle" /\ k \in Key /\ call[p] # None
      BY <2>1, <2>2
    <2> HIDE DEF d, l, k
    <2>10. ASSUME NEW ph \in {"marking", "raised"}, phase' = [phase EXCEPT ![p] = ph]
           PROVE  IInv'
      <3>1. ph \in Phase
        BY DEF Phase
      <3>2. RowStep(p, d, l, ph)
        BY <2>1, <2>3, <2>5, <2>6, <2>7, <2>8, <2>9, <2>10, <3>1 DEF RowStep, k
      <3>3. QED
        BY <3>2, LaunchRowKeepsIInv
    <2>11. QED
      BY <2>1, <2>10 DEF Goto
  <1>3. QED
    BY <1>1, <1>2

\* Marking keeps the invariant: under UNKNOWN nothing has been started yet.
LEMMA MarkKeepsIInv ==
  ASSUME IInv, NEW p \in Controller, MarkUnknown(p)
  PROVE  IInv'
  <1> DEFINE a == call[p]
             k == a.key
             d == MarkedUnknown(db, k)
             l == [db.launches[k] EXCEPT !.state = "unknown"]
  <1>1. CASE db' = db /\ Goto(p, "raised")
    BY <1>1, RaisingKeepsIInv DEF MarkUnknown, StoreCall
  <1>2. CASE ~(db' = db /\ Goto(p, "raised"))
    <2>1. /\ phase[p] = "marking"
          /\ CanMarkUnknown(db, k, a.hash)
          /\ db' = d
          /\ Goto(p, "launching") \/ Goto(p, "raised")
          /\ UNCHANGED <<call, observed, child>>
      BY <1>2 DEF MarkUnknown, StoreCall
    <2>2. /\ a \in Call /\ a # None /\ k \in Key /\ a.hash \in Hash
          /\ \A q \in Controller \ {p} : Owns(q) => call[q].key # k
      BY <2>1, InCall DEF Owns
    <2>3. /\ d \in Store /\ ValidStore(d)
          /\ db.launches[k] \in ExecutionLaunch
          /\ l \in ExecutionLaunch /\ l # None
          /\ d = [db EXCEPT !.launches = [db.launches EXCEPT ![k] = l]]
      <3>1. db \in Store /\ ValidStore(db)
        BY DEF IInv, TypeOK
      <3>2. QED
        BY <2>1, <2>2, <3>1, MarkedIsValid
    <2>4. db.launches[k].state = "intent" /\ db.launches[k].hash = a.hash
      BY <2>1 DEF CanMarkUnknown, HasLaunch
    <2>5. ~(child[k].started > 0)
      BY <2>2, <2>4 DEF IInv, LaunchedUnderUnknown
    <2>6. d.launches = [db.launches EXCEPT ![k] = l]
      BY <2>3 DEF IInv, TypeOK, Store
    <2>7. l.hash = a.hash /\ l.state = "unknown"
      BY <2>3, <2>4 DEF ExecutionLaunch
    <2> HIDE DEF d, l
    <2>8. ASSUME NEW ph \in {"launching", "raised"}, phase' = [phase EXCEPT ![p] = ph]
          PROVE  IInv'
      <3>1. ph \in Phase
        BY DEF Phase
      <3>2. RowStep(p, d, l, ph)
        BY <2>1, <2>2, <2>3, <2>5, <2>6, <2>7, <2>8, <3>1 DEF RowStep
      <3>3. QED
        BY <3>2, LaunchRowKeepsIInv
    <2>9. QED
      BY <2>1, <2>8 DEF Goto
  <1>3. QED
    BY <1>1, <1>2

\* Recording keeps the invariant: what is recorded is the child's exit code.
LEMMA RecordKeepsIInv ==
  ASSUME IInv, NEW p \in Controller, RecordTerminal(p)
  PROVE  IInv'
  <1> DEFINE a == call[p]
             k == a.key
             x == observed[p]
             d == TerminalRecorded(db, k, x)
             l == TerminalRow(db.launches[k], x)
  <1>1. CASE db' = db /\ Goto(p, "raised")
    BY <1>1, RaisingKeepsIInv DEF RecordTerminal, StoreCall
  <1>2. CASE ~(db' = db /\ Goto(p, "raised"))
    <2>1. /\ phase[p] = "recording"
          /\ CanRecordTerminal(db, k, a.hash)
          /\ db' = d
          /\ Goto(p, "returned") \/ Goto(p, "raised")
          /\ UNCHANGED <<call, observed, child>>
      BY <1>2 DEF RecordTerminal, StoreCall
    <2>2. /\ a \in Call /\ a # None /\ k \in Key /\ a.hash \in Hash
          /\ \A q \in Controller \ {p} : Owns(q) => call[q].key # k
      BY <2>1, InCall DEF Owns
    <2>3. /\ child[k].started = 1
          /\ ~child[k].alive
          /\ child[k].exit = x
          /\ x \in ExitCode
      BY <2>1 DEF IInv, TypeOK, OwnerKnowsChild
    <2>4. /\ d \in Store /\ ValidStore(d)
          /\ l \in ExecutionLaunch /\ l # None
          /\ l.hash = db.launches[k].hash /\ l.state = "terminal" /\ l.exit_code = x
          /\ d = [db EXCEPT !.launches = [db.launches EXCEPT ![k] = l]]
      <3>1. db \in Store /\ ValidStore(db)
        BY DEF IInv, TypeOK
      <3>2. QED
        BY <2>1, <2>2, <2>3, <3>1, RecordedIsValid
    <2>5. db.launches[k].state = "unknown" /\ db.launches[k].hash = a.hash
      BY <2>1 DEF CanRecordTerminal, HasLaunch
    <2>6. child[k].command = a.hash
      BY <2>2, <2>3, <2>5 DEF IInv, LaunchedUnderUnknown
    <2>7. d.launches = [db.launches EXCEPT ![k] = l]
      BY <2>4 DEF IInv, TypeOK, Store
    <2>8. l.hash = a.hash /\ l.state = "terminal" /\ l.exit_code = x
      BY <2>4, <2>5
    <2> HIDE DEF d, l
    <2>9. ASSUME NEW ph \in {"returned", "raised"}, phase' = [phase EXCEPT ![p] = ph]
          PROVE  IInv'
      <3>1. ph \in Phase
        BY DEF Phase
      <3>2. RowStep(p, d, l, ph)
        BY <2>1, <2>2, <2>3, <2>4, <2>6, <2>7, <2>8, <2>9, <3>1 DEF RowStep
      <3>3. QED
        BY <3>2, LaunchRowKeepsIInv
    <2>10. QED
      BY <2>1, <2>9 DEF Goto
  <1>3. QED
    BY <1>1, <1>2

\* A step of a process, or of the controller that owns it, which changes only
\* that process and its controller's phase and observation.
ProcessStep(k, c) ==
  /\ k \in Key /\ c \in Child
  /\ child' = [child EXCEPT ![k] = c]
  /\ UNCHANGED <<db, call>>
  /\ c.started = 1
  /\ db.launches[k] # None
  /\ db.launches[k].state = "unknown"
  /\ c.command = db.launches[k].hash

\* Such a step keeps what the invariant says of tables and processes.
LEMMA ProcessStepKeepsLaunches ==
  ASSUME IInv, NEW k, NEW c, ProcessStep(k, c)
  PROVE  ValidStore(db)' /\ Launches' /\ db' \in Store /\ child' \in [Key -> Child]
  <1> USE DEF ProcessStep
  <1>1. ValidStore(db)' /\ db' \in Store /\ child' \in [Key -> Child]
    BY DEF IInv, TypeOK
  <1>2. child'[k] = c /\ \A j \in Key \ {k} : child'[j] = child[j]
    BY DEF IInv, TypeOK
  <1>3. AliveWasStarted' /\ AtMostOneLaunch'
    BY <1>2 DEF IInv, AliveWasStarted, AtMostOneLaunch
  <1>4. \A j \in Key : db.launches[j] # None => db.bindings[j] = db.launches[j].hash
    BY DEF IInv, ValidStore, LaunchesValid
  <1>5. LaunchedUnderUnknown'
    BY <1>2, <1>4 DEF IInv, LaunchedUnderUnknown
  <1>6. TerminalIsObserved'
    BY <1>2 DEF IInv, TerminalIsObserved
  <1>7. QED
    BY <1>1, <1>3, <1>5, <1>6 DEF Launches

\* Starting the process keeps the invariant: its owner started none before.
LEMMA LaunchKeepsIInv ==
  ASSUME IInv, NEW p \in Controller, Launch(p)
  PROVE  IInv'
  <1> DEFINE k == call[p].key
             c == [started |-> IF child[k].started < 2 THEN child[k].started + 1 ELSE 2,
                   command |-> call[p].hash, alive |-> TRUE, exit |-> None]
  <1>1. /\ phase[p] = "launching"
        /\ child' = [child EXCEPT ![k] = c]
        /\ phase' = [phase EXCEPT ![p] = "waiting"]
        /\ UNCHANGED <<db, call, observed>>
    BY DEF Launch, Goto
  <1>2. /\ k \in Key /\ call[p].hash \in Hash
        /\ \A q \in Controller \ {p} : Owns(q) => call[q].key # k
    BY <1>1, InCall DEF Owns
  <1>3. child[k].started = 0
    BY <1>1 DEF IInv, OwnerKnowsChild
  <1>4. c.started = 1 /\ c.alive /\ c.command = call[p].hash /\ c \in Child
    BY <1>2, <1>3 DEF Child
  <1>5. HasLaunch(db, k, call[p].hash, "unknown")
    BY <1>1 DEF IInv, OwnerKnowsLaunch
  <1> HIDE DEF c
  <1>6. ProcessStep(k, c)
    BY <1>1, <1>2, <1>4, <1>5 DEF ProcessStep, HasLaunch
  <1>7. ValidStore(db)' /\ Launches' /\ db' \in Store /\ child' \in [Key -> Child]
    BY <1>6, ProcessStepKeepsLaunches
  <1>8. TypeOK'
    BY <1>1, <1>7 DEF IInv, TypeOK, Phase
  <1>9. \A q \in Controller \ {p} : phase'[q] = phase[q]
    BY <1>1 DEF IInv, TypeOK
  <1>10. phase'[p] = "waiting"
    BY <1>1 DEF IInv, TypeOK
  <1>11. OneOwner'
    BY <1>1, <1>9, <1>10 DEF IInv, OneOwner, Owns
  <1>12. OwnerKnowsLaunch'
    BY <1>1, <1>9, <1>10 DEF IInv, OwnerKnowsLaunch
  <1>13. OwnerKnowsChild'
    <2>1. child'[k] = c
      BY <1>1, <1>2 DEF IInv, TypeOK
    <2>2. ASSUME NEW q \in Controller \ {p}, Owns(q)
          PROVE  child'[call[q].key] = child[call[q].key]
      BY <1>1, <1>2, <2>2 DEF IInv, TypeOK
    <2>3. QED
      BY <1>1, <1>4, <1>9, <1>10, <2>1, <2>2 DEF IInv, OwnerKnowsChild, Owns
  <1>14. QED
    BY <1>7, <1>8, <1>11, <1>12, <1>13 DEF IInv, Launches

\* A process that exits keeps the invariant.
LEMMA ChildExitsKeepsIInv ==
  ASSUME IInv, NEW k \in Key, ChildExits(k)
  PROVE  IInv'
  <1>1. PICK x \in ExitCode :
          child' = [child EXCEPT ![k] = [child[k] EXCEPT !.alive = FALSE, !.exit = x]]
    BY DEF ChildExits, IInv, TypeOK
  <1> DEFINE c == [child[k] EXCEPT !.alive = FALSE, !.exit = x]
  <1>2. child[k] \in Child /\ child[k].alive /\ UNCHANGED <<db, phase, call, observed>>
    BY DEF IInv, TypeOK, ChildExits
  <1>3. child[k].started = 1
    BY <1>2 DEF IInv, AliveWasStarted, AtMostOneLaunch, Child
  <1>4. /\ db.launches[k] # None
        /\ db.launches[k].state = "unknown"
        /\ child[k].command = db.launches[k].hash
    BY <1>2, <1>3 DEF IInv, LaunchedUnderUnknown, TerminalIsObserved
  <1>5. /\ c \in Child /\ c.started = 1 /\ ~c.alive
        /\ c.exit = x /\ x # None /\ c.command = child[k].command
    BY <1>2, <1>3, NoneAssumption DEF Child
  <1>6. child' = [child EXCEPT ![k] = c]
    BY <1>1
  <1> HIDE DEF c
  <1>7. ProcessStep(k, c)
    BY <1>2, <1>4, <1>5, <1>6 DEF ProcessStep
  <1>8. ValidStore(db)' /\ Launches' /\ db' \in Store /\ child' \in [Key -> Child]
    BY <1>7, ProcessStepKeepsLaunches
  <1>9. TypeOK' /\ OneOwner' /\ OwnerKnowsLaunch'
    BY <1>2, <1>8 DEF IInv, TypeOK, OneOwner, Owns, OwnerKnowsLaunch
  <1>10. OwnerKnowsChild'
    <2>1. ASSUME NEW p \in Controller, call[p].key = k
          PROVE  phase[p] \notin {"launching", "recording"}
      BY <1>2, <1>3, <2>1 DEF IInv, OwnerKnowsChild
    <2>2. /\ child'[k] = c
          /\ \A p \in Controller : call[p].key # k => child'[call[p].key] = child[call[p].key]
      BY <1>6 DEF IInv, TypeOK
    <2>3. QED
      BY <1>2, <1>5, <2>1, <2>2 DEF IInv, OwnerKnowsChild
  <1>11. QED
    BY <1>8, <1>9, <1>10 DEF IInv, Launches

\* Observing the exit keeps the invariant: what is observed is the child's own.
LEMMA ObserveKeepsIInv ==
  ASSUME IInv, NEW p \in Controller, ObserveExit(p)
  PROVE  IInv'
  <1> DEFINE k == call[p].key
  <1>1. /\ phase[p] = "waiting" /\ ~child[k].alive
        /\ observed' = [observed EXCEPT ![p] = child[k].exit]
        /\ phase' = [phase EXCEPT ![p] = "recording"]
        /\ UNCHANGED <<db, call, child>>
    BY DEF ObserveExit, Goto
  <1>2. k \in Key /\ child[k] \in Child
    BY <1>1, InCall DEF IInv, TypeOK
  <1>3. child[k].started = 1 /\ child[k].exit # None /\ child[k].exit \in ExitCode
    BY <1>1, <1>2 DEF IInv, OwnerKnowsChild, Child
  <1>4. TypeOK' /\ ValidStore(db)' /\ Launches'
    BY <1>1, <1>3
    DEF IInv, TypeOK, Phase, Launches, AliveWasStarted, AtMostOneLaunch,
        LaunchedUnderUnknown, TerminalIsObserved
  <1>5. /\ \A q \in Controller \ {p} : phase'[q] = phase[q] /\ observed'[q] = observed[q]
        /\ phase'[p] = "recording" /\ observed'[p] = child[k].exit
    BY <1>1 DEF IInv, TypeOK
  <1>6. OneOwner' /\ OwnerKnowsLaunch'
    BY <1>1, <1>5 DEF IInv, OneOwner, Owns, OwnerKnowsLaunch
  <1>7. OwnerKnowsChild'
    BY <1>1, <1>3, <1>5 DEF IInv, OwnerKnowsChild
  <1>8. QED
    BY <1>4, <1>6, <1>7 DEF IInv, Launches

\* A timeout keeps the invariant: the killed process leaves no exit code, and
\* the controller no longer owns the key.
LEMMA TimeOutKeepsIInv ==
  ASSUME IInv, NEW p \in Controller, TimeOut(p)
  PROVE  IInv'
  <1> DEFINE k == call[p].key
             c == [child[k] EXCEPT !.alive = FALSE]
  <1>1. /\ phase[p] = "waiting" /\ child[k].alive
        /\ child' = [child EXCEPT ![k] = c]
        /\ phase' = [phase EXCEPT ![p] = "raised"]
        /\ UNCHANGED <<db, call, observed>>
    BY DEF TimeOut, Goto, IInv, TypeOK
  <1>2. /\ k \in Key /\ child[k] \in Child
        /\ \A q \in Controller \ {p} : Owns(q) => call[q].key # k
    BY <1>1, InCall DEF IInv, TypeOK, Owns
  <1>3. child[k].started = 1
    BY <1>1 DEF IInv, OwnerKnowsChild
  <1>4. /\ db.launches[k] # None
        /\ db.launches[k].state = "unknown"
        /\ child[k].command = db.launches[k].hash
    BY <1>1, <1>2, <1>3 DEF IInv, LaunchedUnderUnknown, TerminalIsObserved
  <1>5. c \in Child /\ c.started = 1 /\ c.command = child[k].command
    BY <1>2, <1>3 DEF Child
  <1> HIDE DEF c
  <1>6. ProcessStep(k, c)
    BY <1>1, <1>2, <1>4, <1>5 DEF ProcessStep
  <1>7. ValidStore(db)' /\ Launches' /\ db' \in Store /\ child' \in [Key -> Child]
    BY <1>6, ProcessStepKeepsLaunches
  <1>8. TypeOK'
    BY <1>1, <1>7 DEF IInv, TypeOK, Phase
  <1>9. /\ \A q \in Controller \ {p} : phase'[q] = phase[q]
        /\ phase'[p] = "raised"
    BY <1>1 DEF IInv, TypeOK
  <1>10. OneOwner' /\ OwnerKnowsLaunch'
    BY <1>1, <1>9 DEF IInv, OneOwner, Owns, OwnerKnowsLaunch
  <1>11. OwnerKnowsChild'
    <2>1. ASSUME NEW q \in Controller \ {p}, Owns(q)
          PROVE  child'[call[q].key] = child[call[q].key]
      BY <1>1, <1>2, <2>1 DEF IInv, TypeOK
    <2>2. QED
      BY <1>1, <1>9, <2>1 DEF IInv, OwnerKnowsChild, Owns
  <1>12. QED
    BY <1>7, <1>8, <1>10, <1>11 DEF IInv, Launches

\* The remaining steps of a controller: a new call, a failed start, a crash.
LEMMA OtherStepsKeepIInv ==
  ASSUME IInv, NEW p \in Controller, Start(p) \/ LaunchFails(p) \/ Die(p)
  PROVE  IInv'
  <1>1. CASE Start(p)
    <2>1. PICK c \in Call : call' = [call EXCEPT ![p] = c]
      BY <1>1 DEF Start
    <2>2. c # None
      BY CallAssumption
    <2>3. phase' = [phase EXCEPT ![p] = "claiming"]
          /\ observed' = [observed EXCEPT ![p] = None] /\ UNCHANGED <<db, child>>
      BY <1>1 DEF Start
    <2>4. QED
      BY <2>1, <2>2, <2>3, NotOwningKeepsIInv
  <1>2. CASE LaunchFails(p)
    BY <1>2, RaisingKeepsIInv DEF LaunchFails
  <1>3. CASE Die(p)
    <2>1. /\ phase' = [phase EXCEPT ![p] = "idle"]
          /\ call' = [call EXCEPT ![p] = None]
          /\ observed' = [observed EXCEPT ![p] = None]
          /\ UNCHANGED <<db, child>>
      BY <1>3 DEF Die
    <2>2. QED
      BY <2>1, NotOwningKeepsIInv
  <1>4. QED
    BY <1>1, <1>2, <1>3

\* The store operations that are not part of execute_local_command.
LEMMA AdministrationKeepsIInv ==
  ASSUME IInv,
         \/ \E s \in Scope : AcquireGeneration(s)
         \/ \E k \in Key :
              \/ RegisterKey(k)
              \/ \E c \in Hash : BindCommand(k, c)
              \/ \E s \in Scope, g \in Generation : Admit(k, s, g)
  PROVE  IInv'
  <1>1. db \in Store /\ ValidStore(db)
    BY DEF IInv, TypeOK
  <1>2. ASSUME NEW s \in Scope, AcquireGeneration(s)
        PROVE  IInv'
    <2>1. CanAcquire(db, s) /\ Administer(Acquired(db, s))
      BY <1>2 DEF AcquireGeneration
    <2>2. Acquired(db, s) \in Store /\ ValidStore(Acquired(db, s))
      BY <1>1, <2>1, AcquiredIsValid
    <2>3. Acquired(db, s).launches = db.launches
      BY <1>1 DEF Acquired, Store
    <2>4. QED
      BY <2>1, <2>2, <2>3, AdministerKeepsIInv
  <1>3. ASSUME NEW k \in Key, RegisterKey(k)
        PROVE  IInv'
    <2>1. Registered(db, k) \in Store /\ ValidStore(Registered(db, k))
      BY <1>1, RegisteredIsValid
    <2>2. Registered(db, k).launches = db.launches
      BY <1>1 DEF Registered, Store
    <2>3. QED
      BY <1>3, <2>1, <2>2, AdministerKeepsIInv DEF RegisterKey
  <1>4. ASSUME NEW k \in Key, NEW c \in Hash, BindCommand(k, c)
        PROVE  IInv'
    <2>1. CanBind(db, k, c) /\ Administer(Bound(db, k, c))
      BY <1>4 DEF BindCommand
    <2>2. Bound(db, k, c) \in Store /\ ValidStore(Bound(db, k, c))
      BY <1>1, <2>1, BoundIsValid
    <2>3. Bound(db, k, c).launches = db.launches
      BY <1>1 DEF Bound, Store
    <2>4. QED
      BY <2>1, <2>2, <2>3, AdministerKeepsIInv
  <1>5. ASSUME NEW k \in Key, NEW s \in Scope, NEW g \in Generation, Admit(k, s, g)
        PROVE  IInv'
    <2>1. CanAdmit(db, k, s, g) /\ Administer(Admitted(db, k, s, g))
      BY <1>5 DEF Admit
    <2>2. Admitted(db, k, s, g) \in Store /\ ValidStore(Admitted(db, k, s, g))
      BY <1>1, <2>1, AdmittedIsValid
    <2>3. Admitted(db, k, s, g).launches = db.launches
      BY <1>1 DEF Admitted, Store
    <2>4. QED
      BY <2>1, <2>2, <2>3, AdministerKeepsIInv
  <1>6. QED
    BY <1>2, <1>3, <1>4, <1>5

-----------------------------------------------------------------------------

\* A new store, no process, every controller idle: the invariant holds.
LEMMA InitHasIInv == Init => IInv
  <1> SUFFICES ASSUME Init PROVE IInv
    OBVIOUS
  <1>1. EmptyStore \in Store /\ ValidStore(EmptyStore)
    BY DEF EmptyStore, Store, ValidStore, BindingsValid, AdmissionsValid, LaunchesValid
  <1>2. TypeOK
    BY <1>1 DEF Init, TypeOK, Phase, Child, NoChild
  <1>3. Launches
    BY DEF Init, NoChild, EmptyStore, Launches, AliveWasStarted, AtMostOneLaunch,
        LaunchedUnderUnknown, TerminalIsObserved
  <1>4. Owners
    BY DEF Init, Owners, OneOwner, Owns, OwnerKnowsLaunch, OwnerKnowsChild
  <1>5. QED
    BY <1>1, <1>2, <1>3, <1>4 DEF Init, IInv, Launches, Owners

\* Every step keeps the invariant.
LEMMA NextKeepsIInv == IInv /\ [Next]_vars => IInv'
  <1> SUFFICES ASSUME IInv, [Next]_vars PROVE IInv'
    OBVIOUS
  <1>1. CASE UNCHANGED vars
    <2>1. TypeOK' /\ ValidStore(db)'
      BY <1>1 DEF vars, IInv, TypeOK
    <2>2. Launches'
      BY <1>1 DEF vars, IInv, Launches, AliveWasStarted, AtMostOneLaunch,
          LaunchedUnderUnknown, TerminalIsObserved
    <2>3. Owners'
      BY <1>1 DEF vars, IInv, Owners, OneOwner, Owns, OwnerKnowsLaunch, OwnerKnowsChild
    <2>4. QED
      BY <2>1, <2>2, <2>3 DEF IInv, Launches, Owners
  <1>2. CASE Next
    <2>1. ASSUME NEW p \in Controller, Start(p) \/ Step(p) \/ Die(p)
          PROVE  IInv'
      BY <2>1, ClaimKeepsIInv, MarkKeepsIInv, LaunchKeepsIInv, ObserveKeepsIInv,
         TimeOutKeepsIInv, RecordKeepsIInv, OtherStepsKeepIInv DEF Step
    <2>2. ASSUME NEW k \in Key, ChildExits(k)
          PROVE  IInv'
      BY <2>2, ChildExitsKeepsIInv
    <2>3. QED
      BY <1>2, <2>1, <2>2, AdministrationKeepsIInv DEF Next
  <1>3. QED
    BY <1>1, <1>2

\* The inductive invariant of the executor: what every controller in a call
\* knows of the launch row and of the process of its key.
THEOREM ExecutionIsInvariant == Spec => []IInv
  BY InitHasIInv, NextKeepsIInv, PTL DEF Spec

\* execute_local_command starts at most one process for an ExecutionKey,
\* whatever controllers call it and whatever fails.
THEOREM OneLaunchPerKey == Spec => []AtMostOneLaunch
  <1>1. IInv => AtMostOneLaunch
    BY DEF IInv
  <1>2. QED
    BY <1>1, ExecutionIsInvariant, PTL

\* Every process runs the bound command under a durable UNKNOWN launch row.
THEOREM LaunchesAreDurable == Spec => []LaunchedUnderUnknown
  <1>1. IInv => LaunchedUnderUnknown
    BY DEF IInv
  <1>2. QED
    BY <1>1, ExecutionIsInvariant, PTL

\* A recorded exit code is that of the only process started for the key.
THEOREM TerminalsAreObserved == Spec => []TerminalIsObserved
  <1>1. IInv => TerminalIsObserved
    BY DEF IInv
  <1>2. QED
    BY <1>1, ExecutionIsInvariant, PTL

\* The variables of the executor keep their types.
THEOREM ExecutionIsTyped == Spec => []TypeOK
  <1>1. IInv => TypeOK
    BY DEF IInv
  <1>2. QED
    BY <1>1, ExecutionIsInvariant, PTL

-----------------------------------------------------------------------------
(* The executor implements LaunchAuthority. *)

\* The fate of a key, from its launch row and the processes started for it.
FateOf(l, n) ==
  [stage |-> IF l = None THEN "open"
             ELSE IF l.state = "terminal" THEN "recorded"
             ELSE IF n > 0 THEN "launched"
             ELSE "consumed",
   codes |-> IF l # None /\ l.state = "terminal" THEN {l.exit_code} ELSE {}]

\* A step that concerns one key only changes the fate of that key only.
LEMMA OneFateChanges ==
  ASSUME NEW k \in Key,
         \A j \in Key \ {k} : /\ db'.launches[j] = db.launches[j]
                              /\ child'[j].started = child[j].started
  PROVE  /\ fate' = [fate EXCEPT ![k] = FateOf(db'.launches[k], child'[k].started)]
         /\ fate[k] = FateOf(db.launches[k], child[k].started)
  <1>1. /\ fate = [j \in Key |-> FateOf(db.launches[j], child[j].started)]
        /\ fate' = [j \in Key |-> FateOf(db'.launches[j], child'[j].started)]
    BY DEF fate, FateOf
  <1>2. QED
    BY <1>1

\* A step that changes no launch row and starts no process is a stutter.
LEMMA NoFateChanges ==
  ASSUME \A j \in Key : /\ db'.launches[j] = db.launches[j]
                        /\ child'[j].started = child[j].started
  PROVE  UNCHANGED fate
  BY DEF fate

\* The claim consumes the authority of its key, or changes nothing.
LEMMA ClaimConsumes ==
  ASSUME IInv, NEW p \in Controller, Claim(p)
  PROVE  [Authority!FateNext]_fate
  <1> DEFINE a == call[p]
             k == a.key
             l == [hash |-> a.hash, scope |-> a.scope, generation |-> a.generation,
                   state |-> "intent", exit_code |-> None]
  <1>1. UNCHANGED child /\ phase[p] = "claiming"
    BY DEF Claim, StoreCall
  <1>2. CASE db' = db
    BY <1>1, <1>2, NoFateChanges
  <1>3. CASE db' # db
    <2>1. /\ CanClaim(db, k, a.scope, a.generation, a.hash)
          /\ db' = Claimed(db, k, a.scope, a.generation, a.hash)
      BY <1>3 DEF Claim, StoreCall
    <2>2. /\ k \in Key /\ a.scope \in Scope
          /\ a.generation \in Generation /\ a.hash \in Hash
      BY <1>1, InCall
    <2>3. l # None /\ db' = [db EXCEPT !.launches = [db.launches EXCEPT ![k] = l]]
      <3>1. db \in Store /\ ValidStore(db)
        BY DEF IInv, TypeOK
      <3>2. QED
        BY <2>1, <2>2, <3>1, ClaimedIsValid
    <2>4. /\ db'.launches[k] = l
          /\ \A j \in Key \ {k} : db'.launches[j] = db.launches[j]
      BY <2>2, <2>3 DEF IInv, TypeOK, Store
    <2>5. db.launches[k] = None
      BY <2>1 DEF CanClaim
    <2>6. ~(child[k].started > 0)
      BY <2>2, <2>5 DEF IInv, LaunchedUnderUnknown
    <2>7. /\ FateOf(db.launches[k], child[k].started) = [stage |-> "open", codes |-> {}]
          /\ FateOf(db'.launches[k], child'[k].started) =
               [stage |-> "consumed", codes |-> {}]
      <3>1. FateOf(db.launches[k], child[k].started) = [stage |-> "open", codes |-> {}]
        BY <2>5 DEF FateOf
      <3>2. /\ db'.launches[k] # None /\ db'.launches[k].state = "intent"
            /\ ~(child'[k].started > 0)
        BY <1>1, <2>3, <2>4, <2>6
      <3>3. QED
        BY <3>1, <3>2 DEF FateOf
    <2>8. Authority!Consume(k)
      BY <1>1, <2>2, <2>4, <2>7, OneFateChanges DEF Authority!Consume
    <2>9. QED
      BY <2>2, <2>8 DEF Authority!FateNext
  <1>4. QED
    BY <1>2, <1>3

\* Marking the launch UNKNOWN changes nothing: no process is started yet.
LEMMA MarkStutters ==
  ASSUME IInv, NEW p \in Controller, MarkUnknown(p)
  PROVE  UNCHANGED fate
  <1> DEFINE a == call[p]
             k == a.key
             l == [db.launches[k] EXCEPT !.state = "unknown"]
  <1>1. UNCHANGED child /\ phase[p] = "marking"
    BY DEF MarkUnknown, StoreCall
  <1>2. CASE db' = db
    BY <1>1, <1>2, NoFateChanges
  <1>3. CASE db' # db
    <2>1. CanMarkUnknown(db, k, a.hash) /\ db' = MarkedUnknown(db, k)
      BY <1>3 DEF MarkUnknown, StoreCall
    <2>2. k \in Key /\ a.hash \in Hash
      BY <1>1, InCall
    <2>3. /\ db.launches[k] \in ExecutionLaunch /\ l # None
          /\ db' = [db EXCEPT !.launches = [db.launches EXCEPT ![k] = l]]
      <3>1. db \in Store /\ ValidStore(db)
        BY DEF IInv, TypeOK
      <3>2. QED
        BY <2>1, <2>2, <3>1, MarkedIsValid
    <2>4. /\ db'.launches[k] = l
          /\ \A j \in Key \ {k} : db'.launches[j] = db.launches[j]
      BY <2>2, <2>3 DEF IInv, TypeOK, Store
    <2>5. db.launches[k] # None /\ db.launches[k].state = "intent" /\ l.state = "unknown"
      BY <2>1, <2>3 DEF CanMarkUnknown, HasLaunch, ExecutionLaunch
    <2>6. FateOf(db'.launches[k], child'[k].started) = FateOf(db.launches[k], child[k].started)
      BY <1>1, <2>3, <2>4, <2>5 DEF FateOf
    <2>7. fate' = [fate EXCEPT ![k] = fate[k]]
      BY <1>1, <2>2, <2>4, <2>6, OneFateChanges
    <2>8. QED
      BY <2>7 DEF fate
  <1>4. QED
    BY <1>2, <1>3

\* Starting the process launches the key, whose authority was consumed.
LEMMA LaunchLaunches ==
  ASSUME IInv, NEW p \in Controller, Launch(p)
  PROVE  Authority!FateNext
  <1> DEFINE k == call[p].key
             c == [started |-> IF child[k].started < 2 THEN child[k].started + 1 ELSE 2,
                   command |-> call[p].hash, alive |-> TRUE, exit |-> None]
  <1>1. /\ phase[p] = "launching"
        /\ child' = [child EXCEPT ![k] = c]
        /\ UNCHANGED db
    BY DEF Launch
  <1>2. k \in Key
    BY <1>1, InCall
  <1>3. child[k].started = 0 /\ HasLaunch(db, k, call[p].hash, "unknown")
    BY <1>1 DEF IInv, OwnerKnowsChild, OwnerKnowsLaunch
  <1>4. /\ child'[k].started = 1
        /\ \A j \in Key \ {k} : child'[j] = child[j]
    BY <1>1, <1>2, <1>3 DEF IInv, TypeOK
  <1>5. /\ FateOf(db.launches[k], child[k].started) = [stage |-> "consumed", codes |-> {}]
        /\ FateOf(db'.launches[k], child'[k].started) = [stage |-> "launched", codes |-> {}]
    BY <1>1, <1>3, <1>4 DEF FateOf, HasLaunch
  <1>6. Authority!Launch(k)
    BY <1>1, <1>2, <1>4, <1>5, OneFateChanges DEF Authority!Launch
  <1>7. QED
    BY <1>2, <1>6 DEF Authority!FateNext

\* Recording records the observed exit code for the key, or changes nothing.
LEMMA RecordRecords ==
  ASSUME IInv, NEW p \in Controller, RecordTerminal(p)
  PROVE  [Authority!FateNext]_fate
  <1> DEFINE a == call[p]
             k == a.key
             x == observed[p]
             l == TerminalRow(db.launches[k], x)
  <1>1. UNCHANGED child /\ phase[p] = "recording"
    BY DEF RecordTerminal, StoreCall
  <1>2. CASE db' = db
    BY <1>1, <1>2, NoFateChanges
  <1>3. CASE db' # db
    <2>1. CanRecordTerminal(db, k, a.hash) /\ db' = TerminalRecorded(db, k, x)
      BY <1>3 DEF RecordTerminal, StoreCall
    <2>2. k \in Key /\ a.hash \in Hash
      BY <1>1, InCall
    <2>3. child[k].started = 1 /\ x \in ExitCode
      BY <1>1 DEF IInv, TypeOK, OwnerKnowsChild
    <2>4. /\ l # None /\ l.state = "terminal" /\ l.exit_code = x
          /\ db' = [db EXCEPT !.launches = [db.launches EXCEPT ![k] = l]]
      <3>1. db \in Store /\ ValidStore(db)
        BY DEF IInv, TypeOK
      <3>2. QED
        BY <2>1, <2>2, <2>3, <3>1, RecordedIsValid
    <2>5. /\ db'.launches[k] = l
          /\ \A j \in Key \ {k} : db'.launches[j] = db.launches[j]
      BY <2>2, <2>4 DEF IInv, TypeOK, Store
    <2>6. db.launches[k] # None /\ db.launches[k].state = "unknown"
      BY <2>1 DEF CanRecordTerminal, HasLaunch
    <2>7. /\ FateOf(db.launches[k], child[k].started) = [stage |-> "launched", codes |-> {}]
          /\ FateOf(db'.launches[k], child'[k].started) =
               [stage |-> "recorded", codes |-> {x}]
      BY <1>1, <2>3, <2>4, <2>5, <2>6 DEF FateOf
    <2>8. Authority!Record(k, x)
      BY <1>1, <2>2, <2>5, <2>7, OneFateChanges DEF Authority!Record
    <2>9. QED
      BY <2>2, <2>3, <2>8 DEF Authority!FateNext
  <1>4. QED
    BY <1>2, <1>3

\* Every other step leaves the launch rows and the numbers of processes alone.
LEMMA OthersStutter ==
  ASSUME IInv, Next,
         ~ \E p \in Controller :
             Claim(p) \/ MarkUnknown(p) \/ Launch(p) \/ RecordTerminal(p)
  PROVE  UNCHANGED fate
  <1>1. /\ db \in Store /\ child \in [Key -> Child]
    BY DEF IInv, TypeOK
  <1>2. ASSUME \/ \E s \in Scope : AcquireGeneration(s)
               \/ \E k \in Key :
                    \/ RegisterKey(k)
                    \/ \E c \in Hash : BindCommand(k, c)
                    \/ \E s \in Scope, g \in Generation : Admit(k, s, g)
        PROVE  UNCHANGED fate
    <2>1. db'.launches = db.launches /\ UNCHANGED child
      BY <1>1, <1>2
      DEF AcquireGeneration, RegisterKey, BindCommand, Admit, Administer,
          Acquired, Registered, Bound, Admitted, Store
    <2>2. QED
      BY <2>1, NoFateChanges
  <1>3. ASSUME NEW k \in Key, ChildExits(k)
        PROVE  UNCHANGED fate
    <2>1. PICK x \in ExitCode :
            child' = [child EXCEPT ![k] = [child[k] EXCEPT !.alive = FALSE, !.exit = x]]
      BY <1>1, <1>3 DEF ChildExits
    <2>2. \A j \in Key : child'[j].started = child[j].started
      BY <1>1, <2>1 DEF Child
    <2>3. QED
      BY <1>3, <2>2, NoFateChanges DEF ChildExits
  <1>4. ASSUME NEW p \in Controller, TimeOut(p)
        PROVE  UNCHANGED fate
    <2>1. call[p].key \in Key /\ UNCHANGED db
      BY <1>4, InCall DEF TimeOut
    <2>2. \A j \in Key : child'[j].started = child[j].started
      BY <1>1, <1>4, <2>1 DEF TimeOut, Child
    <2>3. QED
      BY <2>1, <2>2, NoFateChanges
  <1>5. ASSUME NEW p \in Controller, Start(p) \/ LaunchFails(p) \/ ObserveExit(p) \/ Die(p)
        PROVE  UNCHANGED fate
    BY <1>5, NoFateChanges DEF Start, LaunchFails, ObserveExit, Die
  <1>6. QED
    BY <1>2, <1>3, <1>4, <1>5 DEF Next, Step

\* The executor implements LaunchAuthority: for every key, whatever fails, the
\* authority is consumed once, one process is started, one code is recorded.
THEOREM ExecutionImplementsLaunchAuthority == Spec => ImplementsLaunchAuthority
  <1>1. Init => Authority!FateInit
    BY DEF Init, EmptyStore, NoChild, Authority!FateInit, fate
  <1>2. IInv /\ [Next]_vars => [Authority!FateNext]_fate
    <2>1. CASE UNCHANGED vars
      BY <2>1, NoFateChanges DEF vars
    <2>2. ASSUME IInv, Next
          PROVE  [Authority!FateNext]_fate
      BY <2>2, ClaimConsumes, MarkStutters, LaunchLaunches, RecordRecords, OthersStutter
    <2>3. QED
      BY <2>1, <2>2
  <1>3. QED
    BY <1>1, <1>2, ExecutionIsInvariant, PTL
    DEF Spec, ImplementsLaunchAuthority, Authority!FateSpec
=============================================================================
