------------------------ MODULE AuthorityTablesProofs ------------------------
(***************************************************************************)
(* Each operation of the authority store takes a valid store to a valid    *)
(* store (AuthorityTables.tla), for every value of the constants.          *)
(***************************************************************************)
EXTENDS AuthorityTables, TLAPS

\* acquire_generation leaves a valid store.
LEMMA AcquiredIsValid ==
  ASSUME NEW d \in Store, ValidStore(d), NEW s \in Scope, CanAcquire(d, s)
  PROVE  /\ d.generations[s] \in 0..MaxGeneration - 1
         /\ Acquired(d, s) \in Store
         /\ ValidStore(Acquired(d, s))
  <1> DEFINE e == Acquired(d, s)
  <1>1. d.generations[s] \in 0..MaxGeneration - 1
    BY MaxGenerationAssumption DEF Store, CanAcquire, Generation
  <1>2. e \in Store
    BY <1>1, MaxGenerationAssumption DEF Store, Acquired, Generation
  <1>3. ValidStore(e)
    BY <1>1, MaxGenerationAssumption
    DEF Store, Acquired, ValidStore, BindingsValid, AdmissionsValid, LaunchesValid,
        ExitCodeValid, ExecutionAdmission, ExecutionLaunch, Generation
  <1>4. QED
    BY <1>1, <1>2, <1>3

\* register_execution_key leaves a valid store.
LEMMA RegisteredIsValid ==
  ASSUME NEW d \in Store, ValidStore(d), NEW k \in Key
  PROVE  Registered(d, k) \in Store /\ ValidStore(Registered(d, k))
  BY DEF Store, Registered, ValidStore, BindingsValid, AdmissionsValid, LaunchesValid

\* bind_command_spec_hash leaves a valid store.
LEMMA BoundIsValid ==
  ASSUME NEW d \in Store, ValidStore(d), NEW k \in Key, NEW c \in Hash,
         CanBind(d, k, c)
  PROVE  Bound(d, k, c) \in Store /\ ValidStore(Bound(d, k, c))
  <1>1. Bound(d, k, c) \in Store
    BY DEF Store, Bound
  <1>2. ValidStore(Bound(d, k, c))
    BY NoneAssumption
    DEF Store, CanBind, Bound, ValidStore, BindingsValid, AdmissionsValid, LaunchesValid,
        ExecutionLaunch
  <1>3. QED
    BY <1>1, <1>2

\* admit_execution leaves a valid store.
LEMMA AdmittedIsValid ==
  ASSUME NEW d \in Store, ValidStore(d), NEW k \in Key, NEW s \in Scope,
         NEW g \in Generation, CanAdmit(d, k, s, g)
  PROVE  Admitted(d, k, s, g) \in Store /\ ValidStore(Admitted(d, k, s, g))
  <1> DEFINE e == Admitted(d, k, s, g)
             a == [scope |-> s, generation |-> g]
  <1>1. a \in ExecutionAdmission /\ a # None
    BY NoneAssumption DEF ExecutionAdmission, Generation
  <1>2. e = [d EXCEPT !.admissions = [d.admissions EXCEPT ![k] = a]]
    BY DEF Admitted, Store
  <1>3. e \in Store
    BY <1>1, <1>2 DEF Store
  <1>4. BindingsValid(e)
    BY <1>2 DEF Store, ValidStore, BindingsValid
  <1>5. AdmissionsValid(e)
    BY <1>1, <1>2, MaxGenerationAssumption
    DEF Store, CanAdmit, ValidStore, AdmissionsValid, Generation
  <1>6. \A j \in Key : d.launches[j] # None => e.admissions[j] = d.admissions[j]
    <2>1. SUFFICES ASSUME d.launches[k] # None PROVE d.admissions[k] = a
      BY <1>2 DEF Store
    <2>2. d.launches[k] \in ExecutionLaunch
      BY <2>1 DEF Store
    <2>3. d.admissions[k] = [scope |-> d.launches[k].scope,
                             generation |-> d.launches[k].generation]
      BY <2>1 DEF ValidStore, LaunchesValid
    <2>4. d.admissions[k] # None
      BY <2>2, <2>3, NoneAssumption DEF ExecutionLaunch, Generation
    <2>5. QED
      BY <2>4 DEF CanAdmit
  <1>7. LaunchesValid(e)
    BY <1>2, <1>6 DEF Store, ValidStore, LaunchesValid
  <1>8. QED
    BY <1>3, <1>4, <1>5, <1>7 DEF ValidStore

\* claim_execution_launch leaves a valid store with the launch at INTENT.
LEMMA ClaimedIsValid ==
  ASSUME NEW d \in Store, ValidStore(d), NEW k \in Key, NEW s \in Scope,
         NEW g \in Generation, NEW c \in Hash, CanClaim(d, k, s, g, c)
  PROVE  LET e == Claimed(d, k, s, g, c)
             l == [hash |-> c, scope |-> s, generation |-> g,
                   state |-> "intent", exit_code |-> None]
         IN  /\ e \in Store
             /\ ValidStore(e)
             /\ l \in ExecutionLaunch /\ l # None
             /\ e = [d EXCEPT !.launches = [d.launches EXCEPT ![k] = l]]
  <1> DEFINE e == Claimed(d, k, s, g, c)
             l == [hash |-> c, scope |-> s, generation |-> g,
                   state |-> "intent", exit_code |-> None]
  <1>1. l \in ExecutionLaunch /\ l # None
    BY NoneAssumption DEF ExecutionLaunch, LaunchState, Generation
  <1>2. e = [d EXCEPT !.launches = [d.launches EXCEPT ![k] = l]]
    BY DEF Claimed, Store
  <1>3. e \in Store
    BY <1>1, <1>2 DEF Store
  <1>4. ValidStore(e)
    BY <1>1, <1>2, MaxGenerationAssumption
    DEF Store, CanClaim, ValidStore, BindingsValid, AdmissionsValid,
        LaunchesValid, ExitCodeValid, ExecutionLaunch, Generation
  <1>5. QED
    BY <1>1, <1>2, <1>3, <1>4

\* mark_execution_launch_unknown leaves a valid store with the launch UNKNOWN.
LEMMA MarkedIsValid ==
  ASSUME NEW d \in Store, ValidStore(d), NEW k \in Key, NEW c \in Hash,
         CanMarkUnknown(d, k, c)
  PROVE  LET e == MarkedUnknown(d, k)
             l == [d.launches[k] EXCEPT !.state = "unknown"]
         IN  /\ e \in Store
             /\ ValidStore(e)
             /\ d.launches[k] \in ExecutionLaunch
             /\ l \in ExecutionLaunch /\ l # None
             /\ e = [d EXCEPT !.launches = [d.launches EXCEPT ![k] = l]]
  <1> DEFINE e == MarkedUnknown(d, k)
             l == [d.launches[k] EXCEPT !.state = "unknown"]
  <1>1. /\ d.launches[k] \in ExecutionLaunch
        /\ d.launches[k] # None
        /\ d.launches[k].state = "intent"
    BY DEF Store, CanMarkUnknown, HasLaunch
  <1>2. l \in ExecutionLaunch /\ l # None
    BY <1>1, NoneAssumption DEF ExecutionLaunch, LaunchState, Generation
  <1>3. e = [d EXCEPT !.launches = [d.launches EXCEPT ![k] = l]]
    BY DEF MarkedUnknown, Store
  <1>4. e \in Store
    BY <1>2, <1>3 DEF Store
  <1>5. ValidStore(e)
    BY <1>1, <1>2, <1>3
    DEF Store, ValidStore, BindingsValid, AdmissionsValid, LaunchesValid,
        ExitCodeValid, ExecutionLaunch
  <1>6. QED
    BY <1>1, <1>2, <1>3, <1>4, <1>5

\* The launch row record_execution_terminal_result leaves of a row l.
TerminalRow(l, x) == [l EXCEPT !.state = "terminal", !.exit_code = x]

\* record_execution_terminal_result leaves a valid store with the launch TERMINAL.
LEMMA RecordedIsValid ==
  ASSUME NEW d \in Store, ValidStore(d), NEW k \in Key, NEW c \in Hash,
         NEW x \in ExitCode, CanRecordTerminal(d, k, c)
  PROVE  LET e == TerminalRecorded(d, k, x)
             l == TerminalRow(d.launches[k], x)
         IN  /\ e \in Store
             /\ ValidStore(e)
             /\ d.launches[k] \in ExecutionLaunch
             /\ l \in ExecutionLaunch /\ l # None
             /\ l.hash = d.launches[k].hash
             /\ l.state = "terminal"
             /\ l.exit_code = x
             /\ e = [d EXCEPT !.launches = [d.launches EXCEPT ![k] = l]]
  <1> DEFINE e == TerminalRecorded(d, k, x)
             l == TerminalRow(d.launches[k], x)
  <1> USE DEF TerminalRow
  <1>1. /\ d.launches[k] \in ExecutionLaunch
        /\ d.launches[k] # None
        /\ d.launches[k].state = "unknown"
    BY DEF Store, CanRecordTerminal, HasLaunch
  <1>2. l \in ExecutionLaunch /\ l # None
    BY <1>1, NoneAssumption DEF ExecutionLaunch, LaunchState, Generation
  <1>3. l.hash = d.launches[k].hash /\ l.state = "terminal" /\ l.exit_code = x
    BY <1>1 DEF ExecutionLaunch
  <1>4. e = [d EXCEPT !.launches = [d.launches EXCEPT ![k] = l]]
    BY DEF TerminalRecorded, Store
  <1>5. e \in Store
    BY <1>2, <1>4 DEF Store
  <1>6. ValidStore(e)
    BY <1>1, <1>2, <1>4, NoneAssumption
    DEF Store, ValidStore, BindingsValid, AdmissionsValid, LaunchesValid,
        ExitCodeValid, ExecutionLaunch
  <1>7. QED
    BY <1>1, <1>2, <1>3, <1>4, <1>5, <1>6
=============================================================================
