--------------------------- MODULE AuthorityTables ---------------------------
(***************************************************************************)
(* The five tables of an Umbilical authority store at the current schema   *)
(* version, the relations _validate_store demands of their rows, and the   *)
(* effect each operation of AuthorityStore has on them inside one SQLite   *)
(* transaction (buildbot/umbilical_authority.py).                          *)
(*                                                                         *)
(* A store is a record with one field per table.  A table keyed by scope   *)
(* or by ExecutionKey is a total function; generation 0 and the value None *)
(* stand for "no row".  The operators here are pure: they say when a call  *)
(* succeeds and which tables it leaves, and AuthorityStore.tla says how    *)
(* and when those tables become durable.                                   *)
(***************************************************************************)
EXTENDS Naturals

CONSTANTS
  Key,            \* ExecutionKeys
  Hash,           \* CommandSpecHashes
  Scope,          \* AuthorityScopes
  ExitCode,       \* process exit codes in the SQLite INTEGER range
  MaxGeneration,  \* _MAX_GENERATION, the greatest ControllerGeneration
  None            \* "no row" / SQL NULL / Python None

ASSUME MaxGenerationAssumption == MaxGeneration \in Nat \ {0}
ASSUME NoneAssumption ==
  /\ None \notin Hash
  /\ None \notin ExitCode
  /\ None \notin [scope : Scope, generation : 1..MaxGeneration]
  /\ None \notin [hash : Hash, scope : Scope, generation : 1..MaxGeneration,
                  state : {"intent", "unknown", "terminal"},
                  exit_code : ExitCode \cup {None}]

Generation == 1..MaxGeneration
ExecutionAdmission == [scope : Scope, generation : Generation]
LaunchState == {"intent", "unknown", "terminal"}
ExecutionLaunch == [hash : Hash, scope : Scope, generation : Generation,
           state : LaunchState, exit_code : ExitCode \cup {None}]

Store == [generations : [Scope -> Generation \cup {0}],
          keys        : SUBSET Key,
          bindings    : [Key -> Hash \cup {None}],
          admissions  : [Key -> ExecutionAdmission \cup {None}],
          launches    : [Key -> ExecutionLaunch \cup {None}]]

EmptyStore == [generations |-> [s \in Scope |-> 0],
               keys        |-> {},
               bindings    |-> [k \in Key |-> None],
               admissions  |-> [k \in Key |-> None],
               launches    |-> [k \in Key |-> None]]

-----------------------------------------------------------------------------
(***************************************************************************)
(* _validate_current_store: the cross-table relations every operation      *)
(* re-checks before it does anything else.  A store that fails one refuses *)
(* every later operation.                                                  *)
(***************************************************************************)
BindingsValid(d) ==
  \A k \in Key : d.bindings[k] # None => k \in d.keys

AdmissionsValid(d) ==
  \A k \in Key : d.admissions[k] # None =>
    /\ k \in d.keys
    /\ d.bindings[k] # None
    /\ d.generations[d.admissions[k].scope] # 0
    /\ d.admissions[k].generation <= d.generations[d.admissions[k].scope]

ExitCodeValid(l) == (l.exit_code # None) <=> (l.state = "terminal")

LaunchesValid(d) ==
  \A k \in Key : d.launches[k] # None =>
    LET l == d.launches[k] IN
    /\ ExitCodeValid(l)
    /\ k \in d.keys
    /\ d.bindings[k] = l.hash
    /\ d.admissions[k] = [scope |-> l.scope, generation |-> l.generation]
    /\ d.generations[l.scope] # 0
    /\ l.generation <= d.generations[l.scope]

ValidStore(d) ==
  /\ BindingsValid(d)
  /\ AdmissionsValid(d)
  /\ LaunchesValid(d)

-----------------------------------------------------------------------------
(***************************************************************************)
(* The operations.  CanX is the conjunction of the checks of operation X   *)
(* (a call that fails one is refused and rolled back); the operator named  *)
(* for the result is the tables it leaves.                                 *)
(***************************************************************************)
CanAcquireUnbounded(d, s) == TRUE  \* a variant: no check for overflow
CanAcquire(d, s) == d.generations[s] # MaxGeneration
Acquired(d, s) == [d EXCEPT !.generations[s] = @ + 1]

\* Registering a known key is a DUPLICATE: it succeeds and changes nothing.
Registered(d, k) == [d EXCEPT !.keys = @ \cup {k}]

CanRebind(d, k, c) == k \in d.keys  \* a variant: a binding can be replaced
CanBind(d, k, c) == k \in d.keys /\ d.bindings[k] \in {None, c}
Bound(d, k, c) == [d EXCEPT !.bindings[k] = c]

\* A variant: a key without a bound command is admitted.
CanAdmitUnbound(d, k, s, g) ==
  /\ k \in d.keys
  /\ d.generations[s] = g
  /\ d.admissions[k] \in {None, [scope |-> s, generation |-> g]}

CanAdmit(d, k, s, g) ==
  /\ k \in d.keys
  /\ d.bindings[k] # None
  /\ d.generations[s] = g
  /\ d.admissions[k] \in {None, [scope |-> s, generation |-> g]}
Admitted(d, k, s, g) ==
  [d EXCEPT !.admissions[k] = [scope |-> s, generation |-> g]]

\* Two variants: the admission is not fenced; a launch is claimed again.
CanClaimUnfenced(d, k, s, g, c) ==
  /\ d.bindings[k] = c
  /\ d.admissions[k] = [scope |-> s, generation |-> g]
  /\ d.launches[k] = None
CanClaimAgain(d, k, s, g, c) ==
  /\ d.bindings[k] = c
  /\ d.admissions[k] = [scope |-> s, generation |-> g]
  /\ d.generations[s] = g

CanClaim(d, k, s, g, c) ==
  /\ k \in d.keys
  /\ d.bindings[k] = c
  /\ d.admissions[k] = [scope |-> s, generation |-> g]
  /\ d.generations[s] = g
  /\ d.launches[k] = None
Claimed(d, k, s, g, c) ==
  [d EXCEPT !.launches[k] = [hash |-> c, scope |-> s, generation |-> g,
                             state |-> "intent", exit_code |-> None]]

HasLaunch(d, k, c, st) ==
  /\ d.launches[k] # None
  /\ d.launches[k].hash = c
  /\ d.launches[k].state = st

CanMarkUnknown(d, k, c) == HasLaunch(d, k, c, "intent")
MarkedUnknown(d, k) == [d EXCEPT !.launches[k].state = "unknown"]

CanRecordTerminal(d, k, c) == HasLaunch(d, k, c, "unknown")
TerminalRecorded(d, k, x) ==
  [d EXCEPT !.launches[k].state = "terminal",
            !.launches[k].exit_code = x]
=============================================================================
