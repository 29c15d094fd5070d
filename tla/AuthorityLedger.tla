--------------------------- MODULE AuthorityLedger ---------------------------
(***************************************************************************)
(* What the authority store promises, with no handles, transactions,       *)
(* locks or failures: an append-only ledger of authority facts.  Each step *)
(* records one fact, and a launch moves only forward                       *)
(*      none -> intent -> unknown -> terminal                              *)
(* under the binding and the admission that the ledger already holds.      *)
(* AuthorityStore.tla is shown to implement it.                            *)
(*                                                                         *)
(* The steps are relations between a ledger d and the next one, e.         *)
(***************************************************************************)
EXTENDS AuthorityTables

VARIABLE ledger

\* A controller takes over scope s: the next generation, never a reused one.
NewGeneration(d, e, s) ==
  /\ d.generations[s] < MaxGeneration
  /\ e = [d EXCEPT !.generations[s] = @ + 1]

NewKey(d, e, k) ==
  /\ k \notin d.keys
  /\ e = [d EXCEPT !.keys = @ \cup {k}]

\* "Bind one registered ExecutionKey to one immutable opaque CommandSpecHash."
NewBinding(d, e, k, c) ==
  /\ k \in d.keys
  /\ d.bindings[k] = None
  /\ e = [d EXCEPT !.bindings[k] = c]

\* "Create at most one durable admission under an atomic generation fence."
NewAdmission(d, e, k, s) ==
  /\ d.bindings[k] # None
  /\ d.generations[s] # 0
  /\ d.admissions[k] = None
  /\ e = [d EXCEPT !.admissions[k] =
            [scope |-> s, generation |-> d.generations[s]]]

\* "Irreversibly consume one key's physical-launch authority under the fence."
Consume(d, e, k) ==
  /\ d.admissions[k] # None
  /\ d.launches[k] = None
  /\ LET a == d.admissions[k] IN
     /\ a.generation = d.generations[a.scope]
     /\ e = [d EXCEPT !.launches[k] =
               [hash |-> d.bindings[k], scope |-> a.scope,
                generation |-> a.generation,
                state |-> "intent", exit_code |-> None]]

EnterUnknown(d, e, k) ==
  /\ d.launches[k] # None
  /\ d.launches[k].state = "intent"
  /\ e = [d EXCEPT !.launches[k].state = "unknown"]

Terminate(d, e, k, x) ==
  /\ d.launches[k] # None
  /\ d.launches[k].state = "unknown"
  /\ e = [d EXCEPT !.launches[k].state = "terminal",
                   !.launches[k].exit_code = x]

Records(d, e) ==
  \/ \E s \in Scope : NewGeneration(d, e, s)
  \/ \E k \in Key : NewKey(d, e, k)
  \/ \E k \in Key, c \in Hash : NewBinding(d, e, k, c)
  \/ \E k \in Key, s \in Scope : NewAdmission(d, e, k, s)
  \/ \E k \in Key : Consume(d, e, k)
  \/ \E k \in Key : EnterUnknown(d, e, k)
  \/ \E k \in Key, x \in ExitCode : Terminate(d, e, k, x)

LedgerSpec == ledger = EmptyStore /\ [][Records(ledger, ledger')]_ledger
=============================================================================
