--------------------------- MODULE AuthorityStore ---------------------------
(***************************************************************************)
(* Handles (AuthorityStore objects, each with its own SQLite connection)   *)
(* on one authority store at the current schema version.                   *)
(*                                                                         *)
(* An operation that writes is two steps of its handle.  The first is      *)
(* BEGIN IMMEDIATE, which takes SQLite's only write lock, _validate_store, *)
(* and the statements of the operation; the tables it is about to commit   *)
(* are then private to the handle.  The second ends the transaction: a     *)
(* COMMIT, a COMMIT that raises (its outcome is not known), a statement    *)
(* that raises, an exception nobody catches, or the end of the process.    *)
(* A read is one step: a deferred BEGIN reads one snapshot and never waits.*)
(***************************************************************************)
EXTENDS AuthorityTables

CONSTANT Handle

VARIABLES
  db,       \* the committed tables
  status,   \* each handle: its connection and transaction
  draft,    \* the tables the handle's open write transaction would commit
  pending,  \* what the handle's operation returns if that COMMIT succeeds
  careful,  \* the operation takes _handle_consequential_failure on an error
  answer    \* what the handle's last completed call returned or raised

vars == <<db, status, draft, pending, careful, answer>>

\* "abandoned" and "abandoned_read": a transaction left open by an exception
\* that is neither an AuthorityStoreError nor an sqlite3.DatabaseError.
Status == {"closed", "idle", "writing", "abandoned", "abandoned_read", "poisoned"}

NoAnswer  == [op |-> "none"]
Refused   == [op |-> "refused"]    \* a check of the operation failed
Failed    == [op |-> "failed"]     \* AuthorityStoreError for an SQLite error
Uncertain == [op |-> "uncertain"]  \* "COMMIT outcome is uncertain"

Answer ==
  {NoAnswer, Refused, Failed, Uncertain}
  \cup [op : {"acquire"}, scope : Scope, generation : Generation]
  \cup [op : {"register"}, key : Key, fresh : BOOLEAN]
  \cup [op : {"bind"}, key : Key, hash : Hash, fresh : BOOLEAN]
  \cup [op : {"admit"}, key : Key, admission : ExecutionAdmission, fresh : BOOLEAN]
  \cup [op : {"claim", "mark", "record"}, key : Key, launch : ExecutionLaunch]
  \cup [op : {"read_generation"}, scope : Scope, generation : Generation \cup {0}]
  \cup [op : {"is_current"}, scope : Scope, generation : Generation, holds : BOOLEAN]
  \cup [op : {"exists"}, key : Key, found : BOOLEAN]
  \cup [op : {"read_hash"}, key : Key, hash : Hash \cup {None}]
  \cup [op : {"read_admission"}, key : Key, admission : ExecutionAdmission \cup {None}]
  \cup [op : {"read_launch"}, key : Key, launch : ExecutionLaunch \cup {None}]

\* Every table keeps the types of its columns and every handle a known state.
TypeOK ==
  /\ db \in Store
  /\ status \in [Handle -> Status]
  /\ draft \in [Handle -> Store]
  /\ pending \in [Handle -> Answer]
  /\ careful \in [Handle -> BOOLEAN]
  /\ answer \in [Handle -> Answer]

Init ==
  /\ db = EmptyStore
  /\ status = [h \in Handle |-> "closed"]
  /\ draft = [h \in Handle |-> EmptyStore]
  /\ pending = [h \in Handle |-> NoAnswer]
  /\ careful = [h \in Handle |-> FALSE]
  /\ answer = [h \in Handle |-> NoAnswer]

HoldsWriteLock(h) == status[h] \in {"writing", "abandoned"}
WriteLockFree == \A h \in Handle : ~HoldsWriteLock(h)

-----------------------------------------------------------------------------
(* Beginning an operation. *)

\* A variant: a deferred BEGIN, which does not take the write lock.
BeginDeferred(h) == status[h] = "idle" /\ ValidStore(db)

\* BEGIN IMMEDIATE and _validate_store succeeded: h holds the write lock.
BeginImmediate(h) ==
  /\ status[h] = "idle"
  /\ WriteLockFree
  /\ ValidStore(db)

\* The statements succeeded; the tables d are ready to be committed.
Stage(h, d, reply, consequential) ==
  /\ status' = [status EXCEPT ![h] = "writing"]
  /\ draft' = [draft EXCEPT ![h] = d]
  /\ pending' = [pending EXCEPT ![h] = reply]
  /\ careful' = [careful EXCEPT ![h] = consequential]
  /\ answer' = [answer EXCEPT ![h] = NoAnswer]
  /\ UNCHANGED db

\* The call of h ends with its connection in state st and no transaction.
End(h, st, reply) ==
  /\ status' = [status EXCEPT ![h] = st]
  /\ draft' = [draft EXCEPT ![h] = EmptyStore]
  /\ pending' = [pending EXCEPT ![h] = NoAnswer]
  /\ careful' = [careful EXCEPT ![h] = FALSE]
  /\ answer' = [answer EXCEPT ![h] = reply]

\* _rollback_after_failure: a ROLLBACK that raises poisons the handle.
RollBack(h, reply) ==
  /\ \/ End(h, "idle", reply)
     \/ End(h, "poisoned", Failed)
  /\ UNCHANGED db

-----------------------------------------------------------------------------
(* The operations that write. *)

AcquireGeneration(h, s) ==
  /\ BeginImmediate(h)
  /\ IF CanAcquire(db, s)
     THEN LET d == Acquired(db, s) IN
          Stage(h, d, [op |-> "acquire", scope |-> s,
                       generation |-> d.generations[s]], FALSE)
     ELSE RollBack(h, Refused)

RegisterExecutionKey(h, k) ==
  /\ BeginImmediate(h)
  /\ Stage(h, Registered(db, k),
           [op |-> "register", key |-> k, fresh |-> k \notin db.keys], FALSE)

BindCommandSpecHash(h, k, c) ==
  /\ BeginImmediate(h)
  /\ IF CanBind(db, k, c)
     THEN Stage(h, Bound(db, k, c),
                [op |-> "bind", key |-> k, hash |-> c,
                 fresh |-> db.bindings[k] = None], FALSE)
     ELSE RollBack(h, Refused)

AdmitExecution(h, k, s, g) ==
  /\ BeginImmediate(h)
  /\ IF CanAdmit(db, k, s, g)
     THEN Stage(h, Admitted(db, k, s, g),
                [op |-> "admit", key |-> k,
                 admission |-> [scope |-> s, generation |-> g],
                 fresh |-> db.admissions[k] = None], FALSE)
     ELSE RollBack(h, Refused)

\* The three launch transitions share the stricter failure handler.
StageLaunch(h, o, k, d) ==
  Stage(h, d, [op |-> o, key |-> k, launch |-> d.launches[k]], TRUE)

ClaimExecutionLaunch(h, k, s, g, c) ==
  /\ BeginImmediate(h)
  /\ IF CanClaim(db, k, s, g, c)
     THEN StageLaunch(h, "claim", k, Claimed(db, k, s, g, c))
     ELSE RollBack(h, Refused)

MarkExecutionLaunchUnknown(h, k, c) ==
  /\ BeginImmediate(h)
  /\ IF CanMarkUnknown(db, k, c)
     THEN StageLaunch(h, "mark", k, MarkedUnknown(db, k))
     ELSE RollBack(h, Refused)

RecordExecutionTerminalResult(h, k, c, x) ==
  /\ BeginImmediate(h)
  /\ IF CanRecordTerminal(db, k, c)
     THEN StageLaunch(h, "record", k, TerminalRecorded(db, k, x))
     ELSE RollBack(h, Refused)

-----------------------------------------------------------------------------
(* How a write transaction ends. *)

Commit(h) ==
  /\ status[h] = "writing"
  /\ db' = draft[h]
  /\ End(h, "idle", pending[h])

\* COMMIT raised.  The tables may or may not be durable.  A launch transition
\* poisons the handle; the other operations roll back what is still open.
CommitRaises(h) ==
  /\ status[h] = "writing"
  /\ \/ /\ careful[h]
        /\ db' \in {db, draft[h]}
        /\ End(h, "poisoned", Uncertain)
     \/ /\ ~careful[h]
        /\ db' = draft[h]
        /\ End(h, "idle", Failed)
     \/ /\ ~careful[h]
        /\ RollBack(h, Failed)

\* A statement raised an sqlite3.DatabaseError before COMMIT.
StatementRaises(h) ==
  /\ status[h] = "writing"
  /\ RollBack(h, Failed)

\* Any other exception leaves the method with the transaction still open.
Abandon(h) ==
  /\ status[h] = "writing"
  /\ status' = [status EXCEPT ![h] = "abandoned"]
  /\ answer' = [answer EXCEPT ![h] = Failed]
  /\ UNCHANGED <<db, draft, pending, careful>>

\* The next call on that handle: BEGIN raises inside the open transaction,
\* and the failure handler rolls the old one back.
CallAfterAbandon(h) ==
  /\ status[h] \in {"abandoned", "abandoned_read"}
  /\ RollBack(h, Failed)

\* BEGIN IMMEDIATE gave up after its 30 seconds: another handle is writing.
Busy(h) ==
  /\ status[h] = "idle"
  /\ ~WriteLockFree
  /\ answer' = [answer EXCEPT ![h] = Failed]
  /\ UNCHANGED <<db, status, draft, pending, careful>>

-----------------------------------------------------------------------------
(* The operations that read. *)

Observe(h, reply) ==
  /\ status[h] = "idle"
  /\ ValidStore(db)
  /\ answer' = [answer EXCEPT ![h] = reply]
  /\ UNCHANGED <<db, status, draft, pending, careful>>

ReadGeneration(h, s) ==
  Observe(h, [op |-> "read_generation", scope |-> s,
              generation |-> db.generations[s]])

IsCurrentGeneration(h, s, g) ==
  Observe(h, [op |-> "is_current", scope |-> s, generation |-> g,
              holds |-> db.generations[s] = g])

ExecutionKeyExists(h, k) ==
  Observe(h, [op |-> "exists", key |-> k, found |-> k \in db.keys])

\* The three reads below raise ExecutionKeyNotRegisteredError for a new key.
ObserveRegistered(h, k, reply) ==
  Observe(h, IF k \in db.keys THEN reply ELSE Refused)

ReadCommandSpecHash(h, k) ==
  ObserveRegistered(h, k, [op |-> "read_hash", key |-> k, hash |-> db.bindings[k]])

ReadExecutionAdmission(h, k) ==
  ObserveRegistered(h, k, [op |-> "read_admission", key |-> k,
                           admission |-> db.admissions[k]])

ReadExecutionLaunch(h, k) ==
  ObserveRegistered(h, k, [op |-> "read_launch", key |-> k,
                           launch |-> db.launches[k]])

\* An SQLite error in a read, its COMMIT included: no observation is returned.
ReadRaises(h) ==
  /\ status[h] = "idle"
  /\ RollBack(h, Failed)

AbandonRead(h) ==
  /\ status[h] = "idle"
  /\ status' = [status EXCEPT ![h] = "abandoned_read"]
  /\ answer' = [answer EXCEPT ![h] = Failed]
  /\ UNCHANGED <<db, draft, pending, careful>>

-----------------------------------------------------------------------------
(* Opening and losing a handle. *)

OpenExisting(h) ==
  /\ status[h] = "closed"
  /\ ValidStore(db)
  /\ End(h, "idle", NoAnswer)
  /\ UNCHANGED db

\* close(), or the death of the process before COMMIT takes effect: SQLite
\* discards the transaction.
Close(h) ==
  /\ status[h] # "closed"
  /\ End(h, "closed", NoAnswer)
  /\ UNCHANGED db

\* The process dies in COMMIT, after the tables became durable.
DieInCommit(h) ==
  /\ status[h] = "writing"
  /\ db' = draft[h]
  /\ End(h, "closed", NoAnswer)

Write(h) ==
  \/ \E s \in Scope : AcquireGeneration(h, s)
  \/ \E k \in Key :
       \/ RegisterExecutionKey(h, k)
       \/ \E c \in Hash :
            \/ BindCommandSpecHash(h, k, c)
            \/ MarkExecutionLaunchUnknown(h, k, c)
            \/ \E x \in ExitCode : RecordExecutionTerminalResult(h, k, c, x)
       \/ \E s \in Scope, g \in Generation :
            \/ AdmitExecution(h, k, s, g)
            \/ \E c \in Hash : ClaimExecutionLaunch(h, k, s, g, c)

Read(h) ==
  \/ \E s \in Scope :
       \/ ReadGeneration(h, s)
       \/ \E g \in Generation : IsCurrentGeneration(h, s, g)
  \/ \E k \in Key :
       \/ ExecutionKeyExists(h, k)
       \/ ReadCommandSpecHash(h, k)
       \/ ReadExecutionAdmission(h, k)
       \/ ReadExecutionLaunch(h, k)

EndWrite(h) ==
  \/ Commit(h)
  \/ CommitRaises(h)
  \/ StatementRaises(h)
  \/ Abandon(h)
  \/ DieInCommit(h)

Next == \E h \in Handle :
  \/ Write(h)
  \/ EndWrite(h)
  \/ Read(h)
  \/ CallAfterAbandon(h)
  \/ Busy(h)
  \/ ReadRaises(h)
  \/ AbandonRead(h)
  \/ OpenExisting(h)
  \/ Close(h)

Spec == Init /\ [][Next]_vars

-----------------------------------------------------------------------------
(***************************************************************************)
(* Correctness.                                                            *)
(***************************************************************************)

\* No sequence of operations, failed COMMITs and crashes leads to tables that
\* _validate_store refuses: a store never locks its own users out.
StoreStaysValid == ValidStore(db)

\* A launch the store once showed as l can later be shown only as l or as a
\* later state of the same launch.
LaterLaunch(l, now) ==
  /\ now # None
  /\ <<now.hash, now.scope, now.generation>> = <<l.hash, l.scope, l.generation>>
  /\ \/ l.state = "intent"
     \/ l.state = "unknown" /\ now.state # "intent"
     \/ now = l

\* What the answer a said of the tables, read of the tables d.
TrueOf(d, a) ==
  /\ a.op \in {"acquire", "read_generation"} =>
       d.generations[a.scope] >= a.generation
  /\ (a.op = "is_current" /\ a.holds) => d.generations[a.scope] >= a.generation
  /\ a.op = "register" => a.key \in d.keys
  /\ (a.op = "exists" /\ a.found) => a.key \in d.keys
  /\ a.op = "bind" => d.bindings[a.key] = a.hash
  /\ (a.op = "read_hash" /\ a.hash # None) => d.bindings[a.key] = a.hash
  /\ a.op = "admit" => d.admissions[a.key] = a.admission
  /\ (a.op = "read_admission" /\ a.admission # None) =>
       d.admissions[a.key] = a.admission
  /\ a.op \in {"claim", "mark", "record"} =>
       LaterLaunch(a.launch, d.launches[a.key])
  /\ a.op = "mark" => a.launch.state = "unknown"
  /\ a.op = "record" => a.launch.state = "terminal"
  /\ (a.op = "read_launch" /\ a.launch # None) =>
       LaterLaunch(a.launch, d.launches[a.key])

\* Whatever a call told its caller stays true of the durable tables, across
\* later operations of every handle, failed COMMITs and crashes.
AnswersStayTrue == \A h \in Handle : TrueOf(db, answer[h])

\* The answers that give one caller something nobody else was given.
SameGrant(a, b) ==
  \/ /\ a.op = "acquire" /\ b.op = "acquire"
     /\ <<a.scope, a.generation>> = <<b.scope, b.generation>>
  \/ /\ a.op \in {"register", "bind", "admit"} /\ b.op = a.op
     /\ a.fresh /\ b.fresh /\ a.key = b.key
  \/ /\ a.op \in {"claim", "mark", "record"} /\ b.op = a.op
     /\ a.key = b.key

\* Two handles are never both told that they acquired one generation, newly
\* registered, bound or admitted one key, or moved one launch to a state.
GrantsAreExclusive ==
  \A h1, h2 \in Handle : h1 # h2 => ~SameGrant(answer[h1], answer[h2])

Ledger == INSTANCE AuthorityLedger WITH ledger <- db

\* The committed tables behave as the append-only ledger of AuthorityLedger:
\* one fact at a time, each recorded under the fence that was current.
ImplementsLedger == Ledger!LedgerSpec

-----------------------------------------------------------------------------
(***************************************************************************)
(* The inductive invariant behind these: at most one handle is in a write  *)
(* transaction, and the tables it would commit are one sound step away     *)
(* from the committed ones, which no other handle can change meanwhile.    *)
(***************************************************************************)
OneWriter ==
  \A h1, h2 \in Handle : HoldsWriteLock(h1) /\ HoldsWriteLock(h2) => h1 = h2

\* d may become e in one commit: nothing changes or one fact is recorded, and
\* every relation of _validate_store still holds.
Sound(d, e) ==
  /\ e \in Store
  /\ ValidStore(e)
  /\ e = d \/ Ledger!Records(d, e)

DraftsAreSound ==
  \A h \in Handle : status[h] = "writing" =>
    /\ Sound(db, draft[h])
    /\ TrueOf(draft[h], pending[h])
    /\ \A g \in Handle \ {h} : /\ ~SameGrant(pending[h], answer[g])
                               /\ ~SameGrant(answer[g], pending[h])

IInv ==
  /\ TypeOK
  /\ StoreStaysValid
  /\ AnswersStayTrue
  /\ GrantsAreExclusive
  /\ OneWriter
  /\ DraftsAreSound

=============================================================================
