------------------------ MODULE AuthorityStoreProofs ------------------------
(***************************************************************************)
(* Proofs about AuthorityStore.tla for every value of its constants.       *)
(***************************************************************************)
EXTENDS AuthorityStore, AuthorityTablesProofs

-----------------------------------------------------------------------------
(* What the operations do to the tables. *)

\* acquire_generation records a new generation.
LEMMA AcquireSound ==
  ASSUME NEW d \in Store, ValidStore(d), NEW s \in Scope, CanAcquire(d, s)
  PROVE  Sound(d, Acquired(d, s))
  <1>1. d.generations[s] \in 0..MaxGeneration - 1
    BY AcquiredIsValid
  <1>2. Ledger!NewGeneration(d, Acquired(d, s), s)
    <2>1. \A g \in 0..MaxGeneration - 1 : g < MaxGeneration
      BY ONLY MaxGenerationAssumption
    <2>2. d.generations[s] < MaxGeneration
      BY ONLY <1>1, <2>1
    <2>3. QED
      BY ONLY <2>2 DEF Ledger!NewGeneration, Acquired
  <1>3. Ledger!Records(d, Acquired(d, s))
    BY <1>2, Zenon DEF Ledger!Records
  <1>4. QED
    BY <1>3, AcquiredIsValid DEF Sound

\* register_execution_key records a new key, or nothing.
LEMMA RegisterSound ==
  ASSUME NEW d \in Store, ValidStore(d), NEW k \in Key
  PROVE  Sound(d, Registered(d, k))
  <1>1. Registered(d, k) = d \/ Ledger!Records(d, Registered(d, k))
    <2>1. CASE k \in d.keys
      BY <2>1 DEF Store, Registered
    <2>2. CASE k \notin d.keys
      <3>1. Ledger!NewKey(d, Registered(d, k), k)
        BY <2>2 DEF Ledger!NewKey, Registered
      <3>2. QED
        BY <3>1, Zenon DEF Ledger!Records
    <2>3. QED
      BY <2>1, <2>2
  <1>2. QED
    BY <1>1, RegisteredIsValid DEF Sound

\* bind_command_spec_hash records a new binding, or nothing.
LEMMA BindSound ==
  ASSUME NEW d \in Store, ValidStore(d), NEW k \in Key, NEW c \in Hash,
         CanBind(d, k, c)
  PROVE  Sound(d, Bound(d, k, c))
  <1>1. CASE d.bindings[k] = c
    <2>1. Bound(d, k, c) = d
      BY <1>1 DEF Store, Bound
    <2>2. QED
      BY <2>1, BoundIsValid DEF Sound
  <1>2. CASE d.bindings[k] = None
    <2>1. Ledger!NewBinding(d, Bound(d, k, c), k, c)
      BY <1>2 DEF Ledger!NewBinding, Bound, CanBind
    <2>2. QED
      BY <2>1, BoundIsValid DEF Sound, Ledger!Records
  <1>3. QED
    BY <1>1, <1>2 DEF CanBind

\* admit_execution records an admission under the current generation, or nothing.
LEMMA AdmitSound ==
  ASSUME NEW d \in Store, ValidStore(d), NEW k \in Key, NEW s \in Scope,
         NEW g \in Generation, CanAdmit(d, k, s, g)
  PROVE  Sound(d, Admitted(d, k, s, g))
  <1>1. CASE d.admissions[k] = [scope |-> s, generation |-> g]
    <2>1. Admitted(d, k, s, g) = d
      BY <1>1 DEF Store, Admitted
    <2>2. QED
      BY <2>1, AdmittedIsValid DEF Sound
  <1>2. CASE d.admissions[k] = None
    <2>1. Ledger!NewAdmission(d, Admitted(d, k, s, g), k, s)
      BY <1>2, MaxGenerationAssumption
      DEF Ledger!NewAdmission, Admitted, CanAdmit, Generation
    <2>2. QED
      BY <2>1, AdmittedIsValid DEF Sound, Ledger!Records
  <1>3. QED
    BY <1>1, <1>2 DEF CanAdmit

\* claim_execution_launch consumes the authority of one admitted key.
LEMMA ClaimSound ==
  ASSUME NEW d \in Store, ValidStore(d), NEW k \in Key, NEW s \in Scope,
         NEW g \in Generation, NEW c \in Hash, CanClaim(d, k, s, g, c)
  PROVE  Sound(d, Claimed(d, k, s, g, c))
  <1>1. [scope |-> s, generation |-> g] # None
    BY NoneAssumption DEF Generation
  <1>2. Ledger!Consume(d, Claimed(d, k, s, g, c), k)
    BY <1>1 DEF Ledger!Consume, Claimed, CanClaim
  <1>3. QED
    BY <1>2, ClaimedIsValid DEF Sound, Ledger!Records

\* mark_execution_launch_unknown moves one launch on from INTENT.
LEMMA MarkSound ==
  ASSUME NEW d \in Store, ValidStore(d), NEW k \in Key, NEW c \in Hash,
         CanMarkUnknown(d, k, c)
  PROVE  Sound(d, MarkedUnknown(d, k))
  <1>1. Ledger!EnterUnknown(d, MarkedUnknown(d, k), k)
    BY DEF Ledger!EnterUnknown, MarkedUnknown, CanMarkUnknown, HasLaunch
  <1>2. QED
    BY <1>1, MarkedIsValid DEF Sound, Ledger!Records

\* record_execution_terminal_result moves one launch on from UNKNOWN.
LEMMA RecordSound ==
  ASSUME NEW d \in Store, ValidStore(d), NEW k \in Key, NEW c \in Hash,
         NEW x \in ExitCode, CanRecordTerminal(d, k, c)
  PROVE  Sound(d, TerminalRecorded(d, k, x))
  <1>1. Ledger!Terminate(d, TerminalRecorded(d, k, x), k, x)
    BY DEF Ledger!Terminate, TerminalRecorded, CanRecordTerminal, HasLaunch
  <1>2. QED
    BY <1>1, RecordedIsValid DEF Sound, Ledger!Records

-----------------------------------------------------------------------------
(* Facts, once recorded, stay. *)

\* A later launch of a later launch is a later launch.
LEMMA LaterLaunchIsTransitive ==
  ASSUME NEW l \in ExecutionLaunch, NEW m \in ExecutionLaunch \cup {None},
         NEW n \in ExecutionLaunch \cup {None},
         LaterLaunch(l, m), LaterLaunch(m, n)
  PROVE  LaterLaunch(l, n)
  BY NoneAssumption DEF LaterLaunch, ExecutionLaunch, LaunchState

\* A commit keeps every fact of the tables or replaces it by a later one.
LEMMA CommitsKeepFacts ==
  ASSUME NEW d \in Store, ValidStore(d), NEW e, Sound(d, e)
  PROVE  /\ \A s \in Scope : e.generations[s] >= d.generations[s]
         /\ d.keys \subseteq e.keys
         /\ \A k \in Key : d.bindings[k] # None => e.bindings[k] = d.bindings[k]
         /\ \A k \in Key : d.admissions[k] # None => e.admissions[k] = d.admissions[k]
         /\ \A k \in Key : d.launches[k] # None => LaterLaunch(d.launches[k], e.launches[k])
  <1>0. \A k \in Key : d.launches[k] # None => LaterLaunch(d.launches[k], d.launches[k])
    BY DEF LaterLaunch
  <1>1. CASE e = d
    BY <1>0, <1>1 DEF Store, Generation
  <1>2. CASE \E s \in Scope : Ledger!NewGeneration(d, e, s)
    BY <1>0, <1>2 DEF Ledger!NewGeneration, Store, Generation
  <1>3. CASE \E k \in Key : Ledger!NewKey(d, e, k)
    BY <1>0, <1>3 DEF Ledger!NewKey, Store, Generation
  <1>4. CASE \E k \in Key, c \in Hash : Ledger!NewBinding(d, e, k, c)
    BY <1>0, <1>4 DEF Ledger!NewBinding, Store, Generation
  <1>5. CASE \E k \in Key, s \in Scope : Ledger!NewAdmission(d, e, k, s)
    BY <1>0, <1>5 DEF Ledger!NewAdmission, Store, Generation
  <1>6. CASE \E k \in Key : Ledger!Consume(d, e, k)
    BY <1>0, <1>6 DEF Ledger!Consume, Store, Generation
  <1>7. CASE \E k \in Key : Ledger!EnterUnknown(d, e, k)
    <2>1. PICK k \in Key : Ledger!EnterUnknown(d, e, k)
      BY <1>7
    <2>2. d.launches[k] \in ExecutionLaunch /\ d.launches[k].state = "intent"
      BY <2>1 DEF Ledger!EnterUnknown, Store
    <2>3. e = [d EXCEPT !.launches = [d.launches EXCEPT ![k] =
                 [d.launches[k] EXCEPT !.state = "unknown"]]]
      BY <2>1 DEF Ledger!EnterUnknown
    <2>4. LaterLaunch(d.launches[k], [d.launches[k] EXCEPT !.state = "unknown"])
      BY <2>2, NoneAssumption DEF LaterLaunch, ExecutionLaunch, LaunchState, Generation
    <2>5. QED
      BY <1>0, <2>2, <2>3, <2>4 DEF Store, Generation
  <1>8. CASE \E k \in Key, x \in ExitCode : Ledger!Terminate(d, e, k, x)
    <2>1. PICK k \in Key, x \in ExitCode : Ledger!Terminate(d, e, k, x)
      BY <1>8
    <2> DEFINE l == [d.launches[k] EXCEPT !.state = "terminal", !.exit_code = x]
    <2>2. d.launches[k] \in ExecutionLaunch /\ d.launches[k].state = "unknown"
      BY <2>1 DEF Ledger!Terminate, Store
    <2>3. e = [d EXCEPT !.launches = [d.launches EXCEPT ![k] = l]]
      BY <2>1 DEF Ledger!Terminate, Store
    <2>4. LaterLaunch(d.launches[k], l)
      BY <2>2, NoneAssumption DEF LaterLaunch, ExecutionLaunch, LaunchState, Generation
    <2>5. QED
      BY <1>0, <2>2, <2>3, <2>4 DEF Store, Generation
  <1>9. QED
    BY <1>1, <1>2, <1>3, <1>4, <1>5, <1>6, <1>7, <1>8 DEF Sound, Ledger!Records

\* The fields of an answer have the types its operation gives them.
LEMMA AnswerFields ==
  ASSUME NEW a \in Answer
  PROVE  /\ a.op \in {"acquire", "read_generation", "is_current"} =>
              a.scope \in Scope /\ a.generation \in Generation \cup {0}
         /\ a.op \in {"register", "bind", "admit", "claim", "mark", "record",
                      "exists", "read_hash", "read_admission", "read_launch"} =>
              a.key \in Key
         /\ a.op = "bind" => a.hash \in Hash
         /\ a.op = "admit" => a.admission \in ExecutionAdmission
         /\ a.op \in {"claim", "mark", "record"} => a.launch \in ExecutionLaunch
         /\ a.op = "read_launch" => a.launch \in ExecutionLaunch \cup {None}
  <1>1. CASE a \in {NoAnswer, Refused, Failed, Uncertain}
    BY <1>1 DEF NoAnswer, Refused, Failed, Uncertain
  <1>2. CASE a \in [op : {"acquire"}, scope : Scope, generation : Generation]
    BY <1>2
  <1>3. CASE a \in [op : {"register"}, key : Key, fresh : BOOLEAN]
    BY <1>3
  <1>4. CASE a \in [op : {"bind"}, key : Key, hash : Hash, fresh : BOOLEAN]
    BY <1>4
  <1>5. CASE a \in [op : {"admit"}, key : Key, admission : ExecutionAdmission, fresh : BOOLEAN]
    BY <1>5
  <1>6. CASE a \in [op : {"claim", "mark", "record"}, key : Key, launch : ExecutionLaunch]
    BY <1>6
  <1>7. CASE a \in [op : {"read_generation"}, scope : Scope, generation : Generation \cup {0}]
    BY <1>7
  <1>8. CASE a \in [op : {"is_current"}, scope : Scope, generation : Generation, holds : BOOLEAN]
    BY <1>8
  <1>9. CASE a \in [op : {"exists"}, key : Key, found : BOOLEAN]
    BY <1>9
  <1>10. CASE a \in [op : {"read_hash"}, key : Key, hash : Hash \cup {None}]
    BY <1>10
  <1>11. CASE a \in [op : {"read_admission"}, key : Key, admission : ExecutionAdmission \cup {None}]
    BY <1>11
  <1>12. CASE a \in [op : {"read_launch"}, key : Key, launch : ExecutionLaunch \cup {None}]
    BY <1>12
  <1>13. QED
    BY <1>1, <1>2, <1>3, <1>4, <1>5, <1>6, <1>7, <1>8, <1>9, <1>10, <1>11, <1>12 DEF Answer

\* What an answer said of the tables stays true across a commit.
LEMMA CommitsKeepAnswers ==
  ASSUME NEW d \in Store, ValidStore(d), NEW e, Sound(d, e),
         NEW a \in Answer, TrueOf(d, a)
  PROVE  TrueOf(e, a)
  <1>1. /\ \A s \in Scope : e.generations[s] >= d.generations[s]
        /\ d.keys \subseteq e.keys
        /\ \A k \in Key : d.bindings[k] # None => e.bindings[k] = d.bindings[k]
        /\ \A k \in Key : d.admissions[k] # None => e.admissions[k] = d.admissions[k]
        /\ \A k \in Key : d.launches[k] # None => LaterLaunch(d.launches[k], e.launches[k])
    BY CommitsKeepFacts
  <1>2. e \in Store
    BY DEF Sound
  <1>3. ASSUME a.op \in {"acquire", "read_generation", "is_current"},
               d.generations[a.scope] >= a.generation
        PROVE  e.generations[a.scope] >= a.generation
    <2>1. a.scope \in Scope /\ a.generation \in Generation \cup {0}
      BY <1>3, AnswerFields
    <2>2. /\ d.generations[a.scope] \in Generation \cup {0}
          /\ e.generations[a.scope] \in Generation \cup {0}
      BY <1>2, <2>1 DEF Store
    <2>3. e.generations[a.scope] >= d.generations[a.scope]
      BY <1>1, <2>1
    <2>4. QED
      BY <1>3, <2>1, <2>2, <2>3 DEF Generation
  <1>4. ASSUME a.op \in {"claim", "mark", "record", "read_launch"}, a.launch # None,
               LaterLaunch(a.launch, d.launches[a.key])
        PROVE  LaterLaunch(a.launch, e.launches[a.key])
    <2>1. a.key \in Key /\ a.launch \in ExecutionLaunch
      BY <1>4, AnswerFields
    <2>2. /\ d.launches[a.key] \in ExecutionLaunch \cup {None}
          /\ e.launches[a.key] \in ExecutionLaunch \cup {None}
          /\ d.launches[a.key] # None
      BY <1>2, <1>4, <2>1 DEF Store, LaterLaunch
    <2>3. LaterLaunch(d.launches[a.key], e.launches[a.key])
      BY <1>1, <2>1, <2>2
    <2>4. QED
      BY <1>4, <2>1, <2>2, <2>3, LaterLaunchIsTransitive
  <1>5. a.op \in {"register", "exists"} => (a.key \in d.keys => a.key \in e.keys)
    BY <1>1
  <1>6. a.op \in {"bind", "read_hash"} /\ a.hash # None /\ d.bindings[a.key] = a.hash =>
          e.bindings[a.key] = a.hash
    BY <1>1, AnswerFields
  <1>7. a.op \in {"admit", "read_admission"} /\ a.admission # None
          /\ d.admissions[a.key] = a.admission => e.admissions[a.key] = a.admission
    BY <1>1, AnswerFields
  <1>8. /\ a.op = "bind" => a.hash # None
        /\ a.op = "admit" => a.admission # None
        /\ a.op \in {"claim", "mark", "record"} => a.launch # None
    BY AnswerFields, NoneAssumption
    DEF ExecutionAdmission, ExecutionLaunch, LaunchState, Generation
  <1>9. QED
    BY <1>3, <1>4, <1>5, <1>6, <1>7, <1>8 DEF TrueOf

-----------------------------------------------------------------------------
(* The inductive invariant. *)

Grants == {"acquire", "register", "bind", "admit", "claim", "mark", "record"}

\* Answers that grant nothing are no one's grant.
LEMMA NoGrant ==
  ASSUME NEW a, NEW b, a.op \notin Grants \/ b.op \notin Grants
  PROVE  ~SameGrant(a, b)
  BY DEF SameGrant, Grants

\* The four answers without a result are answers, true of any tables.
LEMMA PlainAnswers ==
  ASSUME NEW r \in {NoAnswer, Refused, Failed, Uncertain}, NEW d
  PROVE  r \in Answer /\ r.op \notin Grants /\ TrueOf(d, r)
  BY DEF Answer, Grants, TrueOf, NoAnswer, Refused, Failed, Uncertain

\* Commits and crashes aside, a call that ends without a result keeps the
\* invariant; so does one whose tables were committed all the same.
LEMMA EndKeepsIInv ==
  ASSUME IInv, NEW h \in Handle, NEW st \in {"idle", "poisoned", "closed"},
         NEW r \in {NoAnswer, Refused, Failed, Uncertain}, End(h, st, r),
         db' = db \/ (status[h] = "writing" /\ db' = draft[h])
  PROVE  IInv'
  <1>1. r \in Answer /\ r.op \notin Grants /\ TrueOf(db', r)
    BY PlainAnswers
  <1>2. Sound(db, db')
    BY DEF IInv, TypeOK, StoreStaysValid, DraftsAreSound, Sound
  <1>3. TypeOK'
    BY <1>1, <1>2
    DEF IInv, TypeOK, End, Sound, Status, Store, EmptyStore, Answer
  <1>4. StoreStaysValid'
    BY <1>2 DEF StoreStaysValid, Sound
  <1>5. AnswersStayTrue'
    BY <1>1, <1>2, CommitsKeepAnswers
    DEF IInv, TypeOK, StoreStaysValid, AnswersStayTrue, End
  <1>6. GrantsAreExclusive'
    BY <1>1, NoGrant DEF IInv, TypeOK, GrantsAreExclusive, End
  <1>7. OneWriter'
    BY DEF IInv, TypeOK, OneWriter, HoldsWriteLock, End
  <1>8. DraftsAreSound'
    <2>1. SUFFICES ASSUME NEW w \in Handle, status'[w] = "writing"
                   PROVE  /\ Sound(db', draft'[w])
                          /\ TrueOf(draft'[w], pending'[w])
                          /\ \A g \in Handle \ {w} :
                               /\ ~SameGrant(pending'[w], answer'[g])
                               /\ ~SameGrant(answer'[g], pending'[w])
      BY DEF DraftsAreSound
    <2>2. w # h /\ status[w] = "writing" /\ draft'[w] = draft[w] /\ pending'[w] = pending[w]
      BY <2>1 DEF IInv, TypeOK, End
    <2>3. db' = db
      BY <2>2 DEF IInv, OneWriter, HoldsWriteLock
    <2>4. Sound(db', draft'[w]) /\ TrueOf(draft'[w], pending'[w])
      BY <2>2, <2>3 DEF IInv, DraftsAreSound
    <2>5. ASSUME NEW g \in Handle \ {w}
          PROVE  ~SameGrant(pending'[w], answer'[g]) /\ ~SameGrant(answer'[g], pending'[w])
      <3>1. CASE g = h
        BY <1>1, <3>1, NoGrant DEF IInv, TypeOK, End
      <3>2. CASE g # h
        BY <2>2, <3>2 DEF IInv, TypeOK, DraftsAreSound, End
      <3>3. QED
        BY <3>1, <3>2
    <2>6. QED
      BY <2>4, <2>5
  <1>9. QED
    BY <1>3, <1>4, <1>5, <1>6, <1>7, <1>8 DEF IInv

\* A COMMIT that succeeds keeps the invariant.
LEMMA CommitKeepsIInv ==
  ASSUME IInv, NEW h \in Handle, Commit(h)
  PROVE  IInv'
  <1>1. /\ status[h] = "writing"
        /\ db' = draft[h]
        /\ End(h, "idle", pending[h])
    BY DEF Commit
  <1>2. Sound(db, db') /\ TrueOf(db', pending[h]) /\ pending[h] \in Answer
    BY <1>1 DEF IInv, TypeOK, DraftsAreSound
  <1>3. TypeOK'
    BY <1>1, <1>2 DEF IInv, TypeOK, End, Sound, Status, Store, EmptyStore, Answer
  <1>4. StoreStaysValid'
    BY <1>2 DEF StoreStaysValid, Sound
  <1>5. AnswersStayTrue'
    BY <1>1, <1>2, CommitsKeepAnswers
    DEF IInv, TypeOK, StoreStaysValid, AnswersStayTrue, End
  <1>6. GrantsAreExclusive'
    BY <1>1 DEF IInv, TypeOK, GrantsAreExclusive, DraftsAreSound, End
  <1>7. \A w \in Handle : ~HoldsWriteLock(w)'
    BY <1>1 DEF IInv, TypeOK, OneWriter, HoldsWriteLock, End
  <1>8. OneWriter' /\ DraftsAreSound'
    BY <1>7 DEF OneWriter, DraftsAreSound, HoldsWriteLock
  <1>9. QED
    BY <1>3, <1>4, <1>5, <1>6, <1>8 DEF IInv

\* Staging a sound step, true to its reply and granting what no other handle
\* holds, keeps the invariant.
LEMMA StageKeepsIInv ==
  ASSUME IInv, NEW h \in Handle, BeginImmediate(h), NEW d, Sound(db, d),
         NEW r \in Answer, TrueOf(d, r), NEW c \in BOOLEAN, Stage(h, d, r, c),
         \A b \in Answer : TrueOf(db, b) => ~SameGrant(r, b) /\ ~SameGrant(b, r)
  PROVE  IInv'
  <1>1. /\ NoAnswer \in Answer
        /\ NoAnswer.op \notin Grants
        /\ TrueOf(db, NoAnswer)
    BY PlainAnswers
  <1>2. TypeOK'
    BY <1>1 DEF IInv, TypeOK, Stage, Sound, Status
  <1>3. StoreStaysValid'
    BY DEF IInv, StoreStaysValid, Stage
  <1>4. AnswersStayTrue'
    BY <1>1 DEF IInv, TypeOK, AnswersStayTrue, Stage
  <1>5. GrantsAreExclusive'
    BY <1>1, NoGrant DEF IInv, TypeOK, GrantsAreExclusive, Stage
  <1>6. \A w \in Handle : HoldsWriteLock(w)' => w = h
    BY DEF IInv, TypeOK, BeginImmediate, WriteLockFree, HoldsWriteLock, Stage
  <1>7. OneWriter'
    BY <1>6 DEF OneWriter
  <1>8. DraftsAreSound'
    <2>1. draft'[h] = d /\ pending'[h] = r /\ db' = db
      BY DEF IInv, TypeOK, Stage
    <2>2. \A g \in Handle \ {h} : answer'[g] \in Answer /\ TrueOf(db, answer'[g])
      BY DEF IInv, TypeOK, AnswersStayTrue, Stage
    <2>3. QED
      BY <1>6, <2>1, <2>2 DEF DraftsAreSound, HoldsWriteLock
  <1>9. QED
    BY <1>2, <1>3, <1>4, <1>5, <1>7, <1>8 DEF IInv

\* A read that answers what the committed tables say keeps the invariant.
LEMMA ObserveKeepsIInv ==
  ASSUME IInv, NEW h \in Handle, NEW r \in Answer, r.op \notin Grants, TrueOf(db, r),
         NEW st \in Status, ~HoldsWriteLock(h), st \notin {"writing", "abandoned"},
         status' = [status EXCEPT ![h] = st],
         answer' = [answer EXCEPT ![h] = r],
         UNCHANGED <<db, draft, pending, careful>>
  PROVE  IInv'
  <1>1. TypeOK' /\ StoreStaysValid' /\ AnswersStayTrue'
    BY DEF IInv, TypeOK, StoreStaysValid, AnswersStayTrue
  <1>2. GrantsAreExclusive'
    BY NoGrant DEF IInv, TypeOK, GrantsAreExclusive
  <1>3. OneWriter'
    BY DEF IInv, TypeOK, OneWriter, HoldsWriteLock
  <1>4. DraftsAreSound'
    BY NoGrant DEF IInv, TypeOK, DraftsAreSound, HoldsWriteLock
  <1>5. QED
    BY <1>1, <1>2, <1>3, <1>4 DEF IInv

\* A rollback, and the poisoning that follows a failed one, keep the invariant.
LEMMA RollBackKeepsIInv ==
  ASSUME IInv, NEW h \in Handle, NEW r \in {Refused, Failed}, RollBack(h, r)
  PROVE  IInv'
  BY EndKeepsIInv DEF RollBack

\* acquire_generation keeps the invariant.
LEMMA AcquireKeepsIInv ==
  ASSUME IInv, NEW h \in Handle, NEW s \in Scope, AcquireGeneration(h, s)
  PROVE  IInv'
  <1> DEFINE d == Acquired(db, s)
             r == [op |-> "acquire", scope |-> s, generation |-> d.generations[s]]
  <1>1. CASE ~CanAcquire(db, s)
    BY <1>1, RollBackKeepsIInv DEF AcquireGeneration
  <1>2. CASE CanAcquire(db, s)
    <2>1. db \in Store /\ ValidStore(db) /\ Sound(db, d)
      BY <1>2, AcquireSound DEF IInv, TypeOK, StoreStaysValid
    <2>2. /\ db.generations[s] \in 0..MaxGeneration - 1
          /\ d.generations[s] = db.generations[s] + 1
      BY <1>2, <2>1, MaxGenerationAssumption DEF CanAcquire, Acquired, Store, Generation
    <2>3. r \in Answer
      BY <2>2, MaxGenerationAssumption DEF Answer, Generation
    <2>4. TrueOf(d, r)
      BY <2>2, MaxGenerationAssumption DEF TrueOf
    <2>5. ASSUME NEW b \in Answer, TrueOf(db, b)
          PROVE  ~SameGrant(r, b) /\ ~SameGrant(b, r)
      BY <2>2, <2>5, MaxGenerationAssumption DEF SameGrant, TrueOf
    <2>6. BeginImmediate(h) /\ Stage(h, d, r, FALSE)
      BY <1>2 DEF AcquireGeneration
    <2> HIDE DEF d, r
    <2>7. QED
      BY <2>1, <2>3, <2>4, <2>5, <2>6, StageKeepsIInv
  <1>3. QED
    BY <1>1, <1>2

\* register_execution_key keeps the invariant.
LEMMA RegisterKeepsIInv ==
  ASSUME IInv, NEW h \in Handle, NEW k \in Key, RegisterExecutionKey(h, k)
  PROVE  IInv'
  <1> DEFINE d == Registered(db, k)
             r == [op |-> "register", key |-> k, fresh |-> k \notin db.keys]
  <1>1. db \in Store /\ ValidStore(db) /\ Sound(db, d)
    BY RegisterSound DEF IInv, TypeOK, StoreStaysValid
  <1>2. r \in Answer
    BY DEF Answer
  <1>3. TrueOf(d, r)
    BY <1>1 DEF TrueOf, Registered, Store
  <1>4. ASSUME NEW b \in Answer, TrueOf(db, b)
        PROVE  ~SameGrant(r, b) /\ ~SameGrant(b, r)
    BY <1>4 DEF SameGrant, TrueOf
  <1>5. BeginImmediate(h) /\ Stage(h, d, r, FALSE)
    BY DEF RegisterExecutionKey
  <1> HIDE DEF d, r
  <1>6. QED
    BY <1>1, <1>2, <1>3, <1>4, <1>5, StageKeepsIInv

\* bind_command_spec_hash keeps the invariant.
LEMMA BindKeepsIInv ==
  ASSUME IInv, NEW h \in Handle, NEW k \in Key, NEW c \in Hash,
         BindCommandSpecHash(h, k, c)
  PROVE  IInv'
  <1> DEFINE d == Bound(db, k, c)
             r == [op |-> "bind", key |-> k, hash |-> c, fresh |-> db.bindings[k] = None]
  <1>1. CASE ~CanBind(db, k, c)
    BY <1>1, RollBackKeepsIInv DEF BindCommandSpecHash
  <1>2. CASE CanBind(db, k, c)
    <2>1. db \in Store /\ ValidStore(db) /\ Sound(db, d)
      BY <1>2, BindSound DEF IInv, TypeOK, StoreStaysValid
    <2>2. r \in Answer
      BY DEF Answer
    <2>3. TrueOf(d, r)
      BY <2>1 DEF TrueOf, Bound, Store
    <2>4. ASSUME NEW b \in Answer, TrueOf(db, b)
          PROVE  ~SameGrant(r, b) /\ ~SameGrant(b, r)
      BY <2>4, AnswerFields, NoneAssumption DEF SameGrant, TrueOf
    <2>5. BeginImmediate(h) /\ Stage(h, d, r, FALSE)
      BY <1>2 DEF BindCommandSpecHash
    <2> HIDE DEF d, r
    <2>6. QED
      BY <2>1, <2>2, <2>3, <2>4, <2>5, StageKeepsIInv
  <1>3. QED
    BY <1>1, <1>2

\* admit_execution keeps the invariant.
LEMMA AdmitKeepsIInv ==
  ASSUME IInv, NEW h \in Handle, NEW k \in Key, NEW s \in Scope, NEW g \in Generation,
         AdmitExecution(h, k, s, g)
  PROVE  IInv'
  <1> DEFINE d == Admitted(db, k, s, g)
             r == [op |-> "admit", key |-> k,
                   admission |-> [scope |-> s, generation |-> g],
                   fresh |-> db.admissions[k] = None]
  <1>1. CASE ~CanAdmit(db, k, s, g)
    BY <1>1, RollBackKeepsIInv DEF AdmitExecution
  <1>2. CASE CanAdmit(db, k, s, g)
    <2>1. db \in Store /\ ValidStore(db) /\ Sound(db, d)
      BY <1>2, AdmitSound DEF IInv, TypeOK, StoreStaysValid
    <2>2. r \in Answer
      BY DEF Answer, ExecutionAdmission
    <2>3. TrueOf(d, r)
      BY <2>1 DEF TrueOf, Admitted, Store
    <2>4. ASSUME NEW b \in Answer, TrueOf(db, b)
          PROVE  ~SameGrant(r, b) /\ ~SameGrant(b, r)
      <3>1. b.op = "admit" => b.admission # None
        BY AnswerFields, NoneAssumption DEF ExecutionAdmission, Generation
      <3>2. QED
        BY <2>4, <3>1 DEF SameGrant, TrueOf
    <2>5. BeginImmediate(h) /\ Stage(h, d, r, FALSE)
      BY <1>2 DEF AdmitExecution
    <2> HIDE DEF d, r
    <2>6. QED
      BY <2>1, <2>2, <2>3, <2>4, <2>5, StageKeepsIInv
  <1>3. QED
    BY <1>1, <1>2

\* A launch transition to a state that no launch row yet has keeps the invariant.
LEMMA StageLaunchKeepsIInv ==
  ASSUME IInv, NEW h \in Handle, BeginImmediate(h), NEW k \in Key,
         NEW o \in {"claim", "mark", "record"}, NEW d, Sound(db, d),
         StageLaunch(h, o, k, d), d.launches[k] # None,
         o = "mark" => d.launches[k].state = "unknown",
         o = "record" => d.launches[k].state = "terminal",
         \A b \in Answer : TrueOf(db, b) => ~(b.op = o /\ b.key = k)
  PROVE  IInv'
  <1> DEFINE r == [op |-> o, key |-> k, launch |-> d.launches[k]]
  <1>1. d.launches[k] \in ExecutionLaunch
    BY DEF Sound, Store
  <1>2. r \in Answer
    BY <1>1 DEF Answer
  <1>3. TrueOf(d, r)
    BY DEF TrueOf, LaterLaunch
  <1>4. \A b \in Answer : TrueOf(db, b) => ~SameGrant(r, b) /\ ~SameGrant(b, r)
    BY DEF SameGrant
  <1>5. Stage(h, d, r, TRUE)
    BY DEF StageLaunch
  <1> HIDE DEF r
  <1>6. QED
    BY <1>2, <1>3, <1>4, <1>5, StageKeepsIInv

\* claim_execution_launch keeps the invariant: a key claimed before is refused.
LEMMA ClaimKeepsIInv ==
  ASSUME IInv, NEW h \in Handle, NEW k \in Key, NEW s \in Scope, NEW g \in Generation,
         NEW c \in Hash, ClaimExecutionLaunch(h, k, s, g, c)
  PROVE  IInv'
  <1> DEFINE d == Claimed(db, k, s, g, c)
  <1>1. CASE ~CanClaim(db, k, s, g, c)
    BY <1>1, RollBackKeepsIInv DEF ClaimExecutionLaunch
  <1>2. CASE CanClaim(db, k, s, g, c)
    <2>1. db \in Store /\ ValidStore(db) /\ Sound(db, d)
      BY <1>2, ClaimSound DEF IInv, TypeOK, StoreStaysValid
    <2>2. d.launches[k] # None
      BY <2>1, NoneAssumption
      DEF Claimed, Store, ExecutionLaunch, LaunchState, Generation
    <2>3. ASSUME NEW b \in Answer, TrueOf(db, b)
          PROVE  ~(b.op = "claim" /\ b.key = k)
      BY <1>2, <2>3 DEF CanClaim, TrueOf, LaterLaunch
    <2>4. BeginImmediate(h) /\ StageLaunch(h, "claim", k, d)
      BY <1>2 DEF ClaimExecutionLaunch
    <2> HIDE DEF d
    <2>5. QED
      BY <2>1, <2>2, <2>3, <2>4, StageLaunchKeepsIInv
  <1>3. QED
    BY <1>1, <1>2

\* mark_execution_launch_unknown keeps the invariant: only an intent is marked.
LEMMA MarkKeepsIInv ==
  ASSUME IInv, NEW h \in Handle, NEW k \in Key, NEW c \in Hash,
         MarkExecutionLaunchUnknown(h, k, c)
  PROVE  IInv'
  <1> DEFINE d == MarkedUnknown(db, k)
  <1>1. CASE ~CanMarkUnknown(db, k, c)
    BY <1>1, RollBackKeepsIInv DEF MarkExecutionLaunchUnknown
  <1>2. CASE CanMarkUnknown(db, k, c)
    <2>1. db \in Store /\ ValidStore(db) /\ Sound(db, d)
      BY <1>2, MarkSound DEF IInv, TypeOK, StoreStaysValid
    <2>2. db.launches[k] \in ExecutionLaunch /\ db.launches[k].state = "intent"
      BY <1>2, <2>1 DEF CanMarkUnknown, HasLaunch, Store
    <2>3. d.launches[k] = [db.launches[k] EXCEPT !.state = "unknown"]
      BY <2>1 DEF MarkedUnknown, Store
    <2>4. d.launches[k].state = "unknown" /\ d.launches[k] # None
      BY <2>2, <2>3, NoneAssumption DEF ExecutionLaunch, LaunchState, Generation
    <2>5. ASSUME NEW b \in Answer, TrueOf(db, b)
          PROVE  ~(b.op = "mark" /\ b.key = k)
      BY <2>2, <2>5 DEF TrueOf, LaterLaunch
    <2>6. BeginImmediate(h) /\ StageLaunch(h, "mark", k, d)
      BY <1>2 DEF MarkExecutionLaunchUnknown
    <2> HIDE DEF d
    <2>7. QED
      BY <2>1, <2>4, <2>5, <2>6, StageLaunchKeepsIInv
  <1>3. QED
    BY <1>1, <1>2

\* record_execution_terminal_result keeps the invariant: a result is final.
LEMMA RecordKeepsIInv ==
  ASSUME IInv, NEW h \in Handle, NEW k \in Key, NEW c \in Hash, NEW x \in ExitCode,
         RecordExecutionTerminalResult(h, k, c, x)
  PROVE  IInv'
  <1> DEFINE d == TerminalRecorded(db, k, x)
  <1>1. CASE ~CanRecordTerminal(db, k, c)
    BY <1>1, RollBackKeepsIInv DEF RecordExecutionTerminalResult
  <1>2. CASE CanRecordTerminal(db, k, c)
    <2>1. db \in Store /\ ValidStore(db) /\ Sound(db, d)
      BY <1>2, RecordSound DEF IInv, TypeOK, StoreStaysValid
    <2>2. db.launches[k] \in ExecutionLaunch /\ db.launches[k].state = "unknown"
      BY <1>2, <2>1 DEF CanRecordTerminal, HasLaunch, Store
    <2>3. d.launches[k] = [db.launches[k] EXCEPT !.state = "terminal", !.exit_code = x]
      BY <2>1 DEF TerminalRecorded, Store
    <2>4. d.launches[k].state = "terminal" /\ d.launches[k] # None
      <3>1. d.launches[k] \in ExecutionLaunch
        BY <2>2, <2>3 DEF ExecutionLaunch, LaunchState
      <3>2. QED
        BY <2>2, <2>3, <3>1, NoneAssumption DEF ExecutionLaunch, LaunchState, Generation
    <2>5. ASSUME NEW b \in Answer, TrueOf(db, b)
          PROVE  ~(b.op = "record" /\ b.key = k)
      BY <2>2, <2>5 DEF TrueOf, LaterLaunch
    <2>6. BeginImmediate(h) /\ StageLaunch(h, "record", k, d)
      BY <1>2 DEF RecordExecutionTerminalResult
    <2> HIDE DEF d
    <2>7. QED
      BY <2>1, <2>4, <2>5, <2>6, StageLaunchKeepsIInv
  <1>3. QED
    BY <1>1, <1>2

\* A read that gives back a snapshot of the committed tables keeps the invariant.
LEMMA ReadKeepsIInv ==
  ASSUME IInv, NEW h \in Handle, Read(h)
  PROVE  IInv'
  <1>1. db \in Store /\ \A s \in Scope : db.generations[s] \in Nat
    BY MaxGenerationAssumption DEF IInv, TypeOK, Store, Generation
  <1>2. ASSUME NEW r \in Answer, r.op \notin Grants, TrueOf(db, r), Observe(h, r)
        PROVE  IInv'
    <2>1. /\ status[h] = "idle" /\ "idle" \in Status
          /\ status' = [status EXCEPT ![h] = "idle"]
          /\ ~HoldsWriteLock(h)
      BY <1>2 DEF IInv, TypeOK, Observe, Status, HoldsWriteLock
    <2>2. QED
      BY <1>2, <2>1, ObserveKeepsIInv DEF Observe
  <1>3. Refused \in Answer /\ Refused.op \notin Grants /\ TrueOf(db, Refused)
    BY PlainAnswers
  <1>4. ASSUME NEW s \in Scope, ReadGeneration(h, s)
        PROVE  IInv'
    <2> DEFINE r == [op |-> "read_generation", scope |-> s,
                     generation |-> db.generations[s]]
    <2>1. r \in Answer /\ r.op \notin Grants
      BY <1>1 DEF Answer, Store, Grants
    <2>2. db.generations[s] >= db.generations[s]
      BY <1>1
    <2>3. TrueOf(db, r)
      BY <2>2 DEF TrueOf
    <2>4. Observe(h, r)
      BY <1>4 DEF ReadGeneration
    <2> HIDE DEF r
    <2>5. QED
      BY <1>2, <2>1, <2>3, <2>4
  <1>5. ASSUME NEW s \in Scope, NEW g \in Generation, IsCurrentGeneration(h, s, g)
        PROVE  IInv'
    <2> DEFINE r == [op |-> "is_current", scope |-> s, generation |-> g,
                     holds |-> db.generations[s] = g]
    <2>1. r \in Answer /\ r.op \notin Grants
      BY DEF Answer, Grants
    <2>2. db.generations[s] = g => db.generations[s] >= g
      BY <1>1
    <2>3. TrueOf(db, r)
      BY <2>2 DEF TrueOf
    <2>4. Observe(h, r)
      BY <1>5 DEF IsCurrentGeneration
    <2> HIDE DEF r
    <2>5. QED
      BY <1>2, <2>1, <2>3, <2>4
  <1>6. ASSUME NEW k \in Key, ExecutionKeyExists(h, k)
        PROVE  IInv'
    <2> DEFINE r == [op |-> "exists", key |-> k, found |-> k \in db.keys]
    <2>1. r \in [op : {"exists"}, key : Key, found : BOOLEAN]
      OBVIOUS
    <2>2. r \in Answer /\ r.op \notin Grants
      BY <2>1 DEF Answer, Grants
    <2>3. r.found => k \in db.keys
      OBVIOUS
    <2>4. TrueOf(db, r)
      BY <2>3 DEF TrueOf
    <2>5. Observe(h, r)
      BY <1>6 DEF ExecutionKeyExists
    <2> HIDE DEF r
    <2>6. QED
      BY <1>2, <2>2, <2>4, <2>5
  <1>7. ASSUME NEW k \in Key, ReadCommandSpecHash(h, k)
        PROVE  IInv'
    <2> DEFINE r == [op |-> "read_hash", key |-> k, hash |-> db.bindings[k]]
    <2>1. r \in Answer /\ r.op \notin Grants /\ TrueOf(db, r)
      BY <1>1 DEF Answer, Store, Grants, TrueOf
    <2>2. Observe(h, r) \/ Observe(h, Refused)
      BY <1>7 DEF ReadCommandSpecHash, ObserveRegistered
    <2> HIDE DEF r
    <2>3. QED
      BY <1>2, <1>3, <2>1, <2>2
  <1>8. ASSUME NEW k \in Key, ReadExecutionAdmission(h, k)
        PROVE  IInv'
    <2> DEFINE r == [op |-> "read_admission", key |-> k, admission |-> db.admissions[k]]
    <2>1. r \in Answer /\ r.op \notin Grants /\ TrueOf(db, r)
      BY <1>1 DEF Answer, Store, Grants, TrueOf
    <2>2. Observe(h, r) \/ Observe(h, Refused)
      BY <1>8 DEF ReadExecutionAdmission, ObserveRegistered
    <2> HIDE DEF r
    <2>3. QED
      BY <1>2, <1>3, <2>1, <2>2
  <1>9. ASSUME NEW k \in Key, ReadExecutionLaunch(h, k)
        PROVE  IInv'
    <2> DEFINE r == [op |-> "read_launch", key |-> k, launch |-> db.launches[k]]
    <2>1. r \in Answer /\ r.op \notin Grants /\ TrueOf(db, r)
      BY <1>1 DEF Answer, Store, Grants, TrueOf, LaterLaunch
    <2>2. Observe(h, r) \/ Observe(h, Refused)
      BY <1>9 DEF ReadExecutionLaunch, ObserveRegistered
    <2> HIDE DEF r
    <2>3. QED
      BY <1>2, <1>3, <2>1, <2>2
  <1>10. QED
    BY <1>4, <1>5, <1>6, <1>7, <1>8, <1>9 DEF Read

\* Each way for a write transaction to end keeps the invariant.
LEMMA EndWriteKeepsIInv ==
  ASSUME IInv, NEW h \in Handle, EndWrite(h)
  PROVE  IInv'
  <1>1. CASE Commit(h)
    BY <1>1, CommitKeepsIInv
  <1>2. CASE CommitRaises(h)
    <2>1. CASE status[h] = "writing" /\ db' \in {db, draft[h]} /\ End(h, "poisoned", Uncertain)
      BY <2>1, EndKeepsIInv
    <2>2. CASE status[h] = "writing" /\ db' = draft[h] /\ End(h, "idle", Failed)
      BY <2>2, EndKeepsIInv
    <2>3. CASE RollBack(h, Failed)
      BY <2>3, RollBackKeepsIInv
    <2>4. QED
      BY <1>2, <2>1, <2>2, <2>3 DEF CommitRaises
  <1>3. CASE StatementRaises(h)
    BY <1>3, RollBackKeepsIInv DEF StatementRaises
  <1>4. CASE Abandon(h)
    <2>1. Failed \in Answer /\ Failed.op \notin Grants /\ TrueOf(db, Failed)
      BY PlainAnswers
    <2>2. TypeOK' /\ StoreStaysValid' /\ AnswersStayTrue'
      BY <1>4, <2>1 DEF IInv, TypeOK, StoreStaysValid, AnswersStayTrue, Abandon, Status
    <2>3. GrantsAreExclusive'
      BY <1>4, <2>1, NoGrant DEF IInv, TypeOK, GrantsAreExclusive, Abandon
    <2>4. \A w \in Handle : HoldsWriteLock(w)' <=> HoldsWriteLock(w)
      BY <1>4 DEF IInv, TypeOK, HoldsWriteLock, Abandon
    <2>5. OneWriter'
      BY <2>4 DEF IInv, OneWriter
    <2>6. \A w \in Handle : status'[w] # "writing"
      BY <1>4 DEF IInv, TypeOK, OneWriter, HoldsWriteLock, Abandon
    <2>7. DraftsAreSound'
      BY <2>6 DEF DraftsAreSound
    <2>8. QED
      BY <2>2, <2>3, <2>5, <2>7 DEF IInv
  <1>5. CASE DieInCommit(h)
    BY <1>5, EndKeepsIInv DEF DieInCommit
  <1>6. QED
    BY <1>1, <1>2, <1>3, <1>4, <1>5 DEF EndWrite

\* Every operation that writes keeps the invariant.
LEMMA WriteKeepsIInv ==
  ASSUME IInv, NEW h \in Handle, Write(h)
  PROVE  IInv'
  BY AcquireKeepsIInv, RegisterKeepsIInv, BindKeepsIInv, AdmitKeepsIInv, ClaimKeepsIInv,
     MarkKeepsIInv, RecordKeepsIInv DEF Write

\* Waiting, failing reads, opening and losing a handle keep the invariant.
LEMMA OtherStepsKeepIInv ==
  ASSUME IInv, NEW h \in Handle,
         \/ CallAfterAbandon(h) \/ Busy(h) \/ ReadRaises(h) \/ AbandonRead(h)
         \/ OpenExisting(h) \/ Close(h)
  PROVE  IInv'
  <1>1. CASE CallAfterAbandon(h) \/ ReadRaises(h)
    BY <1>1, RollBackKeepsIInv DEF CallAfterAbandon, ReadRaises
  <1>2. CASE OpenExisting(h) \/ Close(h)
    BY <1>2, EndKeepsIInv DEF OpenExisting, Close
  <1>3. CASE Busy(h) \/ AbandonRead(h)
    <2>1. Failed \in Answer /\ Failed.op \notin Grants /\ TrueOf(db, Failed)
      BY PlainAnswers
    <2>2. ~HoldsWriteLock(h) /\ status \in [Handle -> Status]
      BY <1>3 DEF IInv, TypeOK, Busy, AbandonRead, HoldsWriteLock
    <2>3. CASE Busy(h)
      <3>1. status' = [status EXCEPT ![h] = "idle"]
        BY <2>2, <2>3 DEF Busy
      <3>2. QED
        BY <2>1, <2>2, <2>3, <3>1, ObserveKeepsIInv DEF Busy, Status
    <2>4. CASE AbandonRead(h)
      BY <2>1, <2>2, <2>4, ObserveKeepsIInv DEF AbandonRead, Status
    <2>5. QED
      BY <1>3, <2>3, <2>4
  <1>4. QED
    BY <1>1, <1>2, <1>3

\* The invariant holds of a new store nobody has opened.
LEMMA InitIInv == Init => IInv
  <1> SUFFICES ASSUME Init PROVE IInv
    OBVIOUS
  <1>1. NoAnswer \in Answer /\ NoAnswer.op \notin Grants /\ TrueOf(db, NoAnswer)
    BY PlainAnswers
  <1>2. EmptyStore \in Store /\ ValidStore(EmptyStore)
    BY DEF EmptyStore, Store, ValidStore, BindingsValid, AdmissionsValid, LaunchesValid
  <1>3. TypeOK
    BY <1>1, <1>2 DEF Init, TypeOK, Status
  <1>4. StoreStaysValid /\ AnswersStayTrue
    BY <1>1, <1>2 DEF Init, StoreStaysValid, AnswersStayTrue
  <1>5. GrantsAreExclusive
    BY <1>1, NoGrant DEF Init, GrantsAreExclusive
  <1>6. OneWriter /\ DraftsAreSound
    BY DEF Init, OneWriter, HoldsWriteLock, DraftsAreSound
  <1>7. QED
    BY <1>3, <1>4, <1>5, <1>6 DEF IInv

\* Every step of every handle, a crash or a failed COMMIT included, keeps the
\* invariant.
LEMMA NextKeepsIInv == IInv /\ [Next]_vars => IInv'
  <1> SUFFICES ASSUME IInv, [Next]_vars PROVE IInv'
    OBVIOUS
  <1>1. CASE Next
    <2>1. PICK h \in Handle :
            \/ Write(h) \/ EndWrite(h) \/ Read(h)
            \/ CallAfterAbandon(h) \/ Busy(h) \/ ReadRaises(h) \/ AbandonRead(h)
            \/ OpenExisting(h) \/ Close(h)
      BY <1>1 DEF Next
    <2>2. QED
      BY <2>1, WriteKeepsIInv, EndWriteKeepsIInv, ReadKeepsIInv, OtherStepsKeepIInv
  <1>2. CASE UNCHANGED vars
    BY <1>2
    DEF vars, IInv, TypeOK, StoreStaysValid, AnswersStayTrue, GrantsAreExclusive,
        OneWriter, DraftsAreSound, HoldsWriteLock
  <1>3. QED
    BY <1>1, <1>2

-----------------------------------------------------------------------------
(* The theorems. *)

\* Every reachable state of the store and its handles has the invariant.
THEOREM StoreIsInvariant == Spec => []IInv
  BY InitIInv, NextKeepsIInv, PTL DEF Spec

\* The tables, transactions and answers keep their types: the generation of a
\* scope never leaves its 63 bits.
THEOREM StoreIsTyped == Spec => []TypeOK
  <1>1. IInv => TypeOK
    BY DEF IInv
  <1>2. QED
    BY <1>1, StoreIsInvariant, PTL

\* No sequence of operations, crashes and failed COMMITs reaches tables that
\* _validate_store refuses.
THEOREM StoreNeverLocksItselfOut == Spec => []StoreStaysValid
  <1>1. IInv => StoreStaysValid
    BY DEF IInv
  <1>2. QED
    BY <1>1, StoreIsInvariant, PTL

\* What any method of the store returned stays true of the durable tables.
THEOREM StoreAnswersStayTrue == Spec => []AnswersStayTrue
  <1>1. IInv => AnswersStayTrue
    BY DEF IInv
  <1>2. QED
    BY <1>1, StoreIsInvariant, PTL

\* acquire_generation, register, bind, admit, claim, mark and record never give
\* two handles the same thing.
THEOREM StoreGrantsAreExclusive == Spec => []GrantsAreExclusive
  <1>1. IInv => GrantsAreExclusive
    BY DEF IInv
  <1>2. QED
    BY <1>1, StoreIsInvariant, PTL

\* A step of the store leaves the committed tables alone or records one fact.
LEMMA StepRecords ==
  ASSUME IInv, [Next]_vars
  PROVE  db' = db \/ Ledger!Records(db, db')
  <1>1. \A h \in Handle : status[h] = "writing" =>
          draft[h] = db \/ Ledger!Records(db, draft[h])
    BY DEF IInv, DraftsAreSound, Sound
  <1>2. ASSUME NEW h \in Handle, Write(h)
        PROVE  db' = db
    BY <1>2
    DEF Write, AcquireGeneration, RegisterExecutionKey, BindCommandSpecHash,
        AdmitExecution, ClaimExecutionLaunch, MarkExecutionLaunchUnknown,
        RecordExecutionTerminalResult, StageLaunch, Stage, RollBack
  <1>3. ASSUME NEW h \in Handle, EndWrite(h)
        PROVE  db' = db \/ (status[h] = "writing" /\ db' = draft[h])
    BY <1>3 DEF EndWrite, Commit, CommitRaises, StatementRaises, Abandon, DieInCommit, RollBack
  <1>4. ASSUME NEW h \in Handle,
               \/ Read(h) \/ CallAfterAbandon(h) \/ Busy(h) \/ ReadRaises(h)
               \/ AbandonRead(h) \/ OpenExisting(h) \/ Close(h)
        PROVE  db' = db
    BY <1>4
    DEF Read, ReadGeneration, IsCurrentGeneration, ExecutionKeyExists,
        ReadCommandSpecHash, ReadExecutionAdmission, ReadExecutionLaunch,
        ObserveRegistered, Observe, CallAfterAbandon, Busy, ReadRaises, AbandonRead,
        OpenExisting, Close, RollBack
  <1>5. QED
    BY <1>1, <1>2, <1>3, <1>4 DEF Next, vars

\* The store implements the append-only ledger: at each step one fact is
\* recorded under the fence then current, or nothing durable happens.
THEOREM StoreImplementsLedger == Spec => ImplementsLedger
  <1>1. Init => db = Ledger!EmptyStore
    BY DEF Init, EmptyStore, Ledger!EmptyStore
  <1>2. IInv /\ [Next]_vars => [Ledger!Records(db, db')]_db
    BY StepRecords
  <1>3. QED
    BY <1>1, <1>2, StoreIsInvariant, PTL DEF Spec, ImplementsLedger, Ledger!LedgerSpec
=============================================================================
