----------------------- MODULE WorkGraphClientProofs -----------------------
(***************************************************************************)
(* Proofs about WorkGraphClient.tla, for every number of client processes, *)
(* revisions, contracts, commands and generations: one authorized wrapper  *)
(* per key, no red status without a recorded failure, no authority from a  *)
(* store that has no generation, and the refinement of LaunchAuthority;    *)
(* where the clients of a key do not overlap, stages run on the verified   *)
(* tree and green means validated; and the keys themselves                 *)
(* (ExecutionIdentity.tla) and the canonical bytes of the commands         *)
(* (CommandIdentity.tla), which are injective.                             *)
(***************************************************************************)
EXTENDS WorkGraphClient, ExecutionIdentity, CommandIdentity, AuthorityTablesProofs, FiniteSetTheorems,
        SequenceTheorems, WellFoundedInduction

\* The phases in which a client owns the launch row of its key.
Owning == {"mark", "launch", "waiting", "record"}

\* The phases from the checks of the built command on.
WithCommand == {"preflight", "contract", "verify", "register", "bind", "generation",
                "admission", "admit", "claim"} \cup Owning

\* What a client in phase ph with the local variables l knows of the tables d
\* and the wrappers w.
Knows(ph, l, d, w) ==
  /\ ph \notin {"idle", "acquiring"} => l.key \in Key
  /\ ph \in WithCommand => l.hash \in Hash
  /\ ph \in {"admission", "admit", "claim"} => l.generation \in Generation
  /\ ph \in Owning => d.launches[l.key] # None
  /\ ph \in {"mark", "launch"} => w[l.key].started = 0
  /\ ph = "waiting" => w[l.key].at \in {"verifying", "stage1", "stage2", "exited"}
  /\ ph = "record" => l.code \in ExitCode
  /\ ph = "publish" => /\ d.launches[l.key] # None
                       /\ d.launches[l.key].state = "terminal"
                       /\ d.launches[l.key].exit_code = l.code

\* A launched wrapper has a launch row, and was launched once.
Launched(d, w) == \A k \in Key :
  /\ w[k].started <= 1
  /\ w[k].started # 0 => d.launches[k] # None
  /\ w[k].at = "exited" => w[k].code \in ExitCode

Recorded(st, d) ==
  \A r \in Revision : st[r] = "failure" =>
    \E c \in Contract :
      LET l == d.launches[<<r, c>>] IN
      l # None /\ l.state = "terminal" /\ l.exit_code # 0

\* Without a generation there is neither an admission nor a launch row.
Granted(d) == d.generations[scope] = 0 =>
  \A k \in Key : d.admissions[k] = None /\ d.launches[k] = None

Sole == \A p, q \in Client : p # q /\ phase[p] \in Owning /\ phase[q] \in Owning =>
  local[p].key # local[q].key

\* The inductive invariant.
IInv ==
  /\ TypeOK
  /\ ValidStore(db)
  /\ \A p \in Client : Knows(phase[p], local[p], db, wrapper)
  /\ Sole
  /\ Launched(db, wrapper)
  /\ Recorded(statuses, db)
  /\ Granted(db)

\* The tables e follow the tables d: launch rows stay, terminal ones as they are.
Follows(d, e) ==
  \A k \in Key : d.launches[k] # None =>
    /\ e.launches[k] # None
    /\ d.launches[k].state = "terminal" => e.launches[k] = d.launches[k]

\* The variables besides those of the clients, the tables and the wrappers.
OthersTyped ==
  /\ ready \in BOOLEAN
  /\ contract \in Contract \cup {None}
  /\ host \in Hash
  /\ tree \in [Key -> TreeState]
  /\ statuses \in [Revision -> {"none", "success", "failure"}]

-----------------------------------------------------------------------------
(* Steps in general. *)

\* What a client knows outlives every change of the tables.
LEMMA KnowledgeStays ==
  ASSUME NEW ph, NEW l, NEW d, NEW e, NEW w, Knows(ph, l, d, w), Follows(d, e)
  PROVE  Knows(ph, l, e, w)
  BY DEF Knows, Follows, Owning

\* So does what makes a commit red.
LEMMA RedStays ==
  ASSUME NEW st, NEW d, NEW e, Recorded(st, d), Follows(d, e)
  PROVE  Recorded(st, e)
  <1>1. SUFFICES ASSUME NEW r \in Revision, st[r] = "failure"
                 PROVE  \E c \in Contract :
                          LET l == e.launches[<<r, c>>] IN
                          l # None /\ l.state = "terminal" /\ l.exit_code # 0
    BY DEF Recorded
  <1>2. PICK c \in Contract :
          LET l == d.launches[<<r, c>>] IN
          l # None /\ l.state = "terminal" /\ l.exit_code # 0
    BY <1>1 DEF Recorded
  <1>3. <<r, c>> \in Key
    BY KeyAssumption
  <1>4. e.launches[<<r, c>>] = d.launches[<<r, c>>]
    BY <1>2, <1>3 DEF Follows
  <1>5. QED
    BY <1>2, <1>4

\* A step of client p to phase ph with local variables l, tables d and wrappers w.
ClientStep(p, ph, l, d, w) ==
  /\ phase' = [phase EXCEPT ![p] = ph] /\ local' = [local EXCEPT ![p] = l]
  /\ db' = d /\ wrapper' = w
  /\ ph \in Phase /\ l \in Local /\ d \in Store /\ w \in [Key -> Wrapper]
  /\ Knows(ph, l, d, w)
  /\ ph \in Owning =>
       \A q \in Client \ {p} : phase[q] \in Owning => local[q].key # l.key

\* Such a step keeps the invariant, if the rest of it does.
LEMMA ClientStepKeepsIInv ==
  ASSUME IInv, NEW p \in Client, NEW ph, NEW l, NEW d, NEW w,
         ClientStep(p, ph, l, d, w), OthersTyped',
         ValidStore(d), Follows(db, d), Granted(d), Launched(d, w), Recorded(statuses', d),
         \A q \in Client \ {p} : Knows(phase[q], local[q], db, w)
  PROVE  IInv'
  <1> USE DEF ClientStep
  <1>1. TypeOK'
    BY DEF IInv, TypeOK, OthersTyped
  <1>2. phase'[p] = ph /\ local'[p] = l
    BY DEF IInv, TypeOK
  <1>3. \A q \in Client \ {p} : phase'[q] = phase[q] /\ local'[q] = local[q]
    BY DEF IInv, TypeOK
  <1>4. \A q \in Client : Knows(phase'[q], local'[q], d, w)
    <2>1. ASSUME NEW q \in Client \ {p} PROVE Knows(phase'[q], local'[q], d, w)
      BY <1>3, <2>1, KnowledgeStays
    <2>2. QED
      BY <1>2, <2>1
  <1>5. Sole'
    BY <1>2, <1>3 DEF IInv, Sole
  <1>6. QED
    BY <1>1, <1>4, <1>5 DEF IInv

\* A step that changes only the client's own variables, and makes it no owner.
LEMMA QuietStepKeepsIInv ==
  ASSUME IInv, NEW p \in Client, NEW ph \in Phase, NEW l \in Local,
         phase' = [phase EXCEPT ![p] = ph], local' = [local EXCEPT ![p] = l],
         UNCHANGED <<db, wrapper, statuses>>, OthersTyped',
         Knows(ph, l, db, wrapper),
         ph \in Owning => phase[p] \in Owning /\ l.key = local[p].key
  PROVE  IInv'
  <1>1. ClientStep(p, ph, l, db, wrapper)
    BY DEF ClientStep, IInv, TypeOK, Sole
  <1>2. Follows(db, db)
    BY DEF Follows
  <1>3. QED
    BY <1>1, <1>2, ClientStepKeepsIInv DEF IInv

\* The end of a run, whatever else it leaves alone.
LEMMA FinishKeepsIInv ==
  ASSUME IInv, NEW p \in Client, Finish(p), UNCHANGED <<db, wrapper, statuses>>, OthersTyped'
  PROVE  IInv'
  <1>1. NoLocal \in Local /\ Knows("idle", NoLocal, db, wrapper)
    BY DEF Local, NoLocal, Knows, Owning, WithCommand
  <1>2. "idle" \in Phase /\ "idle" \notin Owning
    BY DEF Phase, Owning
  <1>3. QED
    BY <1>1, <1>2, QuietStepKeepsIInv DEF Finish, Goto, Set

\* A step of the client to a phase in which it owns nothing and has its key.
LEMMA GoOnKeepsIInv ==
  ASSUME IInv, NEW p \in Client, NEW ph \in Phase \ Owning, Goto(p, ph), UNCHANGED local,
         UNCHANGED <<db, wrapper, statuses>>, OthersTyped',
         Knows(ph, local[p], db, wrapper)
  PROVE  IInv'
  <1>1. local[p] \in Local /\ local' = [local EXCEPT ![p] = local[p]]
    BY DEF IInv, TypeOK
  <1>2. QED
    BY <1>1, QuietStepKeepsIInv DEF Goto

-----------------------------------------------------------------------------
(* The steps before the store decides. *)

\* The steps up to the checkout.
LEMMA LookingKeepsIInv ==
  ASSUME IInv, NEW p \in Client,
         \/ InitializeStore(p) \/ StartRun(p) \/ LookUp(p) \/ ReadPriorLaunch(p)
  PROVE  IInv'
  <1>1. local[p] \in Local /\ Knows(phase[p], local[p], db, wrapper)
    BY DEF IInv, TypeOK
  <1>2. CASE InitializeStore(p)
    <2>1. Knows("acquiring", local[p], db, wrapper) /\ "acquiring" \in Phase \ Owning
      BY DEF Knows, Owning, WithCommand, Phase
    <2>2. OthersTyped'
      BY <1>2 DEF InitializeStore, IInv, TypeOK, OthersTyped
    <2>3. QED
      BY <1>2, <2>1, <2>2, GoOnKeepsIInv DEF InitializeStore
  <1>3. CASE StartRun(p)
    <2>1. OthersTyped'
      BY <1>3 DEF StartRun, IInv, TypeOK, OthersTyped
    <2>2. PICK r \in Revision : Set(p, [NoLocal EXCEPT !.key = <<r, contract>>])
      BY <1>3 DEF StartRun
    <2> DEFINE l == [NoLocal EXCEPT !.key = <<r, contract>>]
    <2>3. <<r, contract>> \in Key
      BY <1>3, KeyAssumption DEF StartRun, IInv, TypeOK
    <2>4. l \in Local /\ l.key \in Key
      BY <2>3 DEF NoLocal, Local
    <2>5. "looking" \in Phase \ Owning /\ Knows("looking", l, db, wrapper)
      BY <2>4 DEF Knows, Owning, WithCommand, Phase
    <2>6. QED
      BY <1>3, <2>1, <2>2, <2>4, <2>5, QuietStepKeepsIInv DEF StartRun, Goto, Set
  <1>4. CASE LookUp(p)
    <2> DEFINE known == key(p) \in db.keys
               l == [local[p] EXCEPT !.exists = known]
               ph == IF known THEN "reading" ELSE "removing"
    <2>1. OthersTyped'
      BY <1>4 DEF LookUp, IInv, TypeOK, OthersTyped
    <2>2. l \in Local /\ l.key = local[p].key
      <3>1. \A b \in BOOLEAN : /\ [local[p] EXCEPT !.exists = b] \in Local
                               /\ [local[p] EXCEPT !.exists = b].key = local[p].key
        BY <1>1 DEF Local
      <3>2. known \in BOOLEAN
        OBVIOUS
      <3>3. QED
        BY <3>1, <3>2
    <2>3. l.key \in Key
      BY <1>1, <1>4, <2>2 DEF LookUp, At, Knows
    <2>4. ph \in Phase \ Owning /\ Knows(ph, l, db, wrapper)
      BY <2>3 DEF Knows, Owning, WithCommand, Phase
    <2>5. local' = [local EXCEPT ![p] = l]
      BY <1>4 DEF LookUp, IInv, TypeOK
    <2>6. phase' = [phase EXCEPT ![p] = ph] /\ UNCHANGED <<db, wrapper, statuses>>
      BY <1>4 DEF LookUp, Goto
    <2> HIDE DEF l, ph
    <2>7. QED
      BY <2>1, <2>2, <2>4, <2>5, <2>6, QuietStepKeepsIInv
  <1>5. CASE ReadPriorLaunch(p)
    <2>1. OthersTyped' /\ UNCHANGED <<db, wrapper, statuses>>
      BY <1>5 DEF ReadPriorLaunch, IInv, TypeOK, OthersTyped
    <2>2. local[p].key \in Key
      BY <1>1, <1>5 DEF ReadPriorLaunch, At, Knows
    <2>3. CASE Goto(p, "removing") /\ UNCHANGED local
      <3>1. Knows("removing", local[p], db, wrapper) /\ "removing" \in Phase \ Owning
        BY <2>2 DEF Knows, Owning, WithCommand, Phase
      <3>2. QED
        BY <2>1, <2>3, <3>1, GoOnKeepsIInv
    <2>4. CASE Finish(p)
      BY <2>1, <2>4, FinishKeepsIInv
    <2> DEFINE row == db.launches[key(p)]
               l == [local[p] EXCEPT !.code = row.exit_code]
    <2>5. CASE /\ row # None /\ row.state = "terminal"
               /\ local' = [local EXCEPT ![p].code = row.exit_code]
               /\ Goto(p, "publish")
      <3>1. row \in ExecutionLaunch
        BY <2>2, <2>5 DEF IInv, TypeOK, Store, key
      <3>2. row.exit_code \in ExitCode \cup {None}
        BY <3>1 DEF ExecutionLaunch
      <3>3. l \in Local /\ l.key = local[p].key /\ l.code = row.exit_code
        BY <1>1, <3>2 DEF Local
      <3>4. local' = [local EXCEPT ![p] = l]
        BY <2>5 DEF IInv, TypeOK
      <3>5. "publish" \in Phase \ Owning /\ Knows("publish", l, db, wrapper)
        BY <2>2, <2>5, <3>3 DEF Knows, Owning, WithCommand, Phase, key
      <3>6. phase' = [phase EXCEPT ![p] = "publish"]
        BY <2>5 DEF Goto
      <3> HIDE DEF l
      <3>7. QED
        BY <2>1, <3>3, <3>4, <3>5, <3>6, QuietStepKeepsIInv
    <2>6. QED
      BY <1>5, <2>3, <2>4, <2>5 DEF ReadPriorLaunch
  <1>6. QED
    BY <1>2, <1>3, <1>4, <1>5

\* The steps of prepare_exact_checkout, and the checks of what it prepared.
LEMMA CheckoutKeepsIInv ==
  ASSUME IInv, NEW p \in Client,
         \/ RemoveCheckout(p) \/ ClearCheckout(p) \/ CloneCheckout(p)
         \/ CheckOutRevision(p) \/ VerifyPreparedCheckout(p) \/ Preflight(p)
         \/ RecheckContract(p) \/ RecheckCheckout(p) \/ ReadAdmission(p)
  PROVE  IInv'
  <1>1. local[p] \in Local /\ Knows(phase[p], local[p], db, wrapper)
    BY DEF IInv, TypeOK
  <1>2. CASE RemoveCheckout(p) \/ ClearCheckout(p) \/ CloneCheckout(p) \/ CheckOutRevision(p)
    <2>1. OthersTyped' /\ UNCHANGED <<db, wrapper, statuses, local>>
      BY <1>2
      DEF RemoveCheckout, ClearCheckout, CloneCheckout, CheckOutRevision, IInv, TypeOK,
          OthersTyped, TreeState
    <2>2. local[p].key \in Key
      BY <1>1, <1>2
      DEF RemoveCheckout, ClearCheckout, CloneCheckout, CheckOutRevision, At, Knows
    <2>3. PICK ph \in {"cloning", "clearing", "checkout", "preparing"} : Goto(p, ph)
      BY <1>2 DEF RemoveCheckout, ClearCheckout, CloneCheckout, CheckOutRevision
    <2>4. ph \in Phase \ Owning /\ Knows(ph, local[p], db, wrapper)
      BY <2>2 DEF Knows, Owning, WithCommand, Phase
    <2>5. QED
      BY <2>1, <2>3, <2>4, GoOnKeepsIInv
  <1>3. CASE VerifyPreparedCheckout(p)
    <2> DEFINE l == [local[p] EXCEPT !.hash = host]
    <2>1. OthersTyped' /\ UNCHANGED <<db, wrapper, statuses>>
      BY <1>3 DEF VerifyPreparedCheckout, IInv, TypeOK, OthersTyped
    <2>2. host \in Hash
      BY DEF IInv, TypeOK
    <2>3. l \in Local /\ l.key = local[p].key /\ l.hash \in Hash
      BY <1>1, <2>2 DEF Local
    <2>4. local[p].key \in Key
      BY <1>1, <1>3 DEF VerifyPreparedCheckout, At, Knows
    <2>5. "preflight" \in Phase \ Owning /\ Knows("preflight", l, db, wrapper)
      BY <2>3, <2>4 DEF Knows, Owning, WithCommand, Phase
    <2>6. local' = [local EXCEPT ![p] = l] /\ phase' = [phase EXCEPT ![p] = "preflight"]
      BY <1>3 DEF VerifyPreparedCheckout, Goto, IInv, TypeOK
    <2> HIDE DEF l
    <2>7. QED
      BY <2>1, <2>3, <2>5, <2>6, QuietStepKeepsIInv
  <1>4. CASE Preflight(p) \/ RecheckContract(p) \/ RecheckCheckout(p) \/ ReadAdmission(p)
    <2>1. OthersTyped' /\ UNCHANGED <<db, wrapper, statuses, local>>
      BY <1>4 DEF Preflight, RecheckContract, RecheckCheckout, ReadAdmission, Check, IInv,
                  TypeOK, OthersTyped
    <2>2. CASE Preflight(p) \/ RecheckContract(p) \/ RecheckCheckout(p)
      <3>1. local[p].key \in Key /\ local[p].hash \in Hash
        BY <1>1, <2>2
        DEF Preflight, RecheckContract, RecheckCheckout, Check, At, Knows, WithCommand
      <3>2. PICK ph \in {"contract", "verify", "bind", "register"} : Goto(p, ph)
        BY <2>2 DEF Preflight, RecheckContract, RecheckCheckout, Check
      <3>3. ph \in Phase \ Owning /\ Knows(ph, local[p], db, wrapper)
        BY <3>1 DEF Knows, Owning, WithCommand, Phase
      <3>4. QED
        BY <2>1, <3>2, <3>3, GoOnKeepsIInv
    <2>3. CASE ReadAdmission(p)
      <3>1. /\ local[p].key \in Key /\ local[p].hash \in Hash
            /\ local[p].generation \in Generation
        BY <1>1, <2>3 DEF ReadAdmission, Check, At, Knows, WithCommand
      <3>2. PICK ph \in {"admit", "claim"} : Goto(p, ph)
        BY <2>3 DEF ReadAdmission, Check
      <3>3. ph \in Phase \ Owning /\ Knows(ph, local[p], db, wrapper)
        BY <3>1 DEF Knows, Owning, WithCommand, Phase
      <3>4. QED
        BY <2>1, <3>2, <3>3, GoOnKeepsIInv
    <2>4. QED
      BY <1>4, <2>2, <2>3
  <1>5. QED
    BY <1>2, <1>3, <1>4

\* The generation that is read is the store's current one, and there is one.
LEMMA ReadGenerationKeepsIInv ==
  ASSUME IInv, NEW p \in Client, ReadGeneration(p)
  PROVE  IInv'
  <1> DEFINE l == [local[p] EXCEPT !.generation = db.generations[scope]]
  <1>1. local[p] \in Local /\ Knows("generation", local[p], db, wrapper)
    BY DEF IInv, TypeOK, ReadGeneration, At
  <1>2. OthersTyped' /\ UNCHANGED <<db, wrapper, statuses>>
    BY DEF ReadGeneration, IInv, TypeOK, OthersTyped
  <1>3. scope \in Scope
    BY ScopeAssumption DEF scope
  <1>4. db.generations[scope] \in Generation
    BY <1>3 DEF ReadGeneration, IInv, TypeOK, Store
  <1>5. /\ l \in Local /\ l.key = local[p].key /\ l.hash = local[p].hash
        /\ l.generation \in Generation
    BY <1>1, <1>4 DEF Local
  <1>6. "admission" \in Phase \ Owning /\ Knows("admission", l, db, wrapper)
    BY <1>1, <1>5 DEF Knows, Owning, WithCommand, Phase
  <1>7. local' = [local EXCEPT ![p] = l] /\ phase' = [phase EXCEPT ![p] = "admission"]
    BY DEF ReadGeneration, Goto, IInv, TypeOK
  <1> HIDE DEF l
  <1>8. QED
    BY <1>2, <1>5, <1>6, <1>7, QuietStepKeepsIInv

-----------------------------------------------------------------------------
(* The store calls. *)

\* A store call that leaves the tables d and goes on to phase next, or raises
\* although it was committed.
LEMMA CallKeepsIInv ==
  ASSUME IInv, NEW p \in Client, NEW ph, NEW allowed \in BOOLEAN, NEW d, NEW next \in Phase,
         Call(p, ph, allowed, d, next), d \in Store, ValidStore(d), Follows(db, d), Granted(d),
         Knows(next, local[p], d, wrapper),
         next \in Owning =>
           \A q \in Client \ {p} : phase[q] \in Owning => local[q].key # local[p].key
  PROVE  IInv'
  <1>1. OthersTyped' /\ db' = d /\ wrapper' = wrapper /\ statuses' = statuses
    BY DEF Call, OthersTyped, IInv, TypeOK
  <1>2. Launched(d, wrapper)
    BY DEF IInv, Launched, Follows
  <1>3. Recorded(statuses', d)
    BY <1>1, RedStays DEF IInv
  <1>4. \A q \in Client \ {p} : Knows(phase[q], local[q], db, wrapper)
    BY DEF IInv
  <1>5. wrapper \in [Key -> Wrapper] /\ local[p] \in Local
    BY DEF IInv, TypeOK
  <1>6. CASE Goto(p, next) /\ UNCHANGED local
    <2>1. local' = [local EXCEPT ![p] = local[p]]
      BY <1>6 DEF IInv, TypeOK
    <2>2. ClientStep(p, next, local[p], d, wrapper)
      BY <1>1, <1>5, <1>6, <2>1 DEF ClientStep, Goto
    <2>3. QED
      BY <1>1, <1>2, <1>3, <1>4, <2>2, ClientStepKeepsIInv
  <1>7. CASE Finish(p)
    <2>1. NoLocal \in Local /\ Knows("idle", NoLocal, d, wrapper) /\ "idle" \in Phase
      BY DEF Local, NoLocal, Knows, Owning, WithCommand, Phase
    <2>2. ClientStep(p, "idle", NoLocal, d, wrapper)
      BY <1>1, <1>5, <1>7, <2>1 DEF ClientStep, Finish, Goto, Set, Owning
    <2>3. QED
      BY <1>1, <1>2, <1>3, <1>4, <2>2, ClientStepKeepsIInv
  <1>8. QED
    BY <1>6, <1>7 DEF Call

\* The calls before the claim leave the launch rows alone.
LEMMA PreparingCallsKeepIInv ==
  ASSUME IInv, NEW p \in Client,
         AcquireFirstGeneration(p) \/ Register(p) \/ Bind(p) \/ Admit(p)
  PROVE  IInv'
  <1> DEFINE l == local[p]
             k == l.key
  <1>1. db \in Store /\ ValidStore(db) /\ Granted(db)
    BY DEF IInv, TypeOK
  <1>2. l \in Local /\ Knows(phase[p], l, db, wrapper)
    BY DEF IInv, TypeOK
  <1>3. scope \in Scope
    BY ScopeAssumption DEF scope
  <1>4. CASE AcquireFirstGeneration(p)
    <2> DEFINE d == Acquired(db, scope)
    <2>1. CanAcquire(db, scope) /\ Call(p, "acquiring", TRUE, d, "idle")
      BY <1>4 DEF AcquireFirstGeneration, Call
    <2>2. d \in Store /\ ValidStore(d) /\ db.generations[scope] \in Nat
      BY <1>1, <1>3, <2>1, AcquiredIsValid
    <2>3. d.launches = db.launches /\ d.generations[scope] = db.generations[scope] + 1
      BY <1>1, <1>3 DEF Acquired, Store
    <2>4. Follows(db, d) /\ Granted(d)
      BY <2>2, <2>3 DEF Follows, Granted
    <2>5. "idle" \in Phase \ Owning /\ Knows("idle", l, d, wrapper)
      BY DEF Knows, Owning, WithCommand, Phase
    <2> HIDE DEF d
    <2>6. QED
      BY <2>1, <2>2, <2>4, <2>5, CallKeepsIInv
  <1>5. CASE Register(p)
    <2> DEFINE d == Registered(db, k)
    <2>1. Call(p, "register", TRUE, d, "bind") /\ phase[p] = "register"
      BY <1>5 DEF Register, Call, key, At
    <2>2. k \in Key /\ l.hash \in Hash
      BY <1>2, <2>1 DEF Knows, WithCommand
    <2>3. d \in Store /\ ValidStore(d)
      BY <1>1, <2>2, RegisteredIsValid
    <2>4. /\ d.launches = db.launches /\ d.generations = db.generations
          /\ d.admissions = db.admissions
      BY <1>1 DEF Registered, Store
    <2>5. Follows(db, d) /\ Granted(d)
      BY <1>1, <2>4 DEF Follows, Granted
    <2>6. "bind" \in Phase \ Owning /\ Knows("bind", l, d, wrapper)
      BY <2>2 DEF Knows, Owning, WithCommand, Phase
    <2> HIDE DEF d
    <2>7. QED
      BY <2>1, <2>3, <2>5, <2>6, CallKeepsIInv
  <1>6. CASE Bind(p)
    <2> DEFINE d == Bound(db, k, l.hash)
    <2>1. /\ CanBind(db, k, l.hash) /\ phase[p] = "bind"
          /\ Call(p, "bind", TRUE, d, "generation")
      BY <1>6 DEF Bind, Call, At
    <2>2. k \in Key /\ l.hash \in Hash
      BY <1>2, <2>1 DEF Knows, WithCommand
    <2>3. d \in Store /\ ValidStore(d)
      BY <1>1, <2>1, <2>2, BoundIsValid
    <2>4. /\ d.launches = db.launches /\ d.generations = db.generations
          /\ d.admissions = db.admissions
      BY <1>1 DEF Bound, Store
    <2>5. Follows(db, d) /\ Granted(d)
      BY <1>1, <2>4 DEF Follows, Granted
    <2>6. "generation" \in Phase \ Owning /\ Knows("generation", l, d, wrapper)
      BY <2>2 DEF Knows, Owning, WithCommand, Phase
    <2> HIDE DEF d
    <2>7. QED
      BY <2>1, <2>3, <2>5, <2>6, CallKeepsIInv
  <1>7. CASE Admit(p)
    <2> DEFINE d == Admitted(db, k, scope, l.generation)
    <2>1. /\ CanAdmit(db, k, scope, l.generation) /\ phase[p] = "admit"
          /\ Call(p, "admit", TRUE, d, "claim")
      BY <1>7 DEF Admit, Call, At
    <2>2. k \in Key /\ l.hash \in Hash /\ l.generation \in Generation
      BY <1>2, <2>1 DEF Knows, WithCommand
    <2>3. d \in Store /\ ValidStore(d)
      BY <1>1, <1>3, <2>1, <2>2, AdmittedIsValid
    <2>4. d.launches = db.launches /\ d.generations = db.generations
      BY <1>1 DEF Admitted, Store
    <2>5. d.generations[scope] # 0
      BY <2>1, <2>2, <2>4, MaxGenerationAssumption DEF CanAdmit, Generation
    <2>6. Follows(db, d) /\ Granted(d)
      BY <2>4, <2>5 DEF Follows, Granted
    <2>7. "claim" \in Phase \ Owning /\ Knows("claim", l, d, wrapper)
      BY <2>2 DEF Knows, Owning, WithCommand, Phase
    <2> HIDE DEF d
    <2>8. QED
      BY <2>1, <2>3, <2>6, <2>7, CallKeepsIInv
  <1>8. QED
    BY <1>4, <1>5, <1>6, <1>7

\* The claim finds no launch row: nobody else owns the key, nothing was launched.
LEMMA ClaimKeepsIInv ==
  ASSUME IInv, NEW p \in Client, Claim(p)
  PROVE  IInv'
  <1> DEFINE l == local[p]
             k == l.key
             d == Claimed(db, k, scope, l.generation, l.hash)
             row == [hash |-> l.hash, scope |-> scope, generation |-> l.generation,
                     state |-> "intent", exit_code |-> None]
  <1>1. /\ CanClaim(db, k, scope, l.generation, l.hash) /\ phase[p] = "claim"
        /\ Call(p, "claim", TRUE, d, "mark")
    BY DEF Claim, Call, At
  <1>2. Knows("claim", l, db, wrapper) /\ db \in Store /\ ValidStore(db)
    BY <1>1 DEF IInv, TypeOK
  <1>3. k \in Key /\ l.hash \in Hash /\ l.generation \in Generation
    BY <1>2 DEF Knows, WithCommand
  <1>4. scope \in Scope
    BY ScopeAssumption DEF scope
  <1>5. /\ d \in Store /\ ValidStore(d) /\ row # None
        /\ d = [db EXCEPT !.launches = [db.launches EXCEPT ![k] = row]]
    BY <1>1, <1>2, <1>3, <1>4, ClaimedIsValid
  <1> HIDE DEF row, d
  <1>6. /\ d.launches = [db.launches EXCEPT ![k] = row]
        /\ d.generations = db.generations /\ db.launches[k] = None
    BY <1>1, <1>2, <1>5 DEF Store, CanClaim
  <1>7. d.launches[k] # None /\ \A j \in Key \ {k} : d.launches[j] = db.launches[j]
    BY <1>2, <1>3, <1>5, <1>6 DEF Store
  <1>8. Follows(db, d)
    BY <1>6, <1>7 DEF Follows
  <1>9. Granted(d)
    <2>1. d.generations[scope] # 0
      BY <1>1, <1>3, <1>6, MaxGenerationAssumption DEF CanClaim, Generation
    <2>2. QED
      BY <2>1 DEF Granted
  <1>10. wrapper[k].started = 0
    BY <1>3, <1>6 DEF IInv, Launched
  <1>11. "mark" \in Phase /\ Knows("mark", l, d, wrapper)
    BY <1>3, <1>7, <1>10 DEF Knows, Owning, WithCommand, Phase
  <1>12. \A q \in Client \ {p} : phase[q] \in Owning => local[q].key # k
    BY <1>6 DEF IInv, Knows
  <1>13. QED
    BY <1>1, <1>5, <1>8, <1>9, <1>11, <1>12, CallKeepsIInv

\* The owner moves its row on.
LEMMA OwnerCallsKeepIInv ==
  ASSUME IInv, NEW p \in Client, MarkUnknown(p) \/ Record(p)
  PROVE  IInv'
  <1> DEFINE l == local[p]
             k == l.key
  <1>1. l \in Local /\ Knows(phase[p], l, db, wrapper) /\ phase[p] \in {"mark", "record"}
    BY DEF IInv, TypeOK, MarkUnknown, Record, Call, At
  <1>2. db \in Store /\ ValidStore(db) /\ Granted(db)
    BY DEF IInv, TypeOK
  <1>3. k \in Key /\ l.hash \in Hash /\ db.launches[k] # None
    BY <1>1 DEF Knows, WithCommand, Owning
  <1>4. \A q \in Client \ {p} : phase[q] \in Owning => local[q].key # k
    BY <1>1 DEF IInv, Sole, Owning
  <1>5. ASSUME NEW d \in Store, NEW row, row # None, db.launches[k].state # "terminal",
               d = [db EXCEPT !.launches = [db.launches EXCEPT ![k] = row]]
        PROVE  /\ Follows(db, d) /\ Granted(d)
               /\ d.launches[k] = row
    <2>1. /\ d.launches = [db.launches EXCEPT ![k] = row]
          /\ d.generations = db.generations /\ d.admissions = db.admissions
      BY <1>2, <1>5 DEF Store
    <2>2. d.launches[k] = row /\ \A j \in Key \ {k} : d.launches[j] = db.launches[j]
      BY <1>2, <1>3, <2>1 DEF Store
    <2>3. Follows(db, d)
      BY <1>5, <2>2 DEF Follows
    <2>4. Granted(d)
      BY <1>2, <1>3, <2>1 DEF Granted
    <2>5. QED
      BY <2>2, <2>3, <2>4
  <1>6. CASE MarkUnknown(p)
    <2> DEFINE d == MarkedUnknown(db, k)
               row == [db.launches[k] EXCEPT !.state = "unknown"]
    <2>1. /\ CanMarkUnknown(db, k, l.hash) /\ phase[p] = "mark"
          /\ Call(p, "mark", TRUE, d, "launch")
      BY <1>6 DEF MarkUnknown, Call, At
    <2>2. /\ d \in Store /\ ValidStore(d) /\ row # None
          /\ d = [db EXCEPT !.launches = [db.launches EXCEPT ![k] = row]]
      BY <1>2, <1>3, <2>1, MarkedIsValid
    <2>3. db.launches[k].state # "terminal"
      BY <2>1 DEF CanMarkUnknown, HasLaunch
    <2> HIDE DEF d, row
    <2>4. Follows(db, d) /\ Granted(d) /\ d.launches[k] # None
      BY <1>5, <2>2, <2>3
    <2>5. wrapper[k].started = 0
      BY <1>1, <2>1 DEF Knows
    <2>6. "launch" \in Phase /\ Knows("launch", l, d, wrapper)
      BY <1>3, <2>4, <2>5 DEF Knows, Owning, WithCommand, Phase
    <2>7. QED
      BY <1>4, <2>1, <2>2, <2>4, <2>6, CallKeepsIInv
  <1>7. CASE Record(p)
    <2> DEFINE d == TerminalRecorded(db, k, l.code)
               row == TerminalRow(db.launches[k], l.code)
    <2>1. /\ CanRecordTerminal(db, k, l.hash) /\ phase[p] = "record"
          /\ Call(p, "record", TRUE, d, "publish")
      BY <1>7 DEF Record, Call, At
    <2>2. l.code \in ExitCode
      BY <1>1, <2>1 DEF Knows
    <2>3. /\ d \in Store /\ ValidStore(d) /\ row # None
          /\ row.state = "terminal" /\ row.exit_code = l.code
          /\ d = [db EXCEPT !.launches = [db.launches EXCEPT ![k] = row]]
      BY <1>2, <1>3, <2>1, <2>2, RecordedIsValid
    <2>4. db.launches[k].state # "terminal"
      BY <2>1 DEF CanRecordTerminal, HasLaunch
    <2> HIDE DEF d, row
    <2>5. Follows(db, d) /\ Granted(d) /\ d.launches[k] = row
      BY <1>5, <2>3, <2>4
    <2>6. "publish" \in Phase \ Owning /\ Knows("publish", l, d, wrapper)
      BY <1>3, <2>3, <2>5 DEF Knows, Owning, WithCommand, Phase
    <2>7. QED
      BY <2>1, <2>3, <2>5, <2>6, CallKeepsIInv
  <1>8. QED
    BY <1>6, <1>7

-----------------------------------------------------------------------------
(* The wrapper, and the publication of its exit code. *)

\* The owner launches the key's first wrapper.
LEMMA LaunchKeepsIInv ==
  ASSUME IInv, NEW p \in Client, LaunchWrapper(p)
  PROVE  IInv'
  <1> DEFINE l == local[p]
             k == l.key
             n == [at |-> "verifying", saw |-> {}, code |-> None,
                   started |-> IF wrapper[k].started < 2 THEN wrapper[k].started + 1 ELSE 2]
             w == [wrapper EXCEPT ![k] = n]
  <1>1. /\ l \in Local /\ Knows("launch", l, db, wrapper) /\ phase[p] = "launch"
        /\ wrapper \in [Key -> Wrapper] /\ db \in Store /\ ValidStore(db) /\ Granted(db)
    BY DEF IInv, TypeOK, LaunchWrapper, At
  <1>2. /\ k \in Key /\ l.hash \in Hash /\ db.launches[k] # None
        /\ wrapper[k].started = 0
    BY <1>1 DEF Knows, WithCommand, Owning
  <1>3. n.started = 1 /\ n.at = "verifying" /\ n \in Wrapper
    BY <1>2 DEF Wrapper
  <1>4. OthersTyped' /\ db' = db /\ wrapper' = w /\ statuses' = statuses
    BY DEF LaunchWrapper, OthersTyped, IInv, TypeOK, key
  <1> HIDE DEF n
  <1>5. w \in [Key -> Wrapper] /\ w[k] = n /\ \A j \in Key \ {k} : w[j] = wrapper[j]
    BY <1>1, <1>2, <1>3
  <1> HIDE DEF w
  <1>6. Launched(db, w)
    <2>1. Launched(db, wrapper)
      BY DEF IInv
    <2>2. /\ w[k].started <= 1
          /\ w[k].started # 0 => db.launches[k] # None
          /\ w[k].at # "exited"
      BY <1>2, <1>3, <1>5
    <2>3. QED
      BY <1>5, <2>1, <2>2 DEF Launched
  <1>7. \A q \in Client \ {p} : phase[q] \in Owning => local[q].key # k
    BY <1>1 DEF IInv, Sole, Owning
  <1>8. \A q \in Client \ {p} : Knows(phase[q], local[q], db, w)
    <2>1. SUFFICES ASSUME NEW q \in Client \ {p} PROVE Knows(phase[q], local[q], db, w)
      OBVIOUS
    <2>2. Knows(phase[q], local[q], db, wrapper)
      BY DEF IInv
    <2>3. phase[q] \in Owning => local[q].key \in Key \ {k}
      BY <1>7, <2>2 DEF Knows, Owning
    <2>4. QED
      BY <1>5, <2>2, <2>3 DEF Knows, Owning
  <1>9. "waiting" \in Phase /\ Knows("waiting", l, db, w)
    BY <1>2, <1>3, <1>5 DEF Knows, Owning, WithCommand, Phase
  <1>10. phase' = [phase EXCEPT ![p] = "waiting"] /\ local' = [local EXCEPT ![p] = l]
    BY DEF LaunchWrapper, Goto, IInv, TypeOK
  <1>11. ClientStep(p, "waiting", l, db, w)
    BY <1>1, <1>4, <1>5, <1>7, <1>9, <1>10 DEF ClientStep
  <1>12. Follows(db, db) /\ Recorded(statuses', db)
    BY <1>4 DEF Follows, IInv
  <1>13. QED
    BY <1>1, <1>4, <1>6, <1>8, <1>11, <1>12, ClientStepKeepsIInv

\* The exit of a wrapper that is waited for has a code.
LEMMA ObserveKeepsIInv ==
  ASSUME IInv, NEW p \in Client, ObserveExit(p)
  PROVE  IInv'
  <1> DEFINE k == local[p].key
             l == [local[p] EXCEPT !.code = wrapper[k].code]
  <1>1. local[p] \in Local /\ Knows("waiting", local[p], db, wrapper) /\ phase[p] = "waiting"
    BY DEF IInv, TypeOK, ObserveExit, At
  <1>2. k \in Key /\ local[p].hash \in Hash /\ db.launches[k] # None
    BY <1>1 DEF Knows, WithCommand, Owning
  <1>3. wrapper[k].at = "exited"
    BY <1>1 DEF ObserveExit, Running, key, Knows
  <1>4. wrapper[k].code \in ExitCode
    BY <1>2, <1>3 DEF IInv, Launched
  <1>5. /\ l \in Local /\ l.key = k /\ l.hash = local[p].hash /\ l.code \in ExitCode
    BY <1>1, <1>4 DEF Local
  <1>6. local' = [local EXCEPT ![p] = l] /\ phase' = [phase EXCEPT ![p] = "record"]
    BY DEF ObserveExit, Goto, IInv, TypeOK, key
  <1>7. OthersTyped' /\ UNCHANGED <<db, wrapper, statuses>>
    BY DEF ObserveExit, OthersTyped, IInv, TypeOK
  <1> HIDE DEF l
  <1>8. "record" \in Phase /\ Knows("record", l, db, wrapper)
    BY <1>2, <1>5 DEF Knows, Owning, WithCommand, Phase
  <1>9. phase[p] \in Owning /\ l.key = local[p].key
    BY <1>1, <1>5 DEF Owning
  <1>10. QED
    BY <1>5, <1>6, <1>7, <1>8, <1>9, QuietStepKeepsIInv

\* A wrapper that is killed is waited for by nobody else.
LEMMA TimeOutKeepsIInv ==
  ASSUME IInv, NEW p \in Client, TimeOut(p)
  PROVE  IInv'
  <1> DEFINE k == local[p].key
             n == [wrapper[k] EXCEPT !.at = "killed"]
             w == [wrapper EXCEPT ![k] = n]
  <1>1. /\ Knows("waiting", local[p], db, wrapper) /\ phase[p] = "waiting"
        /\ wrapper \in [Key -> Wrapper] /\ db \in Store /\ ValidStore(db) /\ Granted(db)
    BY DEF IInv, TypeOK, TimeOut, At
  <1>2. k \in Key
    BY <1>1 DEF Knows
  <1>3. n \in Wrapper /\ n.at = "killed" /\ n.started = wrapper[k].started
    BY <1>1, <1>2 DEF Wrapper
  <1>4. OthersTyped' /\ db' = db /\ wrapper' = w /\ statuses' = statuses
    BY DEF TimeOut, OthersTyped, IInv, TypeOK, key
  <1> HIDE DEF n
  <1>5. w \in [Key -> Wrapper] /\ w[k] = n /\ \A j \in Key \ {k} : w[j] = wrapper[j]
    BY <1>1, <1>2, <1>3
  <1> HIDE DEF w
  <1>6. Launched(db, w)
    <2>1. Launched(db, wrapper)
      BY DEF IInv
    <2>2. /\ w[k].started <= 1
          /\ w[k].started # 0 => db.launches[k] # None
          /\ w[k].at # "exited"
      BY <1>2, <1>3, <1>5, <2>1 DEF Launched
    <2>3. QED
      BY <1>5, <2>1, <2>2 DEF Launched
  <1>7. \A q \in Client \ {p} : Knows(phase[q], local[q], db, w)
    <2>1. SUFFICES ASSUME NEW q \in Client \ {p} PROVE Knows(phase[q], local[q], db, w)
      OBVIOUS
    <2>2. Knows(phase[q], local[q], db, wrapper)
      BY DEF IInv
    <2>3. phase[q] \in Owning => local[q].key \in Key \ {k}
      BY <1>1, <2>2 DEF Knows, Owning, IInv, Sole
    <2>4. QED
      BY <1>5, <2>2, <2>3 DEF Knows, Owning
  <1>8. NoLocal \in Local /\ Knows("idle", NoLocal, db, w) /\ "idle" \in Phase \ Owning
    BY DEF Local, NoLocal, Knows, Owning, WithCommand, Phase
  <1>9. ClientStep(p, "idle", NoLocal, db, w)
    BY <1>1, <1>4, <1>5, <1>8 DEF ClientStep, TimeOut, Finish, Goto, Set
  <1>10. Follows(db, db) /\ Recorded(statuses', db)
    BY <1>4 DEF Follows, IInv
  <1>11. QED
    BY <1>1, <1>4, <1>6, <1>7, <1>9, <1>10, ClientStepKeepsIInv

\* A red status is published of a launch whose terminal result is not success.
LEMMA PublishKeepsIInv ==
  ASSUME IInv, NEW p \in Client, Publish(p)
  PROVE  IInv'
  <1> DEFINE k == local[p].key
             st == [statuses EXCEPT ![k[1]] =
                      IF local[p].code = 0 THEN "success" ELSE "failure"]
  <1>1. /\ Knows("publish", local[p], db, wrapper) /\ phase[p] = "publish"
        /\ wrapper \in [Key -> Wrapper] /\ db \in Store /\ ValidStore(db) /\ Granted(db)
        /\ Launched(db, wrapper) /\ Recorded(statuses, db)
        /\ statuses \in [Revision -> {"none", "success", "failure"}]
    BY DEF IInv, TypeOK, Publish, At
  <1>2. k \in Revision \X Contract
    BY <1>1, KeyAssumption DEF Knows
  <1>3. /\ db.launches[k] # None /\ db.launches[k].state = "terminal"
        /\ db.launches[k].exit_code = local[p].code
    BY <1>1 DEF Knows
  <1>4. PICK r \in Revision, c \in Contract : k = <<r, c>>
    BY <1>2
  <1>5. statuses' = st /\ db' = db /\ wrapper' = wrapper /\ k[1] = r
    BY <1>4 DEF Publish, key
  <1>6. statuses' \in [Revision -> {"none", "success", "failure"}]
    BY <1>1, <1>4, <1>5
  <1>7. OthersTyped'
    BY <1>6 DEF Publish, OthersTyped, IInv, TypeOK
  <1>8. Recorded(statuses', db)
    <2>1. SUFFICES ASSUME NEW s \in Revision, statuses'[s] = "failure"
                   PROVE  \E e \in Contract :
                            LET row == db.launches[<<s, e>>] IN
                            row # None /\ row.state = "terminal" /\ row.exit_code # 0
      BY DEF Recorded
    <2>2. CASE s = r
      <3>1. local[p].code # 0
        BY <1>1, <1>5, <2>1, <2>2
      <3>2. QED
        BY <1>3, <1>4, <2>2, <3>1
    <2>3. CASE s # r
      <3>1. statuses[s] = "failure"
        BY <1>1, <1>5, <2>1, <2>3
      <3>2. QED
        BY <1>1, <3>1 DEF Recorded
    <2>4. QED
      BY <2>2, <2>3
  <1>9. NoLocal \in Local /\ Knows("idle", NoLocal, db, wrapper) /\ "idle" \in Phase \ Owning
    BY DEF Local, NoLocal, Knows, Owning, WithCommand, Phase
  <1>10. ClientStep(p, "idle", NoLocal, db, wrapper)
    BY <1>1, <1>5, <1>9 DEF ClientStep, Publish, Finish, Goto, Set
  <1>11. Follows(db, db) /\ \A q \in Client \ {p} : Knows(phase[q], local[q], db, wrapper)
    BY DEF Follows, IInv
  <1>12. QED
    BY <1>1, <1>7, <1>8, <1>10, <1>11, ClientStepKeepsIInv

-----------------------------------------------------------------------------
(* What the clients do not control. *)

\* A step of a wrapper neither launches it again nor kills it.
LEMMA WrapperStepKeepsIInv ==
  ASSUME IInv, NEW k \in Key, WrapperStep(k)
  PROVE  IInv'
  <1>1. UNCHANGED <<ready, db, contract, host, tree, statuses, phase, local>>
    BY DEF WrapperStep, WrapperVerifies, WrapperRuns
  <1>2. wrapper \in [Key -> Wrapper] /\ wrapper[k] \in Wrapper /\ tree[k] \in TreeState
    BY DEF IInv, TypeOK
  <1>3. PICK n \in Wrapper :
          /\ wrapper' = [wrapper EXCEPT ![k] = n]
          /\ n.started = wrapper[k].started
          /\ n.at \in {"stage1", "stage2", "exited"}
          /\ n.at = "exited" => n.code \in ExitCode
    <2> DEFINE w == [wrapper[k] EXCEPT !.saw = @ \cup {tree[k]}]
    <2>1. w \in Wrapper /\ w.started = wrapper[k].started
      BY <1>2 DEF Wrapper
    <2>2. \A x \in {0, 1, 2} :
            /\ Exit(w, x) \in Wrapper /\ Exit(wrapper[k], x) \in Wrapper
            /\ Exit(w, x).started = wrapper[k].started
            /\ Exit(wrapper[k], x).started = wrapper[k].started
            /\ Exit(w, x).at = "exited" /\ Exit(wrapper[k], x).at = "exited"
            /\ Exit(w, x).code \in ExitCode /\ Exit(wrapper[k], x).code \in ExitCode
      BY <1>2, <2>1, CodeAssumption DEF Wrapper, Exit
    <2>3. \A at \in {"stage1", "stage2"} :
            /\ [w EXCEPT !.at = at] \in Wrapper /\ [wrapper[k] EXCEPT !.at = at] \in Wrapper
            /\ [w EXCEPT !.at = at].at = at /\ [wrapper[k] EXCEPT !.at = at].at = at
            /\ [w EXCEPT !.at = at].started = wrapper[k].started
            /\ [wrapper[k] EXCEPT !.at = at].started = wrapper[k].started
      BY <1>2, <2>1 DEF Wrapper
    <2>4. \/ wrapper' = [wrapper EXCEPT ![k] = [wrapper[k] EXCEPT !.at = "stage1"]]
          \/ wrapper' = [wrapper EXCEPT ![k] = Exit(wrapper[k], 2)]
          \/ wrapper' = [wrapper EXCEPT ![k] = [w EXCEPT !.at = "stage2"]]
          \/ wrapper' = [wrapper EXCEPT ![k] = Exit(w, 0)]
          \/ wrapper' = [wrapper EXCEPT ![k] = Exit(w, 1)]
      <3>1. CASE WrapperVerifies(k)
        BY <1>2, <3>1 DEF WrapperVerifies
      <3>2. CASE WrapperRuns(k, "stage1", "stage2")
        BY <3>2 DEF WrapperRuns
      <3>3. CASE WrapperRuns(k, "stage2", "exited")
        BY <3>3 DEF WrapperRuns
      <3>4. QED
        BY <3>1, <3>2, <3>3 DEF WrapperStep
    <2> HIDE DEF w
    <2>5. QED
      BY <2>2, <2>3, <2>4
  <1>4. wrapper' \in [Key -> Wrapper] /\ wrapper'[k] = n
    BY <1>2, <1>3
  <1>5. \A j \in Key \ {k} : wrapper'[j] = wrapper[j]
    BY <1>2, <1>3
  <1>6. TypeOK'
    BY <1>1, <1>4 DEF IInv, TypeOK
  <1>7. Launched(db, wrapper)'
    BY <1>1, <1>3, <1>4, <1>5 DEF IInv, Launched
  <1>8. \A p \in Client : Knows(phase[p], local[p], db, wrapper)'
    <2>1. SUFFICES ASSUME NEW p \in Client PROVE Knows(phase[p], local[p], db, wrapper')
      BY <1>1
    <2>2. Knows(phase[p], local[p], db, wrapper)
      BY DEF IInv
    <2>3. QED
      BY <1>3, <1>4, <1>5, <2>2 DEF Knows, Owning
  <1>9. QED
    BY <1>1, <1>6, <1>7, <1>8 DEF IInv, Sole, Recorded, Granted

\* Neither does what changes around the clients, nor another controller.
LEMMA EnvironmentKeepsIInv ==
  ASSUME IInv, ContractChanges \/ HostChanges \/ TakeOver
  PROVE  IInv'
  <1>1. UNCHANGED <<tree, wrapper, statuses, phase, local>>
    BY DEF ContractChanges, HostChanges, TakeOver, clientVars
  <1>2. PICK d \in Store : db' = d /\ ValidStore(d) /\ Follows(db, d) /\ Granted(d)
    <2>1. CASE ContractChanges \/ HostChanges
      BY <2>1 DEF ContractChanges, HostChanges, IInv, TypeOK, Follows
    <2>2. CASE TakeOver
      <3>1. db \in Store /\ ValidStore(db) /\ scope \in Scope /\ CanAcquire(db, scope)
        BY <2>2, ScopeAssumption DEF TakeOver, IInv, TypeOK, scope
      <3> DEFINE d == Acquired(db, scope)
      <3>2. d \in Store /\ ValidStore(d) /\ db.generations[scope] \in Nat
        BY <3>1, AcquiredIsValid
      <3>3. d.launches = db.launches /\ d.generations[scope] = db.generations[scope] + 1
        BY <3>1 DEF Acquired, Store
      <3>4. Follows(db, d) /\ Granted(d)
        BY <3>2, <3>3 DEF Follows, Granted
      <3>5. db' = d
        BY <2>2 DEF TakeOver
      <3> HIDE DEF d
      <3>6. QED
        BY <3>2, <3>4, <3>5
    <2>3. QED
      BY <2>1, <2>2
  <1>3. TypeOK'
    BY <1>1, <1>2 DEF ContractChanges, HostChanges, TakeOver, IInv, TypeOK
  <1>4. \A p \in Client : Knows(phase[p], local[p], d, wrapper)
    BY <1>2, KnowledgeStays DEF IInv
  <1>5. Launched(d, wrapper)
    BY <1>2 DEF IInv, Launched, Follows
  <1>6. Recorded(statuses, d)
    BY <1>2, RedStays DEF IInv
  <1>7. QED
    BY <1>1, <1>2, <1>3, <1>4, <1>5, <1>6 DEF IInv, Sole

-----------------------------------------------------------------------------
(* The invariant and the properties. *)

\* Nothing is known, launched or published at first.
LEMMA InitHasIInv == Init => IInv
  <1> SUFFICES ASSUME Init PROVE IInv
    OBVIOUS
  <1>1. EmptyStore \in Store /\ ValidStore(EmptyStore)
    BY DEF EmptyStore, Store, ValidStore, BindingsValid, AdmissionsValid, LaunchesValid
  <1>2. NoLocal \in Local /\ "idle" \in Phase
    BY DEF NoLocal, Local, Phase
  <1>3. TypeOK
    <2>1. [at |-> "none", saw |-> {}, code |-> None, started |-> 0] \in Wrapper
      BY DEF Wrapper
    <2>2. wrapper \in [Key -> Wrapper] /\ tree \in [Key -> TreeState]
      BY <2>1 DEF Init, TreeState
    <2>3. QED
      BY <1>1, <1>2, <2>2 DEF Init, TypeOK
  <1>4. \A p \in Client : Knows(phase[p], local[p], db, wrapper)
    BY DEF Init, Knows, Owning, WithCommand
  <1>5. Sole /\ Launched(db, wrapper) /\ Recorded(statuses, db)
    BY DEF Init, Sole, Owning, Launched, Recorded
  <1>6. Granted(db)
    BY DEF Init, Granted, EmptyStore
  <1>7. QED
    BY <1>1, <1>3, <1>4, <1>5, <1>6 DEF Init, IInv

\* Every step keeps the invariant.
LEMMA NextKeepsIInv == IInv /\ [Next]_vars => IInv'
  <1> SUFFICES ASSUME IInv, [Next]_vars PROVE IInv'
    OBVIOUS
  <1>1. CASE UNCHANGED vars
    BY <1>1 DEF vars, IInv, TypeOK, Sole
  <1>2. ASSUME NEW p \in Client, Run(p) PROVE IInv'
    <2>1. CASE GiveUp(p)
      <3>1. OthersTyped' /\ UNCHANGED <<db, wrapper, statuses>> /\ Finish(p)
        BY <2>1 DEF GiveUp, OthersTyped, IInv, TypeOK
      <3>2. QED
        BY <3>1, FinishKeepsIInv
    <2>2. QED
      BY <1>2, <2>1, LookingKeepsIInv, CheckoutKeepsIInv, ReadGenerationKeepsIInv,
         PreparingCallsKeepIInv, ClaimKeepsIInv, OwnerCallsKeepIInv, LaunchKeepsIInv,
         ObserveKeepsIInv, TimeOutKeepsIInv, PublishKeepsIInv DEF Run
  <1>3. QED
    BY <1>1, <1>2, WrapperStepKeepsIInv, EnvironmentKeepsIInv DEF Next

\* The inductive invariant of the client: what every client knows of the launch
\* row and of the wrapper of its key, and what the store says of both.
THEOREM ClientIsInvariant == Spec => []IInv
  BY InitHasIInv, NextKeepsIInv, PTL DEF Spec

\* The variables of the client keep their types.
THEOREM ClientIsTyped == Spec => []TypeOK
  <1>1. IInv => TypeOK
    BY DEF IInv
  <1>2. QED
    BY <1>1, ClientIsInvariant, PTL

\* However many clients run a revision, and however often, one wrapper at most
\* is launched with authority.
THEOREM OneWrapperPerKey == Spec => []OneAuthorizedRun
  <1>1. IInv => OneAuthorizedRun
    BY DEF IInv, Launched, OneAuthorizedRun
  <1>2. QED
    BY <1>1, ClientIsInvariant, PTL

\* No client turns a commit red without a recorded terminal result that is not
\* success.
THEOREM RedIsRecorded == Spec => []RedMeansRecorded
  <1>1. IInv => RedMeansRecorded
    BY DEF IInv, Recorded, RedMeansRecorded
  <1>2. QED
    BY <1>1, ClientIsInvariant, PTL

\* A store without a generation admits and launches nothing.
THEOREM AuthorityNeedsGeneration == Spec => []NoGenerationNoAuthority
  <1>1. IInv => NoGenerationNoAuthority
    BY DEF IInv, Launched, Granted, NoGenerationNoAuthority
  <1>2. QED
    BY <1>1, ClientIsInvariant, PTL

-----------------------------------------------------------------------------
(***************************************************************************)
(* The client implements LaunchAuthority.                                  *)
(*                                                                         *)
(* IInv says how often a wrapper was launched; the refinement also needs   *)
(* who has seen it end.  Until its code is recorded, the wrapper of a      *)
(* terminal row is one that was launched once, exited, and had that code.  *)
(***************************************************************************)

\* The phases of a client whose launch was made irrevocable.
Fated == {"launch", "waiting", "record"}

\* What a client in phase ph with local variables l, owner of the launch row
\* row, knows of it and of the wrapper w of its key.
KnowsFate(ph, l, row, w) ==
  /\ ph = "launch" => row.state = "unknown"
  /\ ph \in {"waiting", "record"} => w.started = 1
  /\ ph = "record" => w.at = "exited" /\ w.code = l.code

\* A recorded code is that of the one wrapper that was launched.
RowTells(row, w) == row # None /\ row.state = "terminal" =>
  w.started = 1 /\ w.at = "exited" /\ w.code = row.exit_code

FateInv ==
  /\ \A p \in Client :
       KnowsFate(phase[p], local[p], db.launches[local[p].key], wrapper[local[p].key])
  /\ \A k \in Key : RowTells(db.launches[k], wrapper[k])

\* The fate of a key whose launch row is l and of which n wrappers were launched.
FateOf(l, n) ==
  [stage |-> IF l = None THEN "open"
             ELSE IF l.state = "terminal" THEN "recorded"
             ELSE IF n > 0 THEN "launched"
             ELSE "consumed",
   codes |-> IF l # None /\ l.state = "terminal" THEN {l.exit_code} ELSE {}]

\* A step that concerns one key changes the fate of that key only.
LEMMA OneFateChanges ==
  ASSUME NEW k \in Key,
         \A j \in Key \ {k} : /\ db'.launches[j] = db.launches[j]
                              /\ wrapper'[j].started = wrapper[j].started
  PROVE  /\ fate' = [fate EXCEPT ![k] = FateOf(db'.launches[k], wrapper'[k].started)]
         /\ fate[k] = FateOf(db.launches[k], wrapper[k].started)
  <1>1. /\ fate = [j \in Key |-> FateOf(db.launches[j], wrapper[j].started)]
        /\ fate' = [j \in Key |-> FateOf(db'.launches[j], wrapper'[j].started)]
    BY DEF fate, FateOf
  <1>2. QED
    BY <1>1

\* A step that changes no launch row and launches no wrapper is a stutter.
LEMMA NoFateChanges ==
  ASSUME \A j \in Key : /\ db'.launches[j] = db.launches[j]
                        /\ wrapper'[j].started = wrapper[j].started
  PROVE  UNCHANGED fate
  BY DEF fate

\* A client among the fated has a key.
LEMMA FatedHasKey ==
  ASSUME IInv, NEW p \in Client, phase[p] \in Fated
  PROVE  /\ local[p].key \in Key /\ local[p].hash \in Hash
         /\ db.launches[local[p].key] # None
         /\ phase[p] \in Owning
  BY DEF IInv, Knows, Fated, Owning, WithCommand

\* Client p goes to phase ph with the local variables l, and only the launch
\* row and the wrapper of the key k change.
KeyStep(p, ph, l, k) ==
  /\ phase' = [phase EXCEPT ![p] = ph]
  /\ local' = [local EXCEPT ![p] = l]
  /\ \A j \in Key \ {k} : db'.launches[j] = db.launches[j] /\ wrapper'[j] = wrapper[j]

\* Such a step keeps the invariant if nobody else is fated to k, and if p and
\* the row know the wrapper afterwards.
LEMMA KeyStepKeepsFateInv ==
  ASSUME IInv, FateInv, NEW p \in Client, NEW ph, NEW l, NEW k \in Key, KeyStep(p, ph, l, k),
         ph \in Fated => l.key = k /\ KnowsFate(ph, l, db'.launches[k], wrapper'[k]),
         \A q \in Client \ {p} : phase[q] \in Fated => local[q].key # k,
         RowTells(db'.launches[k], wrapper'[k])
  PROVE  FateInv'
  <1>1. \A q \in Client : KnowsFate(phase'[q], local'[q], db'.launches[local'[q].key],
                                    wrapper'[local'[q].key])
    <2>1. ASSUME NEW q \in Client \ {p}
          PROVE  KnowsFate(phase'[q], local'[q], db'.launches[local'[q].key],
                           wrapper'[local'[q].key])
      <3>1. phase'[q] = phase[q] /\ local'[q] = local[q]
        BY DEF KeyStep, IInv, TypeOK
      <3>2. CASE phase[q] \in Fated
        <4>1. local[q].key \in Key \ {k}
          BY <2>1, <3>2, FatedHasKey
        <4>2. /\ db'.launches[local[q].key] = db.launches[local[q].key]
              /\ wrapper'[local[q].key] = wrapper[local[q].key]
          BY <4>1 DEF KeyStep
        <4>3. QED
          BY <3>1, <4>2 DEF FateInv
      <3>3. CASE phase[q] \notin Fated
        BY <3>1, <3>3 DEF KnowsFate, Fated
      <3>4. QED
        BY <3>2, <3>3
    <2>2. phase'[p] = ph /\ local'[p] = l
      BY DEF KeyStep, IInv, TypeOK
    <2>3. KnowsFate(ph, l, db'.launches[l.key], wrapper'[l.key])
      BY DEF KnowsFate, Fated
    <2>4. QED
      BY <2>1, <2>2, <2>3
  <1>2. \A j \in Key : RowTells(db'.launches[j], wrapper'[j])
    BY DEF FateInv, KeyStep
  <1>3. QED
    BY <1>1, <1>2 DEF FateInv

\* The claim consumes the authority of its key.
LEMMA ClaimConsumes ==
  ASSUME IInv, FateInv, NEW p \in Client, Claim(p)
  PROVE  FateInv' /\ Authority!FateNext
  <1> DEFINE a == local[p]
             k == a.key
             l == [hash |-> a.hash, scope |-> scope, generation |-> a.generation,
                   state |-> "intent", exit_code |-> None]
  <1>1. /\ UNCHANGED wrapper /\ phase[p] = "claim"
        /\ CanClaim(db, k, scope, a.generation, a.hash)
        /\ db' = Claimed(db, k, scope, a.generation, a.hash)
    BY DEF Claim, Call, At
  <1>2. k \in Key /\ a.hash \in Hash /\ a.generation \in Generation /\ scope \in Scope
    BY <1>1, ScopeAssumption DEF IInv, Knows, WithCommand, scope
  <1>3. l # None /\ db' = [db EXCEPT !.launches = [db.launches EXCEPT ![k] = l]]
    <2>1. db \in Store /\ ValidStore(db)
      BY DEF IInv, TypeOK
    <2>2. QED
      BY <1>1, <1>2, <2>1, ClaimedIsValid
  <1>4. /\ db'.launches[k] = l
        /\ \A j \in Key \ {k} : db'.launches[j] = db.launches[j]
    BY <1>2, <1>3 DEF IInv, TypeOK, Store
  <1>5. db.launches[k] = None /\ ~(wrapper[k].started > 0)
    <2>1. db.launches[k] = None
      BY <1>1 DEF CanClaim
    <2>2. wrapper[k].started = 0
      BY <1>2, <2>1 DEF IInv, Launched
    <2>3. QED
      BY <2>1, <2>2
  <1>6. l.state = "intent"
    OBVIOUS
  <1> HIDE DEF l
  <1>7. FateInv'
    <2>1. PICK ph \in {"mark", "idle"}, b \in {a, NoLocal} : KeyStep(p, ph, b, k)
      <3>1. local' = [local EXCEPT ![p] = a] \/ ~UNCHANGED local
        BY DEF IInv, TypeOK
      <3>2. QED
        BY <1>1, <1>4, <3>1 DEF Claim, Call, Finish, Goto, Set, KeyStep
    <2>2. ph \notin Fated
      BY <2>1 DEF Fated
    <2>3. \A q \in Client \ {p} : phase[q] \in Fated => local[q].key # k
      BY <1>5, FatedHasKey
    <2>4. RowTells(db'.launches[k], wrapper'[k])
      BY <1>4, <1>6 DEF RowTells
    <2>5. QED
      BY <1>2, <2>1, <2>2, <2>3, <2>4, KeyStepKeepsFateInv
  <1>8. /\ FateOf(db.launches[k], wrapper[k].started) = [stage |-> "open", codes |-> {}]
        /\ FateOf(db'.launches[k], wrapper'[k].started) = [stage |-> "consumed", codes |-> {}]
    BY <1>1, <1>3, <1>4, <1>5, <1>6 DEF FateOf
  <1>9. Authority!Consume(k)
    BY <1>1, <1>2, <1>4, <1>8, OneFateChanges DEF Authority!Consume
  <1>10. QED
    BY <1>2, <1>7, <1>9 DEF Authority!FateNext

\* Marking the launch UNKNOWN changes nothing: no wrapper is launched yet.
LEMMA MarkStutters ==
  ASSUME IInv, FateInv, NEW p \in Client, MarkUnknown(p)
  PROVE  FateInv' /\ UNCHANGED fate
  <1> DEFINE a == local[p]
             k == a.key
             l == [db.launches[k] EXCEPT !.state = "unknown"]
  <1>1. /\ UNCHANGED wrapper /\ phase[p] = "mark"
        /\ CanMarkUnknown(db, k, a.hash) /\ db' = MarkedUnknown(db, k)
    BY DEF MarkUnknown, Call, At
  <1>2. k \in Key /\ a.hash \in Hash
    BY <1>1 DEF IInv, Knows, WithCommand, Owning
  <1>3. /\ db.launches[k] \in ExecutionLaunch /\ l # None
        /\ db' = [db EXCEPT !.launches = [db.launches EXCEPT ![k] = l]]
    <2>1. db \in Store /\ ValidStore(db)
      BY DEF IInv, TypeOK
    <2>2. QED
      BY <1>1, <1>2, <2>1, MarkedIsValid
  <1>4. /\ db'.launches[k] = l
        /\ \A j \in Key \ {k} : db'.launches[j] = db.launches[j]
    BY <1>2, <1>3 DEF IInv, TypeOK, Store
  <1>5. db.launches[k] # None /\ db.launches[k].state = "intent" /\ l.state = "unknown"
    BY <1>1, <1>3 DEF CanMarkUnknown, HasLaunch, ExecutionLaunch
  <1> HIDE DEF l
  <1>6. FateInv'
    <2>1. PICK ph \in {"launch", "idle"}, b \in {a, NoLocal} :
            KeyStep(p, ph, b, k) /\ (ph = "launch" => b = a)
      <3>1. local' = [local EXCEPT ![p] = a] \/ ~UNCHANGED local
        BY DEF IInv, TypeOK
      <3>2. QED
        BY <1>1, <1>4, <3>1 DEF MarkUnknown, Call, Finish, Goto, Set, KeyStep
    <2>2. ph \in Fated => b.key = k /\ KnowsFate(ph, b, db'.launches[k], wrapper'[k])
      BY <1>4, <1>5, <2>1 DEF Fated, KnowsFate
    <2>3. \A q \in Client \ {p} : phase[q] \in Fated => local[q].key # k
      BY <1>1, FatedHasKey DEF IInv, Sole, Owning
    <2>4. RowTells(db'.launches[k], wrapper'[k])
      BY <1>4, <1>5 DEF RowTells
    <2>5. QED
      BY <1>2, <2>1, <2>2, <2>3, <2>4, KeyStepKeepsFateInv
  <1>7. FateOf(db'.launches[k], wrapper'[k].started) = FateOf(db.launches[k], wrapper[k].started)
    BY <1>1, <1>3, <1>4, <1>5 DEF FateOf
  <1>8. fate' = [fate EXCEPT ![k] = fate[k]]
    BY <1>1, <1>2, <1>4, <1>7, OneFateChanges
  <1>9. QED
    BY <1>6, <1>8 DEF fate

\* Launching the wrapper launches the key, whose authority was consumed.
LEMMA LaunchLaunches ==
  ASSUME IInv, FateInv, NEW p \in Client, LaunchWrapper(p)
  PROVE  FateInv' /\ Authority!FateNext
  <1> DEFINE k == local[p].key
             w == [at |-> "verifying", saw |-> {}, code |-> None,
                   started |-> IF wrapper[k].started < 2 THEN wrapper[k].started + 1 ELSE 2]
  <1>1. /\ phase[p] = "launch" /\ UNCHANGED <<db, local>>
        /\ wrapper' = [wrapper EXCEPT ![k] = w]
        /\ phase' = [phase EXCEPT ![p] = "waiting"]
    BY DEF LaunchWrapper, At, Goto, key
  <1>2. k \in Key /\ db.launches[k] # None /\ phase[p] \in Owning
    BY <1>1, FatedHasKey DEF Fated
  <1>3. wrapper[k].started = 0 /\ db.launches[k].state = "unknown"
    <2>1. Knows(phase[p], local[p], db, wrapper)
      BY DEF IInv
    <2>2. QED
      BY <1>1, <2>1 DEF Knows, FateInv, KnowsFate
  <1>4. /\ wrapper'[k].started = 1
        /\ \A j \in Key \ {k} : wrapper'[j] = wrapper[j]
    BY <1>1, <1>2, <1>3 DEF IInv, TypeOK
  <1> HIDE DEF w
  <1>5. FateInv'
    <2>1. local' = [local EXCEPT ![p] = local[p]]
      BY <1>1 DEF IInv, TypeOK
    <2>2. KeyStep(p, "waiting", local[p], k)
      BY <1>1, <1>4, <2>1 DEF KeyStep
    <2>3. KnowsFate("waiting", local[p], db'.launches[k], wrapper'[k])
      BY <1>4 DEF KnowsFate
    <2>4. \A q \in Client \ {p} : phase[q] \in Fated => local[q].key # k
      BY <1>2, FatedHasKey DEF IInv, Sole
    <2>5. RowTells(db'.launches[k], wrapper'[k])
      BY <1>1, <1>3 DEF RowTells
    <2>6. QED
      BY <1>2, <2>2, <2>3, <2>4, <2>5, KeyStepKeepsFateInv
  <1>6. /\ FateOf(db.launches[k], wrapper[k].started) = [stage |-> "consumed", codes |-> {}]
        /\ FateOf(db'.launches[k], wrapper'[k].started) = [stage |-> "launched", codes |-> {}]
    BY <1>1, <1>2, <1>3, <1>4 DEF FateOf
  <1>7. Authority!Launch(k)
    BY <1>1, <1>2, <1>4, <1>6, OneFateChanges DEF Authority!Launch
  <1>8. QED
    BY <1>2, <1>5, <1>7 DEF Authority!FateNext

\* Recording records for the key the code its wrapper exited with.
LEMMA RecordRecords ==
  ASSUME IInv, FateInv, NEW p \in Client, Record(p)
  PROVE  FateInv' /\ Authority!FateNext
  <1> DEFINE a == local[p]
             k == a.key
             x == a.code
             l == TerminalRow(db.launches[k], x)
  <1>1. /\ UNCHANGED wrapper /\ phase[p] = "record"
        /\ CanRecordTerminal(db, k, a.hash) /\ db' = TerminalRecorded(db, k, x)
    BY DEF Record, Call, At
  <1>2. k \in Key /\ a.hash \in Hash /\ phase[p] \in Owning
    BY <1>1, FatedHasKey DEF Fated
  <1>3. x \in ExitCode
    <2>1. Knows(phase[p], a, db, wrapper)
      BY DEF IInv
    <2>2. QED
      BY <1>1, <2>1 DEF Knows
  <1>4. wrapper[k].started = 1 /\ wrapper[k].at = "exited" /\ wrapper[k].code = x
    BY <1>1 DEF FateInv, KnowsFate
  <1>5. /\ l # None /\ l.state = "terminal" /\ l.exit_code = x
        /\ db' = [db EXCEPT !.launches = [db.launches EXCEPT ![k] = l]]
    <2>1. db \in Store /\ ValidStore(db)
      BY DEF IInv, TypeOK
    <2>2. QED
      BY <1>1, <1>2, <1>3, <2>1, RecordedIsValid
  <1>6. /\ db'.launches[k] = l
        /\ \A j \in Key \ {k} : db'.launches[j] = db.launches[j]
    BY <1>2, <1>5 DEF IInv, TypeOK, Store
  <1>7. db.launches[k] # None /\ db.launches[k].state = "unknown"
    BY <1>1 DEF CanRecordTerminal, HasLaunch
  <1> HIDE DEF l
  <1>8. FateInv'
    <2>1. PICK ph \in {"publish", "idle"}, b \in {a, NoLocal} : KeyStep(p, ph, b, k)
      <3>1. local' = [local EXCEPT ![p] = a] \/ ~UNCHANGED local
        BY DEF IInv, TypeOK
      <3>2. QED
        BY <1>1, <1>6, <3>1 DEF Record, Call, Finish, Goto, Set, KeyStep
    <2>2. ph \notin Fated
      BY <2>1 DEF Fated
    <2>3. \A q \in Client \ {p} : phase[q] \in Fated => local[q].key # k
      BY <1>2, FatedHasKey DEF IInv, Sole
    <2>4. RowTells(db'.launches[k], wrapper'[k])
      BY <1>1, <1>4, <1>5, <1>6 DEF RowTells
    <2>5. QED
      BY <1>2, <2>1, <2>2, <2>3, <2>4, KeyStepKeepsFateInv
  <1>9. /\ FateOf(db.launches[k], wrapper[k].started) = [stage |-> "launched", codes |-> {}]
        /\ FateOf(db'.launches[k], wrapper'[k].started) = [stage |-> "recorded", codes |-> {x}]
    <2>1. wrapper[k].started > 0 /\ wrapper'[k] = wrapper[k]
      BY <1>1, <1>4
    <2>2. FateOf(db.launches[k], wrapper[k].started) = [stage |-> "launched", codes |-> {}]
      BY <1>7, <2>1 DEF FateOf
    <2>3. FateOf(l, wrapper'[k].started) = [stage |-> "recorded", codes |-> {x}]
      BY <1>5 DEF FateOf
    <2>4. QED
      BY <1>6, <2>2, <2>3
  <1>10. Authority!Record(k, x)
    BY <1>1, <1>2, <1>6, <1>9, OneFateChanges DEF Authority!Record
  <1>11. QED
    BY <1>2, <1>3, <1>8, <1>10 DEF Authority!FateNext

\* The wrapper works towards its exit and is launched no further; nobody has
\* seen it exit yet.
LEMMA WrapperStepStutters ==
  ASSUME IInv, FateInv, NEW k \in Key, WrapperStep(k)
  PROVE  FateInv' /\ UNCHANGED fate
  <1>1. /\ UNCHANGED <<db, phase, local>>
        /\ wrapper[k].at \in {"verifying", "stage1", "stage2"}
    BY DEF WrapperStep, WrapperVerifies, WrapperRuns
  <1>2. wrapper \in [Key -> Wrapper] /\ wrapper[k] \in Wrapper
    BY DEF IInv, TypeOK
  <1>3. PICK n : wrapper' = [wrapper EXCEPT ![k] = n] /\ n.started = wrapper[k].started
    <2>1. CASE WrapperVerifies(k)
      <3>1. \/ wrapper' = [wrapper EXCEPT ![k] = [wrapper[k] EXCEPT !.at = "stage1"]]
            \/ wrapper' = [wrapper EXCEPT ![k] = Exit(wrapper[k], 2)]
        BY <1>2, <2>1 DEF WrapperVerifies
      <3>2. /\ [wrapper[k] EXCEPT !.at = "stage1"].started = wrapper[k].started
            /\ Exit(wrapper[k], 2).started = wrapper[k].started
        BY <1>2 DEF Wrapper, Exit
      <3>3. QED
        BY <3>1, <3>2
    <2>2. ASSUME NEW st, NEW next, WrapperRuns(k, st, next)
          PROVE  \E n : wrapper' = [wrapper EXCEPT ![k] = n] /\ n.started = wrapper[k].started
      <3> DEFINE w == [wrapper[k] EXCEPT !.saw = @ \cup {tree[k]}]
      <3>1. w.started = wrapper[k].started
        BY <1>2 DEF Wrapper
      <3>2. \A x \in {0, 1} : Exit(w, x).started = wrapper[k].started
        BY <1>2, <3>1 DEF Wrapper, Exit
      <3>3. [w EXCEPT !.at = next].started = wrapper[k].started
        BY <1>2, <3>1 DEF Wrapper
      <3>4. PICK n \in {IF next = "exited" THEN Exit(w, 0) ELSE [w EXCEPT !.at = next], Exit(w, 1)} :
              wrapper' = [wrapper EXCEPT ![k] = n]
        BY <2>2 DEF WrapperRuns
      <3>5. n.started = wrapper[k].started
        <4> HIDE DEF w
        <4>1. QED
          BY <3>2, <3>3, <3>4
      <3>6. QED
        BY <3>4, <3>5
    <2>3. QED
      BY <2>1, <2>2 DEF WrapperStep
  <1>4. /\ wrapper'[k].started = wrapper[k].started
        /\ \A j \in Key \ {k} : wrapper'[j] = wrapper[j]
    BY <1>2, <1>3
  <1>5. \A p \in Client : KnowsFate(phase'[p], local'[p], db'.launches[local'[p].key],
                                    wrapper'[local'[p].key])
    <2>1. SUFFICES ASSUME NEW p \in Client, phase[p] \in Fated
                   PROVE  KnowsFate(phase[p], local[p], db.launches[local[p].key],
                                    wrapper'[local[p].key])
      BY <1>1 DEF KnowsFate, Fated
    <2>2. local[p].key \in Key
      BY <2>1, FatedHasKey
    <2>3. KnowsFate(phase[p], local[p], db.launches[local[p].key], wrapper[local[p].key])
      BY DEF FateInv
    <2>4. CASE local[p].key = k
      BY <1>1, <1>4, <2>3, <2>4 DEF KnowsFate
    <2>5. CASE local[p].key # k
      BY <1>4, <2>2, <2>3, <2>5
    <2>6. QED
      BY <2>4, <2>5
  <1>6. \A j \in Key : RowTells(db'.launches[j], wrapper'[j])
    <2>1. RowTells(db'.launches[k], wrapper'[k])
      BY <1>1 DEF FateInv, RowTells
    <2>2. QED
      BY <1>1, <1>4, <2>1 DEF FateInv
  <1>7. UNCHANGED fate
    BY <1>1, <1>4, NoFateChanges
  <1>8. QED
    BY <1>5, <1>6, <1>7 DEF FateInv

\* A client that waits sees its wrapper exit, or kills it.
LEMMA WaitingStutters ==
  ASSUME IInv, FateInv, NEW p \in Client, ObserveExit(p) \/ TimeOut(p)
  PROVE  FateInv' /\ UNCHANGED fate
  <1> DEFINE k == local[p].key
  <1>1. phase[p] = "waiting" /\ UNCHANGED db
    BY DEF ObserveExit, TimeOut, At
  <1>2. k \in Key /\ phase[p] \in Owning
    BY <1>1, FatedHasKey DEF Fated
  <1>3. \A q \in Client \ {p} : phase[q] \in Fated => local[q].key # k
    BY <1>2, FatedHasKey DEF IInv, Sole
  <1>4. /\ wrapper[k].started = 1
        /\ wrapper[k].at \in {"verifying", "stage1", "stage2", "exited"}
        /\ RowTells(db.launches[k], wrapper[k])
    <2>1. Knows(phase[p], local[p], db, wrapper)
      BY DEF IInv
    <2>2. QED
      BY <1>1, <1>2, <2>1 DEF Knows, FateInv, KnowsFate
  <1>5. local[p] \in Local /\ wrapper \in [Key -> Wrapper] /\ wrapper[k] \in Wrapper
    BY <1>2 DEF IInv, TypeOK
  <1>6. CASE ObserveExit(p)
    <2> DEFINE b == [local[p] EXCEPT !.code = wrapper[k].code]
    <2>1. UNCHANGED wrapper /\ wrapper[k].at = "exited"
      BY <1>4, <1>6 DEF ObserveExit, Running, key
    <2>2. b.key = k /\ b.code = wrapper[k].code
      BY <1>5 DEF Local
    <2>3. local' = [local EXCEPT ![p] = b] /\ phase' = [phase EXCEPT ![p] = "record"]
      BY <1>6 DEF ObserveExit, Goto, IInv, TypeOK, key
    <2> HIDE DEF b
    <2>4. KeyStep(p, "record", b, k)
      BY <1>1, <2>1, <2>3 DEF KeyStep
    <2>5. KnowsFate("record", b, db'.launches[k], wrapper'[k]) /\ RowTells(db'.launches[k], wrapper'[k])
      BY <1>1, <1>4, <2>1, <2>2 DEF KnowsFate
    <2>6. FateInv'
      BY <1>2, <1>3, <2>2, <2>4, <2>5, KeyStepKeepsFateInv
    <2>7. QED
      BY <1>1, <2>1, <2>6, NoFateChanges
  <1>7. CASE TimeOut(p)
    <2> DEFINE n == [wrapper[k] EXCEPT !.at = "killed"]
    <2>1. wrapper' = [wrapper EXCEPT ![k] = n] /\ wrapper[k].at # "exited" /\ Finish(p)
      BY <1>7 DEF TimeOut, Running, key, IInv, TypeOK
    <2>2. n.started = wrapper[k].started
      BY <1>5 DEF Wrapper
    <2> HIDE DEF n
    <2>3. wrapper'[k] = n /\ \A j \in Key \ {k} : wrapper'[j] = wrapper[j]
      BY <1>2, <1>5, <2>1
    <2>4. KeyStep(p, "idle", NoLocal, k)
      BY <1>1, <2>1, <2>3 DEF KeyStep, Finish, Goto, Set
    <2>5. RowTells(db'.launches[k], wrapper'[k])
      BY <1>1, <1>4, <2>1 DEF RowTells
    <2>6. FateInv'
      BY <1>2, <1>3, <2>4, <2>5, KeyStepKeepsFateInv DEF Fated
    <2>7. QED
      BY <1>1, <2>2, <2>3, <2>6, NoFateChanges
  <1>8. QED
    BY <1>6, <1>7

\* A step that leaves the launch rows and the wrappers alone, and makes no
\* client fated.
LEMMA QuietStepStutters ==
  ASSUME IInv, FateInv, UNCHANGED wrapper, db'.launches = db.launches,
         \A q \in Client : \/ phase'[q] = phase[q] /\ local'[q] = local[q]
                           \/ phase'[q] \notin Fated
  PROVE  FateInv' /\ UNCHANGED fate
  <1>1. \A q \in Client : KnowsFate(phase'[q], local'[q], db'.launches[local'[q].key],
                                    wrapper'[local'[q].key])
    BY DEF FateInv, KnowsFate, Fated
  <1>2. \A j \in Key : RowTells(db'.launches[j], wrapper'[j])
    BY DEF FateInv
  <1>3. QED
    BY <1>1, <1>2, NoFateChanges DEF FateInv

\* Those of a client are all besides the ones above.
LEMMA QuietRunStutters ==
  ASSUME IInv, FateInv, NEW p \in Client, Run(p),
         ~(Claim(p) \/ MarkUnknown(p) \/ Record(p)),
         ~(LaunchWrapper(p) \/ ObserveExit(p) \/ TimeOut(p))
  PROVE  FateInv' /\ UNCHANGED fate
  <1> DEFINE Quiet == Phase \ Fated
  <1>1. phase \in [Client -> Phase] /\ local \in [Client -> Local] /\ db \in Store
    BY DEF IInv, TypeOK
  <1>2. ASSUME NEW ph \in Quiet, phase' = [phase EXCEPT ![p] = ph],
               NEW l, local' = [local EXCEPT ![p] = l]
        PROVE  \A q \in Client : \/ phase'[q] = phase[q] /\ local'[q] = local[q]
                                 \/ phase'[q] \notin Fated
    BY <1>1, <1>2
  <1>3. local' = local => local' = [local EXCEPT ![p] = local[p]]
    BY <1>1
  <1>4. CASE Publish(p) \/ GiveUp(p)
    <2>1. UNCHANGED <<db, wrapper>> /\ Finish(p)
      BY <1>4 DEF Publish, GiveUp
    <2>2. "idle" \in Quiet
      BY DEF Phase, Fated
    <2>3. QED
      BY <1>2, <2>1, <2>2, QuietStepStutters DEF Finish, Goto, Set
  <1>5. CASE \/ InitializeStore(p) \/ RemoveCheckout(p) \/ ClearCheckout(p)
             \/ CloneCheckout(p) \/ CheckOutRevision(p) \/ Preflight(p)
             \/ RecheckContract(p) \/ RecheckCheckout(p) \/ ReadAdmission(p)
    <2>1. UNCHANGED <<db, wrapper, local>>
      BY <1>5
      DEF InitializeStore, RemoveCheckout, ClearCheckout, CloneCheckout, CheckOutRevision,
          Preflight, RecheckContract, RecheckCheckout, ReadAdmission, Check
    <2>2. PICK ph \in Quiet : phase' = [phase EXCEPT ![p] = ph]
      BY <1>5
      DEF InitializeStore, RemoveCheckout, ClearCheckout, CloneCheckout, CheckOutRevision,
          Preflight, RecheckContract, RecheckCheckout, ReadAdmission, Check, Goto, Phase, Fated
    <2>3. QED
      BY <1>2, <1>3, <2>1, <2>2, QuietStepStutters
  <1>6. CASE \/ StartRun(p) \/ LookUp(p) \/ ReadPriorLaunch(p)
             \/ VerifyPreparedCheckout(p) \/ ReadGeneration(p)
    <2>1. UNCHANGED <<db, wrapper>>
      BY <1>6 DEF StartRun, LookUp, ReadPriorLaunch, VerifyPreparedCheckout, ReadGeneration
    <2>2. PICK ph \in Quiet : phase' = [phase EXCEPT ![p] = ph]
      BY <1>6
      DEF StartRun, LookUp, ReadPriorLaunch, VerifyPreparedCheckout, ReadGeneration, Finish,
          Goto, Phase, Fated
    <2>3. PICK l : local' = [local EXCEPT ![p] = l]
      BY <1>1, <1>3, <1>6
      DEF StartRun, LookUp, ReadPriorLaunch, VerifyPreparedCheckout, ReadGeneration, Finish, Set
    <2>4. QED
      BY <1>2, <2>1, <2>2, <2>3, QuietStepStutters
  <1>7. CASE AcquireFirstGeneration(p) \/ Register(p) \/ Bind(p) \/ Admit(p)
    <2>1. UNCHANGED wrapper /\ db'.launches = db.launches
      BY <1>1, <1>7
      DEF AcquireFirstGeneration, Register, Bind, Admit, Call, Acquired, Registered, Bound,
          Admitted, Store
    <2>2. PICK ph \in Quiet, l \in {local[p], NoLocal} :
            phase' = [phase EXCEPT ![p] = ph] /\ local' = [local EXCEPT ![p] = l]
      BY <1>3, <1>7
      DEF AcquireFirstGeneration, Register, Bind, Admit, Call, Finish, Goto, Set, Phase, Fated
    <2>3. QED
      BY <1>2, <2>1, <2>2, QuietStepStutters
  <1>8. QED
    BY <1>4, <1>5, <1>6, <1>7 DEF Run

\* Neither do the changes around the clients, or another controller, touch a
\* launch row.
LEMMA EnvironmentStutters ==
  ASSUME IInv, FateInv, ContractChanges \/ HostChanges \/ TakeOver
  PROVE  FateInv' /\ UNCHANGED fate
  <1>1. UNCHANGED <<wrapper, phase, local>>
    BY DEF ContractChanges, HostChanges, TakeOver, clientVars
  <1>2. db'.launches = db.launches
    BY DEF ContractChanges, HostChanges, TakeOver, Acquired, IInv, TypeOK, Store
  <1>3. QED
    BY <1>1, <1>2, QuietStepStutters

\* Every step keeps the invariant, and is a step of the abstract specification
\* or a stutter.
LEMMA NextKeepsFate ==
  IInv /\ FateInv /\ [Next]_vars => FateInv' /\ [Authority!FateNext]_fate
  <1> SUFFICES ASSUME IInv, FateInv, [Next]_vars
               PROVE  FateInv' /\ [Authority!FateNext]_fate
    OBVIOUS
  <1>1. CASE UNCHANGED vars
    BY <1>1, QuietStepStutters DEF vars
  <1>2. ASSUME NEW p \in Client, Run(p) PROVE FateInv' /\ [Authority!FateNext]_fate
    BY <1>2, ClaimConsumes, MarkStutters, LaunchLaunches, RecordRecords, WaitingStutters,
       QuietRunStutters
  <1>3. ASSUME NEW k \in Key, WrapperStep(k) PROVE FateInv' /\ [Authority!FateNext]_fate
    BY <1>3, WrapperStepStutters
  <1>4. QED
    BY <1>1, <1>2, <1>3, EnvironmentStutters DEF Next

\* At first nothing is launched.
LEMMA InitHasFate == Init => FateInv /\ Authority!FateInit
  <1> SUFFICES ASSUME Init PROVE FateInv /\ Authority!FateInit
    OBVIOUS
  <1>1. \A k \in Key : db.launches[k] = None
    BY DEF Init, EmptyStore
  <1>2. FateInv
    BY <1>1 DEF Init, FateInv, KnowsFate, RowTells
  <1>3. Authority!FateInit
    BY <1>1 DEF fate, Authority!FateInit
  <1>4. QED
    BY <1>2, <1>3

\* However clients overlap, die or lose answers, the code that the store has
\* recorded for a key is the exit code of the one wrapper launched for it, and
\* a client about to record has seen that wrapper exit.
THEOREM FatesAreInvariant == Spec => []FateInv
  BY InitHasFate, NextKeepsFate, ClientIsInvariant, PTL DEF Spec

\* The client implements LaunchAuthority: for every revision and contract,
\* whatever fails, the authority is consumed once, one wrapper is launched
\* after that, and its exit code only is recorded.
THEOREM ClientImplementsLaunchAuthority == Spec => ImplementsLaunchAuthority
  BY InitHasFate, NextKeepsFate, ClientIsInvariant, FatesAreInvariant, PTL
  DEF Spec, ImplementsLaunchAuthority, Authority!FateSpec

-----------------------------------------------------------------------------
(***************************************************************************)
(* The tree the stages run on, and green statuses.                         *)
(*                                                                         *)
(* Two runs of one key share its checkout directory, and the second one    *)
(* may rebuild it while the first one's wrapper is at work.  As long as    *)
(* no two runs of a key overlap, a run that builds the directory has found *)
(* that nothing was ever launched for the key, and the directory a wrapper *)
(* verified stays as it is, even when its client died long ago.            *)
(***************************************************************************)

\* Runs of one key, by one client or by many, do not overlap.
OneRunPerKey == \A p, q \in Client :
  p # q /\ {phase[p], phase[q]} \cap {"idle", "acquiring"} = {} =>
    local[p].key # local[q].key

Building == {"removing", "clearing", "cloning", "checkout"}

\* Who builds the directory of a key has found no launch of it.
NoRowYet == \A p \in Client :
  phase[p] \in Building => db.launches[local[p].key] = None

\* A wrapper w of a key, the tree t in its directory, and its launch row.
Sound(w, t, row) ==
  /\ w.started = 0 => w.at = "none" /\ w.saw = {}
  /\ w.at \in {"stage1", "stage2"} => t = "exact"
  /\ w.saw \subseteq {"exact"}
  /\ w.at = "exited" /\ w.code = 0 => w.saw = {"exact"}
  /\ row # None /\ row.exit_code = 0 =>
       w.started = 1 /\ w.at = "exited" /\ w.saw = {"exact"}

\* Who is about to record an exit code has it from the wrapper.
SawExit == \A p \in Client : phase[p] = "record" =>
  /\ wrapper[local[p].key].at = "exited"
  /\ wrapper[local[p].key].code = local[p].code

GreenRecorded(st, d) ==
  \A r \in Revision : st[r] = "success" =>
    \E c \in Contract :
      LET l == d.launches[<<r, c>>] IN
      l # None /\ l.state = "terminal" /\ l.exit_code = 0

\* What has to be added to the invariant, while OneRunPerKey.
TreeInv ==
  /\ NoRowYet
  /\ \A k \in Key : Sound(wrapper[k], tree[k], db.launches[k])
  /\ SawExit
  /\ GreenRecorded(statuses, db)

\* What makes a commit green outlives every change of the tables, too.
LEMMA GreenStays ==
  ASSUME NEW st, NEW d, NEW e, GreenRecorded(st, d), Follows(d, e)
  PROVE  GreenRecorded(st, e)
  <1>1. SUFFICES ASSUME NEW r \in Revision, st[r] = "success"
                 PROVE  \E c \in Contract :
                          LET l == e.launches[<<r, c>>] IN
                          l # None /\ l.state = "terminal" /\ l.exit_code = 0
    BY DEF GreenRecorded
  <1>2. PICK c \in Contract :
          LET l == d.launches[<<r, c>>] IN
          l # None /\ l.state = "terminal" /\ l.exit_code = 0
    BY <1>1 DEF GreenRecorded
  <1>3. <<r, c>> \in Key
    BY KeyAssumption
  <1>4. e.launches[<<r, c>>] = d.launches[<<r, c>>]
    BY <1>2, <1>3 DEF Follows
  <1>5. QED
    BY <1>2, <1>4

\* A step of client p to phase ph with local variables l that changes no row,
\* no wrapper and no status, and the tree of a key at most whose wrapper was
\* never launched.
PlainStep(p, ph, l) ==
  /\ phase' = [phase EXCEPT ![p] = ph] /\ local' = [local EXCEPT ![p] = l]
  /\ db'.launches = db.launches /\ UNCHANGED <<wrapper, statuses>>
  /\ \A k \in Key : tree'[k] = tree[k] \/ wrapper[k].started = 0
  /\ ph \in Building => db.launches[l.key] = None
  /\ ph = "record" => wrapper[l.key].at = "exited" /\ wrapper[l.key].code = l.code

\* Such a step keeps the trees.
LEMMA PlainStepKeepsTreeInv ==
  ASSUME IInv, TreeInv, NEW p \in Client, NEW ph, NEW l, PlainStep(p, ph, l)
  PROVE  TreeInv'
  <1> USE DEF PlainStep
  <1>1. phase'[p] = ph /\ local'[p] = l
    BY DEF IInv, TypeOK
  <1>2. \A q \in Client \ {p} : phase'[q] = phase[q] /\ local'[q] = local[q]
    BY DEF IInv, TypeOK
  <1>3. NoRowYet'
    BY <1>1, <1>2 DEF TreeInv, NoRowYet
  <1>4. \A k \in Key : Sound(wrapper[k], tree[k], db.launches[k])'
    BY DEF TreeInv, Sound
  <1>5. SawExit'
    BY <1>1, <1>2 DEF TreeInv, SawExit
  <1>6. GreenRecorded(statuses, db)'
    BY DEF TreeInv, GreenRecorded
  <1>7. QED
    BY <1>3, <1>4, <1>5, <1>6 DEF TreeInv

\* A client at a step that leaves rows, wrappers, statuses and trees alone.
LEMMA QuietRunKeepsTreeInv ==
  ASSUME IInv, TreeInv, NEW p \in Client,
         \/ InitializeStore(p) \/ StartRun(p) \/ LookUp(p) \/ ReadPriorLaunch(p)
         \/ VerifyPreparedCheckout(p) \/ Preflight(p) \/ RecheckContract(p)
         \/ RecheckCheckout(p) \/ ReadGeneration(p) \/ ReadAdmission(p)
         \/ ObserveExit(p) \/ GiveUp(p)
  PROVE  TreeInv'
  <1> DEFINE here(ph) == PlainStep(p, ph, local[p])
  <1>1. /\ db \in Store /\ ValidStore(db) /\ Knows(phase[p], local[p], db, wrapper)
        /\ local \in [Client -> Local] /\ local[p] \in Local
    BY DEF IInv, TypeOK
  <1>2. local = [local EXCEPT ![p] = local[p]]
    BY <1>1
  <1>3. CASE InitializeStore(p)
    BY <1>2, <1>3, PlainStepKeepsTreeInv
    DEF InitializeStore, Goto, PlainStep, Building
  <1>4. CASE StartRun(p)
    <2>1. PICK r \in Revision : Set(p, [NoLocal EXCEPT !.key = <<r, contract>>])
      BY <1>4 DEF StartRun
    <2>2. PlainStep(p, "looking", [NoLocal EXCEPT !.key = <<r, contract>>])
      BY <1>4, <2>1 DEF StartRun, Set, Goto, PlainStep, Building
    <2>3. QED
      BY <2>2, PlainStepKeepsTreeInv
  <1>5. CASE LookUp(p)
    <2> DEFINE known == local[p].key \in db.keys
               l == [local[p] EXCEPT !.exists = known]
    <2>1. local[p].key \in Key
      BY <1>1, <1>5 DEF LookUp, At, Knows
    <2>2. ~known => db.launches[local[p].key] = None
      BY <1>1, <2>1 DEF ValidStore, LaunchesValid
    <2>3. l.key = local[p].key
      BY <1>1 DEF Local
    <2>4. /\ local' = [local EXCEPT ![p] = l]
          /\ phase' = [phase EXCEPT ![p] = IF known THEN "reading" ELSE "removing"]
          /\ UNCHANGED <<db, tree, wrapper, statuses>>
      BY <1>5 DEF LookUp, key, Goto
    <2> HIDE DEF l
    <2>5. PlainStep(p, IF known THEN "reading" ELSE "removing", l)
      BY <2>2, <2>3, <2>4 DEF PlainStep, Building
    <2>6. QED
      BY <2>5, PlainStepKeepsTreeInv
  <1>6. CASE ReadPriorLaunch(p)
    <2> DEFINE row == db.launches[local[p].key]
               l == [local[p] EXCEPT !.code = row.exit_code]
    <2>1. UNCHANGED <<db, tree, wrapper, statuses>>
      BY <1>6 DEF ReadPriorLaunch
    <2>2. \/ row = None /\ phase' = [phase EXCEPT ![p] = "removing"] /\ local' = local
          \/ phase' = [phase EXCEPT ![p] = "idle"] /\ local' = [local EXCEPT ![p] = NoLocal]
          \/ phase' = [phase EXCEPT ![p] = "publish"] /\ local' = [local EXCEPT ![p] = l]
      BY <1>6 DEF ReadPriorLaunch, key, Goto, Finish, Set
    <2> HIDE DEF l
    <2>3. PlainStep(p, "removing", local[p]) \/ PlainStep(p, "idle", NoLocal)
            \/ PlainStep(p, "publish", l)
      BY <1>2, <2>1, <2>2 DEF PlainStep, Building
    <2>4. QED
      BY <2>3, PlainStepKeepsTreeInv
  <1>7. CASE VerifyPreparedCheckout(p)
    <2>1. PlainStep(p, "preflight", [local[p] EXCEPT !.hash = host])
      BY <1>7 DEF VerifyPreparedCheckout, Goto, PlainStep, Building
    <2>2. QED
      BY <2>1, PlainStepKeepsTreeInv
  <1>8. CASE Preflight(p) \/ RecheckContract(p) \/ RecheckCheckout(p) \/ ReadAdmission(p)
    <2>1. here("contract") \/ here("verify") \/ here("bind") \/ here("register")
            \/ here("admit") \/ here("claim")
      BY <1>2, <1>8
      DEF Preflight, RecheckContract, RecheckCheckout, ReadAdmission, Check, Goto,
          PlainStep, Building
    <2> HIDE DEF here
    <2>2. QED
      BY <2>1, PlainStepKeepsTreeInv DEF here
  <1>9. CASE ReadGeneration(p)
    <2>1. PlainStep(p, "admission", [local[p] EXCEPT !.generation = db.generations[scope]])
      BY <1>9 DEF ReadGeneration, Goto, PlainStep, Building
    <2>2. QED
      BY <2>1, PlainStepKeepsTreeInv
  <1>10. CASE ObserveExit(p)
    <2> DEFINE l == [local[p] EXCEPT !.code = wrapper[local[p].key].code]
    <2>1. wrapper[local[p].key].at = "exited"
      BY <1>1, <1>10 DEF ObserveExit, At, key, Knows, Running
    <2>2. l.key = local[p].key /\ l.code = wrapper[local[p].key].code
      BY <1>1 DEF Local
    <2>3. /\ local' = [local EXCEPT ![p] = l] /\ phase' = [phase EXCEPT ![p] = "record"]
          /\ UNCHANGED <<db, tree, wrapper, statuses>>
      BY <1>10 DEF ObserveExit, key, Goto
    <2> HIDE DEF l
    <2>4. PlainStep(p, "record", l)
      BY <2>1, <2>2, <2>3 DEF PlainStep, Building
    <2>5. QED
      BY <2>4, PlainStepKeepsTreeInv
  <1>11. CASE GiveUp(p)
    <2>1. PlainStep(p, "idle", NoLocal)
      BY <1>11 DEF GiveUp, Finish, Goto, Set, PlainStep, Building
    <2>2. QED
      BY <2>1, PlainStepKeepsTreeInv
  <1>12. QED
    BY <1>3, <1>4, <1>5, <1>6, <1>7, <1>8, <1>9, <1>10, <1>11

\* The directory that is built is that of a key whose wrapper was never launched.
LEMMA BuildingKeepsTreeInv ==
  ASSUME IInv, TreeInv, NEW p \in Client,
         RemoveCheckout(p) \/ ClearCheckout(p) \/ CloneCheckout(p) \/ CheckOutRevision(p)
  PROVE  TreeInv'
  <1> DEFINE k == local[p].key
  <1>1. phase[p] \in Building
    BY DEF RemoveCheckout, ClearCheckout, CloneCheckout, CheckOutRevision, At, Building
  <1>2. k \in Key /\ db.launches[k] = None
    BY <1>1 DEF IInv, Knows, TreeInv, NoRowYet, Building
  <1>3. wrapper[k].started = 0
    BY <1>2 DEF IInv, Launched
  <1>4. \A j \in Key : tree'[j] = tree[j] \/ wrapper[j].started = 0
    <2>1. tree' = tree \/ \E t : tree' = [tree EXCEPT ![k] = t]
      BY DEF RemoveCheckout, ClearCheckout, CloneCheckout, CheckOutRevision, key
    <2>2. QED
      BY <1>3, <2>1 DEF IInv, TypeOK
  <1>5. local = [local EXCEPT ![p] = local[p]]
    BY DEF IInv, TypeOK
  <1>6. PICK ph \in {"clearing", "cloning", "checkout", "preparing"} :
          phase' = [phase EXCEPT ![p] = ph]
    BY DEF RemoveCheckout, ClearCheckout, CloneCheckout, CheckOutRevision, Goto
  <1>7. UNCHANGED <<db, wrapper, statuses, local>>
    BY DEF RemoveCheckout, ClearCheckout, CloneCheckout, CheckOutRevision
  <1>8. PlainStep(p, ph, local[p])
    BY <1>2, <1>4, <1>5, <1>6, <1>7 DEF PlainStep
  <1>9. QED
    BY <1>8, PlainStepKeepsTreeInv

\* A store call that leaves the launch rows alone.
LEMMA QuietCallKeepsTreeInv ==
  ASSUME IInv, TreeInv, NEW p \in Client,
         AcquireFirstGeneration(p) \/ Register(p) \/ Bind(p) \/ Admit(p)
  PROVE  TreeInv'
  <1>1. db \in Store /\ local = [local EXCEPT ![p] = local[p]]
    BY DEF IInv, TypeOK
  <1>2. db'.launches = db.launches
    <2>1. \A k, h, g : /\ Acquired(db, scope).launches = db.launches
                       /\ Registered(db, k).launches = db.launches
                       /\ Bound(db, k, h).launches = db.launches
                       /\ Admitted(db, k, scope, g).launches = db.launches
      BY <1>1 DEF Store, Acquired, Registered, Bound, Admitted
    <2>2. QED
      BY <2>1 DEF AcquireFirstGeneration, Register, Bind, Admit, Call
  <1>3. UNCHANGED <<tree, wrapper, statuses>>
    BY DEF AcquireFirstGeneration, Register, Bind, Admit, Call
  <1>4. \/ /\ phase' = [phase EXCEPT ![p] = "idle"]
           /\ local' = local \/ local' = [local EXCEPT ![p] = NoLocal]
        \/ local' = local /\ phase' = [phase EXCEPT ![p] = "bind"]
        \/ local' = local /\ phase' = [phase EXCEPT ![p] = "generation"]
        \/ local' = local /\ phase' = [phase EXCEPT ![p] = "claim"]
    BY DEF AcquireFirstGeneration, Register, Bind, Admit, Call, Goto, Finish, Set
  <1> DEFINE here(ph) == PlainStep(p, ph, local[p])
  <1>5. \/ PlainStep(p, "idle", NoLocal) \/ here("idle") \/ here("bind")
        \/ here("generation") \/ here("claim")
    BY <1>1, <1>2, <1>3, <1>4 DEF PlainStep, Building
  <1> HIDE DEF here
  <1>6. QED
    BY <1>5, PlainStepKeepsTreeInv DEF here

\* A step of client p that writes the launch row of its key.
RowStep(p, ph, l, row) ==
  /\ phase[p] \in {"claim", "mark", "record"} /\ ph \notin Building \cup {"record"}
  /\ phase' = [phase EXCEPT ![p] = ph] /\ local' = [local EXCEPT ![p] = l]
  /\ db'.launches = [db.launches EXCEPT ![local[p].key] = row] /\ Follows(db, db')
  /\ Sound(wrapper[local[p].key], tree[local[p].key], row)
  /\ UNCHANGED <<tree, wrapper, statuses>>

\* Such a write keeps the trees.
LEMMA RowKeepsTreeInv ==
  ASSUME IInv, TreeInv, OneRunPerKey, NEW p \in Client, NEW ph, NEW l, NEW row,
         RowStep(p, ph, l, row)
  PROVE  TreeInv'
  <1> USE DEF RowStep
  <1> DEFINE k == local[p].key
  <1>1. k \in Key
    BY DEF IInv, Knows
  <1>2. phase'[p] = ph /\ \A q \in Client \ {p} : phase'[q] = phase[q] /\ local'[q] = local[q]
    BY DEF IInv, TypeOK
  <1>3. db'.launches[k] = row /\ \A j \in Key \ {k} : db'.launches[j] = db.launches[j]
    BY <1>1 DEF IInv, TypeOK, Store
  <1>4. NoRowYet'
    <2>1. SUFFICES ASSUME NEW q \in Client \ {p}, phase[q] \in Building
                   PROVE  db'.launches[local[q].key] = None
      BY <1>2 DEF NoRowYet
    <2>2. local[q].key \in Key \ {k}
      BY <2>1 DEF OneRunPerKey, IInv, Knows, Building
    <2>3. QED
      BY <1>3, <2>1, <2>2 DEF TreeInv, NoRowYet
  <1>5. \A j \in Key : Sound(wrapper[j], tree[j], db.launches[j])'
    BY <1>3 DEF TreeInv
  <1>6. SawExit'
    BY <1>2 DEF TreeInv, SawExit
  <1>7. GreenRecorded(statuses, db)'
    BY GreenStays DEF TreeInv
  <1>8. QED
    BY <1>4, <1>5, <1>6, <1>7 DEF TreeInv

\* The three calls that write the launch row.
LEMMA RowCallKeepsTreeInv ==
  ASSUME IInv, TreeInv, OneRunPerKey, NEW p \in Client,
         Claim(p) \/ MarkUnknown(p) \/ Record(p)
  PROVE  TreeInv'
  <1> DEFINE l == local[p]
             k == l.key
  <1>1. /\ db \in Store /\ ValidStore(db) /\ Knows(phase[p], l, db, wrapper)
        /\ local = [local EXCEPT ![p] = l] /\ phase[p] \in {"claim", "mark", "record"}
    BY DEF IInv, TypeOK, Claim, MarkUnknown, Record, Call, At
  <1>2. k \in Key /\ l.hash \in Hash /\ Sound(wrapper[k], tree[k], db.launches[k])
    BY <1>1 DEF Knows, TreeInv, WithCommand, Owning
  <1>3. UNCHANGED <<tree, wrapper, statuses>>
    BY DEF Claim, MarkUnknown, Record, Call
  <1>4. PICK row :
          /\ row # None /\ db' = [db EXCEPT !.launches = [db.launches EXCEPT ![k] = row]]
          /\ db.launches[k] # None => db.launches[k].state # "terminal"
          /\ Sound(wrapper[k], tree[k], row)
    <2>1. CASE Claim(p)
      <3>1. /\ l.generation \in Generation /\ scope \in Scope
            /\ CanClaim(db, k, scope, l.generation, l.hash)
            /\ db' = Claimed(db, k, scope, l.generation, l.hash)
        BY <1>1, <2>1, ScopeAssumption DEF Claim, Call, At, Knows, scope
      <3> DEFINE row == [hash |-> l.hash, scope |-> scope, generation |-> l.generation,
                         state |-> "intent", exit_code |-> None]
      <3>2. row # None /\ db' = [db EXCEPT !.launches = [db.launches EXCEPT ![k] = row]]
        BY <1>1, <1>2, <3>1, ClaimedIsValid
      <3>3. db.launches[k] = None /\ row.exit_code # 0
        BY <3>1, NoneAssumption, CodeAssumption DEF CanClaim
      <3> HIDE DEF row
      <3>4. QED
        BY <1>2, <3>2, <3>3 DEF Sound
    <2>2. CASE MarkUnknown(p)
      <3>1. CanMarkUnknown(db, k, l.hash) /\ db' = MarkedUnknown(db, k)
        BY <2>2 DEF MarkUnknown, Call
      <3> DEFINE row == [db.launches[k] EXCEPT !.state = "unknown"]
      <3>2. /\ db.launches[k] \in ExecutionLaunch /\ row # None
            /\ db' = [db EXCEPT !.launches = [db.launches EXCEPT ![k] = row]]
        BY <1>1, <1>2, <3>1, MarkedIsValid
      <3>3. /\ db.launches[k] # None /\ db.launches[k].state = "intent"
            /\ row.exit_code = db.launches[k].exit_code
        BY <3>1, <3>2 DEF CanMarkUnknown, HasLaunch, ExecutionLaunch
      <3> HIDE DEF row
      <3>4. QED
        BY <1>2, <3>2, <3>3 DEF Sound
    <2>3. CASE Record(p)
      <3>1. /\ CanRecordTerminal(db, k, l.hash) /\ db' = TerminalRecorded(db, k, l.code)
            /\ l.code \in ExitCode /\ phase[p] = "record"
        BY <1>1, <2>3 DEF Record, Call, At, Knows
      <3> DEFINE row == TerminalRow(db.launches[k], l.code)
      <3>2. /\ row # None /\ row.exit_code = l.code
            /\ db' = [db EXCEPT !.launches = [db.launches EXCEPT ![k] = row]]
        BY <1>1, <1>2, <3>1, RecordedIsValid
      <3>3. db.launches[k] # None /\ db.launches[k].state = "unknown"
        BY <3>1 DEF CanRecordTerminal, HasLaunch
      <3>4. wrapper[k].at = "exited" /\ wrapper[k].code = l.code
        BY <3>1 DEF TreeInv, SawExit
      <3>5. wrapper[k].started \in 0..2 /\ wrapper[k].started <= 1
        BY <1>2 DEF IInv, TypeOK, Wrapper, Launched
      <3>6. wrapper[k].started = 1
        BY <1>2, <3>4, <3>5 DEF Sound
      <3> HIDE DEF row
      <3>7. QED
        BY <1>2, <3>2, <3>3, <3>4, <3>6 DEF Sound
    <2>4. QED
      BY <2>1, <2>2, <2>3
  <1>5. db'.launches = [db.launches EXCEPT ![k] = row]
    BY <1>1, <1>4 DEF Store
  <1>6. Follows(db, db')
    <2>1. db'.launches[k] = row /\ \A j \in Key \ {k} : db'.launches[j] = db.launches[j]
      BY <1>1, <1>2, <1>5 DEF Store
    <2>2. QED
      BY <1>4, <2>1 DEF Follows
  <1>7. PICK ph \in {"mark", "launch", "publish", "idle"}, m \in {l, NoLocal} :
          phase' = [phase EXCEPT ![p] = ph] /\ local' = [local EXCEPT ![p] = m]
    BY <1>1 DEF Claim, MarkUnknown, Record, Call, Goto, Finish, Set
  <1>8. ph \notin Building \cup {"record"}
    BY DEF Building
  <1>9. RowStep(p, ph, m, row)
    BY <1>1, <1>3, <1>4, <1>5, <1>6, <1>7, <1>8 DEF RowStep
  <1>10. QED
    BY <1>9, RowKeepsTreeInv

\* A step of client p or of a wrapper after which the wrapper of key k is n.
LEMMA WrapperKeepsTreeInv ==
  ASSUME IInv, TreeInv, NEW k \in Key, NEW n, wrapper' = [wrapper EXCEPT ![k] = n],
         UNCHANGED <<db, tree, statuses>>, Sound(n, tree[k], db.launches[k]), NoRowYet',
         \A p \in Client : phase'[p] = "record" =>
           phase[p] = "record" /\ local'[p] = local[p] /\ local[p].key # k
  PROVE  TreeInv'
  <1>1. wrapper'[k] = n /\ \A j \in Key \ {k} : wrapper'[j] = wrapper[j]
    BY DEF IInv, TypeOK
  <1>2. \A j \in Key : Sound(wrapper[j], tree[j], db.launches[j])'
    BY <1>1 DEF TreeInv
  <1>3. SawExit'
    <2>1. \A p \in Client : phase[p] = "record" => local[p].key \in Key
      BY DEF IInv, Knows
    <2>2. QED
      BY <1>1, <2>1 DEF TreeInv, SawExit
  <1>4. QED
    BY <1>2, <1>3 DEF TreeInv, GreenRecorded

\* The first wrapper of a key starts, or is killed when its time is out.
LEMMA WaitingKeepsTreeInv ==
  ASSUME IInv, TreeInv, NEW p \in Client, LaunchWrapper(p) \/ TimeOut(p)
  PROVE  TreeInv'
  <1> DEFINE k == local[p].key
  <1>1. /\ phase[p] \in {"launch", "waiting"} /\ Knows(phase[p], local[p], db, wrapper)
        /\ wrapper[k] = wrapper[k] /\ UNCHANGED <<db, tree, statuses>>
    BY DEF IInv, LaunchWrapper, TimeOut, At
  <1>2. k \in Key /\ Sound(wrapper[k], tree[k], db.launches[k]) /\ wrapper[k] \in Wrapper
    BY <1>1 DEF Knows, TreeInv, IInv, TypeOK
  <1>3. PICK ph \in {"waiting", "idle"}, m \in {local[p], NoLocal} :
          phase' = [phase EXCEPT ![p] = ph] /\ local' = [local EXCEPT ![p] = m]
    <2>1. local = [local EXCEPT ![p] = local[p]]
      BY DEF IInv, TypeOK
    <2>2. QED
      BY <2>1 DEF LaunchWrapper, TimeOut, Goto, Finish, Set
  <1>4. /\ phase'[p] = ph
        /\ \A q \in Client \ {p} : phase'[q] = phase[q] /\ local'[q] = local[q]
    BY <1>3 DEF IInv, TypeOK
  <1>5. NoRowYet'
    BY <1>1, <1>4 DEF TreeInv, NoRowYet, Building
  <1>6. \A q \in Client : phase'[q] = "record" =>
          phase[q] = "record" /\ local'[q] = local[q] /\ local[q].key # k
    BY <1>1, <1>4 DEF IInv, Sole, Owning
  <1>7. PICK n : /\ wrapper' = [wrapper EXCEPT ![k] = n]
                 /\ Sound(n, tree[k], db.launches[k])
    <2>1. CASE LaunchWrapper(p)
      <3> DEFINE n == [at |-> "verifying", saw |-> {}, code |-> None,
                       started |-> IF wrapper[k].started < 2
                                   THEN wrapper[k].started + 1 ELSE 2]
      <3>1. wrapper' = [wrapper EXCEPT ![k] = n]
        BY <1>2, <2>1 DEF LaunchWrapper, key, IInv, TypeOK
      <3>2. wrapper[k].started = 0
        BY <1>1, <2>1 DEF LaunchWrapper, At, Knows
      <3>3. n.started = 1 /\ n.at = "verifying" /\ n.saw = {}
        BY <3>2
      <3> HIDE DEF n
      <3>4. Sound(n, tree[k], db.launches[k])
        BY <1>2, <3>2, <3>3 DEF Sound
      <3>5. QED
        BY <3>1, <3>4
    <2>2. CASE TimeOut(p)
      <3> DEFINE n == [wrapper[k] EXCEPT !.at = "killed"]
      <3>1. wrapper' = [wrapper EXCEPT ![k] = n] /\ wrapper[k].at # "exited"
              /\ wrapper[k].at # "none"
        BY <1>2, <2>2 DEF TimeOut, key, Running, IInv, TypeOK
      <3>2. n.at = "killed" /\ n.started = wrapper[k].started /\ n.saw = wrapper[k].saw
        BY <1>2 DEF Wrapper
      <3> HIDE DEF n
      <3>3. QED
        BY <1>2, <3>1, <3>2 DEF Sound
    <2>3. QED
      BY <2>1, <2>2
  <1>8. QED
    BY <1>1, <1>2, <1>5, <1>6, <1>7, WrapperKeepsTreeInv

\* A wrapper verifies its tree and runs its stages on the tree it verified.
LEMMA WrapperStepKeepsTreeInv ==
  ASSUME IInv, TreeInv, NEW k \in Key, WrapperStep(k)
  PROVE  TreeInv'
  <1>1. UNCHANGED <<db, tree, statuses, phase, local>>
    BY DEF WrapperStep, WrapperVerifies, WrapperRuns
  <1>2. wrapper[k] \in Wrapper /\ wrapper \in [Key -> Wrapper]
    BY DEF IInv, TypeOK
  <1>3. Sound(wrapper[k], tree[k], db.launches[k]) /\ Running(k)
    BY DEF TreeInv, WrapperStep, WrapperVerifies, WrapperRuns, Running
  <1>4. NoRowYet'
    BY <1>1 DEF TreeInv, NoRowYet
  <1>5. \A p \in Client : phase[p] = "record" => local[p].key # k
    BY <1>3 DEF TreeInv, SawExit, Running
  <1>6. PICK n : /\ wrapper' = [wrapper EXCEPT ![k] = n]
                 /\ Sound(n, tree[k], db.launches[k])
    <2>1. CASE WrapperVerifies(k)
      <3> DEFINE m == [wrapper[k] EXCEPT !.at = "stage1"]
                 x == Exit(wrapper[k], 2)
      <3>1. /\ m.at = "stage1" /\ m.started = wrapper[k].started /\ m.saw = wrapper[k].saw
            /\ x.at = "exited" /\ x.started = wrapper[k].started /\ x.saw = wrapper[k].saw
            /\ x.code = 2
        BY <1>2 DEF Wrapper, Exit
      <3>2. \/ wrapper' = [wrapper EXCEPT ![k] = m] /\ tree[k] = "exact"
            \/ wrapper' = [wrapper EXCEPT ![k] = x]
        BY <1>2, <2>1 DEF WrapperVerifies, ExactTree
      <3> HIDE DEF m, x
      <3>3. QED
        BY <1>3, <3>1, <3>2 DEF Sound, Running
    <2>2. ASSUME NEW st \in {"stage1", "stage2"}, NEW passed \in {"stage2", "exited"},
                 WrapperRuns(k, st, passed)
          PROVE  \E n : /\ wrapper' = [wrapper EXCEPT ![k] = n]
                        /\ Sound(n, tree[k], db.launches[k])
      <3> DEFINE w == [wrapper[k] EXCEPT !.saw = @ \cup {tree[k]}]
                 m == [w EXCEPT !.at = "stage2"]
                 x == Exit(w, 0)
                 y == Exit(w, 1)
      <3>1. /\ w \in Wrapper /\ w.saw = {"exact"} /\ w.started = wrapper[k].started
            /\ tree[k] = "exact"
        BY <1>2, <1>3, <2>2 DEF Wrapper, Sound, WrapperRuns, IInv, TypeOK, TreeState
      <3>2. \/ wrapper' = [wrapper EXCEPT ![k] = m] \/ wrapper' = [wrapper EXCEPT ![k] = x]
            \/ wrapper' = [wrapper EXCEPT ![k] = y]
        BY <2>2 DEF WrapperRuns
      <3> HIDE DEF w
      <3>3. /\ m.at = "stage2" /\ m.started = w.started /\ m.saw = w.saw
            /\ x.at = "exited" /\ x.started = w.started /\ x.saw = w.saw
            /\ y.at = "exited" /\ y.started = w.started /\ y.saw = w.saw /\ y.code = 1
        BY <3>1 DEF Wrapper, Exit
      <3> HIDE DEF m, x, y
      <3>4. QED
        BY <1>3, <3>1, <3>2, <3>3 DEF Sound, Running
    <2>3. QED
      BY <2>1, <2>2 DEF WrapperStep
  <1>7. QED
    BY <1>1, <1>4, <1>5, <1>6, WrapperKeepsTreeInv

\* A green status is published of a row that says so.
LEMMA PublishKeepsTreeInv ==
  ASSUME IInv, TreeInv, NEW p \in Client, Publish(p)
  PROVE  TreeInv'
  <1> DEFINE l == local[p]
             k == l.key
             color == IF l.code = 0 THEN "success" ELSE "failure"
  <1>1. /\ Knows("publish", l, db, wrapper) /\ UNCHANGED <<db, tree, wrapper>>
        /\ phase' = [phase EXCEPT ![p] = "idle"] /\ local' = [local EXCEPT ![p] = NoLocal]
        /\ statuses' = [statuses EXCEPT ![k[1]] = color]
    BY DEF Publish, At, Finish, Goto, Set, key, IInv
  <1>2. /\ phase'[p] = "idle"
        /\ \A q \in Client \ {p} : phase'[q] = phase[q] /\ local'[q] = local[q]
    BY <1>1 DEF IInv, TypeOK
  <1>3. NoRowYet' /\ SawExit'
    BY <1>1, <1>2 DEF TreeInv, NoRowYet, SawExit, Building
  <1>4. GreenRecorded(statuses, db)'
    <2>1. PICK r \in Revision, c \in Contract : k = <<r, c>>
      BY <1>1, KeyAssumption DEF Knows
    <2>2. /\ db.launches[<<r, c>>] # None /\ db.launches[<<r, c>>].state = "terminal"
          /\ db.launches[<<r, c>>].exit_code = l.code
      BY <1>1, <2>1 DEF Knows
    <2>3. statuses'[r] = color /\ \A q \in Revision \ {r} : statuses'[q] = statuses[q]
      BY <1>1, <2>1 DEF IInv, TypeOK
    <2>4. QED
      BY <1>1, <2>2, <2>3 DEF TreeInv, GreenRecorded
  <1>5. QED
    BY <1>1, <1>3, <1>4 DEF TreeInv

\* Nothing else touches what the wrappers run on, or the rows.
LEMMA EnvironmentKeepsTreeInv ==
  ASSUME IInv, TreeInv, ContractChanges \/ HostChanges \/ TakeOver
  PROVE  TreeInv'
  <1>1. UNCHANGED <<tree, wrapper, statuses, phase, local>>
    BY DEF ContractChanges, HostChanges, TakeOver, clientVars
  <1>2. db'.launches = db.launches
    BY DEF ContractChanges, HostChanges, TakeOver, IInv, TypeOK, Store, Acquired
  <1>3. QED
    BY <1>1, <1>2 DEF TreeInv, NoRowYet, SawExit, GreenRecorded

\* Every step keeps it, as long as the runs of a key do not overlap.
LEMMA NextKeepsTreeInv == IInv /\ OneRunPerKey /\ TreeInv /\ [Next]_vars => TreeInv'
  <1> SUFFICES ASSUME IInv, OneRunPerKey, TreeInv, [Next]_vars PROVE TreeInv'
    OBVIOUS
  <1>1. CASE UNCHANGED vars
    BY <1>1 DEF vars, TreeInv, NoRowYet, SawExit, GreenRecorded
  <1>2. ASSUME NEW p \in Client, Run(p) PROVE TreeInv'
    BY <1>2, QuietRunKeepsTreeInv, BuildingKeepsTreeInv, QuietCallKeepsTreeInv,
       RowCallKeepsTreeInv, WaitingKeepsTreeInv, PublishKeepsTreeInv DEF Run
  <1>3. QED
    BY <1>1, <1>2, WrapperStepKeepsTreeInv, EnvironmentKeepsTreeInv DEF Next

\* Nothing is built, launched or published at first.
LEMMA InitHasTreeInv == Init => TreeInv
  <1> SUFFICES ASSUME Init PROVE TreeInv
    OBVIOUS
  <1>1. NoRowYet /\ SawExit /\ GreenRecorded(statuses, db)
    BY DEF Init, NoRowYet, Building, SawExit, GreenRecorded
  <1>2. \A k \in Key : Sound(wrapper[k], tree[k], db.launches[k])
    BY DEF Init, Sound, EmptyStore
  <1>3. QED
    BY <1>1, <1>2 DEF TreeInv

\* As long as runs of one key do not overlap, what the tables, wrappers and
\* directories say of one another stays so.
THEOREM TreesAreInvariant == Spec /\ []OneRunPerKey => []TreeInv
  BY InitHasTreeInv, NextKeepsTreeInv, ClientIsInvariant, PTL DEF Spec

\* As long as runs of one key do not overlap, no stage runs on a tree other than
\* the exact one, even when clients die and their wrappers live on.
THEOREM StagesRunOnTheVerifiedTree == Spec /\ []OneRunPerKey => []StagesRunOnExactTree
  <1>1. TreeInv => StagesRunOnExactTree
    BY DEF TreeInv, Sound, StagesRunOnExactTree
  <1>2. QED
    BY <1>1, TreesAreInvariant, PTL

\* As long as runs of one key do not overlap, a commit is green only if its one
\* wrapper passed both stages on the exact tree and the store says so.
THEOREM GreenIsValidated == Spec /\ []OneRunPerKey => []GreenMeansValidated
  <1>1. TreeInv => GreenMeansValidated
    <2>1. SUFFICES ASSUME TreeInv, NEW r \in Revision, statuses[r] = "success"
                   PROVE  \E c \in Contract : Passed(<<r, c>>)
      BY DEF GreenMeansValidated
    <2>2. PICK c \in Contract :
            LET l == db.launches[<<r, c>>] IN
            l # None /\ l.state = "terminal" /\ l.exit_code = 0
      BY <2>1 DEF TreeInv, GreenRecorded
    <2>3. <<r, c>> \in Key
      BY KeyAssumption
    <2>4. Sound(wrapper[<<r, c>>], tree[<<r, c>>], db.launches[<<r, c>>])
      BY <2>1, <2>3 DEF TreeInv
    <2>5. QED
      BY <2>2, <2>4 DEF Passed, Sound
  <1>2. QED
    BY <1>1, TreesAreInvariant, PTL

\* A single client, started again and again, meets the condition: its stages run
\* on the exact tree, and its green statuses are true.
THEOREM OneClientIsSound ==
  ASSUME \A p, q \in Client : p = q
  PROVE  Spec => []StagesRunOnExactTree /\ []GreenMeansValidated
  <1>1. OneRunPerKey
    BY DEF OneRunPerKey
  <1>2. Spec => []OneRunPerKey
    BY <1>1, PTL
  <1>3. QED
    BY <1>2, StagesRunOnTheVerifiedTree, GreenIsValidated, PTL
-----------------------------------------------------------------------------
(* The keys: derive_execution_key is injective, for texts of every length the *)
(* frame can carry and whatever bytes they contain.                           *)

Framable == {x \in Seq(Byte) : Len(x) \in 0..MaxBytes}

\* Two byte strings that are equal with their equally long heads taken off.
LEMMA SameHead ==
  ASSUME NEW a \in Seq(Byte), NEW b \in Seq(Byte), NEW r \in Seq(Byte), NEW s \in Seq(Byte),
         Len(a) = Len(b), a \o r = b \o s
  PROVE  a = b /\ r = s
  <1>1. \A i \in 1..Len(a) : a[i] = b[i]
    <2>1. \A i \in 1..Len(a) : (a \o r)[i] = a[i] /\ (b \o s)[i] = b[i]
      BY ConcatProperties
    <2>2. QED
      BY <2>1
  <1>2. a = b
    BY <1>1
  <1>3. r = s
    BY <1>2, ConcatSimplifications
  <1>4. QED
    BY <1>2, <1>3

\* A frame is a byte string.
LEMMA FrameIsBytes ==
  ASSUME NEW x \in Framable
  PROVE  Frame(x) \in Seq(Byte)
  BY WordAssumption DEF Framable, Frame

\* A word, a text and what follows are the word, and then the rest.
LEMMA FrameThenRest ==
  ASSUME NEW v \in Seq(Byte), NEW x \in Seq(Byte), NEW r \in Seq(Byte)
  PROVE  (v \o x) \o r = v \o (x \o r)
  BY ConcatAssociative

\* A frame says where it ends: whatever follows two frames, if the bytes are
\* the same the framed texts are, and so is what follows.
LEMMA FrameIsSelfDelimiting ==
  ASSUME NEW x \in Framable, NEW y \in Framable, NEW r \in Seq(Byte), NEW s \in Seq(Byte),
         Frame(x) \o r = Frame(y) \o s
  PROVE  x = y /\ r = s
  <1>1. /\ x \in Seq(Byte) /\ Len(x) \in 0..MaxBytes
        /\ y \in Seq(Byte) /\ Len(y) \in 0..MaxBytes
        /\ r \in Seq(Byte) /\ s \in Seq(Byte)
    BY DEF Framable
  <1>2. /\ Word(Len(x)) \in Seq(Byte) /\ Len(Word(Len(x))) = Width
        /\ Word(Len(y)) \in Seq(Byte) /\ Len(Word(Len(y))) = Width
    BY <1>1, WordAssumption
  <1>3. /\ Frame(x) \o r = Word(Len(x)) \o (x \o r)
        /\ Frame(y) \o s = Word(Len(y)) \o (y \o s)
    <2> DEFINE v == Word(Len(x))
               w == Word(Len(y))
    <2>1. v \in Seq(Byte) /\ w \in Seq(Byte)
      BY <1>2
    <2>2. Frame(x) = v \o x /\ Frame(y) = w \o y
      BY DEF Frame
    <2> HIDE DEF v, w
    <2> DEFINE Joins(a, b, c) == (a \o b) \o c = a \o (b \o c)
    <2>3. \A a, b, c \in Seq(Byte) : Joins(a, b, c)
      BY FrameThenRest
    <2> HIDE DEF Joins
    <2>4. Joins(v, x, r) /\ Joins(w, y, s)
      BY ONLY <1>1, <2>1, <2>3
    <2>5. Frame(x) \o r = v \o (x \o r) /\ Frame(y) \o s = w \o (y \o s)
      BY <2>2, <2>4, Zenon DEF Joins
    <2>6. QED
      BY <2>5, Zenon DEF v, w
  <1>4. x \o r \in Seq(Byte) /\ y \o s \in Seq(Byte)
    BY <1>1
  <1>5. Word(Len(x)) = Word(Len(y)) /\ x \o r = y \o s
    <2> DEFINE v == Word(Len(x))
               w == Word(Len(y))
               t == x \o r
               u == y \o s
    <2>1. /\ v \in Seq(Byte) /\ w \in Seq(Byte) /\ t \in Seq(Byte) /\ u \in Seq(Byte)
          /\ Len(v) = Len(w)
          /\ v \o t = w \o u
      BY <1>2, <1>3, <1>4
    <2> HIDE DEF v, w, t, u
    <2>2. v = w /\ t = u
      BY <2>1, SameHead
    <2>3. QED
      BY <2>2 DEF v, w, t, u
  <1>6. Len(x) = Len(y)
    BY <1>1, <1>5, WordAssumption
  <1>7. QED
    BY <1>1, <1>5, <1>6, SameHead

\* Different identities have different keys.
THEOREM ExecutionKeyIsInjective ==
  ASSUME NEW i \in Identity, NEW j \in Identity, ExecutionKey(i) = ExecutionKey(j)
  PROVE  i = j
  <1> DEFINE tail1(a) == Frame(a.revision) \o Frame(a.root)
             tail2(a) == Frame(a.subject) \o tail1(a)
             tail3(a) == Frame(a.repository) \o tail2(a)
  <1>1. \A a \in Identity :
          /\ a.repository \in Framable /\ a.subject \in Framable
          /\ a.revision \in Framable /\ a.root \in Framable
    BY TextAssumption, WordAssumption DEF Identity, Framable
  <1>2. \A a \in Identity :
          /\ Frame(a.repository) \in Seq(Byte) /\ Frame(a.subject) \in Seq(Byte)
          /\ Frame(a.revision) \in Seq(Byte) /\ Frame(a.root) \in Seq(Byte)
    BY <1>1, FrameIsBytes
  <1>3. \A a \in Identity :
          tail1(a) \in Seq(Byte) /\ tail2(a) \in Seq(Byte) /\ tail3(a) \in Seq(Byte)
    BY <1>2
  <1>4. \A a \in Identity : ExecutionKey(a) = Prefix \o tail3(a)
    BY DEF ExecutionKey
  <1>5. tail3(i) = tail3(j)
    <2>1. Prefix \o tail3(i) = Prefix \o tail3(j)
      BY <1>4
    <2> HIDE DEF tail3
    <2>2. QED
      BY <1>3, <2>1, TextAssumption, SameHead
  <1>6. i.repository = j.repository /\ tail2(i) = tail2(j)
    <2> HIDE DEF tail2
    <2>1. QED
      BY <1>1, <1>3, <1>5, FrameIsSelfDelimiting
  <1>7. i.subject = j.subject /\ tail1(i) = tail1(j)
    <2>1. Frame(i.subject) \o tail1(i) = Frame(j.subject) \o tail1(j)
      BY <1>6
    <2> HIDE DEF tail1
    <2>2. QED
      BY <1>1, <1>3, <2>1, FrameIsSelfDelimiting
  <1>8. i.revision = j.revision /\ Frame(i.root) = Frame(j.root)
    <2> DEFINE r == Frame(i.root)
               s == Frame(j.root)
    <2>1. r \in Seq(Byte) /\ s \in Seq(Byte)
      BY <1>2
    <2>2. Frame(i.revision) \o r = Frame(j.revision) \o s
      BY <1>7
    <2> DEFINE Delimits(x, y, p, q) == Frame(x) \o p = Frame(y) \o q => x = y /\ p = q
    <2>3. \A x, y \in Framable, p, q \in Seq(Byte) : Delimits(x, y, p, q)
      BY FrameIsSelfDelimiting
    <2> HIDE DEF r, s, Delimits
    <2>4. Delimits(i.revision, j.revision, r, s)
      BY ONLY <1>1, <2>1, <2>3, i \in Identity, j \in Identity
    <2>5. i.revision = j.revision /\ r = s
      BY <2>2, <2>4 DEF Delimits
    <2>6. QED
      BY <2>5 DEF r, s
  <1>9. i.root = j.root
    <2>1. /\ << >> \in Seq(Byte)
          /\ Frame(i.root) \o << >> = Frame(j.root) \o << >>
      BY <1>8
    <2>2. QED
      BY <1>1, <2>1, FrameIsSelfDelimiting
  <1>10. QED
    BY <1>6, <1>7, <1>8, <1>9 DEF Identity

\* No key that was handed out is the key of other identities too.
THEOREM DerivedKeysAreInjective == IdentitySpec => []KeysAreInjective
  <1> DEFINE Inv == asked \in Identity /\ derived = ExecutionKey(asked)
  <1>1. IdentityInit => Inv
    BY DEF IdentityInit
  <1>2. Inv /\ [IdentityNext]_identityVars => Inv'
    BY DEF IdentityNext, DeriveExecutionKey, identityVars, Identity
  <1>3. Inv => KeysAreInjective
    BY ExecutionKeyIsInjective DEF KeysAreInjective
  <1>4. QED
    BY <1>1, <1>2, <1>3, PTL DEF IdentitySpec


\* The client derives its key from one repository, one subject, the revision and
\* the contract tree behind a prefix (validation_contract_id): distinct pairs of
\* revision and contract have distinct keys, so that the pair may stand for the
\* key (KeyAssumption).
THEOREM PairsStandForTheirKeys ==
  ASSUME NEW repository \in Text, NEW subject \in Text, NEW prefix \in Seq(Byte),
         Revision \subseteq Text, Contract \subseteq Seq(Byte),
         \A c \in Contract : prefix \o c \in Text,
         NEW j \in Key, NEW k \in Key,
         ExecutionKey([repository |-> repository, subject |-> subject,
                       revision |-> j[1], root |-> prefix \o j[2]]) =
         ExecutionKey([repository |-> repository, subject |-> subject,
                       revision |-> k[1], root |-> prefix \o k[2]])
  PROVE  j = k
  <1> DEFINE Identified(p) == [repository |-> repository, subject |-> subject,
                               revision |-> p[1], root |-> prefix \o p[2]]
  <1>1. j[1] \in Revision /\ j[2] \in Contract /\ k[1] \in Revision /\ k[2] \in Contract
    BY KeyAssumption
  <1>2. Identified(j) \in Identity /\ Identified(k) \in Identity
    BY <1>1 DEF Identity
  <1>3. Identified(j) = Identified(k)
    BY <1>2, ExecutionKeyIsInjective
  <1>4. j[1] = k[1] /\ prefix \o j[2] = prefix \o k[2]
    BY <1>3
  <1>5. j[2] = k[2]
    <2> DEFINE c == j[2]
               d == k[2]
    <2>1. c \in Seq(Byte) /\ d \in Seq(Byte) /\ prefix \o c = prefix \o d
      BY <1>1, <1>4
    <2> HIDE DEF c, d
    <2>2. c = d
      BY <2>1, SameHead
    <2>3. QED
      BY <2>2 DEF c, d
  <1>6. QED
    BY <1>4, <1>5, KeyAssumption
-----------------------------------------------------------------------------
(* The canonical bytes of commands, which say what a command is: no more and  *)
(* no less (CommandIdentity.tla).                                             *)

(* Codes: sets of byte strings that say where they end.                       *)

\* What begins with a is something else than what begins with b.
Splits(a, b, r, s) == a \o r = b \o s => a = b /\ r = s

\* So that u and v, which a and b stand for, can be told apart.
Tells(a, b, u, v, r, s) == a \o r = b \o s => u = v /\ r = s

Code == {W \in SUBSET Seq(Byte) : \A a, b \in W, r, s \in Seq(Byte) : Splits(a, b, r, s)}

\* All the bytes that begin with one of A and go on with one of B.
Joined(A, B) == {ab[1] \o ab[2] : ab \in A \X B}

\* Words of one length are a code.
LEMMA WordsAreCode ==
  ASSUME NEW n \in Nat
  PROVE  {x \in Seq(Byte) : Len(x) = n} \in Code
  BY SameHead DEF Code, Splits

\* A part of a code is one.
LEMMA PartIsCode ==
  ASSUME NEW W \in Code, NEW V \in SUBSET W
  PROVE  V \in Code
  BY DEF Code

\* Frames are a code.
LEMMA FramesAreCode == {Frame(x) : x \in Framable} \in Code
  <1>1. {Frame(x) : x \in Framable} \in SUBSET Seq(Byte)
    BY FrameIsBytes
  <1>2. \A x, y \in Framable, r, s \in Seq(Byte) : Splits(Frame(x), Frame(y), r, s)
    BY FrameIsSelfDelimiting DEF Splits
  <1>3. QED
    BY <1>1, <1>2 DEF Code

\* A text can be read off its frame.
LEMMA FrameIsInjective ==
  ASSUME NEW x \in Framable, NEW y \in Framable, Frame(x) = Frame(y)
  PROVE  x = y
  <1>1. << >> \in Seq(Byte) /\ Frame(x) \o << >> = Frame(y) \o << >>
    OBVIOUS
  <1>2. QED
    BY <1>1, FrameIsSelfDelimiting

\* What begins with a member of a code shows which one, and what follows it.
LEMMA CodeSplits ==
  ASSUME NEW W \in Code, NEW a \in W, NEW b \in W, NEW r \in Seq(Byte), NEW s \in Seq(Byte)
  PROVE  Splits(a, b, r, s)
  BY DEF Code

Associates(a, b, c) == (a \o b) \o c = a \o (b \o c)

\* It does not matter which of three byte strings are put together first.
LEMMA BytesAssociate ==
  ASSUME NEW a \in Seq(Byte), NEW b \in Seq(Byte), NEW c \in Seq(Byte)
  PROVE  Associates(a, b, c)
  BY FrameThenRest DEF Associates

\* One code behind another is a code.
LEMMA JoinedIsCode ==
  ASSUME NEW A \in Code, NEW B \in Code
  PROVE  Joined(A, B) \in Code
  <1>1. A \subseteq Seq(Byte) /\ B \subseteq Seq(Byte)
    BY DEF Code
  <1>2. \A x \in A, y \in B : x \o y \in Seq(Byte)
    BY <1>1
  <1>3. Joined(A, B) \in SUBSET Seq(Byte)
    BY <1>2 DEF Joined
  <1>4. \A e \in Joined(A, B) : \E a \in A, b \in B : e = a \o b
    BY DEF Joined
  <1>5. ASSUME NEW e \in Joined(A, B), NEW f \in Joined(A, B),
               NEW r \in Seq(Byte), NEW s \in Seq(Byte), e \o r = f \o s
        PROVE  e = f /\ r = s
    <2>1. PICK a \in A, b \in B : e = a \o b
      BY <1>4
    <2>2. PICK c \in A, d \in B : f = c \o d
      BY <1>4
    <2> DEFINE t == b \o r
               u == d \o s
    <2>3. a \in Seq(Byte) /\ b \in Seq(Byte) /\ c \in Seq(Byte) /\ d \in Seq(Byte)
      BY <1>1
    <2>4. Associates(a, b, r) /\ Associates(c, d, s)
      BY <2>3, BytesAssociate
    <2>5. t \in Seq(Byte) /\ u \in Seq(Byte)
      BY <2>3
    <2>6. a \o t = c \o u
      BY <1>5, <2>1, <2>2, <2>4, Zenon DEF Associates
    <2> HIDE DEF t, u
    <2>7. Splits(a, c, t, u)
      BY <2>5, CodeSplits
    <2>8. a = c /\ b \o r = d \o s
      BY <2>6, <2>7, Zenon DEF Splits, t, u
    <2>9. Splits(b, d, r, s)
      BY CodeSplits
    <2>10. b = d /\ r = s
      BY <2>8, <2>9, Zenon DEF Splits
    <2>11. QED
      BY <2>1, <2>2, <2>8, <2>10, Zenon
  <1>6. \A e, f \in Joined(A, B), r, s \in Seq(Byte) : Splits(e, f, r, s)
    BY <1>5, Zenon DEF Splits
  <1>7. QED
    BY <1>3, <1>6 DEF Code

\* Induction over the numbers up to n.
LEMMA InductionUpTo ==
  ASSUME NEW n \in Nat, NEW G, 1 \in G, \A m \in 1..n : m + 1 <= n /\ m \in G => m + 1 \in G
  PROVE  \A m \in 1..n : m \in G
  <1> SUFFICES ASSUME NEW m \in 1..n, m \notin G
               PROVE  FALSE
    OBVIOUS
  <1> DEFINE Bad == {k \in 1..n : k \notin G}
  <1>1. Bad # {} /\ Bad \subseteq Nat
    OBVIOUS
  <1>2. PICK k \in Bad : \A j \in Bad : <<j, k>> \notin OpToRel(<, Nat)
    <2> HIDE DEF Bad
    <2>1. QED
      BY <1>1, NatLessThanWellFounded, WFMin
  <1>3. k \in 1..n /\ k \notin G /\ k # 1
    BY <1>2
  <1>4. k - 1 \in 1..n /\ k - 1 \in Nat /\ k \in Nat /\ k - 1 < k
    BY <1>3
  <1>5. <<k - 1, k>> \in OpToRel(<, Nat)
    BY <1>4 DEF OpToRel
  <1>6. k - 1 \in G
    BY <1>2, <1>4, <1>5
  <1>7. (k - 1) + 1 = k
    BY <1>4
  <1>8. QED
    BY <1>3, <1>4, <1>6, <1>7

\* f[i] is what the first i of the n byte strings u are, one behind the other.
Flattens(f, u, n) ==
  /\ f \in [1..n -> Seq(Byte)]
  /\ f[1] = u[1]
  /\ \A i \in 1..n : i # 1 => f[i] = f[i - 1] \o u[i]

\* FlattenSeq puts byte strings one behind the other.
LEMMA FlattenSeqFlattens ==
  ASSUME NEW n \in Nat \ {0}, NEW u \in [1..n -> Seq(Byte)]
  PROVE  \E f : Flattens(f, u, n) /\ FlattenSeq(u) = f[n]
  <1> DEFINE Step(f, i) == IF i = 1 THEN u[i] ELSE f[i - 1] \o u[i]
             Body(f) == [i \in 1..n |-> Step(f, i)]
             flatten == CHOOSE f : f = Body(f)
             G == {m \in 1..n : \E f : Flattens(f, u, m)}
  <1>1. u \in Seq(Seq(Byte)) /\ Len(u) = n
    OBVIOUS
  <1>2. FlattenSeq(u) = flatten[n]
    BY <1>1 DEF FlattenSeq
  <1>3. n \in G
    <2>1. 1 \in G
      <3>1. Flattens([i \in 1..1 |-> u[1]], u, 1)
        BY DEF Flattens
      <3>2. QED
        BY <3>1
    <2>2. ASSUME NEW m \in 1..n, m + 1 <= n, m \in G
          PROVE  m + 1 \in G
      <3>1. PICK f : Flattens(f, u, m)
        BY <2>2
      <3> DEFINE g == [i \in 1..(m + 1) |-> IF i = m + 1 THEN f[m] \o u[i] ELSE f[i]]
      <3>2. f \in [1..m -> Seq(Byte)] /\ u[m + 1] \in Seq(Byte) /\ f[m] \in Seq(Byte)
        BY <2>2, <3>1 DEF Flattens
      <3>3. f[m] \o u[m + 1] \in Seq(Byte)
        BY <3>2
      <3>4. g \in [1..(m + 1) -> Seq(Byte)]
        BY <3>2, <3>3
      <3>5. \A i \in 1..m : g[i] = f[i]
        OBVIOUS
      <3>6. g[m + 1] = f[m] \o u[m + 1]
        BY m + 1 \in 1..(m + 1), Zenon
      <3> HIDE DEF g
      <3>7. ASSUME NEW i \in 1..(m + 1), i # 1
            PROVE  g[i] = g[i - 1] \o u[i]
        <4>1. i \in Int /\ m \in Int /\ i - 1 \in 1..m /\ (i \in 1..m \/ i = m + 1)
          BY <3>7
        <4>2. g[i - 1] = f[i - 1]
          BY <3>5, <4>1
        <4>3. CASE i = m + 1
          <5>1. i - 1 = m
            BY <4>1, <4>3
          <5>2. QED
            BY <3>6, <4>2, <4>3, <5>1, Zenon
        <4>4. CASE i \in 1..m
          <5>1. f[i] = f[i - 1] \o u[i]
            BY <3>1, <3>7, <4>4, Zenon DEF Flattens
          <5>2. QED
            BY <3>5, <4>2, <4>4, <5>1, Zenon
        <4>5. QED
          BY <4>1, <4>3, <4>4
      <3>8. g[1] = u[1]
        BY <3>1, <3>5 DEF Flattens
      <3>9. Flattens(g, u, m + 1)
        BY <3>4, <3>7, <3>8 DEF Flattens
      <3>10. m + 1 \in 1..n
        BY <2>2
      <3>11. QED
        BY <3>9, <3>10
    <2> HIDE DEF G
    <2>3. \A m \in 1..n : m \in G
      BY <2>1, <2>2, InductionUpTo
    <2>4. QED
      BY <2>3
  <1>4. PICK g : Flattens(g, u, n)
    BY <1>3
  <1>5. g = Body(g)
    BY <1>4 DEF Flattens
  <1>6. flatten = Body(flatten)
    BY <1>5
  <1>7. /\ DOMAIN flatten = 1..n
        /\ flatten[1] = u[1]
        /\ \A i \in 1..n : i # 1 => flatten[i] = flatten[i - 1] \o u[i]
    <2> HIDE DEF flatten, Step
    <2>1. DOMAIN flatten = 1..n /\ \A i \in 1..n : flatten[i] = Step(flatten, i)
      BY <1>6
    <2>2. \A i \in 1..n : i # 1 => Step(flatten, i) = flatten[i - 1] \o u[i]
      BY Zenon DEF Step
    <2>3. Step(flatten, 1) = u[1]
      BY Zenon DEF Step
    <2>4. 1 \in 1..n
      OBVIOUS
    <2>5. \A i \in 1..n : i # 1 => flatten[i] = flatten[i - 1] \o u[i]
      BY <2>1, <2>2, Zenon
    <2>6. QED
      BY <2>1, <2>3, <2>4, <2>5, Zenon
  <1> HIDE DEF flatten
  <1>8. \A m \in 1..n : flatten[m] = g[m]
    <2> DEFINE H == {m \in 1..n : flatten[m] = g[m]}
    <2>1. 1 \in H
      BY <1>4, <1>7 DEF Flattens
    <2>2. ASSUME NEW m \in 1..n, m + 1 <= n, m \in H
          PROVE  m + 1 \in H
      <3>1. m + 1 \in 1..n /\ m + 1 # 1 /\ (m + 1) - 1 = m
        BY <2>2
      <3>2. flatten[m + 1] = flatten[m] \o u[m + 1] /\ g[m + 1] = g[m] \o u[m + 1]
        BY <1>4, <1>7, <3>1 DEF Flattens
      <3>3. QED
        BY <2>2, <3>1, <3>2
    <2> HIDE DEF H
    <2>3. \A m \in 1..n : m \in H
      BY <2>1, <2>2, InductionUpTo
    <2>4. QED
      BY <2>3 DEF H
  <1>9. FlattenSeq(u) = g[n]
    BY <1>2, <1>8
  <1>10. QED
    BY <1>4, <1>9

\* The words of a code, one behind the other, are bytes.
LEMMA FlattenedIsBytes ==
  ASSUME NEW W \in Code, NEW n \in Nat, NEW u \in [1..n -> W]
  PROVE  FlattenSeq(u) \in Seq(Byte)
  <1>1. CASE n = 0
    <2>1. u = << >>
      BY <1>1
    <2>2. QED
      BY <2>1 DEF FlattenSeq
  <1>2. CASE n # 0
    <2>1. u \in [1..n -> Seq(Byte)]
      BY DEF Code
    <2>2. PICK f : Flattens(f, u, n) /\ FlattenSeq(u) = f[n]
      BY <1>2, <2>1, FlattenSeqFlattens
    <2>3. QED
      BY <1>2, <2>2 DEF Flattens
  <1>3. QED
    BY <1>1, <1>2

\* Words of a code, one behind the other, can be told apart, if they are as many.
LEMMA FlattenedSplits ==
  ASSUME NEW W \in Code, NEW n \in Nat, NEW u \in [1..n -> W], NEW v \in [1..n -> W],
         NEW r \in Seq(Byte), NEW s \in Seq(Byte)
  PROVE  Tells(FlattenSeq(u), FlattenSeq(v), u, v, r, s)
  <1> SUFFICES ASSUME FlattenSeq(u) \o r = FlattenSeq(v) \o s PROVE u = v /\ r = s
    BY Zenon DEF Tells
  <1>1. CASE n = 0
    <2>1. u = << >> /\ v = << >>
      BY <1>1
    <2>2. FlattenSeq(u) = << >> /\ FlattenSeq(v) = << >>
      BY <2>1 DEF FlattenSeq
    <2>3. << >> \o r = r /\ << >> \o s = s
      BY ConcatEmptySeq
    <2>4. QED
      BY <2>1, <2>2, <2>3
  <1>2. CASE n # 0
    <2>1. u \in [1..n -> Seq(Byte)] /\ v \in [1..n -> Seq(Byte)]
      BY DEF Code
    <2>2. PICK f : Flattens(f, u, n) /\ FlattenSeq(u) = f[n]
      BY <1>2, <2>1, FlattenSeqFlattens
    <2>3. PICK g : Flattens(g, v, n) /\ FlattenSeq(v) = g[n]
      BY <1>2, <2>1, FlattenSeqFlattens
    <2> DEFINE Told(m, p, q) == Splits(f[m], g[m], p, q) /\ (f[m] \o p = g[m] \o q => \A i \in 1..m : u[i] = v[i])
               G == {m \in 1..n : \A p, q \in Seq(Byte) : Told(m, p, q)}
    <2>4. 1 \in G
      <3>1. f[1] = u[1] /\ g[1] = v[1] /\ u[1] \in W /\ v[1] \in W /\ 1 \in 1..n
        BY <1>2, <2>2, <2>3 DEF Flattens
      <3>2. ASSUME NEW p \in Seq(Byte), NEW q \in Seq(Byte)
            PROVE  Told(1, p, q)
        <4>1. Splits(u[1], v[1], p, q)
          BY <3>1 DEF Code
        <4>2. u[1] \o p = v[1] \o q => u[1] = v[1]
          BY <4>1, Zenon DEF Splits
        <4>3. \A i \in 1..1 : i = 1
          OBVIOUS
        <4>4. QED
          BY <3>1, <4>1, <4>2, <4>3, Zenon
      <3> HIDE DEF Told
      <3>3. QED
        BY <3>1, <3>2
    <2>5. ASSUME NEW m \in 1..n, m + 1 <= n, m \in G
          PROVE  m + 1 \in G
      <3> DEFINE k == m + 1
      <3>1. /\ k \in 1..n /\ k # 1 /\ k - 1 = m
            /\ \A i \in 1..k : i \in 1..m \/ i = k
        BY <2>5
      <3>2. f[k] = f[m] \o u[k] /\ g[k] = g[m] \o v[k]
        BY <2>2, <2>3, <3>1 DEF Flattens
      <3>3. /\ f[m] \in Seq(Byte) /\ u[k] \in Seq(Byte) /\ g[m] \in Seq(Byte) /\ v[k] \in Seq(Byte)
            /\ u[k] \in W /\ v[k] \in W
        BY <2>1, <2>2, <2>3, <3>1 DEF Flattens
      <3> HIDE DEF k
      <3>4. ASSUME NEW p \in Seq(Byte), NEW q \in Seq(Byte), f[k] \o p = g[k] \o q
            PROVE  f[k] = g[k] /\ p = q /\ \A i \in 1..k : u[i] = v[i]
        <4> DEFINE t == u[k] \o p
                   w == v[k] \o q
        <4>1. t \in Seq(Byte) /\ w \in Seq(Byte)
          BY <3>3
        <4>2. Associates(f[m], u[k], p) /\ Associates(g[m], v[k], q)
          BY <3>3, BytesAssociate
        <4>3. f[m] \o t = g[m] \o w
          BY <3>2, <3>4, <4>2, Zenon DEF Associates
        <4> HIDE DEF t, w
        <4>4. Told(m, t, w)
          <5> HIDE DEF Told
          <5>1. QED
            BY <2>5, <4>1
        <4>5. f[m] = g[m] /\ t = w /\ \A i \in 1..m : u[i] = v[i]
          BY <4>3, <4>4, Zenon DEF Splits
        <4>6. u[k] \o p = v[k] \o q
          BY <4>5, Zenon DEF t, w
        <4>7. Splits(u[k], v[k], p, q)
          BY <3>3 DEF Code
        <4>8. u[k] = v[k] /\ p = q
          BY <4>6, <4>7, Zenon DEF Splits
        <4>9. QED
          BY <3>1, <3>2, <4>5, <4>8, Zenon
      <3>5. \A p, q \in Seq(Byte) : Told(k, p, q)
        BY <3>4, Zenon DEF Splits
      <3> HIDE DEF Told
      <3>6. k \in G
        BY <3>1, <3>5
      <3>7. QED
        BY <3>6 DEF k
    <2> HIDE DEF G
    <2>6. \A m \in 1..n : m \in G
      BY <2>4, <2>5, InductionUpTo
    <2>7. n \in G
      BY <1>2, <2>6
    <2> HIDE DEF Told
    <2>8. Told(n, r, s)
      BY <2>7 DEF G
    <2>9. FlattenSeq(u) \o r = FlattenSeq(v) \o s => r = s /\ \A i \in 1..n : u[i] = v[i]
      BY <2>2, <2>3, <2>8, Zenon DEF Told, Splits
    <2>10. QED
      BY <2>9
  <1>3. QED
    BY <1>1, <1>2

\* So can as many words as their count says.
LEMMA CountedSplits ==
  ASSUME NEW W \in Code, NEW m \in 0..MaxBytes, NEW n \in 0..MaxBytes,
         NEW u \in [1..m -> W], NEW v \in [1..n -> W],
         NEW r \in Seq(Byte), NEW s \in Seq(Byte)
  PROVE  Tells(Counted(u), Counted(v), u, v, r, s)
  <1> SUFFICES ASSUME Counted(u) \o r = Counted(v) \o s PROVE u = v /\ r = s
    BY Zenon DEF Tells
  <1>1. m \in Nat /\ n \in Nat /\ Len(u) = m /\ Len(v) = n
    BY WordAssumption
  <1> DEFINE x == Word(m)
             y == Word(n)
             f == FlattenSeq(u)
             g == FlattenSeq(v)
  <1>2. /\ x \in Seq(Byte) /\ y \in Seq(Byte) /\ Len(x) = Width /\ Len(y) = Width
        /\ x = y => m = n
    BY WordAssumption
  <1>3. f \in Seq(Byte) /\ g \in Seq(Byte)
    BY <1>1, FlattenedIsBytes
  <1>4. Counted(u) = x \o f /\ Counted(v) = y \o g
    BY <1>1 DEF Counted
  <1> HIDE DEF x, y, f, g
  <1> DEFINE t == f \o r
             w == g \o s
  <1>5. Associates(x, f, r) /\ Associates(y, g, s)
    BY <1>2, <1>3, BytesAssociate
  <1>6. t \in Seq(Byte) /\ w \in Seq(Byte)
    BY <1>3
  <1>7. x \o t = y \o w
    BY <1>4, <1>5, Zenon DEF Associates
  <1> HIDE DEF t, w
  <1>8. x = y /\ t = w
    BY <1>2, <1>6, <1>7, SameHead
  <1>9. m = n
    BY <1>2, <1>8
  <1>10. FlattenSeq(u) \o r = FlattenSeq(v) \o s
    BY <1>8, Zenon DEF t, w, f, g
  <1>11. v \in [1..m -> W]
    BY <1>9
  <1>12. Tells(FlattenSeq(u), FlattenSeq(v), u, v, r, s)
    BY <1>1, <1>11, FlattenedSplits
  <1>13. QED
    BY <1>10, <1>12, Zenon DEF Tells

\* Counted words of a code are a code.
LEMMA CountedIsCode ==
  ASSUME NEW W \in Code
  PROVE  {Counted(u) : u \in UNION {[1..n -> W] : n \in 0..MaxBytes}} \in Code
  <1> DEFINE U == UNION {[1..n -> W] : n \in 0..MaxBytes}
  <1>1. ASSUME NEW u \in U
        PROVE  Counted(u) \in Seq(Byte)
    <2>1. PICK n \in 0..MaxBytes : u \in [1..n -> W]
      OBVIOUS
    <2>2. n \in Nat /\ Len(u) = n /\ Word(n) \in Seq(Byte)
      BY <2>1, WordAssumption
    <2>3. FlattenSeq(u) \in Seq(Byte)
      BY <2>1, <2>2, FlattenedIsBytes
    <2>4. Word(n) \o FlattenSeq(u) \in Seq(Byte)
      BY <2>2, <2>3
    <2>5. QED
      BY <2>2, <2>4 DEF Counted
  <1>2. ASSUME NEW u \in U, NEW v \in U, NEW r \in Seq(Byte), NEW s \in Seq(Byte),
               Counted(u) \o r = Counted(v) \o s
        PROVE  Counted(u) = Counted(v) /\ r = s
    <2>1. PICK m \in 0..MaxBytes : u \in [1..m -> W]
      OBVIOUS
    <2>2. PICK n \in 0..MaxBytes : v \in [1..n -> W]
      OBVIOUS
    <2>3. Tells(Counted(u), Counted(v), u, v, r, s)
      BY <2>1, <2>2, CountedSplits
    <2>4. QED
      BY <1>2, <2>3, Zenon DEF Tells
  <1>3. \A u, v \in U, r, s \in Seq(Byte) : Splits(Counted(u), Counted(v), r, s)
    BY <1>2, Zenon DEF Splits
  <1> HIDE DEF U
  <1>4. {Counted(u) : u \in U} \in Code
    BY <1>1, <1>3 DEF Code
  <1>5. QED
    BY <1>4 DEF U

(* The environment, frozen in the order of its names.                         *)

\* The bytes of a text are numbers.
LEMMA BytesAreNumbers ==
  ASSUME NEW a \in Seq(Byte), NEW i \in 1..Len(a)
  PROVE  a[i] \in Nat
  <1>1. Byte \subseteq Nat
    BY CommandAssumption, Zenon
  <1>2. a[i] \in Byte
    BY ElementOfSeq
  <1>3. QED
    BY <1>1, <1>2

\* No name comes before itself, and what comes before what comes before a name
\* comes before it.
LEMMA ByteOrderIsStrict ==
  /\ \A a \in Seq(Byte) : ~ ByteOrder(a, a)
  /\ \A a, b, c \in Seq(Byte) : ByteOrder(a, b) /\ ByteOrder(b, c) => ByteOrder(a, c)
  <1>1. ASSUME NEW a \in Seq(Byte), ByteOrder(a, a)
        PROVE  FALSE
    <2>1. PICK i \in 1..Len(a) : i <= Len(a) => a[i] < a[i]
      BY <1>1 DEF ByteOrder
    <2>2. a[i] \in Nat /\ i <= Len(a)
      BY BytesAreNumbers
    <2>3. QED
      BY <2>1, <2>2
  <1>2. ASSUME NEW a \in Seq(Byte), NEW b \in Seq(Byte), NEW c \in Seq(Byte),
               ByteOrder(a, b), ByteOrder(b, c)
        PROVE  ByteOrder(a, c)
    <2>1. PICK i \in 1..Len(b) :
            /\ \A j \in 1..(i - 1) : j <= Len(a) /\ a[j] = b[j]
            /\ i <= Len(a) => a[i] < b[i]
      BY <1>2 DEF ByteOrder
    <2>2. PICK k \in 1..Len(c) :
            /\ \A j \in 1..(k - 1) : j <= Len(b) /\ b[j] = c[j]
            /\ k <= Len(b) => b[k] < c[k]
      BY <1>2 DEF ByteOrder
    <2>3. Len(a) \in Nat /\ Len(b) \in Nat /\ Len(c) \in Nat
      OBVIOUS
    <2>4. /\ \A j \in 1..Len(a) : a[j] \in Nat
          /\ \A j \in 1..Len(b) : b[j] \in Nat
          /\ \A j \in 1..Len(c) : c[j] \in Nat
      BY BytesAreNumbers
    <2> DEFINE Before(h) == /\ h \in 1..Len(c)
                            /\ \A j \in 1..(h - 1) : j <= Len(a) /\ a[j] = c[j]
                            /\ h <= Len(a) => a[h] < c[h]
    <2>5. CASE i < k
      <3>1. Before(i)
        BY <2>1, <2>2, <2>3, <2>4, <2>5
      <3>2. QED
        BY <3>1 DEF ByteOrder
    <2>6. CASE k < i
      <3>1. k \in 1..Len(b) /\ k \in 1..Len(a) /\ a[k] = b[k]
        BY <2>1, <2>3, <2>6
      <3>2. Before(k)
        BY <2>1, <2>2, <2>3, <2>4, <2>6, <3>1
      <3>3. QED
        BY <3>2 DEF ByteOrder
    <2>7. CASE i = k
      <3>1. Before(i)
        BY <2>1, <2>2, <2>3, <2>4, <2>7
      <3>2. QED
        BY <3>1 DEF ByteOrder
    <2>8. QED
      BY <2>3, <2>5, <2>6, <2>7
  <1>3. QED
    BY <1>1, <1>2

\* Of two names, one comes before the other.
LEMMA ByteOrderIsTotal ==
  ASSUME NEW a \in Seq(Byte), NEW b \in Seq(Byte), a # b
  PROVE  ByteOrder(a, b) \/ ByteOrder(b, a)
  <1> DEFINE Alike(i) == i <= Len(a) /\ i <= Len(b) /\ a[i] = b[i]
             Apart == {i \in Nat : /\ i \in 1..Len(a) \/ i \in 1..Len(b)
                                   /\ ~ Alike(i)}
  <1>1. Apart # {}
    <2> SUFFICES ASSUME \A i \in Nat : i \in 1..Len(a) \/ i \in 1..Len(b) => Alike(i)
                 PROVE  FALSE
      OBVIOUS
    <2>1. Len(a) = Len(b)
      <3>1. Len(a) \in Nat /\ Len(b) \in Nat
        OBVIOUS
      <3>2. Len(a) # 0 => Len(a) <= Len(b)
        BY <3>1
      <3>3. Len(b) # 0 => Len(b) <= Len(a)
        BY <3>1
      <3>4. QED
        BY <3>1, <3>2, <3>3
    <2>2. \A i \in 1..Len(a) : a[i] = b[i]
      OBVIOUS
    <2>3. QED
      BY <2>1, <2>2
  <1>2. PICK i \in Apart : \A j \in Apart : <<j, i>> \notin OpToRel(<, Nat)
    <2>1. Apart \subseteq Nat
      OBVIOUS
    <2> HIDE DEF Apart
    <2>2. QED
      BY <1>1, <2>1, NatLessThanWellFounded, WFMin
  <1>3. Len(a) \in Nat /\ Len(b) \in Nat /\ i \in Nat
    OBVIOUS
  <1>4. ASSUME NEW j \in 1..(i - 1) PROVE Alike(j)
    <2>1. j \in Nat /\ j < i /\ (j \in 1..Len(a) \/ j \in 1..Len(b))
      BY <1>3
    <2>2. <<j, i>> \in OpToRel(<, Nat)
      BY <1>3, <2>1 DEF OpToRel
    <2>3. QED
      BY <1>2, <2>1, <2>2
  <1>5. /\ \A j \in 1..Len(a) : a[j] \in Nat
        /\ \A j \in 1..Len(b) : b[j] \in Nat
    BY BytesAreNumbers
  <1>6. CASE i \in 1..Len(a) /\ i \in 1..Len(b)
    <2>1. a[i] \in Nat /\ b[i] \in Nat /\ a[i] # b[i]
      BY <1>5, <1>6
    <2>2. a[i] < b[i] \/ b[i] < a[i]
      BY <2>1
    <2>3. QED
      BY <1>4, <1>6, <2>2 DEF ByteOrder
  <1>7. CASE i \in 1..Len(a) /\ i \notin 1..Len(b)
    <2>1. ~ (i <= Len(b))
      BY <1>3, <1>7
    <2>2. QED
      BY <1>4, <1>7, <2>1 DEF ByteOrder
  <1>8. CASE i \notin 1..Len(a) /\ i \in 1..Len(b)
    <2>1. ~ (i <= Len(a))
      BY <1>3, <1>8
    <2>2. QED
      BY <1>4, <1>8, <2>1 DEF ByteOrder
  <1>9. QED
    BY <1>6, <1>7, <1>8

\* Counts fit their words, and texts their frames.
LEMMA CommandSizes ==
  /\ MaxBytes \in Nat /\ MaxArguments \in 1..MaxBytes /\ MaxEntries \in 0..MaxBytes
  /\ \A n \in 0..MaxEntries : n \in Nat
  /\ Timeout \subseteq 1..MaxBytes
  <1>1. /\ MaxArguments \in 1..MaxBytes /\ MaxEntries \in 0..MaxBytes
        /\ Timeout \subseteq 1..MaxBytes
    BY CommandAssumption, Zenon
  <1>2. MaxBytes \in Nat
    BY WordAssumption, Zenon
  <1>3. QED
    BY <1>1, <1>2

\* The texts of a command can be framed, and so can the names of its fields.
LEMMA TextsAreFramable ==
  /\ Executable \subseteq Framable /\ Argument \subseteq Framable /\ Directory \subseteq Framable
  /\ Name \subseteq Framable /\ Value \subseteq Framable
  /\ \A f \in CommandField : Label(f) \in Framable
  <1>1. \A x \in UNION {Executable, Argument, Directory, Name, Value} :
          x \in Seq(Byte) /\ Len(x) <= MaxBytes
    BY CommandAssumption, Zenon
  <1>2. \A f \in CommandField : Label(f) \in Seq(Byte) /\ Len(Label(f)) <= MaxBytes
    BY CommandAssumption, Zenon
  <1>3. \A x \in Seq(Byte) : Len(x) <= MaxBytes => x \in Framable
    BY CommandSizes DEF Framable
  <1>4. \A f \in CommandField : Label(f) \in Framable
    BY <1>2, <1>3, Zenon
  <1>5. QED
    BY <1>1, <1>3, <1>4

\* s lists the items S in the order of their names.
InOrder(s, S) ==
  /\ Range(s) = S
  /\ \A i, j \in DOMAIN s : i < j => ByteOrder(s[i][1], s[j][1])

\* The items of an environment are as many as its length says, and their names
\* differ.
LEMMA MappingHasItems ==
  ASSUME NEW e \in Mapping
  PROVE  /\ \E n \in 0..MaxEntries : e \in [1..n -> Range(e)] /\ e \in Injection(1..n, Range(e))
                                      /\ IsFiniteSet(Range(e)) /\ Cardinality(Range(e)) = n
         /\ \A x \in Range(e) : x \in Name \X Value /\ x[1] \in Framable /\ x[2] \in Framable
         /\ \A x, y \in Range(e) : x[1] = y[1] => x = y
  <1>1. PICK n \in 0..MaxEntries : e \in [1..n -> Name \X Value]
    BY DEF Mapping
  <1>2. \A i, j \in 1..n : e[i][1] = e[j][1] => i = j
    BY <1>1 DEF Mapping
  <1>3. e \in [1..n -> Range(e)] /\ \A x \in Range(e) : \E i \in 1..n : x = e[i]
    BY <1>1 DEF Range
  <1>4. e \in Injection(1..n, Range(e)) /\ e \in Surjection(1..n, Range(e))
    BY <1>2, <1>3 DEF Injection, Surjection, IsInjective
  <1>5. IsFiniteSet(Range(e)) /\ Cardinality(Range(e)) = n
    <2>1. n \in Nat
      BY CommandSizes
    <2>2. ExistsBijection(1..n, Range(e))
      BY <1>4 DEF ExistsBijection, Bijection
    <2>3. Cardinality(Range(e)) = n
      BY <2>1, <2>2, FS_CountingElements
    <2>4. IsFiniteSet(Range(e))
      BY <2>1, <2>2, FS_NatBijection
    <2>5. QED
      BY <2>3, <2>4
  <1>6. \A x \in Range(e) : x \in Name \X Value
    BY <1>1, <1>3
  <1>7. \A x \in Name \X Value : x[1] \in Framable /\ x[2] \in Framable
    BY TextsAreFramable
  <1>8. \A x, y \in Range(e) : x[1] = y[1] => x = y
    BY <1>2, <1>3
  <1>9. QED
    BY <1>3, <1>4, <1>5, <1>6, <1>7, <1>8

\* Every environment can be put in the order of its names: an item's place is
\* the number of the items before it.
LEMMA OrderExists ==
  ASSUME NEW e \in Mapping
  PROVE  \E s \in [DOMAIN e -> Range(e)] : InOrder(s, Range(e))
  <1> DEFINE S == Range(e)
             Below(x) == {y \in S : ByteOrder(y[1], x[1])}
  <1>1. PICK n \in 0..MaxEntries : e \in [1..n -> S] /\ IsFiniteSet(S) /\ Cardinality(S) = n
    BY MappingHasItems
  <1>2. n \in Nat
    BY CommandSizes
  <1>3. /\ \A x \in S : x[1] \in Seq(Byte)
        /\ \A x, y \in S : x[1] = y[1] => x = y
    BY MappingHasItems DEF Framable
  <1> HIDE DEF S
  <1>4. ASSUME NEW x \in S
        PROVE  /\ Below(x) \in SUBSET (S \ {x}) /\ IsFiniteSet(Below(x))
               /\ Cardinality(Below(x)) \in Nat /\ Cardinality(Below(x)) + 1 \in 1..n
    <2>1. Below(x) \in SUBSET (S \ {x})
      BY <1>3, ByteOrderIsStrict
    <2>2. IsFiniteSet(S \ {x}) /\ Cardinality(S \ {x}) = n - 1
      BY <1>1, FS_RemoveElement
    <2> HIDE DEF Below
    <2>3. IsFiniteSet(Below(x)) /\ Cardinality(Below(x)) <= n - 1
      BY <2>1, <2>2, FS_Subset
    <2>4. Cardinality(Below(x)) \in Nat
      BY <2>3, FS_CardinalityType
    <2>5. QED
      BY <1>2, <2>1, <2>3, <2>4
  <1>5. ASSUME NEW x \in S, NEW y \in S, ByteOrder(x[1], y[1])
        PROVE  Cardinality(Below(x)) < Cardinality(Below(y))
    <2>1. Below(x) \in SUBSET (Below(y) \ {x}) /\ x \in Below(y)
      BY <1>3, <1>5, ByteOrderIsStrict
    <2>2. IsFiniteSet(Below(y)) /\ Cardinality(Below(y)) \in Nat /\ Cardinality(Below(x)) \in Nat
      BY <1>4
    <2> HIDE DEF Below
    <2>3. IsFiniteSet(Below(y) \ {x}) /\ Cardinality(Below(y) \ {x}) = Cardinality(Below(y)) - 1
      BY <2>1, <2>2, FS_RemoveElement
    <2>4. Cardinality(Below(x)) <= Cardinality(Below(y) \ {x})
      BY <2>1, <2>3, FS_Subset
    <2>5. QED
      BY <2>2, <2>3, <2>4
  <1> DEFINE place == [x \in S |-> Cardinality(Below(x)) + 1]
  <1>6. place \in Injection(S, 1..n)
    <2>1. place \in [S -> 1..n]
      <3> HIDE DEF Below
      <3>1. QED
        BY <1>4
    <2>2. ASSUME NEW x \in S, NEW y \in S, x # y
          PROVE  place[x] # place[y]
      <3>1. ByteOrder(x[1], y[1]) \/ ByteOrder(y[1], x[1])
        BY <1>3, <2>2, ByteOrderIsTotal
      <3> HIDE DEF Below
      <3>2. /\ Cardinality(Below(x)) < Cardinality(Below(y)) \/ Cardinality(Below(y)) < Cardinality(Below(x))
            /\ Cardinality(Below(x)) \in Nat /\ Cardinality(Below(y)) \in Nat
        BY <1>4, <1>5, <3>1
      <3>3. QED
        BY <3>2
    <2> HIDE DEF place
    <2>3. QED
      BY <2>1, <2>2 DEF Injection, IsInjective
  <1>7. place \in Surjection(S, 1..n)
    <2>1. IsFiniteSet(1..n) /\ Cardinality(1..n) = n
      BY <1>2, FS_Interval
    <2> HIDE DEF place
    <2>2. QED
      BY <1>1, <1>6, <2>1, FS_Injection
  <1>8. \A k \in 1..n : \E x \in S : place[x] = k
    <2> HIDE DEF place
    <2>1. QED
      BY <1>7 DEF Surjection
  <1> DEFINE s == [k \in 1..n |-> CHOOSE x \in S : place[x] = k]
  <1>9. \A k \in 1..n : s[k] \in S /\ place[s[k]] = k
    <2> HIDE DEF place
    <2>1. QED
      BY <1>8
  <1>10. \A x \in S : place[x] \in 1..n /\ s[place[x]] = x
    <2> HIDE DEF place, s
    <2>1. \A x \in S : place[x] \in 1..n
      BY <1>6 DEF Injection
    <2>2. QED
      BY <1>6, <1>9, <2>1 DEF Injection, IsInjective
  <1>11. DOMAIN s = 1..n /\ s \in [1..n -> S]
    <2> HIDE DEF place
    <2>1. QED
      BY <1>9
  <1>12. Range(s) = S
    <2> HIDE DEF place, s
    <2>1. QED
      BY <1>9, <1>10, <1>11 DEF Range
  <1>13. ASSUME NEW i \in 1..n, NEW j \in 1..n, i < j
         PROVE  ByteOrder(s[i][1], s[j][1])
    <2>1. s[i] \in S /\ s[j] \in S /\ place[s[i]] = i /\ place[s[j]] = j
      BY <1>9
    <2> HIDE DEF s
    <2>2. s[i] # s[j]
      BY <1>13, <2>1
    <2>3. ByteOrder(s[i][1], s[j][1]) \/ ByteOrder(s[j][1], s[i][1])
      BY <1>3, <2>1, <2>2, ByteOrderIsTotal
    <2>4. ASSUME ByteOrder(s[j][1], s[i][1]) PROVE FALSE
      <3> DEFINE p == Cardinality(Below(s[i]))
                 q == Cardinality(Below(s[j]))
      <3>1. q < p
        BY <1>5, <2>1, <2>4
      <3>2. p \in Nat /\ q \in Nat
        BY <1>4, <2>1
      <3>3. p + 1 = i /\ q + 1 = j
        BY <2>1
      <3> HIDE DEF p, q
      <3>4. QED
        BY <1>13, <3>1, <3>2, <3>3
    <2>5. QED
      BY <2>3, <2>4
  <1>14. InOrder(s, S)
    <2> HIDE DEF s, place
    <2>1. QED
      BY <1>11, <1>12, <1>13 DEF InOrder
  <1>15. s \in [DOMAIN e -> Range(e)] /\ InOrder(s, Range(e))
    <2> HIDE DEF s, place
    <2>1. QED
      BY <1>1, <1>11, <1>14 DEF S
  <1>16. QED
    BY <1>15

\* There is no other order of the names.
LEMMA OrderIsUnique ==
  ASSUME NEW e \in Mapping,
         NEW s \in [DOMAIN e -> Range(e)], InOrder(s, Range(e)),
         NEW t \in [DOMAIN e -> Range(e)], InOrder(t, Range(e))
  PROVE  s = t
  <1> DEFINE S == Range(e)
  <1>1. PICK n \in 0..MaxEntries : e \in [1..n -> S]
    BY MappingHasItems
  <1>2. n \in Nat /\ DOMAIN e = 1..n /\ DOMAIN s = 1..n /\ DOMAIN t = 1..n
    BY <1>1, CommandSizes
  <1>3. \A x \in S : x[1] \in Seq(Byte)
    BY MappingHasItems DEF Framable
  <1> HIDE DEF S
  <1>4. /\ s \in [1..n -> S] /\ t \in [1..n -> S]
        /\ \A x \in S : (\E i \in 1..n : s[i] = x) /\ (\E i \in 1..n : t[i] = x)
        /\ \A i, j \in 1..n : i < j => ByteOrder(s[i][1], s[j][1]) /\ ByteOrder(t[i][1], t[j][1])
    BY <1>2 DEF InOrder, Range, S
  <1> SUFFICES ASSUME s # t PROVE FALSE
    OBVIOUS
  <1> DEFINE Apart == {i \in 1..n : s[i] # t[i]}
  <1>5. PICK i \in Apart : \A j \in Apart : <<j, i>> \notin OpToRel(<, Nat)
    <2>1. Apart # {}
      <3>1. ASSUME \A i \in 1..n : s[i] = t[i] PROVE s = t
        BY <1>4, <3>1
      <3>2. QED
        BY <3>1
    <2>2. Apart \subseteq Nat
      BY <1>2
    <2> HIDE DEF Apart
    <2>3. QED
      BY <2>1, <2>2, NatLessThanWellFounded, WFMin
  <1>6. i \in 1..n /\ i \in Nat /\ s[i] # t[i] /\ s[i] \in S /\ t[i] \in S
    BY <1>4
  <1>7. \A j \in 1..n : j < i => s[j] = t[j]
    <2> SUFFICES ASSUME NEW j \in 1..n, j < i, s[j] # t[j] PROVE FALSE
      OBVIOUS
    <2>1. j \in Apart /\ j \in Nat
      OBVIOUS
    <2>2. <<j, i>> \in OpToRel(<, Nat)
      BY <1>6, <2>1 DEF OpToRel
    <2>3. QED
      BY <1>5, <2>1, <2>2
  <1> HIDE DEF Apart
  <1>8. PICK j \in 1..n : t[j] = s[i]
    BY <1>4, <1>6
  <1>9. PICK k \in 1..n : s[k] = t[i]
    BY <1>4, <1>6
  <1>10. ASSUME NEW a \in S PROVE ~ ByteOrder(a[1], a[1])
    BY <1>3, ByteOrderIsStrict
  <1>11. i < j
    <2>1. CASE j < i
      <3>1. s[j] = s[i]
        BY <1>7, <1>8, <2>1
      <3>2. ByteOrder(s[j][1], s[i][1])
        BY <1>4, <1>6, <2>1
      <3>3. QED
        BY <1>6, <1>10, <3>1, <3>2
    <2>2. j # i
      BY <1>6, <1>8
    <2>3. QED
      BY <1>6, <2>1, <2>2
  <1>12. i < k
    <2>1. CASE k < i
      <3>1. t[k] = t[i]
        BY <1>7, <1>9, <2>1
      <3>2. ByteOrder(t[k][1], t[i][1])
        BY <1>4, <1>6, <2>1
      <3>3. QED
        BY <1>6, <1>10, <3>1, <3>2
    <2>2. k # i
      BY <1>6, <1>9
    <2>3. QED
      BY <1>6, <2>1, <2>2
  <1>13. ByteOrder(s[i][1], t[i][1]) /\ ByteOrder(t[i][1], s[i][1])
    BY <1>4, <1>6, <1>8, <1>9, <1>11, <1>12
  <1>14. QED
    BY <1>3, <1>6, <1>13, ByteOrderIsStrict

\* snapshot freezes the environment in the order of its names.
LEMMA FrozenIsInOrder ==
  ASSUME NEW e \in Mapping
  PROVE  /\ Frozen(e) \in [DOMAIN e -> Range(e)]
         /\ InOrder(Frozen(e), Range(e))
         /\ \A s \in [DOMAIN e -> Range(e)] : InOrder(s, Range(e)) => s = Frozen(e)
  <1>1. Frozen(e) = CHOOSE s \in [DOMAIN e -> Range(e)] : InOrder(s, Range(e))
    BY DEF Frozen, InOrder
  <1>2. Frozen(e) \in [DOMAIN e -> Range(e)] /\ InOrder(Frozen(e), Range(e))
    BY <1>1, OrderExists
  <1>3. QED
    BY <1>2, OrderIsUnique

\* Environments of the same items are frozen alike, and no others.
LEMMA FrozenIdentifies ==
  ASSUME NEW d \in Mapping, NEW e \in Mapping
  PROVE  Frozen(d) = Frozen(e) <=> Range(d) = Range(e)
  <1>1. ASSUME Frozen(d) = Frozen(e) PROVE Range(d) = Range(e)
    BY <1>1, FrozenIsInOrder DEF InOrder
  <1>2. ASSUME Range(d) = Range(e) PROVE Frozen(d) = Frozen(e)
    <2>1. DOMAIN d = DOMAIN e
      <3>1. PICK m \in 0..MaxEntries : d \in [1..m -> Range(d)] /\ Cardinality(Range(d)) = m
        BY MappingHasItems
      <3>2. PICK n \in 0..MaxEntries : e \in [1..n -> Range(e)] /\ Cardinality(Range(e)) = n
        BY MappingHasItems
      <3>3. m = n
        BY <1>2, <3>1, <3>2
      <3>4. QED
        BY <3>1, <3>2, <3>3
    <2>2. QED
      BY <1>2, <2>1, FrozenIsInOrder
  <1>3. QED
    BY <1>1, <1>2

(* The canonical bytes of a command.                                          *)

\* A member of one code behind a member of another.
LEMMA MembersJoin ==
  ASSUME NEW A, NEW B, NEW a \in A, NEW b \in B
  PROVE  a \o b \in Joined(A, B)
  <1>1. <<a, b>> \in A \X B
    OBVIOUS
  <1>2. a \o b = <<a, b>>[1] \o <<a, b>>[2]
    OBVIOUS
  <1>3. QED
    BY <1>1, <1>2, Zenon DEF Joined

\* They can be told apart.
LEMMA MembersSplit ==
  ASSUME NEW A \in Code, NEW B \in Code, NEW a \in A, NEW b \in B, NEW c \in A, NEW d \in B
  PROVE  Splits(a, c, b, d)
  <1>1. b \in Seq(Byte) /\ d \in Seq(Byte)
    BY DEF Code
  <1>2. QED
    BY <1>1 DEF Code

FrameCode == {Frame(x) : x \in Framable}
PairCode == Joined(FrameCode, FrameCode)
CountedCode(W) == {Counted(u) : u \in UNION {[1..n -> W] : n \in 0..MaxBytes}}

\* What is counted can be told from its bytes.
LEMMA CountedIsInjective ==
  ASSUME NEW W \in Code, NEW m \in 0..MaxBytes, NEW n \in 0..MaxBytes,
         NEW u \in [1..m -> W], NEW v \in [1..n -> W], Counted(u) = Counted(v)
  PROVE  u = v
  <1>1. Tells(Counted(u), Counted(v), u, v, << >>, << >>)
    BY CountedSplits, EmptySeq
  <1>2. QED
    BY <1>1, Zenon DEF Tells

\* The parts of the canonical bytes of a command.
ArgvFrames(r) == [i \in DOMAIN r.argv |-> Frame(r.argv[i])]
EntryFrames(r) == LET environment == Frozen(r.environment) IN
  [i \in DOMAIN environment |-> Frame(environment[i][1]) \o Frame(environment[i][2])]

\* They are words of codes.
LEMMA RequestParts ==
  ASSUME NEW r \in Request
  PROVE  /\ Field("executable", r.executable) \in PairCode
         /\ Frame(Label("argv")) \in FrameCode
         /\ \E n \in 0..MaxBytes : /\ r.argv \in [1..n -> Argument]
                                   /\ ArgvFrames(r) \in [1..n -> FrameCode]
         /\ Field("working_directory", r.directory) \in PairCode
         /\ Frame(Label("environment")) \in FrameCode
         /\ \E n \in 0..MaxBytes : /\ Frozen(r.environment) \in [1..n -> Name \X Value]
                                   /\ EntryFrames(r) \in [1..n -> PairCode]
         /\ Frame(Label("timeout_seconds")) \in FrameCode
         /\ r.timeout \in 0..MaxBytes
  <1>1. /\ Label("executable") \in Framable /\ Label("argv") \in Framable
        /\ Label("working_directory") \in Framable /\ Label("environment") \in Framable
        /\ Label("timeout_seconds") \in Framable
    BY TextsAreFramable DEF CommandField
  <1>2. r.executable \in Framable /\ r.directory \in Framable
    BY TextsAreFramable DEF Request
  <1>3. \A x \in Framable : Frame(x) \in FrameCode
    BY DEF FrameCode
  <1>4. \A x, y \in Framable : Frame(x) \o Frame(y) \in PairCode
    BY <1>3, MembersJoin DEF PairCode
  <1>5. Field("executable", r.executable) \in PairCode
    BY <1>1, <1>2, <1>4 DEF Field
  <1>6. Field("working_directory", r.directory) \in PairCode
    BY <1>1, <1>2, <1>4 DEF Field
  <1>7. \E n \in 0..MaxBytes : r.argv \in [1..n -> Argument] /\ ArgvFrames(r) \in [1..n -> FrameCode]
    <2>1. PICK n \in 1..MaxArguments : r.argv \in [1..n -> Argument]
      BY DEF Request
    <2>2. n \in 0..MaxBytes
      BY CommandSizes
    <2>3. \A i \in 1..n : Frame(r.argv[i]) \in FrameCode
      BY <1>3, <2>1, TextsAreFramable
    <2>4. ArgvFrames(r) \in [1..n -> FrameCode]
      BY <2>1, <2>3 DEF ArgvFrames
    <2>5. QED
      BY <2>1, <2>2, <2>4
  <1>8. \E n \in 0..MaxBytes : /\ Frozen(r.environment) \in [1..n -> Name \X Value]
                               /\ EntryFrames(r) \in [1..n -> PairCode]
    <2> DEFINE e == r.environment
               s == Frozen(e)
    <2>1. e \in Mapping
      BY DEF Request
    <2> HIDE DEF e
    <2>2. PICK n \in 0..MaxEntries : e \in [1..n -> Range(e)]
      BY <2>1, MappingHasItems
    <2>3. n \in 0..MaxBytes
      BY CommandSizes
    <2>4. s \in [1..n -> Range(e)]
      BY <2>1, <2>2, FrozenIsInOrder
    <2>5. \A x \in Range(e) : x \in Name \X Value /\ x[1] \in Framable /\ x[2] \in Framable
      BY <2>1, MappingHasItems
    <2> HIDE DEF s
    <2>6. s \in [1..n -> Name \X Value]
      BY <2>4, <2>5
    <2>7. \A i \in 1..n : Frame(s[i][1]) \o Frame(s[i][2]) \in PairCode
      BY <1>4, <2>4, <2>5
    <2>8. EntryFrames(r) = [i \in DOMAIN s |-> Frame(s[i][1]) \o Frame(s[i][2])]
      BY DEF EntryFrames, e, s
    <2>9. EntryFrames(r) \in [1..n -> PairCode]
      BY <2>4, <2>7, <2>8
    <2>10. QED
      BY <2>3, <2>6, <2>9 DEF s, e
  <1>9. r.timeout \in 0..MaxBytes
    <2>1. r.timeout \in Timeout
      BY DEF Request
    <2>2. \A n \in 1..MaxBytes : n \in 0..MaxBytes
      BY CommandSizes
    <2>3. QED
      BY <2>1, <2>2, CommandSizes
  <1>10. QED
    BY <1>1, <1>3, <1>5, <1>6, <1>7, <1>8, <1>9

\* A field shows its text.
LEMMA FieldIsInjective ==
  ASSUME NEW f \in CommandField, NEW x \in Framable, NEW y \in Framable, Field(f, x) = Field(f, y)
  PROVE  x = y
  <1>1. Frame(Label(f)) \in FrameCode /\ Frame(x) \in FrameCode /\ Frame(y) \in FrameCode
    BY TextsAreFramable DEF FrameCode
  <1>2. FrameCode \in Code
    BY FramesAreCode DEF FrameCode
  <1>3. Frame(Label(f)) \o Frame(x) = Frame(Label(f)) \o Frame(y)
    BY Zenon DEF Field
  <1> DEFINE l == Frame(Label(f))
             a == Frame(x)
             b == Frame(y)
  <1>4. a = b
    <2>1. l \in FrameCode /\ a \in FrameCode /\ b \in FrameCode /\ l \o a = l \o b
      BY <1>1, <1>3
    <2> HIDE DEF l, a, b
    <2>2. Splits(l, l, a, b)
      BY <1>2, <2>1, MembersSplit
    <2>3. QED
      BY <2>1, <2>2, Zenon DEF Splits
  <1>5. QED
    BY <1>4, FrameIsInjective

\* The frames of the arguments show the arguments.
LEMMA ArgvFramesAreInjective ==
  ASSUME NEW r \in Request, NEW s \in Request, ArgvFrames(r) = ArgvFrames(s)
  PROVE  r.argv = s.argv
  <1>1. PICK m \in 0..MaxBytes : r.argv \in [1..m -> Argument]
    BY RequestParts
  <1>2. PICK n \in 0..MaxBytes : s.argv \in [1..n -> Argument]
    BY RequestParts
  <1>3. DOMAIN ArgvFrames(r) = 1..m /\ DOMAIN ArgvFrames(s) = 1..n
    BY <1>1, <1>2 DEF ArgvFrames
  <1>4. s.argv \in [1..m -> Argument] /\ 1..m = 1..n
    BY <1>2, <1>3
  <1>5. ASSUME NEW i \in 1..m PROVE r.argv[i] = s.argv[i]
    <2>1. ArgvFrames(r)[i] = Frame(r.argv[i]) /\ ArgvFrames(s)[i] = Frame(s.argv[i])
      BY <1>1, <1>4 DEF ArgvFrames
    <2>2. r.argv[i] \in Framable /\ s.argv[i] \in Framable
      BY <1>1, <1>4, TextsAreFramable
    <2>3. Frame(r.argv[i]) = Frame(s.argv[i])
      BY <2>1
    <2>4. QED
      BY <2>2, <2>3, FrameIsInjective
  <1>6. QED
    BY <1>1, <1>4, <1>5

\* The frames of the frozen environment show the frozen environment.
LEMMA EntryFramesAreInjective ==
  ASSUME NEW r \in Request, NEW s \in Request, EntryFrames(r) = EntryFrames(s)
  PROVE  Frozen(r.environment) = Frozen(s.environment)
  <1> DEFINE d == Frozen(r.environment)
             e == Frozen(s.environment)
  <1>1. PICK m \in 0..MaxBytes : d \in [1..m -> Name \X Value]
    BY RequestParts
  <1>2. PICK n \in 0..MaxBytes : e \in [1..n -> Name \X Value]
    BY RequestParts
  <1>3. /\ EntryFrames(r) = [i \in DOMAIN d |-> Frame(d[i][1]) \o Frame(d[i][2])]
        /\ EntryFrames(s) = [i \in DOMAIN e |-> Frame(e[i][1]) \o Frame(e[i][2])]
    BY DEF EntryFrames
  <1> HIDE DEF d, e
  <1>4. DOMAIN EntryFrames(r) = 1..m /\ DOMAIN EntryFrames(s) = 1..n
    BY <1>1, <1>2, <1>3
  <1>5. e \in [1..m -> Name \X Value]
    BY <1>2, <1>4
  <1>6. ASSUME NEW i \in 1..m PROVE d[i] = e[i]
    <2> DEFINE a == Frame(d[i][1])
               b == Frame(d[i][2])
               p == Frame(e[i][1])
               q == Frame(e[i][2])
    <2>1. d[i] \in Name \X Value /\ e[i] \in Name \X Value
      BY <1>1, <1>5
    <2>2. /\ d[i][1] \in Framable /\ d[i][2] \in Framable
          /\ e[i][1] \in Framable /\ e[i][2] \in Framable
      BY <2>1, TextsAreFramable
    <2>3. a \in FrameCode /\ b \in FrameCode /\ p \in FrameCode /\ q \in FrameCode
      BY <2>2 DEF FrameCode
    <2>4. EntryFrames(r)[i] = a \o b /\ EntryFrames(s)[i] = p \o q
      BY <1>1, <1>3, <1>5
    <2>5. FrameCode \in Code
      BY FramesAreCode DEF FrameCode
    <2> HIDE DEF a, b, p, q
    <2>6. a \o b = p \o q
      BY <2>4
    <2>7. Splits(a, p, b, q)
      BY <2>3, <2>5, MembersSplit
    <2>8. a = p /\ b = q
      BY <2>6, <2>7, Zenon DEF Splits
    <2>9. d[i][1] = e[i][1] /\ d[i][2] = e[i][2]
      BY <2>2, <2>8, FrameIsInjective DEF a, b, p, q
    <2>10. QED
      BY <2>1, <2>9
  <1>7. d = e
    BY <1>1, <1>5, <1>6
  <1>8. QED
    BY <1>7 DEF d, e

\* Two commands have the same canonical bytes if and only if they would start
\* the same process: the executable, the arguments, the directory and the
\* timeout are the same, and the environments hold the same items.
THEOREM CanonicalBytesIdentify ==
  ASSUME NEW r \in Request, NEW s \in Request
  PROVE  CanonicalBytes(r) = CanonicalBytes(s) <=> SameCommand(r, s)
  <1> DEFINE c1(x) == Field("executable", x.executable)
             c2 == Frame(Label("argv"))
             c3(x) == Counted(ArgvFrames(x))
             c4(x) == Field("working_directory", x.directory)
             c5 == Frame(Label("environment"))
             c6(x) == Counted(EntryFrames(x))
             c7 == Frame(Label("timeout_seconds"))
             c8(x) == Word(x.timeout)
             p1(x) == CommandDomain \o c1(x)
             p2(x) == p1(x) \o c2
             p3(x) == p2(x) \o c3(x)
             p4(x) == p3(x) \o c4(x)
             p5(x) == p4(x) \o c5
             p6(x) == p5(x) \o c6(x)
             p7(x) == p6(x) \o c7
             K0 == {x \in Seq(Byte) : Len(x) = Len(CommandDomain)}
             K1 == Joined(K0, PairCode)
             K2 == Joined(K1, FrameCode)
             K3 == Joined(K2, CountedCode(FrameCode))
             K4 == Joined(K3, PairCode)
             K5 == Joined(K4, FrameCode)
             K6 == Joined(K5, CountedCode(PairCode))
             K7 == Joined(K6, FrameCode)
             K8 == {x \in Seq(Byte) : Len(x) = Width}
  <1>1. \A x : CanonicalBytes(x) = p7(x) \o c8(x)
    BY DEF CanonicalBytes, ArgvFrames, EntryFrames
  <1>2. /\ r.environment \in Mapping /\ s.environment \in Mapping
        /\ r.executable \in Framable /\ s.executable \in Framable
        /\ r.directory \in Framable /\ s.directory \in Framable
    BY TextsAreFramable DEF Request
  <1>3. FrameCode \in Code /\ PairCode \in Code /\ K0 \in Code /\ K8 \in Code
    <2>1. CommandDomain \in Seq(Byte) /\ Width \in Nat
      BY CommandAssumption, WordAssumption, Zenon
    <2>2. Len(CommandDomain) \in Nat /\ Width \in Nat
      BY <2>1
    <2>3. K0 \in Code /\ K8 \in Code
      BY <2>2, WordsAreCode
    <2>4. FrameCode \in Code
      BY FramesAreCode DEF FrameCode
    <2>5. QED
      BY <2>3, <2>4, JoinedIsCode DEF PairCode
  <1>4. CountedCode(FrameCode) \in Code /\ CountedCode(PairCode) \in Code
    BY <1>3, CountedIsCode DEF CountedCode
  <1>5. \A x \in Request :
          /\ CommandDomain \in K0
          /\ c1(x) \in PairCode /\ c2 \in FrameCode /\ c3(x) \in CountedCode(FrameCode)
          /\ c4(x) \in PairCode /\ c5 \in FrameCode /\ c6(x) \in CountedCode(PairCode)
          /\ c7 \in FrameCode /\ c8(x) \in K8
    <2> SUFFICES ASSUME NEW x \in Request
                 PROVE  /\ CommandDomain \in K0
                        /\ c1(x) \in PairCode /\ c2 \in FrameCode /\ c3(x) \in CountedCode(FrameCode)
                        /\ c4(x) \in PairCode /\ c5 \in FrameCode /\ c6(x) \in CountedCode(PairCode)
                        /\ c7 \in FrameCode /\ c8(x) \in K8
      OBVIOUS
    <2>1. CommandDomain \in K0
      <3>1. CommandDomain \in Seq(Byte)
        BY CommandAssumption, Zenon
      <3>2. QED
        BY <3>1
    <2>2. c1(x) \in PairCode /\ c2 \in FrameCode /\ c4(x) \in PairCode /\ c5 \in FrameCode /\ c7 \in FrameCode
      BY RequestParts
    <2>3. c3(x) \in CountedCode(FrameCode) /\ c6(x) \in CountedCode(PairCode)
      BY RequestParts DEF CountedCode
    <2>4. c8(x) \in K8
      BY RequestParts, WordAssumption
    <2>5. QED
      BY <2>1, <2>2, <2>3, <2>4
  <1>6. /\ K1 \in Code /\ K2 \in Code /\ K3 \in Code /\ K4 \in Code /\ K5 \in Code
        /\ K6 \in Code /\ K7 \in Code
    <2> HIDE DEF K0
    <2>1. K1 \in Code
      BY <1>3, JoinedIsCode
    <2> HIDE DEF K1
    <2>2. K2 \in Code
      BY <1>3, <2>1, JoinedIsCode
    <2> HIDE DEF K2
    <2>3. K3 \in Code
      BY <1>4, <2>2, JoinedIsCode
    <2> HIDE DEF K3
    <2>4. K4 \in Code
      BY <1>3, <2>3, JoinedIsCode
    <2> HIDE DEF K4
    <2>5. K5 \in Code
      BY <1>3, <2>4, JoinedIsCode
    <2> HIDE DEF K5
    <2>6. K6 \in Code
      BY <1>4, <2>5, JoinedIsCode
    <2> HIDE DEF K6
    <2>7. K7 \in Code
      BY <1>3, <2>6, JoinedIsCode
    <2>8. QED
      BY <2>1, <2>2, <2>3, <2>4, <2>5, <2>6, <2>7
  <1> HIDE DEF c1, c2, c3, c4, c5, c6, c7, c8, K0, K8
  <1>7. \A x \in Request : /\ p1(x) \in K1 /\ p2(x) \in K2 /\ p3(x) \in K3 /\ p4(x) \in K4
                           /\ p5(x) \in K5 /\ p6(x) \in K6 /\ p7(x) \in K7
    <2> SUFFICES ASSUME NEW x \in Request
                 PROVE  /\ p1(x) \in K1 /\ p2(x) \in K2 /\ p3(x) \in K3 /\ p4(x) \in K4
                        /\ p5(x) \in K5 /\ p6(x) \in K6 /\ p7(x) \in K7
      OBVIOUS
    <2>1. p1(x) \in K1
      BY <1>5, MembersJoin
    <2> HIDE DEF p1, K1
    <2>2. p2(x) \in K2
      BY <1>5, <2>1, MembersJoin
    <2> HIDE DEF p2, K2
    <2>3. p3(x) \in K3
      BY <1>5, <2>2, MembersJoin
    <2> HIDE DEF p3, K3
    <2>4. p4(x) \in K4
      BY <1>5, <2>3, MembersJoin
    <2> HIDE DEF p4, K4
    <2>5. p5(x) \in K5
      BY <1>5, <2>4, MembersJoin
    <2> HIDE DEF p5, K5
    <2>6. p6(x) \in K6
      BY <1>5, <2>5, MembersJoin
    <2> HIDE DEF p6, K6
    <2>7. p7(x) \in K7
      BY <1>5, <2>6, MembersJoin
    <2>8. QED
      BY <2>1, <2>2, <2>3, <2>4, <2>5, <2>6, <2>7
  <1> HIDE DEF K1, K2, K3, K4, K5, K6, K7
  <1>8. ASSUME CanonicalBytes(r) = CanonicalBytes(s) PROVE SameCommand(r, s)
    <2>1. p7(r) = p7(s) /\ c8(r) = c8(s)
      <3>1. p7(r) \o c8(r) = p7(s) \o c8(s)
        BY <1>1, <1>8, Zenon
      <3> HIDE DEF p7
      <3>2. Splits(p7(r), p7(s), c8(r), c8(s))
        BY <1>3, <1>5, <1>6, <1>7, MembersSplit
      <3>3. QED
        BY <3>1, <3>2, Zenon DEF Splits
    <2>2. p6(r) = p6(s)
      <3>1. p6(r) \o c7 = p6(s) \o c7
        BY <2>1, Zenon
      <3> HIDE DEF p6
      <3>2. Splits(p6(r), p6(s), c7, c7)
        BY <1>3, <1>5, <1>6, <1>7, MembersSplit
      <3>3. QED
        BY <3>1, <3>2, Zenon DEF Splits
    <2>3. p5(r) = p5(s) /\ c6(r) = c6(s)
      <3>1. p5(r) \o c6(r) = p5(s) \o c6(s)
        BY <2>2, Zenon
      <3> HIDE DEF p5
      <3>2. Splits(p5(r), p5(s), c6(r), c6(s))
        BY <1>4, <1>5, <1>6, <1>7, MembersSplit
      <3>3. QED
        BY <3>1, <3>2, Zenon DEF Splits
    <2>4. p4(r) = p4(s)
      <3>1. p4(r) \o c5 = p4(s) \o c5
        BY <2>3, Zenon
      <3> HIDE DEF p4
      <3>2. Splits(p4(r), p4(s), c5, c5)
        BY <1>3, <1>5, <1>6, <1>7, MembersSplit
      <3>3. QED
        BY <3>1, <3>2, Zenon DEF Splits
    <2>5. p3(r) = p3(s) /\ c4(r) = c4(s)
      <3>1. p3(r) \o c4(r) = p3(s) \o c4(s)
        BY <2>4, Zenon
      <3> HIDE DEF p3
      <3>2. Splits(p3(r), p3(s), c4(r), c4(s))
        BY <1>3, <1>5, <1>6, <1>7, MembersSplit
      <3>3. QED
        BY <3>1, <3>2, Zenon DEF Splits
    <2>6. p2(r) = p2(s) /\ c3(r) = c3(s)
      <3>1. p2(r) \o c3(r) = p2(s) \o c3(s)
        BY <2>5, Zenon
      <3> HIDE DEF p2
      <3>2. Splits(p2(r), p2(s), c3(r), c3(s))
        BY <1>4, <1>5, <1>6, <1>7, MembersSplit
      <3>3. QED
        BY <3>1, <3>2, Zenon DEF Splits
    <2>7. p1(r) = p1(s)
      <3>1. p1(r) \o c2 = p1(s) \o c2
        BY <2>6, Zenon
      <3> HIDE DEF p1
      <3>2. Splits(p1(r), p1(s), c2, c2)
        BY <1>3, <1>5, <1>6, <1>7, MembersSplit
      <3>3. QED
        BY <3>1, <3>2, Zenon DEF Splits
    <2>8. c1(r) = c1(s)
      <3>1. CommandDomain \o c1(r) = CommandDomain \o c1(s)
        BY <2>7, Zenon
      <3>2. Splits(CommandDomain, CommandDomain, c1(r), c1(s))
        BY <1>3, <1>5, MembersSplit
      <3>3. QED
        BY <3>1, <3>2, Zenon DEF Splits
    <2>9. r.executable = s.executable /\ r.directory = s.directory
      BY <1>2, <2>5, <2>8, FieldIsInjective DEF c1, c4, CommandField
    <2>10. r.argv = s.argv
      <3>1. Counted(ArgvFrames(r)) = Counted(ArgvFrames(s))
        BY <2>6 DEF c3
      <3>2. PICK m \in 0..MaxBytes : ArgvFrames(r) \in [1..m -> FrameCode]
        BY RequestParts
      <3>3. PICK n \in 0..MaxBytes : ArgvFrames(s) \in [1..n -> FrameCode]
        BY RequestParts
      <3>4. ArgvFrames(r) = ArgvFrames(s)
        BY <1>3, <3>1, <3>2, <3>3, CountedIsInjective
      <3>5. QED
        BY <3>4, ArgvFramesAreInjective
    <2>11. Range(r.environment) = Range(s.environment)
      <3>1. Counted(EntryFrames(r)) = Counted(EntryFrames(s))
        BY <2>3 DEF c6
      <3>2. PICK m \in 0..MaxBytes : EntryFrames(r) \in [1..m -> PairCode]
        BY RequestParts
      <3>3. PICK n \in 0..MaxBytes : EntryFrames(s) \in [1..n -> PairCode]
        BY RequestParts
      <3>4. EntryFrames(r) = EntryFrames(s)
        BY <1>3, <3>1, <3>2, <3>3, CountedIsInjective
      <3>5. QED
        BY <1>2, <3>4, EntryFramesAreInjective, FrozenIdentifies
    <2>12. r.timeout = s.timeout
      BY <2>1, RequestParts, WordAssumption DEF c8
    <2>13. QED
      BY <2>9, <2>10, <2>11, <2>12 DEF SameCommand
  <1>9. ASSUME SameCommand(r, s) PROVE CanonicalBytes(r) = CanonicalBytes(s)
    <2>1. /\ r.executable = s.executable /\ r.argv = s.argv /\ r.directory = s.directory
          /\ r.timeout = s.timeout /\ Range(r.environment) = Range(s.environment)
      BY <1>9 DEF SameCommand
    <2>2. Frozen(r.environment) = Frozen(s.environment)
      BY <1>2, <2>1, FrozenIdentifies
    <2>3. ArgvFrames(r) = ArgvFrames(s) /\ EntryFrames(r) = EntryFrames(s)
      BY <2>1, <2>2, Zenon DEF ArgvFrames, EntryFrames
    <2>4. /\ c1(r) = c1(s) /\ c3(r) = c3(s) /\ c4(r) = c4(s) /\ c6(r) = c6(s) /\ c8(r) = c8(s)
      BY <2>1, <2>3, Zenon DEF c1, c3, c4, c6, c8
    <2>5. p7(r) \o c8(r) = p7(s) \o c8(s)
      BY <2>4, Zenon
    <2>6. QED
      BY <1>1, <2>5, Zenon
  <1>10. QED
    BY <1>8, <1>9

\* No two commands that would start different processes are ever given the same
\* canonical bytes, and the same command is always given the same.
THEOREM CommandsAreIdentified == CommandSpec => []BytesIdentifyCommands
  <1> DEFINE Inv == request \in Request /\ bytes = CanonicalBytes(request)
  <1>1. CommandInit => Inv
    BY DEF CommandInit
  <1>2. Inv /\ [CommandNext]_commandVars => Inv'
    BY DEF CommandNext, CommandSpecHash, commandVars, Request
  <1>3. Inv => BytesIdentifyCommands
    BY CanonicalBytesIdentify DEF BytesIdentifyCommands, BytesOf
  <1>4. QED
    BY <1>1, <1>2, <1>3, PTL DEF CommandSpec
=============================================================================
