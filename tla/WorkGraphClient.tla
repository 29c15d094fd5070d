--------------------------- MODULE WorkGraphClient ---------------------------
(***************************************************************************)
(* The WorkGraph first client (buildbot/umbilical_workgraph_client.py) and *)
(* the validation wrapper it launches (umbilical_workgraph_validation.py), *)
(* on top of the authority store.                                          *)
(*                                                                         *)
(* A client authenticates a revision, derives the ExecutionKey from it and *)
(* from the committed tree of its own validation contract, rebuilds the    *)
(* key's checkout directory, checks it, obtains authority in the store,    *)
(* launches the wrapper once and publishes its exit code as a commit       *)
(* status.  Store calls are one step each, as in LocalExecution.tla.  The  *)
(* checkout directory is a function of the key alone, so clients that run  *)
(* at the same time for one revision share it.                             *)
(***************************************************************************)
EXTENDS AuthorityTables

CONSTANTS
  Client,     \* client processes; a finished one may be started again
  Revision,   \* WorkGraph commits
  Contract    \* committed trees of the Umbilical repository

ASSUME KeyAssumption == Key = Revision \X Contract
ASSUME CodeAssumption == {0, 1, 2} \subseteq ExitCode
ASSUME ContractAssumption == None \notin Contract
ASSUME TargetAssumption == None \notin Key
ASSUME ScopeAssumption == Scope # {}

scope == CHOOSE s \in Scope : TRUE  \* _AUTHORITY_SCOPE

VARIABLES
  ready,     \* the authority store file exists at the current version
  db,        \* its committed tables
  contract,  \* the contract repository: its clean tree, or None if dirty
  host,      \* the interpreter, git and system paths a command hash covers
  tree,      \* each key: what is in its checkout directory
  wrapper,   \* each key: the launched validation wrapper
  statuses,  \* each revision: the commit status GitHub shows
  phase,     \* each client: the next thing it does
  local      \* each client: the local variables of run_workgraph_client

clientVars == <<phase, local>>
vars == <<ready, db, contract, host, tree, wrapper, statuses, phase, local>>

Phase == {"idle", "acquiring", "looking", "reading", "removing", "clearing",
          "cloning", "checkout", "preparing", "preflight", "contract", "verify",
          "register", "bind", "generation", "admission", "admit", "claim",
          "mark", "launch", "waiting", "record", "publish"}

Local == [key : Key \cup {None}, exists : BOOLEAN, hash : Hash \cup {None},
          generation : Generation \cup {0}, code : ExitCode \cup {None}]
NoLocal == [key |-> None, exists |-> FALSE, hash |-> None,
            generation |-> 0, code |-> None]

TreeState == {"absent", "partial", "exact"}

\* at: what the wrapper process does; saw: the trees its stages ran on;
\* started: how many wrappers were launched with authority, counted to 2.
Wrapper == [at : {"none", "verifying", "stage1", "stage2", "exited", "killed"},
            saw : SUBSET TreeState, code : ExitCode \cup {None}, started : 0..2]

\* Every variable keeps its type.
TypeOK ==
  /\ ready \in BOOLEAN
  /\ db \in Store
  /\ contract \in Contract \cup {None}
  /\ host \in Hash
  /\ tree \in [Key -> TreeState]
  /\ wrapper \in [Key -> Wrapper]
  /\ statuses \in [Revision -> {"none", "success", "failure"}]
  /\ phase \in [Client -> Phase]
  /\ local \in [Client -> Local]

Init ==
  /\ ready = FALSE
  /\ db = EmptyStore
  /\ contract \in Contract
  /\ host \in Hash
  /\ tree = [k \in Key |-> "absent"]
  /\ wrapper = [k \in Key |-> [at |-> "none", saw |-> {}, code |-> None, started |-> 0]]
  /\ statuses = [r \in Revision |-> "none"]
  /\ phase = [p \in Client |-> "idle"]
  /\ local = [p \in Client |-> NoLocal]

Running(k) == wrapper[k].at \in {"verifying", "stage1", "stage2"}

-----------------------------------------------------------------------------
(* Steps of one client. *)

key(p) == local[p].key

At(p, ph) == phase[p] = ph
Goto(p, ph) == phase' = [phase EXCEPT ![p] = ph]
Set(p, l) == local' = [local EXCEPT ![p] = l]

\* The run ends: a result is returned or an exception raised.
Finish(p) == Goto(p, "idle") /\ Set(p, NoLocal)

\* initialize_workgraph_client: create the store, then acquire a generation.
InitializeStore(p) ==
  /\ At(p, "idle") /\ ~ready
  /\ ready' = TRUE
  /\ Goto(p, "acquiring")
  /\ UNCHANGED <<db, contract, host, tree, wrapper, statuses, local>>

\* verify_workgraph_target answered, the contract is committed and clean, and
\* the store opened: the run has its key.
StartRun(p) ==
  /\ At(p, "idle") /\ ready
  /\ contract # None
  /\ \E r \in Revision : Set(p, [NoLocal EXCEPT !.key = <<r, contract>>])
  /\ Goto(p, "looking")
  /\ UNCHANGED <<ready, db, contract, host, tree, wrapper, statuses>>

LookUp(p) ==
  /\ At(p, "looking")
  /\ LET known == key(p) \in db.keys IN
     /\ local' = [local EXCEPT ![p].exists = known]
     /\ Goto(p, IF known THEN "reading" ELSE "removing")
  /\ UNCHANGED <<ready, db, contract, host, tree, wrapper, statuses>>

\* A prior launch is never repeated: its result is published, or the run
\* ends and reports the launch state.
RepeatPriorLaunch(p) ==  \* a variant: an unfinished launch is run again
  /\ At(p, "reading")
  /\ LET l == db.launches[key(p)] IN
     \/ l = None /\ Goto(p, "removing") /\ UNCHANGED local
     \/ l # None /\ l.state # "terminal" /\ Goto(p, "removing") /\ UNCHANGED local
     \/ /\ l # None /\ l.state = "terminal"
        /\ local' = [local EXCEPT ![p].code = l.exit_code]
        /\ Goto(p, "publish")
  /\ UNCHANGED <<ready, db, contract, host, tree, wrapper, statuses>>

ReadPriorLaunch(p) ==
  /\ At(p, "reading")
  /\ LET l == db.launches[key(p)] IN
     \/ l = None /\ Goto(p, "removing") /\ UNCHANGED local
     \/ l # None /\ l.state # "terminal" /\ Finish(p)
     \/ /\ l # None /\ l.state = "terminal"
        /\ local' = [local EXCEPT ![p].code = l.exit_code]
        /\ Goto(p, "publish")
  /\ UNCHANGED <<ready, db, contract, host, tree, wrapper, statuses>>

\* prepare_exact_checkout: an existing directory is removed file by file,
\* cloned again without files, and only then checked out.
RemoveCheckout(p) ==
  /\ At(p, "removing")
  /\ IF tree[key(p)] = "absent"
     THEN Goto(p, "cloning") /\ UNCHANGED tree
     ELSE Goto(p, "clearing") /\ tree' = [tree EXCEPT ![key(p)] = "partial"]
  /\ UNCHANGED <<ready, db, contract, host, wrapper, statuses, local>>

\* Windows does not remove the working directory of a running process.
ClearCheckout(p) ==
  /\ At(p, "clearing")
  /\ ~Running(key(p))
  /\ tree' = [tree EXCEPT ![key(p)] = "absent"]
  /\ Goto(p, "cloning")
  /\ UNCHANGED <<ready, db, contract, host, wrapper, statuses, local>>

CloneCheckout(p) ==
  /\ At(p, "cloning")
  /\ tree[key(p)] = "absent"  \* git refuses a directory that is not empty
  /\ tree' = [tree EXCEPT ![key(p)] = "partial"]
  /\ Goto(p, "checkout")
  /\ UNCHANGED <<ready, db, contract, host, wrapper, statuses, local>>

CheckOutRevision(p) ==
  /\ At(p, "checkout")
  /\ tree[key(p)] # "absent"
  /\ tree' = [tree EXCEPT ![key(p)] = "exact"]
  /\ Goto(p, "preparing")
  /\ UNCHANGED <<ready, db, contract, host, wrapper, statuses, local>>

\* The run goes on from phase ph to phase next if the condition c holds; it
\* raises WorkGraphClientError (GiveUp) if not.
Check(p, ph, c, next) ==
  /\ At(p, ph)
  /\ c
  /\ Goto(p, next)
  /\ UNCHANGED <<ready, db, contract, host, tree, wrapper, statuses, local>>

ExactTree(k) == tree[k] = "exact"
ExactContract(k) == contract = k[2]

\* The checkout is verified, and the command built from the host as it is now.
VerifyPreparedCheckout(p) ==
  /\ At(p, "preparing")
  /\ ExactTree(key(p))
  /\ local' = [local EXCEPT ![p].hash = host]
  /\ Goto(p, "preflight")
  /\ UNCHANGED <<ready, db, contract, host, tree, wrapper, statuses>>

\* The wrapper with --integrity-only, launched without authority.
Preflight(p) ==
  Check(p, "preflight", ExactTree(key(p)) /\ ExactContract(key(p)), "contract")

RecheckContract(p) == Check(p, "contract", ExactContract(key(p)), "verify")
RecheckCheckout(p) ==
  Check(p, "verify", ExactTree(key(p)), IF local[p].exists THEN "bind" ELSE "register")

-----------------------------------------------------------------------------
(* Store calls: success, or an exception although the call was committed.   *)
(* An exception without any effect is GiveUp.                               *)

Call(p, ph, allowed, d, next) ==
  /\ At(p, ph)
  /\ allowed
  /\ db' = d
  /\ \/ Goto(p, next) /\ UNCHANGED local
     \/ Finish(p)
  /\ UNCHANGED <<ready, contract, host, tree, wrapper, statuses>>

AcquireFirstGeneration(p) ==
  Call(p, "acquiring", CanAcquire(db, scope), Acquired(db, scope), "idle")

Register(p) == Call(p, "register", TRUE, Registered(db, key(p)), "bind")

Bind(p) ==
  LET l == local[p] IN
  Call(p, "bind", CanBind(db, l.key, l.hash), Bound(db, l.key, l.hash), "generation")

ReadAnyGeneration(p) ==  \* a variant: "no generation" is not told from one
  /\ At(p, "generation")
  /\ local' = [local EXCEPT ![p].generation = db.generations[scope]]
  /\ Goto(p, "admission")
  /\ UNCHANGED <<ready, db, contract, host, tree, wrapper, statuses>>

ReadGeneration(p) ==
  /\ At(p, "generation")
  /\ db.generations[scope] # 0
  /\ local' = [local EXCEPT ![p].generation = db.generations[scope]]
  /\ Goto(p, "admission")
  /\ UNCHANGED <<ready, db, contract, host, tree, wrapper, statuses>>

ReadAdmission(p) ==
  LET a == db.admissions[key(p)] IN
  \/ Check(p, "admission", a = None, "admit")
  \/ Check(p, "admission", a # None /\ a.generation = local[p].generation, "claim")

Admit(p) ==
  LET l == local[p] IN
  Call(p, "admit", CanAdmit(db, l.key, scope, l.generation),
       Admitted(db, l.key, scope, l.generation), "claim")

Claim(p) ==
  LET l == local[p] IN
  Call(p, "claim", CanClaim(db, l.key, scope, l.generation, l.hash),
       Claimed(db, l.key, scope, l.generation, l.hash), "mark")

MarkUnknown(p) ==
  LET l == local[p] IN
  Call(p, "mark", CanMarkUnknown(db, l.key, l.hash),
       MarkedUnknown(db, l.key), "launch")

Record(p) ==
  LET l == local[p] IN
  Call(p, "record", CanRecordTerminal(db, l.key, l.hash),
       TerminalRecorded(db, l.key, l.code), "publish")

-----------------------------------------------------------------------------
(* The launched wrapper and the publication of its exit code. *)

LaunchWrapper(p) ==
  /\ At(p, "launch")
  /\ wrapper' = [wrapper EXCEPT ![key(p)] =
       [at |-> "verifying", saw |-> {}, code |-> None,
        started |-> IF @.started < 2 THEN @.started + 1 ELSE 2]]
  /\ Goto(p, "waiting")
  /\ UNCHANGED <<ready, db, contract, host, tree, statuses, local>>

Exit(w, x) == [w EXCEPT !.at = "exited", !.code = x]

WrapperOnlyVerifies(k) ==  \* a variant: launched with --integrity-only
  /\ wrapper[k].at = "verifying"
  /\ wrapper' = [wrapper EXCEPT ![k] =
       Exit(@, IF ExactContract(k) /\ ExactTree(k) THEN 0 ELSE 2)]
  /\ UNCHANGED <<ready, db, contract, host, tree, statuses, phase, local>>

\* run_validation: both trees must be exact, or the exit code is 2.
WrapperVerifies(k) ==
  /\ wrapper[k].at = "verifying"
  /\ wrapper' = [wrapper EXCEPT ![k] =
       IF ExactContract(k) /\ ExactTree(k)
       THEN [@ EXCEPT !.at = "stage1"] ELSE Exit(@, 2)]
  /\ UNCHANGED <<ready, db, contract, host, tree, statuses, phase, local>>

\* The two stages run on whatever the directory then holds.
WrapperRuns(k, st, passed) ==
  /\ wrapper[k].at = st
  /\ LET w == [wrapper[k] EXCEPT !.saw = @ \cup {tree[k]}] IN
     \E n \in {IF passed = "exited" THEN Exit(w, 0) ELSE [w EXCEPT !.at = passed],
               Exit(w, 1)} :
       wrapper' = [wrapper EXCEPT ![k] = n]
  /\ UNCHANGED <<ready, db, contract, host, tree, statuses, phase, local>>

WrapperStep(k) ==
  \/ WrapperVerifies(k)
  \/ WrapperRuns(k, "stage1", "stage2")
  \/ WrapperRuns(k, "stage2", "exited")

ObserveExit(p) ==
  /\ At(p, "waiting")
  /\ ~Running(key(p))
  /\ local' = [local EXCEPT ![p].code = wrapper[key(p)].code]
  /\ Goto(p, "record")
  /\ UNCHANGED <<ready, db, contract, host, tree, wrapper, statuses>>

\* Two variants: the launch is repeated, or a failure published, on a timeout.
TimeOutAndRetry(p) ==
  /\ At(p, "waiting")
  /\ Running(key(p))
  /\ wrapper' = [wrapper EXCEPT ![key(p)].at = "killed"]
  /\ Goto(p, "launch")
  /\ UNCHANGED <<ready, db, contract, host, tree, statuses, local>>
TimeOutAndPublish(p) ==
  /\ At(p, "waiting")
  /\ Running(key(p))
  /\ wrapper' = [wrapper EXCEPT ![key(p)].at = "killed"]
  /\ Set(p, [local[p] EXCEPT !.code = 1])
  /\ Goto(p, "publish")
  /\ UNCHANGED <<ready, db, contract, host, tree, statuses>>

TimeOut(p) ==
  /\ At(p, "waiting")
  /\ Running(key(p))
  /\ wrapper' = [wrapper EXCEPT ![key(p)].at = "killed"]
  /\ Finish(p)
  /\ UNCHANGED <<ready, db, contract, host, tree, statuses>>

\* The target is authenticated again and the status posted.  Whether the
\* answer then arrives or not, the run ends.
Publish(p) ==
  /\ At(p, "publish")
  /\ statuses' = [statuses EXCEPT ![key(p)[1]] =
       IF local[p].code = 0 THEN "success" ELSE "failure"]
  /\ Finish(p)
  /\ UNCHANGED <<ready, db, contract, host, tree, wrapper>>

\* An exception with no effect (a check that fails, git, GitHub, SQLite, the
\* launcher), or the death of the client, at any step.
GiveUp(p) ==
  /\ ~At(p, "idle")
  /\ Finish(p)
  /\ UNCHANGED <<ready, db, contract, host, tree, wrapper, statuses>>

Run(p) ==
  \/ InitializeStore(p) \/ AcquireFirstGeneration(p)
  \/ StartRun(p) \/ LookUp(p) \/ ReadPriorLaunch(p)
  \/ RemoveCheckout(p) \/ ClearCheckout(p) \/ CloneCheckout(p)
  \/ CheckOutRevision(p) \/ VerifyPreparedCheckout(p) \/ Preflight(p)
  \/ RecheckContract(p) \/ RecheckCheckout(p)
  \/ Register(p) \/ Bind(p) \/ ReadGeneration(p) \/ ReadAdmission(p)
  \/ Admit(p) \/ Claim(p) \/ MarkUnknown(p)
  \/ LaunchWrapper(p) \/ ObserveExit(p) \/ TimeOut(p) \/ Record(p)
  \/ Publish(p)
  \/ GiveUp(p)

-----------------------------------------------------------------------------
(* What the clients do not control. *)

\* The contract repository is edited, committed to or checked out elsewhere.
ContractChanges ==
  /\ contract' \in (Contract \cup {None}) \ {contract}
  /\ UNCHANGED <<ready, db, host, tree, wrapper, statuses, clientVars>>

\* The interpreter, git or the system root of the host changes.
HostChanges ==
  /\ host' \in Hash \ {host}
  /\ UNCHANGED <<ready, db, contract, tree, wrapper, statuses, clientVars>>

\* Another controller takes the scope over through acquire_generation.
TakeOver ==
  /\ ready
  /\ CanAcquire(db, scope)
  /\ db' = Acquired(db, scope)
  /\ UNCHANGED <<ready, contract, host, tree, wrapper, statuses, clientVars>>

Next ==
  \/ \E p \in Client : Run(p)
  \/ \E k \in Key : WrapperStep(k)
  \/ ContractChanges
  \/ HostChanges
  \/ TakeOver

Spec == Init /\ [][Next]_vars

-----------------------------------------------------------------------------
(***************************************************************************)
(* Correctness.                                                            *)
(***************************************************************************)

\* However often a revision is run, by however many clients, one wrapper at
\* most is launched with authority for a revision and contract.
OneAuthorizedRun == \A k \in Key : wrapper[k].started <= 1

\* The stages of a wrapper run only on the exact tree it verified: until they
\* have ended nobody removes or rebuilds the checkout under them.
StagesRunOnExactTree == \A k \in Key : wrapper[k].saw \subseteq {"exact"}

Passed(k) ==
  /\ db.launches[k] # None
  /\ db.launches[k].exit_code = 0
  /\ wrapper[k].started = 1
  /\ wrapper[k].saw = {"exact"}

\* A commit is shown as validated only if for some contract the one authorized
\* wrapper passed both stages on the exact tree and the store says so.
GreenMeansValidated ==
  \A r \in Revision : statuses[r] = "success" =>
    \E c \in Contract : Passed(<<r, c>>)

\* A red status is backed by a recorded terminal result of that revision that
\* is not success: a lost, killed or refused run never turns a commit red.
RedMeansRecorded ==
  \A r \in Revision : statuses[r] = "failure" =>
    \E c \in Contract :
      LET l == db.launches[<<r, c>>] IN
      l # None /\ l.state = "terminal" /\ l.exit_code # 0

\* A store whose initialization died before its first generation grants
\* nothing: no execution is admitted and no wrapper launched.
NoGenerationNoAuthority ==
  db.generations[scope] = 0 =>
    \A k \in Key : db.admissions[k] = None /\ wrapper[k].started = 0

\* The fate of a key under the client, from its launch row and the wrappers
\* that were launched for it.
fate == [k \in Key |->
  LET l == db.launches[k] IN
  [stage |-> IF l = None THEN "open"
             ELSE IF l.state = "terminal" THEN "recorded"
             ELSE IF wrapper[k].started > 0 THEN "launched"
             ELSE "consumed",
   codes |-> IF l # None /\ l.state = "terminal" THEN {l.exit_code} ELSE {}]]

\* However clients overlap, die, time out or lose the answers of the store, the
\* life of every key is the one that execute_local_command promises.
Authority == INSTANCE LaunchAuthority
ImplementsLaunchAuthority == Authority!FateSpec
=============================================================================
