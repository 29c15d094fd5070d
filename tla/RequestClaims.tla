--------------------------- MODULE RequestClaims ---------------------------
(***************************************************************************)
(* Build requests of a cluster of masters: how a master chooses, claims,   *)
(* builds, returns, completes and cancels them                             *)
(* (process/buildrequestdistributor.py, process/builder.py,                *)
(* process/build.py, process/botmaster.py, data and db/buildrequests.py,   *)
(* data/buildsets.py), and how a master that died is cleaned up after      *)
(* (master.py, data/masters.py, db/masters.py).                            *)
(*                                                                         *)
(* The database is shared: a transaction is one step.  What a master does  *)
(* between two transactions is interleaved with everything else, in that   *)
(* master too.  Each master has one builder with one worker.               *)
(***************************************************************************)
EXTENDS Naturals, FiniteSets

CONSTANTS
  Master, Request, Buildset, None,
  SetOf,       \* each request: its buildset
  MayCancel,   \* the requests a user may cancel
  MayExpire,   \* the masters that may be silent for EXPIRE_MINUTES
  MayReturn,   \* those of them that may start again after that
  Starts,      \* the situations considered first: who is up, and what is open
  MaxCrashes, MaxRetries

ASSUME ClaimsAssumption ==
  /\ SetOf \in [Request -> Buildset]
  /\ MayCancel \subseteq Request
  /\ MayReturn \subseteq MayExpire /\ MayExpire \subseteq Master
  /\ Starts \subseteq [up : (SUBSET Master) \ {{}}, open : SUBSET Request]
  /\ MaxCrashes \in Nat /\ MaxRetries \in Nat
  /\ None \notin Master \cup Request
  /\ None \notin {"plain", "cancelled"}

Result == {"success", "failure", "cancelled"}

\* worst_status of a set of results.
WorstStatus(s) == IF "cancelled" \in s THEN "cancelled"
                  ELSE IF "failure" \in s THEN "failure" ELSE "success"

VARIABLES
  \* the database
  claim,      \* buildrequest_claims: each request, the master that claimed it
  result,     \* each request: None until it is complete
  buildset,   \* each buildset: None until it is complete
  active,     \* the masters whose row is active
  fresh,      \* the masters whose last_active is less than EXPIRE_MINUTES old
  \* the memory of each master
  stage,      \* down, booting, expiring or up
  todo,       \* the masters its expireMasters is still to look at
  cleaning,   \* the housekeeping it does: for whom, and the requests it read
  wake,       \* whether its builder waits for the distributor
  chooser,    \* the distributor: its stage, its cache of unclaimed requests,
              \* the request it starts
  starting,   \* _starting_brid_to_cancel, each request: None, plain, cancelled
  job,        \* the build it has of each request
  cancel,     \* how far it handled a cancellation of each request
  telling,    \* the events of each request it returned that are yet to be sent
  \* the bounds
  asked, crashes, retries

db == <<claim, result, buildset>>
masters == <<active, fresh, stage, todo, cleaning>>
work == <<chooser, starting, job, cancel, telling>>
bounds == <<asked, crashes, retries>>
vars == <<db, masters, work, wake, bounds>>

\* created: startBuild was called; subscribed: to stop messages; running;
\* finished: stop messages are ignored, and the worker is free; completed: its
\* buildset is yet to be checked; wedged: cancelled while it started.
JobStage == {"none", "created", "subscribed", "running", "finished", "completed",
             "wedged"}
Job == [stage : JobStage, stopped : BOOLEAN, outcome : Result \cup {"retry", None}]
NoJob == [stage |-> "none", stopped |-> FALSE, outcome |-> None]

Cleaning == [of : Master, read : BOOLEAN, requests : SUBSET Request]
Chooser == [stage : {"idle", "fetching", "choosing", "claiming", "starting"},
            cache : SUBSET Request, request : Request \cup {None}]
IdleChooser == [stage |-> "idle", cache |-> {}, request |-> None]

\* Every variable keeps its type; no request is completed with RETRY.
TypeOK ==
  /\ claim \in [Request -> Master \cup {None}]
  /\ result \in [Request -> Result \cup {None}]
  /\ buildset \in [Buildset -> Result \cup {None}]
  /\ active \subseteq Master /\ fresh \subseteq Master
  /\ stage \in [Master -> {"down", "booting", "expiring", "up"}]
  /\ todo \in [Master -> SUBSET Master]
  /\ cleaning \in [Master -> Cleaning \cup {None}]
  /\ wake \in [Master -> BOOLEAN]
  /\ chooser \in [Master -> Chooser]
  /\ starting \in [Master -> [Request -> {None, "plain", "cancelled"}]]
  /\ job \in [Master -> [Request -> Job]]
  /\ cancel \in [Master -> [Request -> {"none", "asked", "refused", "marked",
                                        "passed", "claimed", "completed", "done"}]]
  /\ telling \in [Master -> [Request -> Nat]]
  /\ asked \subseteq Request
  /\ crashes \in 0..MaxCrashes /\ retries \in 0..MaxRetries

NoneYet == [r \in Request |-> None]

\* Some masters are up and just told of the open requests; the others are gone
\* for good, and one that is up has completed the other requests.
Init ==
  /\ \E s \in Starts :
       /\ claim = [r \in Request |-> IF r \in s.open THEN None
                                   ELSE CHOOSE m \in s.up : TRUE]
       /\ result = [r \in Request |-> IF r \in s.open THEN None ELSE "failure"]
       /\ active = s.up /\ fresh = s.up
       /\ stage = [n \in Master |-> IF n \in s.up THEN "up" ELSE "down"]
       /\ wake = [n \in Master |-> n \in s.up]
  /\ buildset = [b \in Buildset |-> None]
  /\ todo = [m \in Master |-> {}]
  /\ cleaning = [m \in Master |-> None]
  /\ chooser = [m \in Master |-> IdleChooser]
  /\ starting = [m \in Master |-> NoneYet]
  /\ job = [m \in Master |-> [r \in Request |-> NoJob]]
  /\ cancel = [m \in Master |-> [r \in Request |-> "none"]]
  /\ telling = [m \in Master |-> [r \in Request |-> 0]]
  /\ asked = {} /\ crashes = 0 /\ retries = 0

Listening(m) == stage[m] \in {"expiring", "up"}
Incomplete(r) == result[r] = None
Unclaimed == {r \in Request : claim[r] = None /\ Incomplete(r)}

\* An event that tells every master to look for requests.
WakeAll == wake' = [m \in Master |-> wake[m] \/ Listening(m)]

-----------------------------------------------------------------------------
(* The distributor *)

Busy(m) == \E r \in Request :
  job[m][r].stage \in {"created", "subscribed", "running", "wedged"}

\* The activity loop takes the builder up.
TakeUp(m) ==
  /\ stage[m] = "up" /\ wake[m] /\ chooser[m].stage = "idle"
  /\ wake' = [wake EXCEPT ![m] = FALSE]
  /\ chooser' = [chooser EXCEPT ![m].stage = "fetching"]
  /\ UNCHANGED <<db, masters, starting, job, cancel, telling, bounds>>

\* A new chooser reads the unclaimed requests, once.
Fetch(m) ==
  /\ chooser[m].stage = "fetching"
  /\ chooser' = [chooser EXCEPT
       ![m] = [stage |-> "choosing", cache |-> Unclaimed, request |-> None]]
  /\ UNCHANGED <<db, masters, starting, job, cancel, telling, wake, bounds>>

\* The next request of the cache is started, if there is one and a worker.
Choose(m) ==
  /\ chooser[m].stage = "choosing"
  /\ IF chooser[m].cache = {} \/ Busy(m)
     THEN /\ chooser' = [chooser EXCEPT ![m] = IdleChooser]
          /\ UNCHANGED starting
     ELSE \E r \in chooser[m].cache :
            /\ chooser' = [chooser EXCEPT
                 ![m] = [stage |-> "claiming", cache |-> @.cache \ {r}, request |-> r]]
            /\ starting' = [starting EXCEPT ![m][r] = "plain"]
  /\ UNCHANGED <<db, masters, job, cancel, telling, wake, bounds>>

\* A variant: the claim replaces another master's.
ClaimOver(m) ==
  /\ chooser[m].stage = "claiming"
  /\ claim' = [claim EXCEPT ![chooser[m].request] = m]
  /\ chooser' = [chooser EXCEPT ![m].stage = "starting"]
  /\ UNCHANGED <<result, buildset, masters, starting, job, cancel, telling, wake, bounds>>

\* claimBuildRequests: a row of another claim makes it fail, and the chooser
\* starts over.
ClaimBuildRequest(m) ==
  /\ chooser[m].stage = "claiming"
  /\ LET r == chooser[m].request IN
     \/ /\ claim[r] = None
        /\ claim' = [claim EXCEPT ![r] = m]
        /\ chooser' = [chooser EXCEPT ![m].stage = "starting"]
     \/ /\ claim[r] # None
        /\ chooser' = [chooser EXCEPT ![m].stage = "fetching"]
        /\ UNCHANGED claim
  /\ UNCHANGED <<result, buildset, masters, starting, job, cancel, telling, wake, bounds>>

\* maybeStartBuild: the worker is taken, and the build goes its own way.
StartBuild(m) ==
  /\ chooser[m].stage = "starting"
  /\ job' = [job EXCEPT ![m][chooser[m].request] = [NoJob EXCEPT !.stage = "created"]]
  /\ chooser' = [chooser EXCEPT ![m].stage = "choosing"]
  /\ UNCHANGED <<db, masters, starting, cancel, telling, wake, bounds>>

-----------------------------------------------------------------------------
(* A build *)

SetStage(m, r, s) == job' = [job EXCEPT ![m][r].stage = s]

\* A variant: the cancellation is looked for before the subscription.
ForgetEarly(m, r) ==
  /\ job[m][r].stage = "created"
  /\ starting' = [starting EXCEPT ![m][r] = None]
  /\ SetStage(m, r, CASE starting[m][r] = "cancelled" -> "wedged"
                     [] starting[m][r] = "plain" -> "created" [] OTHER -> "running")
  /\ UNCHANGED <<db, masters, chooser, cancel, telling, wake, bounds>>

\* addBuild, and the subscription to stop messages; one sent before it is lost.
SubscribeToStop(m, r) ==
  /\ job[m][r].stage = "created"
  /\ SetStage(m, r, "subscribed")
  /\ UNCHANGED <<db, masters, chooser, starting, cancel, telling, wake, bounds>>

\* remove_in_progress_buildrequest: startBuild returns when the request was
\* cancelled meanwhile, and nothing finishes the build.
CheckCancelled(m, r) ==
  /\ job[m][r].stage = "subscribed"
  /\ starting' = [starting EXCEPT ![m][r] = None]
  /\ job' = [job EXCEPT
       ![m][r].stage = IF starting[m][r] = "cancelled" THEN "wedged" ELSE "running",
       ![m][r].stopped = @ \/ starting[m][r] = "cancelled"]
  /\ UNCHANGED <<db, masters, chooser, cancel, telling, wake, bounds>>

\* buildFinished: from now on stopBuild does nothing, the worker is free again
\* and its builders are looked at. A lost worker makes any result a RETRY.
FinishBuild(m, r) ==
  /\ job[m][r].stage = "running"
  /\ \/ /\ \E o \in IF job[m][r].stopped THEN {"cancelled"} ELSE {"success", "failure"} :
             job' = [job EXCEPT ![m][r].stage = "finished", ![m][r].outcome = o]
        /\ UNCHANGED retries
     \/ /\ retries < MaxRetries
        /\ retries' = retries + 1
        /\ job' = [job EXCEPT ![m][r].stage = "finished", ![m][r].outcome = "retry"]
  /\ wake' = [wake EXCEPT ![m] = TRUE]
  /\ UNCHANGED <<db, masters, chooser, starting, cancel, telling, asked, crashes>>

\* _resubmit_buildreqs: the claim is deleted if it is this master's.
Resubmit(m, r) ==
  /\ job[m][r].stage = "finished" /\ job[m][r].outcome = "retry"
  /\ claim' = [claim EXCEPT ![r] = IF @ = m THEN None ELSE @]
  /\ job' = [job EXCEPT ![m][r] = NoJob]
  /\ cancel' = [cancel EXCEPT ![m][r] =
       CASE @ = "done" -> "none" [] @ = "marked" -> "passed" [] OTHER -> @]
  /\ telling' = [telling EXCEPT ![m][r] = @ + 1]
  /\ UNCHANGED <<result, buildset, masters, chooser, starting, wake, bounds>>

\* A variant: only this master looks for requests.
TellItself(m, r) ==
  /\ stage[m] # "down" /\ telling[m][r] > 0
  /\ telling' = [telling EXCEPT ![m][r] = @ - 1]
  /\ wake' = [wake EXCEPT ![m] = TRUE]
  /\ UNCHANGED <<db, masters, chooser, starting, job, cancel, bounds>>

\* The "unclaimed" event, which is sent once the transaction is over.
TellUnclaimed(m, r) ==
  /\ stage[m] # "down" /\ telling[m][r] > 0
  /\ telling' = [telling EXCEPT ![m][r] = @ - 1]
  /\ WakeAll
  /\ UNCHANGED <<db, masters, chooser, starting, job, cancel, bounds>>

\* A variant: RETRY is recorded like any other result.
CompleteAnyBuildRequest(m, r) ==
  /\ job[m][r].stage = "finished"
  /\ result' = [result EXCEPT ![r] = job[m][r].outcome]
  /\ SetStage(m, r, "completed")
  /\ UNCHANGED <<claim, buildset, masters, chooser, starting, cancel, telling, wake, bounds>>

\* completeBuildRequests does not ask whose claim it is, only whether the
\* request was complete.
CompleteBuildRequest(m, r) ==
  /\ job[m][r].stage = "finished" /\ job[m][r].outcome # "retry"
  /\ \/ /\ Incomplete(r)
        /\ result' = [result EXCEPT ![r] = job[m][r].outcome]
        /\ SetStage(m, r, "completed")
     \/ /\ ~Incomplete(r)
        /\ SetStage(m, r, "none")
        /\ UNCHANGED result
  /\ UNCHANGED <<claim, buildset, masters, chooser, starting, cancel, telling, wake, bounds>>

RequestsOf(b) == {r \in Request : SetOf[r] = b}

\* A variant: the buildset gets the result of the request that was completed.
CompleteBuildsetWithOne(r) ==
  LET b == SetOf[r] IN
  buildset' = IF result[r] # None /\ buildset[b] = None
              THEN [buildset EXCEPT ![b] = result[r]] ELSE buildset

\* maybeBuildsetComplete after the completion of r. Completed requests stay
\* complete, so that its reads and its update, which does nothing to a complete
\* buildset, are one step.
MaybeBuildsetComplete(r) ==
  LET b == SetOf[r] IN
  buildset' = IF (\A q \in RequestsOf(b) : ~Incomplete(q)) /\ buildset[b] = None
              THEN [buildset EXCEPT ![b] = WorstStatus({result[q] : q \in RequestsOf(b)})]
              ELSE buildset

AfterCompletion(m, r) ==
  /\ \/ /\ job[m][r].stage = "completed"
        /\ job' = [job EXCEPT ![m][r] = NoJob]
        /\ UNCHANGED cancel
     \/ /\ cancel[m][r] = "completed"
        /\ cancel' = [cancel EXCEPT ![m][r] = "none"]
        /\ UNCHANGED job
  /\ MaybeBuildsetComplete(r)
  /\ UNCHANGED <<claim, result, masters, chooser, starting, telling, wake, bounds>>

-----------------------------------------------------------------------------
(* A user cancels a request: every master gets the message. *)

Cancel(r) ==
  /\ r \in MayCancel \ asked
  /\ asked' = asked \cup {r}
  /\ cancel' = [m \in Master |->
       IF Listening(m) THEN [cancel[m] EXCEPT ![r] = "asked"] ELSE cancel[m]]
  /\ UNCHANGED <<db, masters, chooser, starting, job, telling, wake, crashes, retries>>

SetCancel(m, r, s) == cancel' = [cancel EXCEPT ![m][r] = s]

\* A request nobody has claimed is claimed, to be completed.
CancelClaims(m, r) ==
  /\ cancel[m][r] = "asked"
  /\ \/ /\ claim[r] = None
        /\ claim' = [claim EXCEPT ![r] = m]
        /\ SetCancel(m, r, "claimed")
     \/ /\ claim[r] # None
        /\ SetCancel(m, r, "refused")
        /\ UNCHANGED claim
  /\ UNCHANGED <<result, buildset, masters, chooser, starting, job, telling, wake, bounds>>

CancelCompletes(m, r) ==
  /\ cancel[m][r] = "claimed"
  /\ \/ /\ Incomplete(r)
        /\ result' = [result EXCEPT ![r] = "cancelled"]
        /\ SetCancel(m, r, "completed")
     \/ /\ ~Incomplete(r)
        /\ SetCancel(m, r, "none")
        /\ UNCHANGED result
  /\ UNCHANGED <<claim, buildset, masters, chooser, starting, job, telling, wake, bounds>>

\* maybe_cancel_in_progress_buildrequest. It is this master that has to stop
\* the request if it holds the claim and starts or runs it.
CancelMarks(m, r) ==
  /\ cancel[m][r] = "refused"
  /\ starting' = [starting EXCEPT ![m][r] = IF @ = None THEN None ELSE "cancelled"]
  /\ SetCancel(m, r, IF claim[r] = m /\ (starting[m][r] # None \/ job[m][r].stage # "none")
                     THEN "marked" ELSE "passed")
  /\ UNCHANGED <<db, masters, chooser, job, telling, wake, bounds>>

\* The builds of the request are stopped, whichever master runs them.
CancelStops(m, r) ==
  /\ cancel[m][r] \in {"marked", "passed"}
  /\ job' = [n \in Master |-> [job[n] EXCEPT
       ![r].stopped = @ \/ job[n][r].stage \in {"subscribed", "running"}]]
  /\ SetCancel(m, r, IF cancel[m][r] = "marked" THEN "done" ELSE "none")
  /\ UNCHANGED <<db, masters, chooser, starting, telling, wake, bounds>>

-----------------------------------------------------------------------------
(* A master crashes, is silent for too long, and starts again *)

\* Only the database is left of it, and events that it never sends. It may crash
\* while it comes up, too.
Crash(m) ==
  /\ stage[m] # "down" /\ crashes < MaxCrashes
  /\ crashes' = crashes + 1
  /\ stage' = [stage EXCEPT ![m] = "down"]
  /\ todo' = [todo EXCEPT ![m] = {}]
  /\ cleaning' = [cleaning EXCEPT ![m] = None]
  /\ wake' = [wake EXCEPT ![m] = FALSE]
  /\ chooser' = [chooser EXCEPT ![m] = IdleChooser]
  /\ starting' = [starting EXCEPT ![m] = NoneYet]
  /\ job' = [job EXCEPT ![m] = [r \in Request |-> NoJob]]
  /\ cancel' = [cancel EXCEPT ![m] = [r \in Request |-> "none"]]
  /\ UNCHANGED <<db, telling, active, fresh, asked, retries>>

Expire(m) ==
  /\ stage[m] = "down" /\ m \in MayExpire
  /\ fresh' = fresh \ {m}
  /\ UNCHANGED <<db, active, stage, todo, cleaning, work, wake, bounds>>

\* setMasterState(active=False), and the housekeeping that follows if that
\* changed the row, or if it is forced.
Deactivate(m, n, forced) ==
  /\ active' = active \ {n}
  /\ cleaning' = IF n \in active \/ forced
                 THEN [cleaning EXCEPT ![m] = [of |-> n, read |-> FALSE, requests |-> {}]]
                 ELSE cleaning

\* masterStopped: this master may have crashed before.
Boot(m) ==
  /\ stage[m] = "down" /\ (m \in fresh \/ m \in MayReturn)
  /\ stage' = [stage EXCEPT ![m] = "booting"]
  /\ Deactivate(m, m, FALSE)
  /\ telling' = [telling EXCEPT ![m] = [r \in Request |-> 0]]
  /\ UNCHANGED <<db, fresh, todo, chooser, starting, job, cancel, wake, bounds>>

\* expireMasters(forceHouseKeeping=True)
ExpireAll(m) ==
  /\ stage[m] = "booting" /\ cleaning[m] = None
  /\ stage' = [stage EXCEPT ![m] = "expiring"]
  /\ todo' = [todo EXCEPT ![m] = Master \ fresh]
  /\ UNCHANGED <<db, active, fresh, cleaning, work, wake, bounds>>

\* The configuration is applied, the builders are looked at, and masterActive.
Up(m) ==
  /\ stage[m] = "expiring" /\ cleaning[m] = None /\ todo[m] = {}
  /\ stage' = [stage EXCEPT ![m] = "up"]
  /\ active' = active \cup {m} /\ fresh' = fresh \cup {m}
  /\ wake' = [wake EXCEPT ![m] = TRUE]
  /\ UNCHANGED <<db, todo, cleaning, work, bounds>>

\* Each minute: masterActive, and expireMasters. The timer waits for them. One
\* that would change no row is left out.
Heartbeat(m) ==
  /\ stage[m] = "up" /\ todo[m] = {} /\ cleaning[m] = None
  /\ m \notin active \/ ~(active \subseteq fresh)
  /\ active' = active \cup {m} /\ fresh' = fresh \cup {m}
  /\ todo' = [todo EXCEPT ![m] = Master \ fresh']
  /\ UNCHANGED <<db, stage, cleaning, work, wake, bounds>>

ExpireNext(m, n) ==
  /\ n \in todo[m] /\ cleaning[m] = None
  /\ todo' = [todo EXCEPT ![m] = @ \ {n}]
  /\ Deactivate(m, n, stage[m] = "expiring")
  /\ UNCHANGED <<db, fresh, stage, work, wake, bounds>>

\* The end of _masterDeactivatedHousekeeping: the incomplete requests claimed
\* by that master are read ...
HousekeepingReads(m) ==
  /\ cleaning[m] # None /\ ~cleaning[m].read
  /\ cleaning' = [cleaning EXCEPT
       ![m].read = TRUE,
       ![m].requests = {r \in Request : Incomplete(r) /\ claim[r] = cleaning[m].of}]
  /\ UNCHANGED <<db, active, fresh, stage, todo, work, wake, bounds>>

\* ... and unclaimBuildRequests deletes, of their claims, those of the master
\* that runs it. No event tells of it.
HousekeepingUnclaims(m) ==
  /\ cleaning[m] # None /\ cleaning[m].read
  /\ claim' = [r \in Request |->
       IF r \in cleaning[m].requests /\ claim[r] = m THEN None ELSE claim[r]]
  /\ cleaning' = [cleaning EXCEPT ![m] = None]
  /\ UNCHANGED <<result, buildset, active, fresh, stage, todo, work, wake, bounds>>

-----------------------------------------------------------------------------
OfMaster(m) ==
  TakeUp(m) \/ Fetch(m) \/ Choose(m) \/ ClaimBuildRequest(m) \/ StartBuild(m)
OfRequest(m, r) ==
  \/ SubscribeToStop(m, r) \/ CheckCancelled(m, r) \/ FinishBuild(m, r)
  \/ Resubmit(m, r) \/ TellUnclaimed(m, r) \/ CompleteBuildRequest(m, r) \/ AfterCompletion(m, r)
Cancelling(m, r) ==
  CancelClaims(m, r) \/ CancelCompletes(m, r) \/ CancelMarks(m, r) \/ CancelStops(m, r)
Housekeeping(m) ==
  \/ ExpireAll(m) \/ (\E n \in Master : ExpireNext(m, n))
  \/ HousekeepingReads(m) \/ HousekeepingUnclaims(m) \/ Up(m)

Next ==
  \/ \E m \in Master : OfMaster(m) \/ Housekeeping(m) \/ Heartbeat(m)
                       \/ Crash(m) \/ Expire(m) \/ Boot(m)
  \/ \E m \in Master, r \in Request : OfRequest(m, r) \/ Cancelling(m, r)
  \/ \E r \in Request : Cancel(r)

Spec == Init /\ [][Next]_vars

\* What a master does by itself.
GoesOn(m) ==
  OfMaster(m) \/ Housekeeping(m) \/ \E r \in Request : OfRequest(m, r) \/ Cancelling(m, r)

\* A master that is up goes on, its builds end, and a master that may start does
\* (one fairness for all that a master does is enough: between crashes it has
\* finitely many steps). Nobody has to cancel anything, no master has to crash.
FairSpec ==
  Spec /\ \A m \in Master : WF_vars(GoesOn(m)) /\ WF_vars(Boot(m))

-----------------------------------------------------------------------------
(* Properties *)

Building(m, r) == job[m][r].stage \notin {"none", "completed"}

\* While a build of a request is under way, it is the only one in the cluster,
\* its master has the claim, and the request is incomplete: whatever crashed,
\* was cleaned up, was cancelled or was returned in between, as long as no master
\* starts again after it was expired
\* (claimBuildRequests' unique claim, and every way of losing it).
OneBuildAtATime ==
  \A m \in Master, r \in Request :
    Building(m, r) => /\ claim[r] = m /\ Incomplete(r)
                      /\ \A n \in Master \ {m} : ~Building(n, r)

\* Once a master has handled a cancellation, the build it runs of the request
\* is stopped, whichever of its starting steps the message met: the reason for
\* build.py's "Must be done after subscription".
CancelReaches ==
  \A m \in Master, r \in Request :
    cancel[m][r] = "done" /\ job[m][r].stage = "running" => job[m][r].stopped

\* A complete buildset has all its requests complete, and the worst of their
\* results, whatever completed last and on which master.
BuildsetIsFaithful ==
  \A b \in Buildset :
    buildset[b] # None =>
      /\ \A r \in RequestsOf(b) : ~Incomplete(r)
      /\ buildset[b] = WorstStatus({result[r] : r \in RequestsOf(b)})

Wedged == \E m \in Master, r \in Request : job[m][r].stage = "wedged"

\* A master crashed before it was up again, over its claim or a request that is free:
\* what masterStopped did to its row, and masterActive did not.
CrashedComingUp(m, r) ==
  /\ stage[m] = "down" /\ m \in fresh \ active
  /\ Incomplete(r) /\ claim[r] \in {m, None}

\* Every request is completed in the end, unless a master that does not come
\* back holds its claim, or crashed when it was about to tell that the request is
\* free, or had started again, freed the request and crashed before it looked for
\* it; a master crashed again while it came up; or a cancelled start has wedged a
\* worker. So a request that was retried, or that a crashed master lost, is looked
\* for again by a master that can take it.
EveryRequestEnds ==
  \A r \in Request :
    \/ <>[](\/ ~Incomplete(r)
            \/ Wedged
            \/ \E m \in Master : stage[m] = "down" /\ (claim[r] = m \/ telling[m][r] > 0)
            \/ claim[r] = None /\ crashes > 1 /\ \E m \in Master : stage[m] = "down")
    \/ <>(\E m \in Master : CrashedComingUp(m, r))

\* After the housekeeping for a master that is down, no incomplete request is
\* claimed by it: data/masters.py, "unclaim all of the build requests owned by
\* the deactivated instance".
HousekeepingReleases ==
  [][\A m, n \in Master :
       /\ cleaning[m] # None /\ cleaning[m].of = n /\ cleaning'[m] = None
       /\ stage[n] = "down" /\ stage'[m] # "down"
       => \A r \in Request : Incomplete(r)' => claim'[r] # n]_vars
=============================================================================
