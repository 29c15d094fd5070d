------------------------ MODULE RequestClaimsProofs ------------------------
(***************************************************************************)
(* Theorems about RequestClaims, for any number of masters, requests and   *)
(* buildsets.                                                              *)
(*                                                                         *)
(* That the buildsets are right needs no assumption.  That a request is    *)
(* built once at a time needs that masters stay apart: none runs while     *)
(* another cleans up after it.  A cluster in which nobody starts again     *)
(* after it was expired is such a one.                                     *)
(***************************************************************************)
EXTENDS RequestClaims, TLAPS

NobodyReturns == MayReturn = {}

\* Who is cleaned up after is down, or cleans up after itself and is not about
\* to complete a request that it claimed for a cancellation.
MastersStayApart == \A m \in Master : cleaning[m] # None =>
  IF cleaning[m].of = m THEN \A r \in Request : cancel[m][r] # "claimed"
  ELSE stage[cleaning[m].of] = "down"

\* The request that a master is to start, and those it cancels itself.
Starting(m, r) == chooser[m].stage = "starting" /\ chooser[m].request = r
Cancels(m, r) == cancel[m][r] = "claimed"

\* A master that works on a request has its claim, and does one thing with it.
OneThing(m, r) ==
  /\ Building(m, r) \/ Starting(m, r) \/ Cancels(m, r) => claim[r] = m
  /\ Building(m, r) \/ Starting(m, r) => Incomplete(r)
  /\ ~(Building(m, r) /\ Starting(m, r))
  /\ Cancels(m, r) => ~Building(m, r) /\ ~Starting(m, r)
WorkIsClaimed == \A m \in Master, r \in Request : OneThing(m, r)

\* A request is never completed without a claim, and keeps it then.
UnclaimedIsIncomplete == \A r \in Request : claim[r] = None => Incomplete(r)

\* A chooser that claims or starts does so for a request.
ChooserHasRequest ==
  \A m \in Master : chooser[m].stage \in {"claiming", "starting"} => chooser[m].request \in Request

\* A master builds nothing before it is up, and cancels nothing before it listens.
BuildsNothing(m) ==
  chooser[m].stage = "idle" /\ \A r \in Request : job[m][r].stage = "none"
AtRest(m) == BuildsNothing(m) /\ \A r \in Request : cancel[m][r] = "none"

RestWhileBooting == \A m \in Master :
  /\ stage[m] \in {"down", "booting"} => AtRest(m)
  /\ stage[m] = "expiring" => BuildsNothing(m)

\* A master expires others, and itself only before it is up.
TodoIsKnown == \A m \in Master :
  /\ stage[m] \in {"down", "booting"} => todo[m] = {}
  /\ m \in todo[m] => stage[m] = "expiring"

\* So it is with those it cleans up after, and what it has read is still theirs.
CleaningIsSafe ==
  \A m \in Master : cleaning[m] # None =>
    /\ stage[m] # "down"
    /\ cleaning[m].of = m => stage[m] \in {"booting", "expiring"}
    /\ \A r \in cleaning[m].requests :
         /\ claim[r] = cleaning[m].of
         /\ cleaning[m].of = m => Incomplete(r)

Claimed ==
  /\ WorkIsClaimed /\ UnclaimedIsIncomplete /\ ChooserHasRequest
  /\ RestWhileBooting /\ TodoIsKnown /\ CleaningIsSafe

-----------------------------------------------------------------------------
(* Types *)

CancelStage == {"none", "asked", "refused", "marked", "passed", "claimed", "completed", "done"}

\* A job, a chooser, a housekeeping, and their parts.
LEMMA Records ==
  /\ NoJob \in Job /\ IdleChooser \in Chooser
  /\ \A j \in Job, t \in JobStage : [j EXCEPT !.stage = t] \in Job
  /\ \A j \in Job, b \in BOOLEAN : [j EXCEPT !.stopped = b] \in Job
  /\ \A j \in Job, o \in Result \cup {"retry", None} : [j EXCEPT !.outcome = o] \in Job
  /\ \A j \in Job : /\ j.stage \in JobStage /\ j.stopped \in BOOLEAN
                    /\ j.outcome \in Result \cup {"retry", None}
BY DEF NoJob, Job, JobStage, IdleChooser, Chooser

\* One master's entry for one request is replaced.
LEMMA Replaced ==
  ASSUME NEW S, NEW f \in [Master -> [Request -> S]], NEW m \in Master, NEW r \in Request,
         NEW v \in S
  PROVE  [f EXCEPT ![m][r] = v] \in [Master -> [Request -> S]]
OBVIOUS

\* Whoever is up and whatever is open at first, the variables have their types.
LEMMA TypedAtFirst == Init => TypeOK
<1> SUFFICES ASSUME Init PROVE TypeOK
  OBVIOUS
<1> USE ClaimsAssumption
<1>1. PICK s \in Starts :
        /\ claim = [r \in Request |-> IF r \in s.open THEN None
                                    ELSE CHOOSE m \in s.up : TRUE]
        /\ result = [r \in Request |-> IF r \in s.open THEN None ELSE "failure"]
        /\ active = s.up /\ fresh = s.up
        /\ stage = [n \in Master |-> IF n \in s.up THEN "up" ELSE "down"]
        /\ wake = [n \in Master |-> n \in s.up]
  BY DEF Init
<1>2. s.up \subseteq Master /\ s.up # {}
  OBVIOUS
<1>3. (CHOOSE m \in s.up : TRUE) \in Master
  BY <1>2
<1>4. /\ claim \in [Request -> Master \cup {None}]
      /\ result \in [Request -> Result \cup {None}]
      /\ active \subseteq Master /\ fresh \subseteq Master
      /\ stage \in [Master -> {"down", "booting", "expiring", "up"}]
      /\ wake \in [Master -> BOOLEAN]
  BY <1>1, <1>2, <1>3 DEF Result
<1>5. /\ chooser \in [Master -> Chooser]
      /\ job \in [Master -> [Request -> Job]]
  BY Records DEF Init
<1>6. starting \in [Master -> [Request -> {None, "plain", "cancelled"}]]
  BY DEF Init, NoneYet
<1> QED
  BY <1>4, <1>5, <1>6 DEF Init, TypeOK

\* The steps of a distributor (process/buildrequestdistributor.py) keep the types.
LEMMA TypedOfMaster ==
  ASSUME TypeOK, NEW m \in Master, OfMaster(m)
  PROVE  TypeOK'
<1> USE ClaimsAssumption
<1>1. CASE TakeUp(m)
  <2>1. chooser[m] \in Chooser
    BY DEF TypeOK
  <2>2. [chooser[m] EXCEPT !.stage = "fetching"] \in Chooser
    BY <2>1 DEF Chooser
  <2>3. chooser' \in [Master -> Chooser] /\ wake' \in [Master -> BOOLEAN]
    BY <1>1, <2>2 DEF TakeUp, TypeOK
  <2> QED
    BY <1>1, <2>3 DEF TakeUp, TypeOK, db, masters, bounds
<1>2. CASE Fetch(m)
  <2>1. [stage |-> "choosing", cache |-> Unclaimed, request |-> None] \in Chooser
    BY DEF Chooser, Unclaimed
  <2>2. chooser' \in [Master -> Chooser]
    BY <1>2, <2>1 DEF Fetch, TypeOK
  <2> QED
    BY <1>2, <2>2 DEF Fetch, TypeOK, db, masters, bounds
<1>3. CASE Choose(m)
  <2>1. CASE chooser[m].cache = {} \/ Busy(m)
    <3>1. chooser' = [chooser EXCEPT ![m] = IdleChooser] /\ starting' = starting
      BY <1>3, <2>1 DEF Choose
    <3>2. chooser' \in [Master -> Chooser]
      BY <3>1, Records DEF TypeOK
    <3> QED
      BY <1>3, <3>1, <3>2 DEF Choose, TypeOK, db, masters, bounds
  <2>2. ASSUME NEW r \in chooser[m].cache,
               chooser' = [chooser EXCEPT
                 ![m] = [stage |-> "claiming", cache |-> @.cache \ {r}, request |-> r]],
               starting' = [starting EXCEPT ![m][r] = "plain"]
        PROVE  TypeOK'
    <3>1. chooser[m] \in Chooser /\ r \in Request
      BY DEF TypeOK, Chooser
    <3>2. [stage |-> "claiming", cache |-> chooser[m].cache \ {r}, request |-> r] \in Chooser
      BY <3>1 DEF Chooser
    <3>3. chooser' \in [Master -> Chooser]
      BY <2>2, <3>2 DEF TypeOK
    <3>4. starting' \in [Master -> [Request -> {None, "plain", "cancelled"}]]
      BY <2>2, <3>1, Replaced DEF TypeOK
    <3> QED
      BY <1>3, <3>3, <3>4 DEF Choose, TypeOK, db, masters, bounds
  <2> QED
    BY <1>3, <2>1, <2>2 DEF Choose
<1>4. CASE ClaimBuildRequest(m)
  <2>1. chooser[m] \in Chooser
    BY DEF TypeOK
  <2>2. [chooser[m] EXCEPT !.stage = "starting"] \in Chooser
        /\ [chooser[m] EXCEPT !.stage = "fetching"] \in Chooser
    BY <2>1 DEF Chooser
  <2>3. chooser' \in [Master -> Chooser]
    <3>1. \/ chooser' = [chooser EXCEPT ![m].stage = "starting"]
          \/ chooser' = [chooser EXCEPT ![m].stage = "fetching"]
      BY <1>4 DEF ClaimBuildRequest
    <3> QED
      BY <2>2, <3>1 DEF TypeOK
  <2>4. claim' \in [Request -> Master \cup {None}]
    <3>1. claim \in [Request -> Master \cup {None}] /\ m \in Master \cup {None}
      BY DEF TypeOK
    <3>2. claim' = claim \/ claim' = [claim EXCEPT ![chooser[m].request] = m]
      BY <1>4 DEF ClaimBuildRequest
    <3> QED
      BY <3>1, <3>2
  <2> QED
    BY <1>4, <2>3, <2>4 DEF ClaimBuildRequest, TypeOK, masters, bounds
<1>5. CASE StartBuild(m)
  <2>1. chooser[m] \in Chooser
    BY DEF TypeOK
  <2>2. [chooser[m] EXCEPT !.stage = "choosing"] \in Chooser
    BY <2>1 DEF Chooser
  <2>3. chooser' \in [Master -> Chooser]
    BY <1>5, <2>2 DEF StartBuild, TypeOK
  <2>4. [NoJob EXCEPT !.stage = "created"] \in Job
    BY DEF NoJob, Job, JobStage
  <2>5. job' \in [Master -> [Request -> Job]]
    BY <1>5, <2>4 DEF StartBuild, TypeOK
  <2> QED
    BY <1>5, <2>3, <2>5 DEF StartBuild, TypeOK, db, masters, bounds
<1> QED
  BY <1>1, <1>2, <1>3, <1>4, <1>5 DEF OfMaster

\* One job gets another stage; it may be told to stop, and have an outcome.
LEMMA JobReplaced ==
  ASSUME TypeOK, NEW m \in Master, NEW r \in Request
  PROVE  /\ \A t \in JobStage :
              [job EXCEPT ![m][r].stage = t] \in [Master -> [Request -> Job]]
         /\ \A t \in JobStage, b \in BOOLEAN :
              [job EXCEPT ![m][r].stage = t, ![m][r].stopped = b]
                \in [Master -> [Request -> Job]]
         /\ \A t \in JobStage, o \in Result \cup {"retry", None} :
              [job EXCEPT ![m][r].stage = t, ![m][r].outcome = o]
                \in [Master -> [Request -> Job]]
         /\ [job EXCEPT ![m][r] = NoJob] \in [Master -> [Request -> Job]]
<1>1. job \in [Master -> [Request -> Job]] /\ job[m][r] \in Job
  BY DEF TypeOK
<1>2. \A j \in Job : [job EXCEPT ![m][r] = j] \in [Master -> [Request -> Job]]
  BY <1>1
<1>3. ASSUME NEW t \in JobStage
      PROVE  [job EXCEPT ![m][r].stage = t] \in [Master -> [Request -> Job]]
  <2>1. [job[m][r] EXCEPT !.stage = t] \in Job
    BY <1>1, Records
  <2> QED
    BY <1>2, <2>1
<1>4. ASSUME NEW t \in JobStage, NEW b \in BOOLEAN
      PROVE  [job EXCEPT ![m][r].stage = t, ![m][r].stopped = b]
               \in [Master -> [Request -> Job]]
  <2>1. [job[m][r] EXCEPT !.stage = t, !.stopped = b] \in Job
    BY <1>1 DEF Job
  <2>2. [job EXCEPT ![m][r].stage = t, ![m][r].stopped = b]
          = [job EXCEPT ![m][r] = [job[m][r] EXCEPT !.stage = t, !.stopped = b]]
    BY <1>1
  <2> QED
    BY <1>2, <2>1, <2>2
<1>5. ASSUME NEW t \in JobStage, NEW o \in Result \cup {"retry", None}
      PROVE  [job EXCEPT ![m][r].stage = t, ![m][r].outcome = o]
               \in [Master -> [Request -> Job]]
  <2>1. [job[m][r] EXCEPT !.stage = t, !.outcome = o] \in Job
    BY <1>1 DEF Job
  <2>2. [job EXCEPT ![m][r].stage = t, ![m][r].outcome = o]
          = [job EXCEPT ![m][r] = [job[m][r] EXCEPT !.stage = t, !.outcome = o]]
    BY <1>1
  <2> QED
    BY <1>2, <2>1, <2>2
<1>6. [job EXCEPT ![m][r] = NoJob] \in [Master -> [Request -> Job]]
  BY <1>2, Records
<1> QED
  BY <1>3, <1>4, <1>5, <1>6

\* So do the steps of a build (process/builder.py, process/build.py),
LEMMA TypedOfRequest ==
  ASSUME TypeOK, NEW m \in Master, NEW r \in Request, OfRequest(m, r)
  PROVE  TypeOK'
<1> USE ClaimsAssumption
<1>1. CASE SubscribeToStop(m, r)
  <2>1. job' \in [Master -> [Request -> Job]]
    BY <1>1, JobReplaced DEF SubscribeToStop, SetStage, JobStage
  <2> QED
    BY <1>1, <2>1 DEF SubscribeToStop, TypeOK, db, masters, bounds
<1>2. CASE CheckCancelled(m, r)
  <2>1. job' \in [Master -> [Request -> Job]]
    <3> DEFINE t == IF starting[m][r] = "cancelled" THEN "wedged" ELSE "running"
               b == job[m][r].stopped \/ starting[m][r] = "cancelled"
    <3>1. t \in JobStage /\ b \in BOOLEAN
      BY DEF JobStage
    <3>2. job' = [job EXCEPT ![m][r].stage = t, ![m][r].stopped = b]
      BY <1>2 DEF CheckCancelled, TypeOK
    <3> HIDE DEF t, b
    <3> QED
      BY <3>1, <3>2, JobReplaced
  <2>2. starting' \in [Master -> [Request -> {None, "plain", "cancelled"}]]
    BY <1>2, Replaced DEF CheckCancelled, TypeOK
  <2> QED
    BY <1>2, <2>1, <2>2 DEF CheckCancelled, TypeOK, db, masters, bounds
<1>3. CASE FinishBuild(m, r)
  <2>1. job' \in [Master -> [Request -> Job]]
    <3>1. PICK o \in Result \cup {"retry", None} :
            job' = [job EXCEPT ![m][r].stage = "finished", ![m][r].outcome = o]
      BY <1>3 DEF FinishBuild, Result
    <3>2. "finished" \in JobStage
      BY DEF JobStage
    <3> QED
      BY <3>1, <3>2, JobReplaced
  <2>2. retries' \in 0..MaxRetries
    <3>1. retries \in 0..MaxRetries /\ MaxRetries \in Nat
      BY DEF TypeOK
    <3>2. retries' = retries \/ (retries < MaxRetries /\ retries' = retries + 1)
      BY <1>3 DEF FinishBuild
    <3> QED
      BY <3>1, <3>2
  <2>3. wake' \in [Master -> BOOLEAN]
    BY <1>3 DEF FinishBuild, TypeOK
  <2> QED
    BY <1>3, <2>1, <2>2, <2>3 DEF FinishBuild, TypeOK, db, masters
<1>4. CASE Resubmit(m, r)
  <2>1. job' \in [Master -> [Request -> Job]]
    BY <1>4, JobReplaced DEF Resubmit
  <2>2. cancel' \in [Master -> [Request -> CancelStage]]
    <3> DEFINE c == cancel[m][r]
               v == CASE c = "done" -> "none" [] c = "marked" -> "passed" [] OTHER -> c
    <3>1. cancel \in [Master -> [Request -> CancelStage]] /\ c \in CancelStage
      BY DEF TypeOK, CancelStage
    <3>2. v \in CancelStage
      BY <3>1 DEF CancelStage
    <3>3. cancel' = [cancel EXCEPT ![m][r] = v]
      BY <1>4 DEF Resubmit
    <3> HIDE DEF v
    <3> QED
      BY <3>1, <3>2, <3>3, Replaced
  <2>3. claim' \in [Request -> Master \cup {None}]
    BY <1>4 DEF Resubmit, TypeOK
  <2>4. telling' \in [Master -> [Request -> Nat]]
    <3>1. telling \in [Master -> [Request -> Nat]] /\ telling[m][r] + 1 \in Nat
      BY DEF TypeOK
    <3>2. telling' = [telling EXCEPT ![m][r] = telling[m][r] + 1]
      BY <1>4 DEF Resubmit
    <3> QED
      BY <3>1, <3>2, Replaced
  <2> QED
    BY <1>4, <2>1, <2>2, <2>3, <2>4 DEF Resubmit, TypeOK, CancelStage, masters, bounds
<1>7. CASE TellUnclaimed(m, r)
  <2>1. telling' \in [Master -> [Request -> Nat]]
    <3>1. telling \in [Master -> [Request -> Nat]] /\ telling[m][r] - 1 \in Nat
      BY <1>7 DEF TellUnclaimed, TypeOK
    <3>2. telling' = [telling EXCEPT ![m][r] = telling[m][r] - 1]
      BY <1>7 DEF TellUnclaimed
    <3> QED
      BY <3>1, <3>2, Replaced
  <2>2. wake' \in [Master -> BOOLEAN]
    BY <1>7 DEF TellUnclaimed, WakeAll, Listening, TypeOK
  <2> QED
    BY <1>7, <2>1, <2>2 DEF TellUnclaimed, TypeOK, db, masters, bounds
<1>5. CASE CompleteBuildRequest(m, r)
  <2>1. job' \in [Master -> [Request -> Job]]
    <3>1. PICK t \in {"completed", "none"} : job' = [job EXCEPT ![m][r].stage = t]
      BY <1>5 DEF CompleteBuildRequest, SetStage
    <3>2. t \in JobStage
      BY DEF JobStage
    <3> QED
      BY <3>1, <3>2, JobReplaced
  <2>2. result' \in [Request -> Result \cup {None}]
    <3>1. job[m][r].outcome \in Result \cup {None}
      <4>1. job[m][r] \in Job
        BY DEF TypeOK
      <4> QED
        BY <1>5, <4>1, Records DEF CompleteBuildRequest
    <3>2. result' = result \/ result' = [result EXCEPT ![r] = job[m][r].outcome]
      BY <1>5 DEF CompleteBuildRequest
    <3> QED
      BY <3>1, <3>2 DEF TypeOK
  <2> QED
    BY <1>5, <2>1, <2>2 DEF CompleteBuildRequest, TypeOK, masters, bounds
<1>6. CASE AfterCompletion(m, r)
  <2>1. job' \in [Master -> [Request -> Job]]
    <3>1. job' = job \/ job' = [job EXCEPT ![m][r] = NoJob]
      BY <1>6 DEF AfterCompletion
    <3>2. job \in [Master -> [Request -> Job]]
      BY DEF TypeOK
    <3>3. [job EXCEPT ![m][r] = NoJob] \in [Master -> [Request -> Job]]
      BY JobReplaced
    <3> QED
      BY <3>1, <3>2, <3>3
  <2>2. cancel' \in [Master -> [Request -> CancelStage]]
    <3>1. cancel' = cancel \/ cancel' = [cancel EXCEPT ![m][r] = "none"]
      BY <1>6 DEF AfterCompletion
    <3>2. cancel \in [Master -> [Request -> CancelStage]] /\ "none" \in CancelStage
      BY DEF TypeOK, CancelStage
    <3>3. [cancel EXCEPT ![m][r] = "none"] \in [Master -> [Request -> CancelStage]]
      BY <3>2, Replaced
    <3> QED
      BY <3>1, <3>2, <3>3
  <2>3. buildset' \in [Buildset -> Result \cup {None}]
    <3>1. \A q : WorstStatus(q) \in Result
      BY DEF WorstStatus, Result
    <3>2. buildset' = buildset \/
            buildset' = [buildset EXCEPT
              ![SetOf[r]] = WorstStatus({result[q] : q \in RequestsOf(SetOf[r])})]
      BY <1>6 DEF AfterCompletion, MaybeBuildsetComplete
    <3>3. SetOf[r] \in Buildset /\ buildset \in [Buildset -> Result \cup {None}]
      BY DEF TypeOK
    <3>4. ASSUME NEW b \in Buildset, NEW v \in Result
          PROVE  [buildset EXCEPT ![b] = v] \in [Buildset -> Result \cup {None}]
      BY ONLY <3>3
    <3>5. [buildset EXCEPT
            ![SetOf[r]] = WorstStatus({result[q] : q \in RequestsOf(SetOf[r])})]
          \in [Buildset -> Result \cup {None}]
      BY ONLY <3>1, <3>3, <3>4
    <3> QED
      BY ONLY <3>2, <3>3, <3>5
  <2> QED
    BY <1>6, <2>1, <2>2, <2>3 DEF AfterCompletion, TypeOK, CancelStage, masters, bounds
<1> QED
  BY <1>1, <1>2, <1>3, <1>4, <1>5, <1>6, <1>7 DEF OfRequest

\* those of a cancellation,
LEMMA TypedOfCancel ==
  ASSUME TypeOK, NEW r \in Request,
         Cancel(r) \/ \E m \in Master : Cancelling(m, r)
  PROVE  TypeOK'
<1>1. CASE Cancel(r)
  <2>1. cancel' \in [Master -> [Request -> CancelStage]] /\ asked' \subseteq Request
    BY <1>1 DEF Cancel, TypeOK, CancelStage
  <2> QED
    BY <1>1, <2>1 DEF Cancel, TypeOK, CancelStage, db, masters
<1>2. ASSUME NEW m \in Master, Cancelling(m, r) PROVE TypeOK'
  <2>a. \A v \in CancelStage :
          [cancel EXCEPT ![m][r] = v] \in [Master -> [Request -> CancelStage]]
    BY Replaced DEF TypeOK, CancelStage
  <2>1. CASE CancelClaims(m, r)
    <3>1. cancel' \in [Master -> [Request -> CancelStage]]
      BY <2>a, <2>1 DEF CancelClaims, SetCancel, CancelStage
    <3>2. claim' \in [Request -> Master \cup {None}]
      BY <2>1 DEF CancelClaims, TypeOK
    <3> QED
      BY <2>1, <3>1, <3>2 DEF CancelClaims, TypeOK, CancelStage, masters, bounds
  <2>2. CASE CancelCompletes(m, r)
    <3>1. cancel' \in [Master -> [Request -> CancelStage]]
      BY <2>a, <2>2 DEF CancelCompletes, SetCancel, CancelStage
    <3>2. result' \in [Request -> Result \cup {None}]
      BY <2>2 DEF CancelCompletes, TypeOK, Result
    <3> QED
      BY <2>2, <3>1, <3>2 DEF CancelCompletes, TypeOK, CancelStage, masters, bounds
  <2>3. CASE CancelMarks(m, r)
    <3>1. cancel' \in [Master -> [Request -> CancelStage]]
      BY <2>a, <2>3 DEF CancelMarks, SetCancel, CancelStage
    <3>2. starting' \in [Master -> [Request -> {None, "plain", "cancelled"}]]
      BY <2>3 DEF CancelMarks, TypeOK
    <3> QED
      BY <2>3, <3>1, <3>2 DEF CancelMarks, TypeOK, CancelStage, db, masters, bounds
  <2>4. CASE CancelStops(m, r)
    <3>1. cancel' \in [Master -> [Request -> CancelStage]]
      BY <2>a, <2>4 DEF CancelStops, SetCancel, CancelStage
    <3>2. job' \in [Master -> [Request -> Job]]
      <4>1. ASSUME NEW n \in Master
            PROVE  [job[n] EXCEPT ![r].stopped = @ \/ job[n][r].stage \in {"subscribed", "running"}]
                     \in [Request -> Job]
        <5> DEFINE b == job[n][r].stopped \/ job[n][r].stage \in {"subscribed", "running"}
        <5>1. job[n] \in [Request -> Job] /\ job[n][r] \in Job /\ b \in BOOLEAN
          BY DEF TypeOK
        <5> HIDE DEF b
        <5>2. [job[n][r] EXCEPT !.stopped = b] \in Job
          BY <5>1, Records
        <5>3. [job[n] EXCEPT ![r].stopped = b] \in [Request -> Job]
          BY <5>1, <5>2
        <5> QED
          BY <5>3 DEF b
      <4> QED
        BY <2>4, <4>1 DEF CancelStops
    <3> QED
      BY <2>4, <3>1, <3>2 DEF CancelStops, TypeOK, CancelStage, db, masters, bounds
  <2> QED
    BY <1>2, <2>1, <2>2, <2>3, <2>4 DEF Cancelling
<1> QED
  BY <1>1, <1>2

\* The housekeeping of a master, and its comings and goings.
LEMMA CleaningReplaced ==
  ASSUME TypeOK, NEW m \in Master, NEW n \in Master, NEW forced, Deactivate(m, n, forced)
  PROVE  active' \subseteq Master /\ cleaning' \in [Master -> Cleaning \cup {None}]
<1>1. [of |-> n, read |-> FALSE, requests |-> {}] \in Cleaning
  BY DEF Cleaning
<1>2. cleaning \in [Master -> Cleaning \cup {None}] /\ active \subseteq Master
  BY DEF TypeOK
<1>3. active' = active \ {n}
      /\ (\/ cleaning' = cleaning
          \/ cleaning' = [cleaning EXCEPT ![m] = [of |-> n, read |-> FALSE, requests |-> {}]])
  BY DEF Deactivate
<1> QED
  BY <1>1, <1>2, <1>3

\* and those of a master's housekeeping, crashes and restarts (master.py).
LEMMA TypedOfMasters ==
  ASSUME TypeOK, NEW m \in Master,
         Housekeeping(m) \/ Heartbeat(m) \/ Crash(m) \/ Expire(m) \/ Boot(m)
  PROVE  TypeOK'
<1> USE ClaimsAssumption
<1>1. CASE ExpireAll(m)
  <2>1. todo' \in [Master -> SUBSET Master]
        /\ stage' \in [Master -> {"down", "booting", "expiring", "up"}]
    BY <1>1 DEF ExpireAll, TypeOK
  <2> QED
    BY <1>1, <2>1 DEF ExpireAll, TypeOK, db, work, bounds
<1>2. ASSUME NEW n \in Master, ExpireNext(m, n) PROVE TypeOK'
  <2>1. active' \subseteq Master /\ cleaning' \in [Master -> Cleaning \cup {None}]
    BY <1>2, CleaningReplaced DEF ExpireNext
  <2>2. todo' \in [Master -> SUBSET Master]
    BY <1>2 DEF ExpireNext, TypeOK
  <2> QED
    BY <1>2, <2>1, <2>2 DEF ExpireNext, TypeOK, db, work, bounds
<1>3. CASE HousekeepingReads(m)
  <2>1. cleaning \in [Master -> Cleaning \cup {None}] /\ cleaning[m] \in Cleaning
    BY <1>3 DEF HousekeepingReads, TypeOK
  <2> DEFINE q == {r \in Request : Incomplete(r) /\ claim[r] = cleaning[m].of}
  <2>2. q \in SUBSET Request
    OBVIOUS
  <2>3. cleaning' = [cleaning EXCEPT ![m] = [cleaning[m] EXCEPT !.read = TRUE, !.requests = q]]
    BY <1>3, <2>1 DEF HousekeepingReads
  <2> HIDE DEF q
  <2>4. [cleaning[m] EXCEPT !.read = TRUE, !.requests = q] \in Cleaning
    BY <2>1, <2>2 DEF Cleaning
  <2>5. cleaning' \in [Master -> Cleaning \cup {None}]
    BY <2>1, <2>3, <2>4
  <2> QED
    BY <1>3, <2>5 DEF HousekeepingReads, TypeOK, db, work, bounds
<1>4. CASE HousekeepingUnclaims(m)
  <2>1. claim' \in [Request -> Master \cup {None}]
    BY <1>4 DEF HousekeepingUnclaims, TypeOK
  <2>2. cleaning' \in [Master -> Cleaning \cup {None}]
    BY <1>4 DEF HousekeepingUnclaims, TypeOK
  <2> QED
    BY <1>4, <2>1, <2>2 DEF HousekeepingUnclaims, TypeOK, work, bounds
<1>5. CASE Up(m)
  <2>1. /\ stage' \in [Master -> {"down", "booting", "expiring", "up"}]
        /\ wake' \in [Master -> BOOLEAN]
        /\ active' \subseteq Master /\ fresh' \subseteq Master
    BY <1>5 DEF Up, TypeOK
  <2> QED
    BY <1>5, <2>1 DEF Up, TypeOK, db, work, bounds
<1>6. CASE Heartbeat(m)
  <2>1. active' \subseteq Master /\ fresh' \subseteq Master
    BY <1>6 DEF Heartbeat, TypeOK
  <2>2. todo' \in [Master -> SUBSET Master]
    BY <1>6 DEF Heartbeat, TypeOK
  <2> QED
    BY <1>6, <2>1, <2>2 DEF Heartbeat, TypeOK, db, work, bounds
<1>7. CASE Crash(m)
  <2>1. crashes' \in 0..MaxCrashes
    <3>1. crashes \in 0..MaxCrashes /\ MaxCrashes \in Nat
      BY DEF TypeOK
    <3>2. crashes < MaxCrashes /\ crashes' = crashes + 1
      BY <1>7 DEF Crash
    <3> QED
      BY <3>1, <3>2
  <2>2. /\ stage' \in [Master -> {"down", "booting", "expiring", "up"}]
        /\ todo' \in [Master -> SUBSET Master]
        /\ cleaning' \in [Master -> Cleaning \cup {None}]
        /\ wake' \in [Master -> BOOLEAN]
    BY <1>7 DEF Crash, TypeOK
  <2>3. chooser' \in [Master -> Chooser]
    BY <1>7, Records DEF Crash, TypeOK
  <2>4. starting' \in [Master -> [Request -> {None, "plain", "cancelled"}]]
    BY <1>7 DEF Crash, TypeOK, NoneYet
  <2>5. job' \in [Master -> [Request -> Job]]
    BY <1>7, Records DEF Crash, TypeOK
  <2>6. cancel' \in [Master -> [Request -> CancelStage]]
    BY <1>7 DEF Crash, TypeOK, CancelStage
  <2> QED
    BY <1>7, <2>1, <2>2, <2>3, <2>4, <2>5, <2>6 DEF Crash, TypeOK, CancelStage, db
<1>8. CASE Expire(m)
  <2>1. fresh' \subseteq Master
    BY <1>8 DEF Expire, TypeOK
  <2> QED
    BY <1>8, <2>1 DEF Expire, TypeOK, db, work, bounds
<1>9. CASE Boot(m)
  <2>1. active' \subseteq Master /\ cleaning' \in [Master -> Cleaning \cup {None}]
    BY <1>9, CleaningReplaced DEF Boot
  <2>2. stage' \in [Master -> {"down", "booting", "expiring", "up"}]
    BY <1>9 DEF Boot, TypeOK
  <2> QED
    BY <1>9, <2>1, <2>2 DEF Boot, TypeOK, db, work, bounds
<1> QED
  BY <1>1, <1>2, <1>3, <1>4, <1>5, <1>6, <1>7, <1>8, <1>9 DEF Housekeeping

\* Every variable of the cluster keeps its type, and no request is completed with
\* the result RETRY (process/builder.py, _maybeResubmit).
THEOREM ClusterIsTyped == Spec => []TypeOK
<1>1. ASSUME TypeOK, [Next]_vars PROVE TypeOK'
  <2>1. CASE UNCHANGED vars
    BY <1>1, <2>1 DEF vars, db, masters, work, bounds, TypeOK
  <2> QED
    BY <1>1, <2>1, TypedOfMaster, TypedOfRequest, TypedOfCancel, TypedOfMasters DEF Next
<1> QED
  BY <1>1, TypedAtFirst, PTL DEF Spec

-----------------------------------------------------------------------------
(* Results *)

\* A result is never changed, and only what completes a buildset gives it one.
LEMMA ResultsAreFinal ==
  ASSUME TypeOK, [Next]_vars
  PROVE  /\ \A q \in Request : ~Incomplete(q) => result'[q] = result[q]
         /\ \/ buildset' = buildset
            \/ result' = result /\ \E r \in Request : MaybeBuildsetComplete(r)
<1>1. CASE UNCHANGED vars
  BY <1>1 DEF vars, db
<1>2. ASSUME NEW m \in Master, OfMaster(m)
      PROVE  UNCHANGED <<result, buildset>>
  BY <1>2 DEF OfMaster, TakeUp, Fetch, Choose, ClaimBuildRequest, StartBuild, db
<1>3. ASSUME NEW m \in Master,
             Housekeeping(m) \/ Heartbeat(m) \/ Crash(m) \/ Expire(m) \/ Boot(m)
      PROVE  UNCHANGED <<result, buildset>>
  BY <1>3 DEF Housekeeping, ExpireAll, ExpireNext, HousekeepingReads, HousekeepingUnclaims, Up,
     Heartbeat, Crash, Expire, Boot, db
<1>4. ASSUME NEW m \in Master, NEW r \in Request, OfRequest(m, r)
      PROVE  /\ \A q \in Request : ~Incomplete(q) => result'[q] = result[q]
             /\ \/ buildset' = buildset
                \/ result' = result /\ MaybeBuildsetComplete(r)
  <2>1. CASE SubscribeToStop(m, r) \/ CheckCancelled(m, r) \/ FinishBuild(m, r) \/ Resubmit(m, r)
             \/ TellUnclaimed(m, r)
    BY <2>1 DEF SubscribeToStop, CheckCancelled, FinishBuild, Resubmit, TellUnclaimed, db
  <2>2. CASE CompleteBuildRequest(m, r)
    BY <2>2 DEF CompleteBuildRequest, Incomplete, TypeOK
  <2>3. CASE AfterCompletion(m, r)
    BY <2>3 DEF AfterCompletion
  <2> QED
    BY <1>4, <2>1, <2>2, <2>3 DEF OfRequest
<1>5. ASSUME NEW m \in Master, NEW r \in Request, Cancelling(m, r)
      PROVE  /\ \A q \in Request : ~Incomplete(q) => result'[q] = result[q]
             /\ buildset' = buildset
  <2>1. CASE CancelClaims(m, r) \/ CancelMarks(m, r) \/ CancelStops(m, r)
    BY <2>1 DEF CancelClaims, CancelMarks, CancelStops, db
  <2>2. CASE CancelCompletes(m, r)
    BY <2>2 DEF CancelCompletes, Incomplete, TypeOK
  <2> QED
    BY <1>5, <2>1, <2>2 DEF Cancelling
<1>6. ASSUME NEW r \in Request, Cancel(r)
      PROVE  UNCHANGED <<result, buildset>>
  BY <1>6 DEF Cancel, db
<1> QED
  BY <1>1, <1>2, <1>3, <1>4, <1>5, <1>6 DEF Next

\* A complete buildset has all its requests complete and the worst of their
\* results, whichever of them completes last and on whichever master
\* (data/buildsets.py, maybeBuildsetComplete).
THEOREM BuildsetsAreFaithful == Spec => []BuildsetIsFaithful
<1> USE ClaimsAssumption
<1>1. Init => BuildsetIsFaithful
  BY DEF Init, BuildsetIsFaithful
<1>2. ASSUME TypeOK, BuildsetIsFaithful, [Next]_vars PROVE BuildsetIsFaithful'
  <2>1. \A q \in Request : ~Incomplete(q) => result'[q] = result[q]
    BY <1>2, ResultsAreFinal
  <2> DEFINE Results(b) == {result[q] : q \in RequestsOf(b)}
             NewResults(b) == {result'[q] : q \in RequestsOf(b)}
  <2>2. ASSUME NEW b \in Buildset, \A q \in RequestsOf(b) : ~Incomplete(q)
        PROVE  Results(b) = NewResults(b) /\ \A q \in RequestsOf(b) : result'[q] # None
    BY <2>1, <2>2 DEF RequestsOf, Incomplete
  <2> SUFFICES ASSUME NEW b \in Buildset, buildset'[b] # None
               PROVE  /\ \A q \in RequestsOf(b) : result'[q] # None
                      /\ buildset'[b] = WorstStatus(NewResults(b))
    BY DEF BuildsetIsFaithful, Incomplete, RequestsOf
  <2>3. CASE buildset[b] # None
    <3>1. /\ \A q \in RequestsOf(b) : ~Incomplete(q)
          /\ buildset[b] = WorstStatus(Results(b))
      BY <1>2, <2>3 DEF BuildsetIsFaithful
    <3>2. Results(b) = NewResults(b) /\ \A q \in RequestsOf(b) : result'[q] # None
      BY <2>2, <3>1
    <3>3. buildset'[b] = buildset[b]
      <4>1. CASE buildset' = buildset
        BY <4>1
      <4>2. ASSUME NEW r \in Request, MaybeBuildsetComplete(r)
            PROVE  buildset'[b] = buildset[b]
        BY <1>2, <2>3, <4>2 DEF MaybeBuildsetComplete, TypeOK
      <4> QED
        BY <1>2, <4>1, <4>2, ResultsAreFinal
    <3> QED
      BY <3>1, <3>2, <3>3
  <2>4. CASE buildset[b] = None
    <3>1. PICK r \in Request : MaybeBuildsetComplete(r)
      BY <1>2, <2>4, ResultsAreFinal
    <3>2. /\ SetOf[r] = b
          /\ \A q \in RequestsOf(b) : ~Incomplete(q)
          /\ buildset'[b] = WorstStatus(Results(b))
      BY <1>2, <2>4, <3>1 DEF MaybeBuildsetComplete, TypeOK
    <3>3. Results(b) = NewResults(b) /\ \A q \in RequestsOf(b) : result'[q] # None
      BY <2>2, <3>2
    <3> QED
      BY <3>2, <3>3
  <2> QED
    BY <2>3, <2>4
<1> QED
  BY <1>1, <1>2, ClusterIsTyped, PTL DEF Spec

-----------------------------------------------------------------------------
(* Claims *)

Sound == TypeOK /\ Claimed

\* A master that is at work touches only the requests that nobody or itself has
\* claimed; what it does with them is all there is to show.
LEMMA ClaimedWhenActing ==
  ASSUME Sound, MastersStayApart, TypeOK', NEW m \in Master,
         stage[m] \notin {"down", "booting"}, UNCHANGED masters,
         stage[m] = "expiring" =>
           /\ BuildsNothing(m)'
           /\ cleaning[m] # None /\ cleaning[m].of = m =>
                \A r \in Request : claim[r] = m => claim'[r] = m /\ result'[r] = result[r],
         \A n \in Master \ {m} :
           /\ chooser'[n] = chooser[n] /\ cancel'[n] = cancel[n]
           /\ \A r \in Request : job'[n][r].stage = job[n][r].stage,
         \A r \in Request :
           claim[r] \notin {None, m} => claim'[r] = claim[r] /\ result'[r] = result[r],
         \A r \in Request : OneThing(m, r)',
         UnclaimedIsIncomplete',
         chooser'[m].stage \in {"claiming", "starting"} => chooser'[m].request \in Request
  PROVE  Sound'
<1> USE DEF Sound, Claimed
<1>1. WorkIsClaimed'
  <2> SUFFICES ASSUME NEW n \in Master, NEW r \in Request, n # m
               PROVE  OneThing(n, r)'
    BY DEF WorkIsClaimed
  <2>1. OneThing(n, r) /\ n # None
    BY ClaimsAssumption DEF WorkIsClaimed
  <2>2. /\ Building(n, r)' <=> Building(n, r)
        /\ Starting(n, r)' <=> Starting(n, r)
        /\ Cancels(n, r)' <=> Cancels(n, r)
    BY DEF Building, Starting, Cancels
  <2>3. claim[r] = n => claim'[r] = n /\ result'[r] = result[r]
    BY <2>1
  <2> QED
    BY <2>1, <2>2, <2>3 DEF OneThing, Incomplete
<1>2. ChooserHasRequest'
  BY DEF ChooserHasRequest
<1>3. RestWhileBooting' /\ TodoIsKnown'
  <2>1. ASSUME NEW n \in Master
        PROVE  /\ stage[n] \in {"down", "booting"} => AtRest(n)'
               /\ stage[n] = "expiring" => BuildsNothing(n)'
    <3>1. CASE n = m
      BY <3>1
    <3>2. CASE n # m
      BY <3>2 DEF RestWhileBooting, AtRest, BuildsNothing
    <3> QED
      BY <3>1, <3>2
  <2>2. RestWhileBooting'
    BY <2>1 DEF RestWhileBooting, masters
  <2> QED
    BY <2>2 DEF TodoIsKnown, masters
<1>4. CleaningIsSafe'
  <2> SUFFICES ASSUME NEW n \in Master, cleaning[n] # None,
                      NEW r \in cleaning[n].requests
               PROVE  /\ claim'[r] = cleaning[n].of
                      /\ cleaning[n].of = n => result'[r] = None
    BY DEF CleaningIsSafe, masters, Incomplete
  <2>1. cleaning[n] \in Cleaning
    BY DEF TypeOK
  <2>2. cleaning[n].of \in Master /\ cleaning[n].of # None /\ r \in Request
    BY <2>1, ClaimsAssumption DEF Cleaning
  <2>3. /\ cleaning[n].of = n => stage[n] \in {"booting", "expiring"}
        /\ claim[r] = cleaning[n].of /\ (cleaning[n].of = n => result[r] = None)
    BY DEF CleaningIsSafe, Incomplete
  <2>4. CASE cleaning[n].of = m
    <3>1. n = m /\ stage[m] = "expiring"
      BY <2>2, <2>3, <2>4 DEF MastersStayApart
    <3> QED
      BY <2>2, <2>3, <2>4, <3>1
  <2>5. CASE cleaning[n].of # m
    BY <2>2, <2>3, <2>5
  <2> QED
    BY <2>4, <2>5
<1> QED
  BY <1>1, <1>2, <1>3, <1>4

\* As above, of a step that is about one request.
LEMMA ClaimedWhenActingOn ==
  ASSUME Sound, MastersStayApart, TypeOK', NEW m \in Master, NEW q \in Request,
         stage[m] \notin {"down", "booting"}, UNCHANGED <<chooser, masters>>,
         stage[m] = "expiring" =>
           /\ job'[m][q].stage = "none"
           /\ cleaning[m] # None /\ cleaning[m].of = m /\ claim[q] = m =>
                claim'[q] = m /\ result'[q] = result[q],
         \A n \in Master : \A r \in Request :
           n # m \/ r # q =>
             job'[n][r].stage = job[n][r].stage /\ cancel'[n][r] = cancel[n][r],
         \A r \in Request : r # q => claim'[r] = claim[r] /\ result'[r] = result[r],
         claim[q] \notin {None, m} => claim'[q] = claim[q] /\ result'[q] = result[q],
         OneThing(m, q)', claim'[q] = None => result'[q] = None
  PROVE  Sound'
<1>1. TypeOK /\ Claimed /\ \A r \in Request : OneThing(m, r)
  BY DEF Sound, Claimed, WorkIsClaimed
<1>2. chooser'[m].stage \in {"claiming", "starting"} => chooser'[m].request \in Request
  BY <1>1 DEF Claimed, ChooserHasRequest
<1>3. ASSUME NEW r \in Request, r # q
      PROVE  OneThing(m, r)' /\ (claim'[r] = None => result'[r] = None)
  <2>1. /\ Building(m, r)' <=> Building(m, r)
        /\ Cancels(m, r)' <=> Cancels(m, r)
        /\ Starting(m, r)' <=> Starting(m, r)
        /\ Incomplete(r)' <=> Incomplete(r)
        /\ claim'[r] = claim[r]
    BY <1>3 DEF Building, Cancels, Starting, Incomplete
  <2> QED
    BY <1>1, <1>3, <2>1 DEF OneThing, Claimed, UnclaimedIsIncomplete, Incomplete
<1>4. \A r \in Request : OneThing(m, r)'
  BY <1>3
<1>5. UnclaimedIsIncomplete'
  BY <1>3 DEF UnclaimedIsIncomplete, Incomplete
<1>6. \A r \in Request :
        claim[r] \notin {None, m} => claim'[r] = claim[r] /\ result'[r] = result[r]
  OBVIOUS
<1>7. \A n \in Master \ {m} :
        /\ chooser'[n] = chooser[n] /\ cancel'[n] = cancel[n]
        /\ \A r \in Request : job'[n][r].stage = job[n][r].stage
  <2> SUFFICES ASSUME NEW n \in Master \ {m} PROVE cancel'[n] = cancel[n]
    OBVIOUS
  <2>1. cancel[n] \in [Request -> CancelStage] /\ cancel'[n] \in [Request -> CancelStage]
    BY <1>1 DEF TypeOK, CancelStage
  <2> QED
    BY <2>1
<1>8. stage[m] = "expiring" =>
        /\ BuildsNothing(m)'
        /\ cleaning[m] # None /\ cleaning[m].of = m =>
             \A r \in Request : claim[r] = m => claim'[r] = m /\ result'[r] = result[r]
  <2>1. stage[m] = "expiring" => BuildsNothing(m)
    BY <1>1 DEF Claimed, RestWhileBooting
  <2> QED
    BY <2>1 DEF BuildsNothing
<1> QED
  BY <1>2, <1>4, <1>5, <1>6, <1>7, <1>8, ClaimedWhenActing

\* The distributor chooses, claims and starts: nobody has what it claims, since
\* the transaction fails on any other claim.
LEMMA SoundOfMaster ==
  ASSUME Sound, MastersStayApart, NEW m \in Master, OfMaster(m)
  PROVE  Sound'
<1> USE ClaimsAssumption
<1>1. TypeOK /\ TypeOK' /\ Claimed
  BY TypedOfMaster DEF Sound
<1>2. \A r \in Request : OneThing(m, r)
  BY <1>1 DEF Claimed, WorkIsClaimed
<1>3. UNCHANGED <<result, cancel, masters>>
      /\ (job' = job \/ StartBuild(m)) /\ (claim' = claim \/ ClaimBuildRequest(m))
      /\ \A n \in Master \ {m} : chooser'[n] = chooser[n] /\ job'[n] = job[n]
  BY <1>1 DEF OfMaster, TakeUp, Fetch, Choose, ClaimBuildRequest, StartBuild, db, TypeOK
<1>4. stage[m] \notin {"down", "booting", "expiring"}
  <2>1. chooser[m].stage # "idle" \/ stage[m] = "up"
    BY DEF OfMaster, TakeUp, Fetch, Choose, ClaimBuildRequest, StartBuild
  <2> QED
    BY <1>1, <2>1 DEF Claimed, RestWhileBooting, AtRest, BuildsNothing
<1>5. chooser[m] \in Chooser
  BY <1>1 DEF TypeOK
<1>6. \A r \in Request : (Cancels(m, r)' <=> Cancels(m, r)) /\ (Incomplete(r)' <=> Incomplete(r))
  BY <1>3 DEF Cancels, Incomplete
<1>7. ASSUME UNCHANGED <<job, claim>>, \A r \in Request : ~Starting(m, r)',
             chooser'[m].stage \in {"claiming", "starting"} => chooser'[m].request \in Request
      PROVE  Sound'
  <2>1. \A r \in Request : Building(m, r)' <=> Building(m, r)
    BY <1>7 DEF Building
  <2>2. \A r \in Request : OneThing(m, r)'
    BY <1>2, <1>6, <1>7, <2>1 DEF OneThing
  <2>3. UnclaimedIsIncomplete'
    BY <1>1, <1>6, <1>7 DEF Claimed, UnclaimedIsIncomplete
  <2> QED
    BY <1>1, <1>3, <1>4, <1>7, <2>2, <2>3, ClaimedWhenActing
<1>8. CASE TakeUp(m) \/ Fetch(m)
  <2>1. UNCHANGED <<job, claim>> /\ chooser'[m].stage \in {"fetching", "choosing"}
    BY <1>1, <1>5, <1>8 DEF TakeUp, Fetch, db, TypeOK, Chooser
  <2> QED
    BY <1>7, <2>1 DEF Starting
<1>9. CASE Choose(m)
  <2>1. UNCHANGED <<job, claim>>
    BY <1>9 DEF Choose, db
  <2>2. /\ chooser'[m].stage \in {"idle", "claiming"}
        /\ chooser'[m].stage = "claiming" => chooser'[m].request \in Request
    BY <1>1, <1>5, <1>9 DEF Choose, IdleChooser, TypeOK, Chooser
  <2> QED
    BY <1>7, <2>1, <2>2 DEF Starting
<1>10. CASE ClaimBuildRequest(m)
  <2> DEFINE q == chooser[m].request
  <2>1. q \in Request /\ job' = job
    BY <1>1, <1>10 DEF ClaimBuildRequest, Claimed, ChooserHasRequest
  <2>2. CASE claim[q] # None
    <3>1. claim' = claim /\ chooser'[m].stage = "fetching"
      BY <1>1, <1>5, <1>10, <2>2 DEF ClaimBuildRequest, TypeOK, Chooser
    <3> QED
      BY <1>7, <2>1, <3>1 DEF Starting
  <2>3. CASE claim[q] = None
    <3>1. /\ claim' = [claim EXCEPT ![q] = m]
          /\ chooser'[m].stage = "starting" /\ chooser'[m].request = q
      BY <1>1, <1>5, <1>10, <2>3 DEF ClaimBuildRequest, TypeOK, Chooser
    <3>2. claim'[q] = m /\ \A r \in Request : r # q => claim'[r] = claim[r]
      BY <1>1, <2>1, <3>1 DEF TypeOK
    <3>3. m # None /\ Incomplete(q)
      BY <1>1, <2>1, <2>3 DEF Claimed, UnclaimedIsIncomplete
    <3>4. \A r \in Request :
            /\ Building(m, r)' <=> Building(m, r)
            /\ Starting(m, r)' <=> q = r
            /\ ~Starting(m, r)
      BY <1>10, <2>1, <3>1 DEF Building, Starting, ClaimBuildRequest
    <3>5. ~Building(m, q) /\ ~Cancels(m, q)
      BY <1>2, <2>1, <2>3, <3>3 DEF OneThing
    <3> HIDE DEF q
    <3>6. ASSUME NEW r \in Request PROVE OneThing(m, r)'
      <4>a. /\ Building(m, r)' <=> Building(m, r)
            /\ Starting(m, r)' <=> q = r
            /\ ~Starting(m, r)
            /\ Cancels(m, r)' <=> Cancels(m, r)
            /\ Incomplete(r)' <=> Incomplete(r)
        BY <1>6, <3>4
      <4>1. CASE r = q
        <5>1. claim'[r] = m /\ Incomplete(r) /\ ~Building(m, r) /\ ~Cancels(m, r)
          BY <3>2, <3>3, <3>5, <4>1
        <5> QED
          BY <4>a, <5>1 DEF OneThing
      <4>2. CASE r # q
        <5>1. OneThing(m, r) /\ claim'[r] = claim[r]
          BY <1>2, <3>2, <4>2
        <5> QED
          BY <4>a, <4>2, <5>1 DEF OneThing
      <4> QED
        BY <4>1, <4>2
    <3>7. UnclaimedIsIncomplete'
      BY <1>1, <1>6, <2>1, <3>2, <3>3 DEF Claimed, UnclaimedIsIncomplete
    <3>8. \A r \in Request : claim[r] \notin {None, m} => claim'[r] = claim[r] /\ result'[r] = result[r]
      BY <1>3, <2>3, <3>2
    <3> QED
      BY <1>1, <1>3, <1>4, <2>1, <3>1, <3>6, <3>7, <3>8, ClaimedWhenActing
  <2> QED
    BY <2>2, <2>3
<1>11. CASE StartBuild(m)
  <2> DEFINE q == chooser[m].request
  <2>1. q \in Request /\ Starting(m, q) /\ claim' = claim
    BY <1>1, <1>11 DEF StartBuild, Claimed, ChooserHasRequest, Starting, db
  <2>2. chooser'[m].stage = "choosing" /\ \A r \in Request : ~Starting(m, r)'
    BY <1>1, <1>5, <1>11 DEF StartBuild, TypeOK, Chooser, Starting
  <2>3. \A r \in Request : r # q => (Building(m, r)' <=> Building(m, r))
    BY <1>1, <1>11, <2>1 DEF StartBuild, Building, TypeOK
  <2>4. claim[q] = m /\ Incomplete(q) /\ ~Cancels(m, q)
    BY <1>2, <2>1 DEF OneThing
  <2> HIDE DEF q
  <2>5. \A r \in Request : OneThing(m, r)'
    BY <1>2, <1>6, <2>1, <2>2, <2>3, <2>4 DEF OneThing
  <2>6. UnclaimedIsIncomplete'
    BY <1>1, <1>6, <2>1 DEF Claimed, UnclaimedIsIncomplete
  <2> QED
    BY <1>1, <1>3, <1>4, <2>1, <2>2, <2>5, <2>6, ClaimedWhenActing
<1> QED
  BY <1>8, <1>9, <1>10, <1>11 DEF OfMaster

\* A build goes on: it has the claim until it returns or completes its request.
LEMMA SoundOfRequest ==
  ASSUME Sound, MastersStayApart, NEW m \in Master, NEW q \in Request, OfRequest(m, q)
  PROVE  Sound'
<1> USE ClaimsAssumption
<1>1. TypeOK /\ TypeOK' /\ Claimed
  BY TypedOfRequest DEF Sound
<1>2. \A r \in Request : OneThing(m, r)
  BY <1>1 DEF Claimed, WorkIsClaimed
<1>t. CASE TellUnclaimed(m, q)
  <2>1. UNCHANGED <<claim, result, masters, chooser, job, cancel>>
    BY <1>t DEF TellUnclaimed, db
  <2> QED
    BY <1>1, <2>1 DEF Sound, Claimed, WorkIsClaimed, OneThing, Building, Starting, Cancels,
       UnclaimedIsIncomplete, Incomplete, ChooserHasRequest, RestWhileBooting, AtRest,
       BuildsNothing, TodoIsKnown, CleaningIsSafe, masters
<1> SUFFICES ASSUME ~TellUnclaimed(m, q) PROVE Sound'
  BY <1>t
<1>3. /\ UNCHANGED <<chooser, masters>>
      /\ job[m][q].stage # "none" \/ cancel[m][q] # "none"
  BY DEF OfRequest, SubscribeToStop, CheckCancelled, FinishBuild, Resubmit,
     CompleteBuildRequest, AfterCompletion
<1>4. /\ stage[m] \notin {"down", "booting"}
      /\ stage[m] = "expiring" => job[m][q].stage = "none"
  BY <1>1, <1>3 DEF Claimed, RestWhileBooting, AtRest, BuildsNothing
<1>5. /\ \A n \in Master \ {m} : job'[n] = job[n] /\ cancel'[n] = cancel[n]
      /\ \A r \in Request : r # q =>
           /\ job'[m][r] = job[m][r] /\ cancel'[m][r] = cancel[m][r]
           /\ claim'[r] = claim[r] /\ result'[r] = result[r]
  <2>1. CASE SubscribeToStop(m, q) \/ CheckCancelled(m, q) \/ FinishBuild(m, q)
    BY <1>1, <2>1 DEF SubscribeToStop, CheckCancelled, FinishBuild, SetStage, TypeOK, db
  <2>2. CASE Resubmit(m, q)
    BY <1>1, <2>2 DEF Resubmit, TypeOK
  <2>3. CASE CompleteBuildRequest(m, q)
    BY <1>1, <2>3 DEF CompleteBuildRequest, SetStage, TypeOK
  <2>4. CASE AfterCompletion(m, q)
    BY <1>1, <2>4 DEF AfterCompletion, TypeOK
  <2> QED
    BY <2>1, <2>2, <2>3, <2>4 DEF OfRequest
<1>6. \A r \in Request : Starting(m, r)' <=> Starting(m, r)
  BY <1>3 DEF Starting
<1>8. job[m][q] \in Job
  BY <1>1 DEF TypeOK
<1>7. stage[m] = "expiring" =>
        job'[m][q].stage = "none" /\ claim'[q] = claim[q] /\ result'[q] = result[q]
  <2> SUFFICES ASSUME stage[m] = "expiring"
               PROVE  job'[m][q].stage = "none" /\ UNCHANGED <<claim, result>>
    OBVIOUS
  <2>1. job[m][q].stage = "none"
    BY <1>4
  <2>2. AfterCompletion(m, q)
    BY <2>1 DEF OfRequest, SubscribeToStop, CheckCancelled, FinishBuild, Resubmit,
       CompleteBuildRequest
  <2> QED
    BY <2>1, <2>2 DEF AfterCompletion
<1>9. ASSUME claim[q] \notin {None, m} => claim'[q] = claim[q] /\ result'[q] = result[q],
             OneThing(m, q)', claim'[q] = None => result'[q] = None
      PROVE  Sound'
  BY <1>1, <1>3, <1>4, <1>5, <1>7, <1>9, ClaimedWhenActingOn
<1>10. claim[q] = None => result[q] = None
  BY <1>1 DEF Claimed, UnclaimedIsIncomplete, Incomplete
<1>11. CASE SubscribeToStop(m, q) \/ CheckCancelled(m, q) \/ FinishBuild(m, q)
  <2>1. Building(m, q) /\ Building(m, q)' /\ UNCHANGED <<claim, result, cancel>>
    BY <1>1, <1>8, <1>11 DEF SubscribeToStop, CheckCancelled, FinishBuild, SetStage,
       Building, TypeOK, Job, db
  <2>2. OneThing(m, q)'
    BY <1>2, <1>6, <2>1 DEF OneThing, Cancels, Incomplete
  <2> QED
    BY <1>9, <1>10, <2>1, <2>2
<1>12. CASE Resubmit(m, q)
  <2>1. Building(m, q) /\ ~Building(m, q)' /\ result' = result
    BY <1>1, <1>12 DEF Resubmit, Building, TypeOK, NoJob
  <2>2. claim[q] = m /\ Incomplete(q) /\ ~Starting(m, q) /\ ~Cancels(m, q)
    BY <1>2, <2>1 DEF OneThing
  <2>3. ~Cancels(m, q)'
    BY <1>1, <1>12, <2>2 DEF Resubmit, Cancels, TypeOK
  <2>4. OneThing(m, q)'
    BY <1>6, <2>1, <2>2, <2>3 DEF OneThing
  <2> QED
    BY <1>9, <2>1, <2>2, <2>4 DEF Incomplete
<1>13. CASE CompleteBuildRequest(m, q)
  <2>1. Building(m, q) /\ UNCHANGED <<claim, cancel>>
    BY <1>13 DEF CompleteBuildRequest, Building
  <2>2. claim[q] = m /\ Incomplete(q) /\ ~Starting(m, q) /\ ~Cancels(m, q)
    BY <1>2, <2>1 DEF OneThing
  <2>3. ~Building(m, q)'
    BY <1>1, <1>8, <1>13, <2>2 DEF CompleteBuildRequest, SetStage, Building, TypeOK, Job
  <2>4. OneThing(m, q)'
    BY <1>6, <2>1, <2>2, <2>3 DEF OneThing, Cancels
  <2> QED
    BY <1>9, <2>1, <2>2, <2>4
<1>14. CASE AfterCompletion(m, q)
  <2>1. /\ UNCHANGED <<claim, result>>
        /\ Building(m, q)' => Building(m, q)
        /\ Cancels(m, q)' => Cancels(m, q)
    BY <1>1, <1>14 DEF AfterCompletion, Building, Cancels, TypeOK, NoJob
  <2>2. OneThing(m, q)'
    BY <1>2, <1>6, <2>1 DEF OneThing, Incomplete
  <2> QED
    BY <1>9, <1>10, <2>1, <2>2
<1> QED
  BY <1>11, <1>12, <1>13, <1>14 DEF OfRequest

\* A master handles a cancellation: it completes only what it claimed itself.
LEMMA SoundOfCancelling ==
  ASSUME Sound, MastersStayApart, NEW m \in Master, NEW q \in Request, Cancelling(m, q)
  PROVE  Sound'
<1> USE ClaimsAssumption
<1>1. TypeOK /\ TypeOK' /\ Claimed
  BY TypedOfCancel DEF Sound
<1>2. OneThing(m, q)
  BY <1>1 DEF Claimed, WorkIsClaimed
<1>3. /\ UNCHANGED <<chooser, masters>>
      /\ cancel[m][q] # "none"
  BY DEF Cancelling, CancelClaims, CancelCompletes, CancelMarks, CancelStops
<1>4. /\ stage[m] \notin {"down", "booting"}
      /\ stage[m] = "expiring" => job[m][q].stage = "none"
  BY <1>1, <1>3 DEF Claimed, RestWhileBooting, AtRest, BuildsNothing
<1>5. \A n \in Master, r \in Request :
        /\ job'[n][r].stage = job[n][r].stage
        /\ n # m \/ r # q => cancel'[n][r] = cancel[n][r]
  <2>1. CASE CancelClaims(m, q) \/ CancelCompletes(m, q) \/ CancelMarks(m, q)
    BY <1>1, <2>1 DEF CancelClaims, CancelCompletes, CancelMarks, SetCancel, TypeOK
  <2>2. CASE CancelStops(m, q)
    <3>1. \A n \in Master : job[n] \in [Request -> Job] /\ \A r \in Request : job[n][r] \in Job
      BY <1>1 DEF TypeOK
    <3>2. \A n \in Master :
            job'[n] = [job[n] EXCEPT
              ![q].stopped = @ \/ job[n][q].stage \in {"subscribed", "running"}]
      BY <2>2 DEF CancelStops
    <3>3. \A n \in Master, r \in Request : job'[n][r].stage = job[n][r].stage
      <4> TAKE n \in Master, r \in Request
      <4> DEFINE b == job[n][q].stopped \/ job[n][q].stage \in {"subscribed", "running"}
      <4>1. job[n] \in [Request -> Job] /\ job'[n] = [job[n] EXCEPT ![q].stopped = b]
        BY <3>1, <3>2
      <4> HIDE DEF b
      <4>2. CASE r = q
        <5>1. job[n][q] \in Job
          BY <4>1
        <5>2. job'[n][q] = [job[n][q] EXCEPT !.stopped = b]
          BY <4>1
        <5> QED
          BY <4>2, <5>1, <5>2 DEF Job
      <4>3. CASE r # q
        BY <4>1, <4>3
      <4> QED
        BY <4>2, <4>3
    <3>4. \A n \in Master, r \in Request : n # m \/ r # q => cancel'[n][r] = cancel[n][r]
      <4>1. cancel \in [Master -> [Request -> CancelStage]]
        BY <1>1 DEF TypeOK, CancelStage
      <4>2. \E v : cancel' = [cancel EXCEPT ![m][q] = v]
        BY <2>2 DEF CancelStops, SetCancel
      <4> QED
        BY <4>1, <4>2
    <3> TAKE n \in Master, r \in Request
    <3>5. job'[n][r].stage = job[n][r].stage
      BY ONLY <3>3
    <3>6. n # m \/ r # q => cancel'[n][r] = cancel[n][r]
      BY ONLY <3>4
    <3> QED
      BY ONLY <3>5, <3>6
  <2> QED
    BY <2>1, <2>2 DEF Cancelling
<1>6. \A r \in Request : r # q => claim'[r] = claim[r] /\ result'[r] = result[r]
  BY <1>1 DEF Cancelling, CancelClaims, CancelCompletes, CancelMarks, CancelStops, TypeOK, db
<1>7. /\ Building(m, q)' <=> Building(m, q)
      /\ Starting(m, q)' <=> Starting(m, q)
  BY <1>3, <1>5 DEF Building, Starting
<1>8. ASSUME claim[q] \notin {None, m} => claim'[q] = claim[q] /\ result'[q] = result[q],
             OneThing(m, q)', claim'[q] = None => result'[q] = None,
             cleaning[m] # None /\ cleaning[m].of = m /\ claim[q] = m =>
               claim'[q] = m /\ result'[q] = result[q]
      PROVE  Sound'
  <2>1. stage[m] = "expiring" =>
          /\ job'[m][q].stage = "none"
          /\ cleaning[m] # None /\ cleaning[m].of = m /\ claim[q] = m =>
               claim'[q] = m /\ result'[q] = result[q]
    BY <1>4, <1>5, <1>8
  <2> QED
    BY <1>1, <1>3, <1>4, <1>5, <1>6, <1>8, <2>1, ClaimedWhenActingOn
<1>9. claim[q] = None => result[q] = None
  BY <1>1 DEF Claimed, UnclaimedIsIncomplete, Incomplete
<1>10. cancel[m] \in [Request -> CancelStage]
       /\ \A v \in CancelStage : SetCancel(m, q, v) => cancel'[m][q] = v
  BY <1>1 DEF TypeOK, CancelStage, SetCancel
<1>11. CASE CancelClaims(m, q) /\ claim[q] = None
  <2>1. claim'[q] = m /\ result' = result
    BY <1>1, <1>11 DEF CancelClaims, TypeOK
  <2>2. ~Building(m, q) /\ ~Starting(m, q)
    BY <1>2, <1>11 DEF OneThing
  <2>3. OneThing(m, q)'
    BY <1>7, <2>1, <2>2 DEF OneThing
  <2> QED
    BY <1>8, <1>11, <2>1, <2>3
<1>12. CASE CancelCompletes(m, q)
  <2>1. Cancels(m, q) /\ claim' = claim
    BY <1>12 DEF CancelCompletes, Cancels
  <2>2. claim[q] = m /\ ~Building(m, q) /\ ~Starting(m, q)
    BY <1>2, <2>1 DEF OneThing
  <2>3. OneThing(m, q)'
    BY <1>7, <2>1, <2>2 DEF OneThing
  <2>4. ~(cleaning[m] # None /\ cleaning[m].of = m)
    BY <2>1 DEF Cancels, MastersStayApart
  <2> QED
    BY <1>8, <2>1, <2>2, <2>3, <2>4
<1>13. CASE \/ CancelClaims(m, q) /\ claim[q] # None
            \/ CancelMarks(m, q) \/ CancelStops(m, q)
  <2>1. UNCHANGED <<claim, result>> /\ ~Cancels(m, q)'
    BY <1>10, <1>13 DEF CancelClaims, CancelMarks, CancelStops, db, Cancels, CancelStage
  <2>2. OneThing(m, q)'
    BY <1>2, <1>7, <2>1 DEF OneThing, Incomplete
  <2> QED
    BY <1>8, <1>9, <2>1, <2>2
<1> QED
  BY <1>11, <1>12, <1>13 DEF Cancelling

\* A user's cancellation is heard by the masters that listen.
LEMMA SoundOfCancel ==
  ASSUME Sound, NEW q \in Request, Cancel(q)
  PROVE  Sound'
<1>1. TypeOK /\ TypeOK' /\ Claimed
  BY TypedOfCancel DEF Sound
<1>2. UNCHANGED <<db, masters, chooser, job>>
  BY DEF Cancel
<1>3. cancel' = [m \in Master |->
        IF Listening(m) THEN [cancel[m] EXCEPT ![q] = "asked"] ELSE cancel[m]]
  BY DEF Cancel
<1>4. \A m \in Master, r \in Request : Cancels(m, r)' => Cancels(m, r)
  BY <1>1, <1>3 DEF Cancels, TypeOK
<1>5. WorkIsClaimed'
  <2> SUFFICES ASSUME NEW m \in Master, NEW r \in Request PROVE OneThing(m, r)'
    BY DEF WorkIsClaimed
  <2>1. /\ Building(m, r)' <=> Building(m, r)
        /\ Starting(m, r)' <=> Starting(m, r)
        /\ Incomplete(r)' <=> Incomplete(r)
        /\ claim' = claim
    BY <1>2 DEF Building, Starting, Incomplete, db
  <2> QED
    BY <1>1, <1>4, <2>1 DEF OneThing, Claimed, WorkIsClaimed
<1>6. RestWhileBooting'
  <2> SUFFICES ASSUME NEW m \in Master
               PROVE  /\ stage[m] \in {"down", "booting"} => AtRest(m)'
                      /\ stage[m] = "expiring" => BuildsNothing(m)'
    BY <1>2 DEF RestWhileBooting, masters
  <2>1. /\ stage[m] \in {"down", "booting"} => AtRest(m) /\ ~Listening(m)
        /\ stage[m] = "expiring" => BuildsNothing(m)
    BY <1>1 DEF Claimed, RestWhileBooting, Listening
  <2>2. ~Listening(m) => cancel'[m] = cancel[m]
    BY <1>3
  <2> QED
    BY <1>2, <2>1, <2>2 DEF AtRest, BuildsNothing
<1>7. UnclaimedIsIncomplete' /\ ChooserHasRequest' /\ TodoIsKnown' /\ CleaningIsSafe'
  BY <1>1, <1>2 DEF Claimed, UnclaimedIsIncomplete, ChooserHasRequest, TodoIsKnown,
     CleaningIsSafe, Incomplete, db, masters
<1> QED
  BY <1>1, <1>5, <1>6, <1>7 DEF Sound, Claimed

\* What changes no request and nobody's work.
LEMMA ClaimedElsewhere ==
  ASSUME Sound, TypeOK', UNCHANGED <<claim, result, chooser, job, cancel>>,
         RestWhileBooting', TodoIsKnown', CleaningIsSafe'
  PROVE  Sound'
<1>1. Claimed
  BY DEF Sound
<1>2. WorkIsClaimed'
  <2> SUFFICES ASSUME NEW m \in Master, NEW r \in Request PROVE OneThing(m, r)'
    BY DEF WorkIsClaimed
  <2> QED
    BY <1>1 DEF OneThing, Claimed, WorkIsClaimed, Building, Starting, Cancels, Incomplete
<1>3. UnclaimedIsIncomplete' /\ ChooserHasRequest'
  BY <1>1 DEF Claimed, UnclaimedIsIncomplete, ChooserHasRequest, Incomplete
<1> QED
  BY <1>2, <1>3 DEF Sound, Claimed

\* Housekeeping takes the claims of the master that does it, while it has nothing
\* to do with them, and of nobody else.
LEMMA SoundOfHousekeeping ==
  ASSUME Sound, MastersStayApart, NEW m \in Master, Housekeeping(m)
  PROVE  Sound'
<1> USE ClaimsAssumption
<1>1. TypeOK /\ TypeOK' /\ Claimed
  BY TypedOfMasters DEF Sound
<1>2. RestWhileBooting /\ TodoIsKnown /\ CleaningIsSafe
  BY <1>1 DEF Claimed
<1>3. CASE ExpireAll(m)
  <2>1. /\ stage[m] = "booting" /\ cleaning[m] = None
        /\ stage' = [stage EXCEPT ![m] = "expiring"]
        /\ todo' = [todo EXCEPT ![m] = Master \ fresh]
        /\ UNCHANGED <<fresh, cleaning, claim, result, chooser, job, cancel>>
    BY <1>3 DEF ExpireAll, db, work
  <2>2. stage'[m] = "expiring" /\ \A n \in Master : n # m => stage'[n] = stage[n] /\ todo'[n] = todo[n]
    BY <1>1, <2>1 DEF TypeOK
  <2>3. TodoIsKnown'
    BY <1>2, <2>2 DEF TodoIsKnown
  <2>4. CleaningIsSafe'
    BY <1>2, <2>1, <2>2 DEF CleaningIsSafe, Incomplete
  <2>5. RestWhileBooting'
    BY <1>2, <2>1, <2>2 DEF RestWhileBooting, AtRest, BuildsNothing
  <2> QED
    BY <1>1, <2>1, <2>3, <2>4, <2>5, ClaimedElsewhere
<1>4. ASSUME NEW n \in Master, ExpireNext(m, n) PROVE Sound'
  <2>1. /\ n \in todo[m] /\ cleaning[m] = None
        /\ todo' = [todo EXCEPT ![m] = @ \ {n}]
        /\ UNCHANGED <<fresh, stage, claim, result, chooser, job, cancel>>
        /\ \/ cleaning' = cleaning
           \/ cleaning' = [cleaning EXCEPT
                ![m] = [of |-> n, read |-> FALSE, requests |-> {}]]
    BY <1>4 DEF ExpireNext, Deactivate, db, work
  <2>2. stage[m] # "down" /\ (n = m => stage[m] = "expiring")
    BY <1>2, <2>1 DEF TodoIsKnown
  <2>3. TodoIsKnown'
    <3>1. \A k \in Master : todo'[k] \subseteq todo[k]
      BY <1>1, <2>1 DEF TypeOK
    <3> QED
      BY <1>2, <2>1, <3>1 DEF TodoIsKnown
  <2>4. CleaningIsSafe'
    <3>1. CASE cleaning' = cleaning
      BY <1>2, <2>1, <3>1 DEF CleaningIsSafe, Incomplete
    <3>2. CASE cleaning' = [cleaning EXCEPT ![m] = [of |-> n, read |-> FALSE, requests |-> {}]]
      <4> SUFFICES ASSUME NEW k \in Master, cleaning'[k] # None
                   PROVE  /\ stage[k] # "down"
                          /\ cleaning'[k].of = k => stage[k] \in {"booting", "expiring"}
                          /\ \A r \in cleaning'[k].requests :
                               /\ claim[r] = cleaning'[k].of
                               /\ cleaning'[k].of = k => Incomplete(r)
        BY <2>1 DEF CleaningIsSafe, Incomplete
      <4>1. CASE k = m
        <5>1. cleaning'[m].of = n /\ cleaning'[m].requests = {}
          BY <1>1, <3>2 DEF TypeOK
        <5> QED
          BY <2>2, <4>1, <5>1
      <4>2. CASE k # m
        <5>1. cleaning'[k] = cleaning[k]
          BY <1>1, <3>2, <4>2 DEF TypeOK
        <5> QED
          BY <1>2, <5>1 DEF CleaningIsSafe
      <4> QED
        BY <4>1, <4>2
    <3> QED
      BY <2>1, <3>1, <3>2
  <2>5. RestWhileBooting'
    BY <1>2, <2>1 DEF RestWhileBooting, AtRest, BuildsNothing
  <2> QED
    BY <1>1, <2>1, <2>3, <2>4, <2>5, ClaimedElsewhere
<1>5. CASE Up(m)
  <2>1. /\ stage[m] = "expiring" /\ cleaning[m] = None /\ todo[m] = {}
        /\ stage' = [stage EXCEPT ![m] = "up"]
        /\ UNCHANGED <<todo, cleaning, claim, result, chooser, job, cancel>>
    BY <1>5 DEF Up, db, work
  <2>2. stage'[m] = "up" /\ \A n \in Master : n # m => stage'[n] = stage[n]
    BY <1>1, <2>1 DEF TypeOK
  <2>3. TodoIsKnown'
    BY <1>2, <2>1, <2>2 DEF TodoIsKnown
  <2>4. CleaningIsSafe'
    BY <1>2, <2>1, <2>2 DEF CleaningIsSafe, Incomplete
  <2>5. RestWhileBooting'
    BY <1>2, <2>1, <2>2 DEF RestWhileBooting, AtRest, BuildsNothing
  <2> QED
    BY <1>1, <2>1, <2>3, <2>4, <2>5, ClaimedElsewhere
<1>6. CASE HousekeepingReads(m)
  <2> DEFINE Read == {r \in Request : Incomplete(r) /\ claim[r] = cleaning[m].of}
  <2>1. /\ cleaning[m] # None
        /\ cleaning' = [cleaning EXCEPT ![m].read = TRUE, ![m].requests = Read]
        /\ UNCHANGED <<fresh, stage, todo, claim, result, chooser, job, cancel>>
    BY <1>6 DEF HousekeepingReads, db, work
  <2>2. cleaning[m] \in Cleaning
    BY <1>1, <2>1 DEF TypeOK
  <2>3. cleaning'[m].of = cleaning[m].of /\ cleaning'[m].requests = Read
    BY <1>1, <2>1, <2>2 DEF TypeOK, Cleaning
  <2>4. \A k \in Master : k # m => cleaning'[k] = cleaning[k]
    BY <1>1, <2>1 DEF TypeOK
  <2>5. CleaningIsSafe'
    <3> DEFINE Safe(k) ==
          cleaning'[k] # None =>
            /\ stage[k] # "down"
            /\ cleaning'[k].of = k => stage[k] \in {"booting", "expiring"}
            /\ \A r \in cleaning'[k].requests :
                 claim[r] = cleaning'[k].of /\ (cleaning'[k].of = k => Incomplete(r))
    <3>1. UNCHANGED <<stage, claim, result>>
      BY <2>1
    <3>2. (\A k \in Master : Safe(k)) => CleaningIsSafe'
      BY ONLY <3>1, Zenon DEF CleaningIsSafe, Incomplete
    <3> SUFFICES ASSUME NEW k \in Master PROVE Safe(k)
      BY <3>2
    <3>3. CASE k = m
      <4>1. /\ stage[m] # "down"
            /\ cleaning[m].of = m => stage[m] \in {"booting", "expiring"}
        BY <1>2, <2>1 DEF CleaningIsSafe
      <4>2. \A r \in Read : Incomplete(r) /\ claim[r] = cleaning[m].of
        OBVIOUS
      <4> HIDE DEF Read
      <4> QED
        BY ONLY <2>3, <3>3, <4>1, <4>2
    <3>4. CASE k # m
      BY <1>2, <2>4, <3>4 DEF CleaningIsSafe
    <3> QED
      BY <3>3, <3>4
  <2>6. TodoIsKnown' /\ RestWhileBooting'
    BY <1>2, <2>1 DEF TodoIsKnown, RestWhileBooting, AtRest, BuildsNothing
  <2> QED
    BY <1>1, <2>1, <2>5, <2>6, ClaimedElsewhere
<1>7. CASE HousekeepingUnclaims(m)
  <2>1. /\ cleaning[m] # None
        /\ claim' = [r \in Request |->
             IF r \in cleaning[m].requests /\ claim[r] = m THEN None ELSE claim[r]]
        /\ cleaning' = [cleaning EXCEPT ![m] = None]
        /\ UNCHANGED <<result, fresh, stage, todo, chooser, job, cancel>>
    BY <1>7 DEF HousekeepingUnclaims, work
  <2>2. cleaning'[m] = None /\ \A k \in Master : k # m => cleaning'[k] = cleaning[k]
    BY <1>1, <2>1 DEF TypeOK
  <2>3. TodoIsKnown' /\ RestWhileBooting'
    BY <1>2, <2>1 DEF TodoIsKnown, RestWhileBooting, AtRest, BuildsNothing
  <2>4. CASE cleaning[m].of # m
    <3>1. \A r \in cleaning[m].requests : claim[r] # m
      BY <1>2, <2>1, <2>4 DEF CleaningIsSafe
    <3>2. claim' = claim
      BY <1>1, <2>1, <3>1 DEF TypeOK
    <3>3. CleaningIsSafe'
      BY <1>2, <2>1, <2>2, <3>2 DEF CleaningIsSafe, Incomplete
    <3> QED
      BY <1>1, <2>1, <2>3, <3>2, <3>3, ClaimedElsewhere
  <2>5. CASE cleaning[m].of = m
    <3>1. /\ stage[m] \in {"booting", "expiring"}
          /\ \A r \in cleaning[m].requests : claim[r] = m /\ Incomplete(r)
      BY <1>2, <2>1, <2>5 DEF CleaningIsSafe
    <3>2. \A r \in Request : ~Building(m, r) /\ ~Starting(m, r) /\ ~Cancels(m, r)
      <4>1. BuildsNothing(m)
        BY <1>2, <3>1 DEF RestWhileBooting, AtRest
      <4>2. \A r \in Request : ~Cancels(m, r)
        BY <2>1, <2>5 DEF MastersStayApart, Cancels
      <4> QED
        BY <4>1, <4>2 DEF BuildsNothing, Building, Starting
    <3>3. \A r \in Request : \/ claim'[r] = claim[r]
                             \/ claim[r] = m /\ claim'[r] = None /\ Incomplete(r)
      BY <2>1, <3>1
    <3>4. UnclaimedIsIncomplete'
      BY <1>1, <2>1, <3>3 DEF Claimed, UnclaimedIsIncomplete, Incomplete
    <3>5. WorkIsClaimed'
      <4> SUFFICES ASSUME NEW n \in Master, NEW r \in Request PROVE OneThing(n, r)'
        BY DEF WorkIsClaimed
      <4>1. /\ Building(n, r)' <=> Building(n, r)
            /\ Starting(n, r)' <=> Starting(n, r)
            /\ Cancels(n, r)' <=> Cancels(n, r)
            /\ Incomplete(r)' <=> Incomplete(r)
        BY <2>1 DEF Building, Starting, Cancels, Incomplete
      <4>2. CASE n = m
        <5>1. ~Building(m, r) /\ ~Starting(m, r) /\ ~Cancels(m, r)
          BY <3>2
        <5> QED
          BY <4>1, <4>2, <5>1 DEF OneThing
      <4>3. CASE n # m
        <5>1. OneThing(n, r) /\ (claim[r] = n => claim'[r] = n)
          BY <1>1, <3>3, <4>3 DEF Claimed, WorkIsClaimed
        <5> QED
          BY <4>1, <5>1 DEF OneThing
      <4> QED
        BY <4>2, <4>3
    <3>6. CleaningIsSafe'
      <4> SUFFICES ASSUME NEW k \in Master, cleaning'[k] # None
                   PROVE  /\ stage[k] # "down"
                          /\ cleaning[k].of = k => stage[k] \in {"booting", "expiring"}
                          /\ \A r \in cleaning[k].requests :
                               /\ claim'[r] = cleaning[k].of
                               /\ cleaning[k].of = k => Incomplete(r)
        BY <2>1, <2>2 DEF CleaningIsSafe, Incomplete
      <4>1. k # m /\ cleaning[k] # None
        BY <2>2
      <4>2. /\ stage[k] # "down"
            /\ cleaning[k].of = k => stage[k] \in {"booting", "expiring"}
            /\ \A r \in cleaning[k].requests :
                 claim[r] = cleaning[k].of /\ (cleaning[k].of = k => Incomplete(r))
        BY <1>2, <4>1 DEF CleaningIsSafe
      <4>3. cleaning[k] \in Cleaning
        BY <1>1, <4>1 DEF TypeOK
      <4>4. cleaning[k].requests \subseteq Request /\ cleaning[k].of \in Master
        BY <4>3 DEF Cleaning
      <4>5. cleaning[k].of # m
        BY <3>1, <4>1 DEF MastersStayApart
      <4> QED
        BY <3>3, <4>2, <4>4, <4>5
    <3>7. ChooserHasRequest'
      BY <1>1, <2>1 DEF Claimed, ChooserHasRequest
    <3> QED
      BY <1>1, <2>3, <3>4, <3>5, <3>6, <3>7 DEF Sound, Claimed
  <2> QED
    BY <2>4, <2>5
<1> QED
  BY <1>3, <1>4, <1>5, <1>6, <1>7 DEF Housekeeping

\* A heartbeat finds the master itself fresh; one that crashes drops what it had to
\* do; and one that starts has nothing yet.
LEMMA SoundOfMasters ==
  ASSUME Sound, NEW m \in Master,
         Heartbeat(m) \/ Crash(m) \/ Expire(m) \/ Boot(m)
  PROVE  Sound'
<1> USE ClaimsAssumption
<1>1. TypeOK /\ TypeOK' /\ Claimed
  BY TypedOfMasters DEF Sound
<1>2. RestWhileBooting /\ TodoIsKnown /\ CleaningIsSafe
  BY <1>1 DEF Claimed
<1>3. CASE Heartbeat(m)
  <2>1. /\ stage[m] = "up" /\ fresh' = fresh \cup {m}
        /\ todo' = [todo EXCEPT ![m] = Master \ fresh']
        /\ UNCHANGED <<stage, cleaning, claim, result, chooser, job, cancel>>
    BY <1>3 DEF Heartbeat, db, work
  <2>2. TodoIsKnown'
    <3>1. m \notin todo'[m] /\ \A k \in Master : k # m => todo'[k] = todo[k]
      BY <1>1, <2>1 DEF TypeOK
    <3> QED
      BY <1>2, <2>1, <3>1 DEF TodoIsKnown
  <2>3. CleaningIsSafe' /\ RestWhileBooting'
    BY <1>2, <2>1 DEF CleaningIsSafe, Incomplete, RestWhileBooting, AtRest, BuildsNothing
  <2> QED
    BY <1>1, <2>1, <2>2, <2>3, ClaimedElsewhere
<1>4. CASE Crash(m)
  <2>1. /\ stage[m] # "down" /\ stage' = [stage EXCEPT ![m] = "down"]
        /\ todo' = [todo EXCEPT ![m] = {}] /\ cleaning' = [cleaning EXCEPT ![m] = None]
        /\ UNCHANGED <<fresh, claim, result>>
    BY <1>4 DEF Crash, db
  <2>2. /\ stage'[m] = "down" /\ todo'[m] = {} /\ cleaning'[m] = None
        /\ \A n \in Master : n # m =>
             stage'[n] = stage[n] /\ todo'[n] = todo[n] /\ cleaning'[n] = cleaning[n]
    BY <1>1, <2>1 DEF TypeOK
  <2>3. AtRest(m)' /\ \A n \in Master : n # m => UNCHANGED <<chooser[n], job[n], cancel[n]>>
    BY <1>1, <1>4 DEF Crash, AtRest, BuildsNothing, IdleChooser, NoJob, TypeOK
  <2>4. WorkIsClaimed'
    <3> SUFFICES ASSUME NEW n \in Master, NEW r \in Request PROVE OneThing(n, r)'
      BY DEF WorkIsClaimed
    <3>1. CASE n = m
      <4>1. ~Building(m, r)' /\ ~Starting(m, r)' /\ ~Cancels(m, r)'
        BY <2>3 DEF AtRest, BuildsNothing, Building, Starting, Cancels
      <4> QED
        BY <3>1, <4>1 DEF OneThing
    <3>2. CASE n # m
      <4>1. OneThing(n, r)
        BY <1>1 DEF Claimed, WorkIsClaimed
      <4> QED
        BY <2>1, <2>3, <3>2, <4>1 DEF OneThing, Building, Starting, Cancels, Incomplete
    <3> QED
      BY <3>1, <3>2
  <2>5. ChooserHasRequest'
    BY <1>1, <2>3 DEF Claimed, ChooserHasRequest, AtRest, BuildsNothing
  <2>6. RestWhileBooting'
    BY <1>2, <2>2, <2>3 DEF RestWhileBooting, AtRest, BuildsNothing
  <2>7. TodoIsKnown'
    BY <1>2, <2>2 DEF TodoIsKnown
  <2>8. CleaningIsSafe'
    BY <1>2, <2>1, <2>2 DEF CleaningIsSafe, Incomplete
  <2>9. UnclaimedIsIncomplete'
    BY <1>1, <2>1 DEF Claimed, UnclaimedIsIncomplete, Incomplete
  <2> QED
    BY <1>1, <2>4, <2>5, <2>6, <2>7, <2>8, <2>9 DEF Sound, Claimed
<1>5. CASE Expire(m)
  <2>1. UNCHANGED <<stage, todo, cleaning, claim, result, chooser, job, cancel>>
    BY <1>5 DEF Expire, db, work
  <2>2. TodoIsKnown' /\ CleaningIsSafe' /\ RestWhileBooting'
    BY <1>2, <2>1
    DEF TodoIsKnown, CleaningIsSafe, Incomplete, RestWhileBooting, AtRest, BuildsNothing
  <2> QED
    BY <1>1, <2>1, <2>2, ClaimedElsewhere
<1>6. CASE Boot(m)
  <2>1. /\ stage[m] = "down" /\ stage' = [stage EXCEPT ![m] = "booting"]
        /\ UNCHANGED <<fresh, todo, claim, result, chooser, job, cancel>>
        /\ \/ cleaning' = cleaning
           \/ cleaning' = [cleaning EXCEPT
                ![m] = [of |-> m, read |-> FALSE, requests |-> {}]]
    BY <1>6 DEF Boot, Deactivate, db, work
  <2>2. stage'[m] = "booting" /\ \A k \in Master : k # m => stage'[k] = stage[k]
    BY <1>1, <2>1 DEF TypeOK
  <2>3. TodoIsKnown'
    BY <1>2, <2>1, <2>2 DEF TodoIsKnown
  <2>4. CleaningIsSafe'
    <3>1. CASE cleaning' = cleaning
      BY <1>2, <2>1, <2>2, <3>1 DEF CleaningIsSafe, Incomplete
    <3>2. CASE cleaning' = [cleaning EXCEPT ![m] = [of |-> m, read |-> FALSE, requests |-> {}]]
      <4>1. /\ cleaning'[m].of = m /\ cleaning'[m].requests = {}
            /\ \A k \in Master : k # m => cleaning'[k] = cleaning[k]
        BY <1>1, <3>2 DEF TypeOK
      <4> SUFFICES ASSUME NEW k \in Master, cleaning'[k] # None
                   PROVE  /\ stage'[k] # "down"
                          /\ cleaning'[k].of = k => stage'[k] \in {"booting", "expiring"}
                          /\ \A r \in cleaning'[k].requests :
                               /\ claim[r] = cleaning'[k].of
                               /\ cleaning'[k].of = k => Incomplete(r)
        BY <2>1 DEF CleaningIsSafe, Incomplete
      <4>2. CASE k = m
        BY <2>2, <4>1, <4>2
      <4>3. CASE k # m
        BY <1>2, <2>2, <4>1, <4>3 DEF CleaningIsSafe
      <4> QED
        BY <4>2, <4>3
    <3> QED
      BY <2>1, <3>1, <3>2
  <2>5. RestWhileBooting'
    BY <1>2, <2>1, <2>2 DEF RestWhileBooting, AtRest, BuildsNothing
  <2> QED
    BY <1>1, <2>1, <2>3, <2>4, <2>5, ClaimedElsewhere
<1> QED
  BY <1>3, <1>4, <1>5, <1>6

\* Nobody works on anything yet, and what is complete has a claim.
LEMMA SoundAtFirst == Init => Sound
<1> SUFFICES ASSUME Init PROVE Claimed
  BY TypedAtFirst DEF Sound
<1> USE ClaimsAssumption
<1>1. PICK s \in Starts :
        /\ claim = [r \in Request |-> IF r \in s.open THEN None
                                    ELSE CHOOSE m \in s.up : TRUE]
        /\ result = [r \in Request |-> IF r \in s.open THEN None ELSE "failure"]
        /\ fresh = s.up /\ stage = [n \in Master |-> IF n \in s.up THEN "up" ELSE "down"]
  BY DEF Init
<1>2. s.up \subseteq Master /\ s.up # {}
  OBVIOUS
<1>3. (CHOOSE m \in s.up : TRUE) \in Master
  BY <1>2
<1>4. UnclaimedIsIncomplete
  BY <1>1, <1>3 DEF UnclaimedIsIncomplete, Incomplete
<1>5. \A m \in Master : /\ chooser[m].stage = "idle" /\ todo[m] = {} /\ cleaning[m] = None
                        /\ \A r \in Request : job[m][r].stage = "none" /\ cancel[m][r] = "none"
  BY DEF Init, IdleChooser, NoJob
<1>6. WorkIsClaimed /\ ChooserHasRequest /\ RestWhileBooting
  BY <1>5 DEF WorkIsClaimed, OneThing, Building, Starting, Cancels, ChooserHasRequest,
     RestWhileBooting, AtRest, BuildsNothing
<1>7. TodoIsKnown /\ CleaningIsSafe
  BY <1>5 DEF TodoIsKnown, CleaningIsSafe
<1> QED
  BY <1>4, <1>6, <1>7 DEF Claimed

\* Every step keeps the claims sound, if the masters are apart when it is taken.
LEMMA NextKeepsSound == Sound /\ MastersStayApart /\ [Next]_vars => Sound'
<1> SUFFICES ASSUME Sound, MastersStayApart, [Next]_vars PROVE Sound'
  OBVIOUS
<1>1. CASE UNCHANGED vars
  <2>1. TypeOK'
    BY <1>1 DEF vars, db, masters, work, bounds, Sound, TypeOK
  <2>2. TodoIsKnown' /\ CleaningIsSafe' /\ RestWhileBooting'
    BY <1>1 DEF vars, db, masters, work, Sound, Claimed, TodoIsKnown, CleaningIsSafe,
       Incomplete, RestWhileBooting, AtRest, BuildsNothing
  <2> QED
    BY <1>1, <2>1, <2>2, ClaimedElsewhere DEF vars, db, masters, work
<1> QED
  BY <1>1, SoundOfMaster, SoundOfRequest, SoundOfCancelling, SoundOfCancel,
     SoundOfHousekeeping, SoundOfMasters DEF Next

\* The claims say who works on what, whatever crashes, starts again, is returned,
\* cancelled or cleaned up, as long as masters stay apart.
THEOREM ClaimsStaySound == Spec /\ []MastersStayApart => []Sound
  BY SoundAtFirst, NextKeepsSound, PTL DEF Spec

\* Then who builds a request is the only one to.
LEMMA SoundBuildsOnce == Sound => OneBuildAtATime
<1> SUFFICES ASSUME Sound, NEW m \in Master, NEW r \in Request, Building(m, r)
             PROVE  /\ claim[r] = m /\ Incomplete(r)
                    /\ \A n \in Master \ {m} : ~Building(n, r)
  BY DEF OneBuildAtATime
<1>1. \A n \in Master : Building(n, r) => claim[r] = n /\ Incomplete(r)
  BY DEF Sound, Claimed, WorkIsClaimed, OneThing
<1> QED
  BY <1>1

\* While a build of a request is under way it is the only one in the cluster, its
\* master has the claim and the request is incomplete, although masters that were
\* expired start again, as long as masters stay apart (db/buildrequests.py,
\* claimBuildRequests, and every way of losing the claim).
THEOREM ReturnsBuildOnce == Spec /\ []MastersStayApart => []OneBuildAtATime
  BY SoundBuildsOnce, ClaimsStaySound, PTL

-----------------------------------------------------------------------------
(* Masters that were expired and do not start again *)

\* Then who is not fresh is gone for good.
Gone(n) == n \notin fresh
GoneIsDown ==
  /\ \A n \in Master : Gone(n) => stage[n] = "down"
  /\ \A m \in Master : \A n \in todo[m] : Gone(n) /\ n # m

\* A master cleans up after itself first, or after one that is gone.
CleansTheGone ==
  \A m \in Master : cleaning[m] # None =>
    /\ cleaning[m].of = m => stage[m] = "booting"
    /\ cleaning[m].of # m => Gone(cleaning[m].of)

Departed == GoneIsDown /\ CleansTheGone

\* Nobody is gone but those that never were there.
LEMMA DepartedAtFirst == Init => Departed
  BY DEF Init, Departed, GoneIsDown, CleansTheGone, Gone

\* Steps of the masters themselves: only who is down may be gone, and stays so.
LEMMA DepartedOfMasters ==
  ASSUME TypeOK, Departed, NobodyReturns, NEW m \in Master,
         Housekeeping(m) \/ Heartbeat(m) \/ Crash(m) \/ Expire(m) \/ Boot(m)
  PROVE  Departed'
<1> USE ClaimsAssumption
<1>1. GoneIsDown /\ CleansTheGone
  BY DEF Departed
<1>2. ASSUME cleaning' = cleaning \/ cleaning' = [cleaning EXCEPT ![m] = None],
             fresh' \subseteq fresh,
             \A n \in Master \ {m} : stage'[n] = stage[n],
             stage[m] = "booting" => stage'[m] = "booting" \/ cleaning'[m] = None
      PROVE  CleansTheGone'
  <2> SUFFICES ASSUME NEW k \in Master, cleaning'[k] # None
               PROVE  /\ cleaning'[k].of = k => stage'[k] = "booting"
                      /\ cleaning'[k].of # k => cleaning'[k].of \notin fresh'
    BY DEF CleansTheGone, Gone
  <2>1. cleaning'[k] = cleaning[k]
    BY <1>2 DEF TypeOK
  <2> QED
    BY <1>1, <1>2, <2>1 DEF CleansTheGone, Gone
<1>3. CASE ExpireAll(m)
  <2>1. /\ stage[m] = "booting" /\ cleaning[m] = None
        /\ stage' = [stage EXCEPT ![m] = "expiring"]
        /\ todo' = [todo EXCEPT ![m] = Master \ fresh]
        /\ UNCHANGED <<fresh, cleaning>>
    BY <1>3 DEF ExpireAll
  <2>2. \A n \in Master \ {m} : stage'[n] = stage[n] /\ todo'[n] = todo[n]
    BY <2>1 DEF TypeOK
  <2>3. m \in fresh /\ stage'[m] = "expiring" /\ todo'[m] = Master \ fresh
    BY <1>1, <2>1 DEF GoneIsDown, Gone, TypeOK
  <2>4. GoneIsDown'
    BY <1>1, <2>1, <2>2, <2>3 DEF GoneIsDown, Gone
  <2> QED
    BY <1>2, <2>1, <2>2, <2>4 DEF Departed
<1>4. ASSUME NEW n \in Master, ExpireNext(m, n) PROVE Departed'
  <2>1. /\ n \in todo[m]
        /\ todo' = [todo EXCEPT ![m] = @ \ {n}]
        /\ UNCHANGED <<fresh, stage>>
        /\ \/ cleaning' = cleaning
           \/ cleaning' = [cleaning EXCEPT
                ![m] = [of |-> n, read |-> FALSE, requests |-> {}]]
    BY <1>4 DEF ExpireNext, Deactivate
  <2>2. Gone(n) /\ n # m
    BY <1>1, <2>1 DEF GoneIsDown
  <2>3. GoneIsDown'
    BY <1>1, <2>1 DEF GoneIsDown, Gone, TypeOK
  <2>4. CASE cleaning' = cleaning
    BY <1>2, <2>1, <2>3, <2>4 DEF Departed
  <2>5. CASE cleaning' = [cleaning EXCEPT ![m] = [of |-> n, read |-> FALSE, requests |-> {}]]
    <3>1. cleaning'[m].of = n /\ \A k \in Master : k # m => cleaning'[k] = cleaning[k]
      BY <2>5 DEF TypeOK
    <3>2. CleansTheGone'
      BY <1>1, <2>1, <2>2, <3>1 DEF CleansTheGone, Gone
    <3> QED
      BY <2>3, <3>2 DEF Departed
  <2> QED
    BY <2>1, <2>4, <2>5
<1>5. CASE Up(m)
  <2>1. /\ stage[m] = "expiring" /\ stage' = [stage EXCEPT ![m] = "up"]
        /\ fresh' = fresh \cup {m} /\ UNCHANGED <<todo, cleaning>>
    BY <1>5 DEF Up
  <2>2. fresh' = fresh /\ m \in fresh
    BY <1>1, <2>1 DEF GoneIsDown, Gone
  <2>3. \A n \in Master \ {m} : stage'[n] = stage[n]
    BY <2>1 DEF TypeOK
  <2>4. GoneIsDown'
    BY <1>1, <2>1, <2>2, <2>3 DEF GoneIsDown, Gone
  <2> QED
    BY <1>2, <2>1, <2>2, <2>3, <2>4 DEF Departed
<1>6. CASE HousekeepingReads(m)
  <2>1. /\ cleaning[m] # None /\ UNCHANGED <<fresh, stage, todo>>
        /\ \E q : cleaning' = [cleaning EXCEPT ![m].read = TRUE, ![m].requests = q]
    BY <1>6 DEF HousekeepingReads
  <2>2. cleaning[m] \in Cleaning
    BY <2>1 DEF TypeOK
  <2>3. /\ cleaning'[m].of = cleaning[m].of
        /\ \A k \in Master : k # m => cleaning'[k] = cleaning[k]
    BY <2>1, <2>2 DEF TypeOK, Cleaning
  <2>4. CleansTheGone'
    BY <1>1, <2>1, <2>3 DEF CleansTheGone, Gone
  <2> QED
    BY <1>1, <2>1, <2>4 DEF Departed, GoneIsDown, Gone
<1>7. CASE HousekeepingUnclaims(m)
  <2>1. cleaning' = [cleaning EXCEPT ![m] = None] /\ UNCHANGED <<fresh, stage, todo>>
    BY <1>7 DEF HousekeepingUnclaims
  <2> QED
    BY <1>1, <1>2, <2>1 DEF Departed, GoneIsDown, Gone
<1>8. CASE Heartbeat(m)
  <2>1. /\ stage[m] = "up" /\ fresh' = fresh \cup {m}
        /\ todo' = [todo EXCEPT ![m] = Master \ fresh'] /\ UNCHANGED <<stage, cleaning>>
    BY <1>8 DEF Heartbeat
  <2>2. fresh' = fresh /\ m \in fresh
    BY <1>1, <2>1 DEF GoneIsDown, Gone
  <2>3. todo'[m] = Master \ fresh /\ \A k \in Master : k # m => todo'[k] = todo[k]
    BY <2>1, <2>2 DEF TypeOK
  <2>4. GoneIsDown'
    BY <1>1, <2>1, <2>2, <2>3 DEF GoneIsDown, Gone
  <2> QED
    BY <1>2, <2>1, <2>2, <2>4 DEF Departed
<1>9. CASE Crash(m)
  <2>1. /\ stage[m] # "down" /\ stage' = [stage EXCEPT ![m] = "down"]
        /\ todo' = [todo EXCEPT ![m] = {}] /\ cleaning' = [cleaning EXCEPT ![m] = None]
        /\ UNCHANGED fresh
    BY <1>9 DEF Crash
  <2>2. /\ stage'[m] = "down" /\ todo'[m] = {} /\ cleaning'[m] = None
        /\ \A n \in Master : n # m => stage'[n] = stage[n] /\ todo'[n] = todo[n]
    BY <2>1 DEF TypeOK
  <2>3. GoneIsDown'
    BY <1>1, <2>1, <2>2 DEF GoneIsDown, Gone
  <2> QED
    BY <1>2, <2>1, <2>2, <2>3 DEF Departed
<1>10. CASE Expire(m)
  <2>1. stage[m] = "down" /\ fresh' = fresh \ {m} /\ UNCHANGED <<stage, todo, cleaning>>
    BY <1>10 DEF Expire
  <2>2. GoneIsDown'
    BY <1>1, <2>1 DEF GoneIsDown, Gone
  <2> QED
    BY <1>2, <2>1, <2>2 DEF Departed
<1>11. CASE Boot(m)
  <2>1. /\ stage[m] = "down" /\ m \in fresh /\ stage' = [stage EXCEPT ![m] = "booting"]
        /\ UNCHANGED <<fresh, todo>>
        /\ \/ cleaning' = cleaning
           \/ cleaning' = [cleaning EXCEPT
                ![m] = [of |-> m, read |-> FALSE, requests |-> {}]]
    BY <1>11 DEF Boot, Deactivate, NobodyReturns
  <2>2. stage'[m] = "booting" /\ \A k \in Master : k # m => stage'[k] = stage[k]
    BY <2>1 DEF TypeOK
  <2>3. GoneIsDown'
    BY <1>1, <2>1, <2>2 DEF GoneIsDown, Gone
  <2>4. CASE cleaning' = cleaning
    BY <1>2, <2>1, <2>2, <2>3, <2>4 DEF Departed
  <2>5. CASE cleaning' = [cleaning EXCEPT ![m] = [of |-> m, read |-> FALSE, requests |-> {}]]
    <3>1. cleaning'[m].of = m /\ \A k \in Master : k # m => cleaning'[k] = cleaning[k]
      BY <2>5 DEF TypeOK
    <3>2. CleansTheGone'
      BY <1>1, <2>1, <2>2, <3>1 DEF CleansTheGone, Gone
    <3> QED
      BY <2>3, <3>2 DEF Departed
  <2> QED
    BY <2>1, <2>4, <2>5
<1> QED
  BY <1>3, <1>4, <1>5, <1>6, <1>7, <1>8, <1>9, <1>10, <1>11 DEF Housekeeping

\* The others are about requests.
LEMMA NextKeepsDeparted ==
  ASSUME NobodyReturns, TypeOK, Departed, [Next]_vars
  PROVE  Departed'
<1>1. UNCHANGED masters => Departed'
  BY DEF masters, Departed, GoneIsDown, CleansTheGone, Gone
<1>2. ASSUME NEW m \in Master, OfMaster(m) PROVE UNCHANGED masters
  BY <1>2 DEF OfMaster, TakeUp, Fetch, Choose, ClaimBuildRequest, StartBuild
<1>3. ASSUME NEW m \in Master, NEW r \in Request, OfRequest(m, r) PROVE UNCHANGED masters
  BY <1>3 DEF OfRequest, SubscribeToStop, CheckCancelled, FinishBuild, Resubmit, TellUnclaimed,
     CompleteBuildRequest, AfterCompletion
<1>4. ASSUME NEW m \in Master, NEW r \in Request, Cancelling(m, r) PROVE UNCHANGED masters
  BY <1>4 DEF Cancelling, CancelClaims, CancelCompletes, CancelMarks, CancelStops
<1>5. ASSUME NEW r \in Request, Cancel(r) PROVE UNCHANGED masters
  BY <1>5 DEF Cancel
<1>6. UNCHANGED vars => UNCHANGED masters
  BY DEF vars
<1> QED
  BY <1>1, <1>2, <1>3, <1>4, <1>5, <1>6, DepartedOfMasters DEF Next

\* The masters are apart then: who is gone is down, and who cleans up after itself
\* has not begun to listen.
LEMMA DepartedStayApart == Sound /\ Departed => MastersStayApart
  BY DEF Sound, TypeOK, Cleaning, Claimed, RestWhileBooting, AtRest, Departed, GoneIsDown,
     CleansTheGone, MastersStayApart

\* If nobody starts again after it was expired, the masters stay apart, and the
\* claims say who works on what.
THEOREM ClaimsAreSound ==
  ASSUME NobodyReturns PROVE Spec => [](Sound /\ MastersStayApart)
<1>1. Sound /\ Departed /\ [Next]_vars => (Sound /\ Departed)'
  <2> SUFFICES ASSUME Sound, Departed, [Next]_vars PROVE Sound' /\ Departed'
    OBVIOUS
  <2>1. MastersStayApart /\ TypeOK
    BY DepartedStayApart DEF Sound
  <2> QED
    BY <2>1, NextKeepsSound, NextKeepsDeparted
<1> QED
  BY <1>1, SoundAtFirst, DepartedAtFirst, DepartedStayApart, PTL DEF Spec

\* Then a request under way is built by one master, which has its claim.
THEOREM RequestsAreBuiltOnce == ASSUME NobodyReturns PROVE Spec => []OneBuildAtATime
  BY SoundBuildsOnce, ClaimsAreSound, PTL

-----------------------------------------------------------------------------
(* Cancellations *)

Chosen(m, r) == chooser[m].stage \in {"claiming", "starting"} /\ chooser[m].request = r
Entering(m, r) == job[m][r].stage \in {"created", "subscribed"}
Stops(m, r) == cancel[m][r] \in {"marked", "done"}

\* Until a build listens to stop messages its request is among those that start, and
\* a master that has to stop it keeps the claim and has told the start.
Reached(m, r) ==
  /\ Chosen(m, r) \/ Entering(m, r) => starting[m][r] # None
  /\ Stops(m, r) => claim[r] = m
  /\ Stops(m, r) /\ (Starting(m, r) \/ Entering(m, r)) => starting[m][r] = "cancelled"
  /\ cancel[m][r] = "done" /\ job[m][r].stage = "running" => job[m][r].stopped

\* A distributor starts a build only while the worker is free.
WorkerIsFree(m) == chooser[m].stage \in {"claiming", "starting"} => ~Busy(m)

CancelsReach == \A m \in Master : WorkerIsFree(m) /\ \A r \in Request : Reached(m, r)

\* A master starts nothing, and has nothing to stop, before it is up.
QuietUntilUp == \A m \in Master : stage[m] # "up" =>
  \A r \in Request : starting[m][r] = None /\ ~Stops(m, r)

\* What a master starts or stops is new only if it chooses or builds.
LEMMA QuietWhenBuilding ==
  ASSUME QuietUntilUp, UNCHANGED stage,
         \A m \in Master, r \in Request :
           \/ stage[m] = "up"
           \/ /\ starting[m][r] = None => starting'[m][r] = None
              /\ Stops(m, r)' => Stops(m, r)
  PROVE  QuietUntilUp'
  BY DEF QuietUntilUp

\* Only who is up takes up builders and builds.
LEMMA UpToWork ==
  ASSUME Sound, NEW m \in Master,
         \/ chooser[m].stage # "idle"
         \/ \E r \in Request : job[m][r].stage # "none"
  PROVE  stage[m] = "up"
<1>1. stage[m] \in {"down", "booting", "expiring", "up"}
  BY DEF Sound, TypeOK
<1>2. ~BuildsNothing(m)
  BY DEF BuildsNothing
<1> QED
  BY <1>1, <1>2 DEF Sound, Claimed, RestWhileBooting, AtRest

\* One entry of what a master cancels is set.
LEMMA CancelIsSet ==
  ASSUME TypeOK, NEW m \in Master, NEW q \in Request, NEW v, SetCancel(m, q, v)
  PROVE  /\ cancel'[m][q] = v
         /\ \A n \in Master, r \in Request :
              ~(n = m /\ r = q) => cancel'[n][r] = cancel[n][r]
<1>1. cancel \in [Master -> [Request -> CancelStage]]
  BY DEF TypeOK, CancelStage
<1> QED
  BY <1>1 DEF SetCancel

\* Every step keeps it so.
LEMMA NextKeepsQuiet == Sound /\ TypeOK' /\ QuietUntilUp /\ [Next]_vars => QuietUntilUp'
<1> SUFFICES ASSUME Sound, TypeOK', QuietUntilUp, [Next]_vars PROVE QuietUntilUp'
  OBVIOUS
<1> USE ClaimsAssumption
<1>1. TypeOK
  BY DEF Sound
<1>2. CASE UNCHANGED vars
  BY <1>2 DEF vars, masters, work, QuietUntilUp, Stops
<1>3. ASSUME NEW m \in Master, OfMaster(m) PROVE QuietUntilUp'
  <2>1. UNCHANGED <<stage, cancel>> /\ \A n \in Master \ {m} : starting'[n] = starting[n]
    BY <1>1, <1>3
    DEF OfMaster, TakeUp, Fetch, Choose, ClaimBuildRequest, StartBuild, masters, TypeOK
  <2>2. stage[m] = "up"
    BY <1>3, UpToWork DEF OfMaster, TakeUp, Fetch, Choose, ClaimBuildRequest, StartBuild
  <2> QED
    BY <2>1, <2>2, QuietWhenBuilding DEF Stops
<1>4. ASSUME NEW m \in Master, NEW q \in Request, OfRequest(m, q) PROVE QuietUntilUp'
  <2>1. CASE \/ SubscribeToStop(m, q) \/ FinishBuild(m, q) \/ CompleteBuildRequest(m, q)
             \/ TellUnclaimed(m, q)
    <3>1. UNCHANGED <<stage, starting, cancel>>
      BY <2>1 DEF SubscribeToStop, FinishBuild, CompleteBuildRequest, TellUnclaimed, masters
    <3> QED
      BY <3>1, QuietWhenBuilding DEF Stops
  <2>2. CASE CheckCancelled(m, q)
    <3>1. UNCHANGED <<stage, cancel>> /\ starting' = [starting EXCEPT ![m][q] = None]
      BY <2>2 DEF CheckCancelled, masters
    <3>2. \A n \in Master, r \in Request :
            starting'[n][r] = starting[n][r] \/ starting'[n][r] = None
      BY <1>1, <3>1 DEF TypeOK
    <3> QED
      BY <3>1, <3>2, QuietWhenBuilding DEF Stops
  <2>3. CASE Resubmit(m, q) \/ AfterCompletion(m, q)
    <3>1. UNCHANGED <<stage, starting>>
      BY <2>3 DEF Resubmit, AfterCompletion, masters
    <3>2. CASE cancel' = cancel
      BY <3>1, <3>2, QuietWhenBuilding DEF Stops
    <3>3. CASE Resubmit(m, q)
      <4>1. PICK v : SetCancel(m, q, v) /\ v \notin {"marked", "done"}
        <5> DEFINE v == CASE cancel[m][q] = "done" -> "none"
                          [] cancel[m][q] = "marked" -> "passed" [] OTHER -> cancel[m][q]
        <5>1. SetCancel(m, q, v)
          BY <1>1, <3>3 DEF Resubmit, SetCancel, TypeOK
        <5>2. v \notin {"marked", "done"}
          OBVIOUS
        <5> QED
          BY <5>1, <5>2
      <4>2. \A n \in Master, r \in Request : Stops(n, r)' => Stops(n, r)
        BY <1>1, <4>1, CancelIsSet DEF Stops
      <4> QED
        BY <3>1, <4>2, QuietWhenBuilding
    <3>4. CASE AfterCompletion(m, q) /\ SetCancel(m, q, "none")
      <4>1. \A n \in Master, r \in Request : Stops(n, r)' => Stops(n, r)
        BY <1>1, <3>4, CancelIsSet DEF Stops
      <4> QED
        BY <3>1, <4>1, QuietWhenBuilding
    <3> QED
      BY <2>3, <3>2, <3>3, <3>4 DEF AfterCompletion, SetCancel
  <2> QED
    BY <1>4, <2>1, <2>2, <2>3 DEF OfRequest
<1>5. ASSUME NEW m \in Master, NEW q \in Request, Cancelling(m, q) PROVE QuietUntilUp'
  <2>1. stage' = stage
    BY <1>5 DEF Cancelling, CancelClaims, CancelCompletes, CancelMarks, CancelStops, masters
  <2>2. CASE CancelClaims(m, q) \/ CancelCompletes(m, q) \/ CancelStops(m, q)
    <3>1. starting' = starting
      BY <2>2 DEF CancelClaims, CancelCompletes, CancelStops
    <3>2. PICK v : SetCancel(m, q, v) /\ (v \in {"marked", "done"} => Stops(m, q))
      BY <2>2 DEF CancelClaims, CancelCompletes, CancelStops, Stops
    <3>3. \A n \in Master, r \in Request : Stops(n, r)' => Stops(n, r)
      BY <1>1, <3>2, CancelIsSet DEF Stops
    <3> QED
      BY <2>1, <3>1, <3>3, QuietWhenBuilding
  <2>3. CASE CancelMarks(m, q)
    <3>1. /\ starting' = [starting EXCEPT ![m][q] = IF @ = None THEN None ELSE "cancelled"]
          /\ \E v : /\ SetCancel(m, q, v)
                    /\ v = "marked" => starting[m][q] # None \/ job[m][q].stage # "none"
                    /\ v \in {"marked", "passed"}
      BY <2>3 DEF CancelMarks
    <3>2. \A n \in Master, r \in Request : starting[n][r] = None => starting'[n][r] = None
      BY <1>1, <3>1 DEF TypeOK
    <3>3. /\ \A n \in Master, r \in Request :
               ~(n = m /\ r = q) => cancel'[n][r] = cancel[n][r]
          /\ Stops(m, q)' => starting[m][q] # None \/ job[m][q].stage # "none"
      BY <1>1, <3>1, CancelIsSet DEF Stops
    <3>4. Stops(m, q)' => stage[m] = "up"
      BY <3>3, UpToWork DEF QuietUntilUp
    <3> QED
      BY <2>1, <3>2, <3>3, <3>4, QuietWhenBuilding DEF Stops
  <2> QED
    BY <1>5, <2>2, <2>3 DEF Cancelling
<1>6. ASSUME NEW q \in Request, Cancel(q) PROVE QuietUntilUp'
  <2>1. UNCHANGED <<stage, starting>>
    BY <1>6 DEF Cancel, masters
  <2>2. \A m \in Master, r \in Request :
          cancel'[m][r] = cancel[m][r] \/ cancel'[m][r] = "asked"
    BY <1>1, <1>6 DEF Cancel, TypeOK
  <2> QED
    BY <2>1, <2>2, QuietWhenBuilding DEF Stops
<1>7. ASSUME NEW m \in Master,
             Housekeeping(m) \/ Heartbeat(m) \/ Crash(m) \/ Expire(m) \/ Boot(m)
      PROVE  QuietUntilUp'
  <2>1. CASE Crash(m)
    <3>1. \A r \in Request : starting'[m][r] = None /\ ~Stops(m, r)'
      BY <1>1, <2>1 DEF Crash, TypeOK, NoneYet, Stops
    <3>2. \A n \in Master \ {m} : UNCHANGED <<stage[n], starting[n], cancel[n]>>
      BY <1>1, <2>1 DEF Crash, TypeOK
    <3> QED
      BY <3>1, <3>2 DEF QuietUntilUp, Stops
  <2>2. CASE ~Crash(m)
    <3>1. UNCHANGED <<starting, cancel>>
      BY <1>7, <2>2 DEF Housekeeping, ExpireAll, ExpireNext, Up, HousekeepingReads,
         HousekeepingUnclaims, Heartbeat, Expire, Boot, work
    <3>2. \/ stage' = stage
          \/ stage[m] # "up" /\ \E v : stage' = [stage EXCEPT ![m] = v]
      <4>1. CASE Housekeeping(m)
        BY <4>1 DEF Housekeeping, ExpireAll, ExpireNext, Up, HousekeepingReads,
           HousekeepingUnclaims
      <4>2. CASE Heartbeat(m) \/ Expire(m) \/ Boot(m)
        BY <4>2 DEF Heartbeat, Expire, Boot
      <4> QED
        BY <1>7, <2>2, <4>1, <4>2
    <3>3. \A n \in Master : stage[n] = "up" => stage'[n] = "up"
      BY <1>1, <3>2 DEF TypeOK
    <3> QED
      BY <3>1, <3>3 DEF QuietUntilUp, Stops
  <2> QED
    BY <2>1, <2>2
<1> QED
  BY <1>2, <1>3, <1>4, <1>5, <1>6, <1>7 DEF Next

\* A step of one master leaves the others what they have and what they claimed.
LEMMA ReachedWhenActing ==
  ASSUME CancelsReach, NEW m \in Master,
         WorkerIsFree(m)', \A r \in Request : Reached(m, r)',
         \A n \in Master \ {m} :
           UNCHANGED <<chooser[n], job[n], starting[n], cancel[n]>>,
         \A n \in Master \ {m}, r \in Request : claim[r] = n => claim'[r] = n
  PROVE  CancelsReach'
<1> SUFFICES ASSUME NEW n \in Master, n # m
             PROVE  WorkerIsFree(n)' /\ \A r \in Request : Reached(n, r)'
  BY DEF CancelsReach
<1>1. /\ chooser'[n] = chooser[n] /\ job'[n] = job[n]
      /\ starting'[n] = starting[n] /\ cancel'[n] = cancel[n]
  OBVIOUS
<1>2. WorkerIsFree(n)'
  BY <1>1 DEF CancelsReach, WorkerIsFree, Busy
<1>3. ASSUME NEW r \in Request PROVE Reached(n, r)'
  <2>1. Reached(n, r) /\ (claim[r] = n => claim'[r] = n)
    BY DEF CancelsReach
  <2> QED
    BY <1>1, <2>1 DEF Reached, Chosen, Entering, Stops, Starting
<1> QED
  BY <1>2, <1>3

\* What changes no claim and nobody's work.
LEMMA ReachedElsewhere ==
  ASSUME CancelsReach, UNCHANGED <<chooser, job, starting, cancel>>,
         \A m \in Master, r \in Request : Stops(m, r) /\ claim[r] = m => claim'[r] = m
  PROVE  CancelsReach'
<1> SUFFICES ASSUME NEW m \in Master
             PROVE  WorkerIsFree(m)' /\ \A r \in Request : Reached(m, r)'
  BY DEF CancelsReach
<1>1. WorkerIsFree(m)'
  BY DEF CancelsReach, WorkerIsFree, Busy
<1>2. ASSUME NEW r \in Request PROVE Reached(m, r)'
  <2>1. Reached(m, r) /\ (Stops(m, r) /\ claim[r] = m => claim'[r] = m)
    BY DEF CancelsReach
  <2> QED
    BY <2>1 DEF Reached, Chosen, Entering, Stops, Starting
<1> QED
  BY <1>1, <1>2

\* The distributor chooses while the worker is free, and claims what nobody has.
LEMMA ReachedOfMaster ==
  ASSUME TypeOK, TypeOK', CancelsReach, NEW m \in Master, OfMaster(m)
  PROVE  CancelsReach'
<1> USE ClaimsAssumption
<1>1. WorkerIsFree(m) /\ \A r \in Request : Reached(m, r)
  BY DEF CancelsReach
<1>2. /\ cancel' = cancel
      /\ \A n \in Master \ {m} : UNCHANGED <<chooser[n], job[n], starting[n]>>
  BY DEF OfMaster, TakeUp, Fetch, Choose, ClaimBuildRequest, StartBuild, TypeOK
<1>3. \A r \in Request : claim[r] # None => claim'[r] = claim[r]
  BY DEF OfMaster, TakeUp, Fetch, Choose, ClaimBuildRequest, StartBuild, TypeOK, db
<1>4. \A n \in Master \ {m}, r \in Request : claim[r] = n => claim'[r] = n
  BY <1>3
<1>5. ASSUME WorkerIsFree(m)', \A r \in Request : Reached(m, r)'
      PROVE  CancelsReach'
  BY <1>2, <1>4, <1>5, ReachedWhenActing
<1>6. chooser[m] \in Chooser
  BY DEF TypeOK
<1>7. ASSUME UNCHANGED <<job, claim, starting>>,
             chooser'[m].stage \notin {"claiming", "starting"}
      PROVE  CancelsReach'
  <2>1. WorkerIsFree(m)'
    BY <1>7 DEF WorkerIsFree
  <2>2. \A r \in Request : Reached(m, r)'
    BY <1>1, <1>2, <1>7 DEF Reached, Chosen, Entering, Stops, Starting
  <2> QED
    BY <1>5, <2>1, <2>2
<1>8. CASE TakeUp(m) \/ Fetch(m)
  <2>1. UNCHANGED <<job, claim, starting>>
    BY <1>8 DEF TakeUp, Fetch, db
  <2>2. chooser'[m].stage \in {"fetching", "choosing"}
    BY <1>6, <1>8 DEF TakeUp, Fetch, TypeOK, Chooser
  <2> QED
    BY <1>7, <2>1, <2>2
<1>9. CASE Choose(m)
  <2>1. UNCHANGED <<job, claim>> /\ chooser[m].stage = "choosing"
    BY <1>9 DEF Choose, db
  <2>2. CASE chooser[m].cache = {} \/ Busy(m)
    <3>1. starting' = starting /\ chooser'[m].stage = "idle"
      BY <1>9, <2>2 DEF Choose, TypeOK, IdleChooser
    <3> QED
      BY <1>7, <2>1, <3>1
  <2>3. CASE ~(chooser[m].cache = {} \/ Busy(m))
    <3>1. PICK q \in chooser[m].cache :
            /\ chooser' = [chooser EXCEPT
                 ![m] = [stage |-> "claiming", cache |-> @.cache \ {q}, request |-> q]]
            /\ starting' = [starting EXCEPT ![m][q] = "plain"]
      BY <1>9, <2>3 DEF Choose
    <3>2. q \in Request
      BY <1>6, <3>1 DEF Chooser
    <3>3. chooser'[m].stage = "claiming" /\ chooser'[m].request = q
      BY <3>1 DEF TypeOK
    <3>4. /\ starting'[m][q] = "plain"
          /\ \A r \in Request : r # q => starting'[m][r] = starting[m][r]
      BY <3>1, <3>2 DEF TypeOK
    <3>5. ~Busy(m)' /\ \A r \in Request : ~Entering(m, r) /\ ~Entering(m, r)'
      BY <2>1, <2>3 DEF Busy, Entering
    <3>6. WorkerIsFree(m)'
      BY <3>5 DEF WorkerIsFree
    <3>7. ASSUME NEW r \in Request PROVE Reached(m, r)'
      <4>1. Reached(m, r) /\ ~Entering(m, r)'
        BY <1>1, <3>5
      <4>2. (Chosen(m, r)' => r = q) /\ ~Starting(m, r)'
        BY <3>3 DEF Chosen, Starting
      <4>3. r = q => starting'[m][r] # None
        BY <3>4
      <4> QED
        BY <1>2, <2>1, <4>1, <4>2, <4>3 DEF Reached, Stops
    <3> QED
      BY <1>5, <3>6, <3>7
  <2> QED
    BY <2>2, <2>3
<1>10. CASE ClaimBuildRequest(m)
  <2> DEFINE q == chooser[m].request
  <2>1. UNCHANGED <<job, starting>> /\ chooser[m].stage = "claiming"
    BY <1>10 DEF ClaimBuildRequest
  <2>2. CASE claim[q] # None
    <3>1. claim' = claim /\ chooser'[m].stage = "fetching"
      BY <1>6, <1>10, <2>2 DEF ClaimBuildRequest, TypeOK, Chooser
    <3> QED
      BY <1>7, <2>1, <3>1
  <2>3. CASE claim[q] = None
    <3>1. chooser'[m].stage = "starting" /\ chooser'[m].request = q
      BY <1>6, <1>10, <2>3 DEF ClaimBuildRequest, TypeOK, Chooser
    <3>2. WorkerIsFree(m)'
      BY <1>1, <2>1 DEF WorkerIsFree, Busy
    <3>3. ASSUME NEW r \in Request PROVE Reached(m, r)'
      <4>1. Reached(m, r)
        BY <1>1
      <4>2. /\ Chosen(m, r)' => Chosen(m, r)
            /\ Starting(m, r)' => claim[r] = None
            /\ ~Starting(m, r)
        BY <2>1, <2>3, <3>1 DEF Chosen, Starting
      <4>3. Stops(m, r) => claim'[r] = m /\ claim[r] # None
        BY <1>3, <4>1 DEF Reached
      <4>4. UNCHANGED <<Entering(m, r), Stops(m, r), starting[m][r], job[m][r], cancel[m][r]>>
        BY <1>2, <2>1 DEF Entering, Stops
      <4> QED
        BY <4>1, <4>2, <4>3, <4>4 DEF Reached
    <3> QED
      BY <1>5, <3>2, <3>3
  <2> QED
    BY <2>2, <2>3
<1>11. CASE StartBuild(m)
  <2> DEFINE q == chooser[m].request
  <2>1. /\ UNCHANGED <<claim, starting>> /\ chooser[m].stage = "starting"
        /\ job' = [job EXCEPT ![m][q] = [NoJob EXCEPT !.stage = "created"]]
    BY <1>11 DEF StartBuild, db
  <2>2. chooser'[m].stage = "choosing"
    BY <1>6, <1>11 DEF StartBuild, TypeOK, Chooser
  <2>3. WorkerIsFree(m)'
    BY <2>2 DEF WorkerIsFree
  <2>4. ASSUME NEW r \in Request PROVE Reached(m, r)'
    <3>1. Reached(m, r) /\ ~Chosen(m, r)' /\ ~Starting(m, r)'
      BY <1>1, <2>2 DEF Chosen, Starting
    <3>2. CASE r = q
      <4>1. Chosen(m, r) /\ Starting(m, r)
        BY <2>1, <3>2 DEF Chosen, Starting
      <4>2. job'[m][r].stage = "created"
        BY <2>1, <3>2 DEF TypeOK, NoJob
      <4> QED
        BY <1>2, <2>1, <3>1, <4>1, <4>2 DEF Reached, Stops
    <3>3. CASE r # q
      <4>1. job'[m][r] = job[m][r]
        BY <2>1, <3>3 DEF TypeOK
      <4> QED
        BY <1>2, <2>1, <3>1, <4>1 DEF Reached, Stops, Entering
    <3> QED
      BY <3>2, <3>3
  <2> QED
    BY <1>5, <2>3, <2>4
<1> QED
  BY <1>8, <1>9, <1>10, <1>11 DEF OfMaster

\* A build leaves the requests that start only with the message it was sent.
LEMMA ReachedOfRequest ==
  ASSUME TypeOK, TypeOK', CancelsReach, NEW m \in Master, NEW q \in Request, OfRequest(m, q)
  PROVE  CancelsReach'
<1> USE ClaimsAssumption
<1>1. WorkerIsFree(m) /\ \A r \in Request : Reached(m, r)
  BY DEF CancelsReach
<1>2. chooser' = chooser
  BY DEF OfRequest, SubscribeToStop, CheckCancelled, FinishBuild, Resubmit, TellUnclaimed,
     CompleteBuildRequest, AfterCompletion
<1>3. /\ \A n \in Master \ {m} : UNCHANGED <<job[n], starting[n], cancel[n]>>
      /\ \A r \in Request : r # q =>
           UNCHANGED <<job[m][r], starting[m][r], cancel[m][r], claim[r]>>
  <2>1. CASE SubscribeToStop(m, q) \/ CheckCancelled(m, q) \/ FinishBuild(m, q)
    BY <2>1 DEF SubscribeToStop, CheckCancelled, FinishBuild, SetStage, TypeOK, db
  <2>2. CASE Resubmit(m, q)
    BY <2>2 DEF Resubmit, TypeOK
  <2>3. CASE TellUnclaimed(m, q) \/ CompleteBuildRequest(m, q) \/ AfterCompletion(m, q)
    BY <2>3 DEF TellUnclaimed, CompleteBuildRequest, AfterCompletion, SetStage, TypeOK, db
  <2> QED
    BY <2>1, <2>2, <2>3 DEF OfRequest
<1>4. claim'[q] = claim[q] \/ claim[q] = m
  BY DEF OfRequest, SubscribeToStop, CheckCancelled, FinishBuild, Resubmit, TellUnclaimed,
     CompleteBuildRequest, AfterCompletion, TypeOK, db
<1>5. \A n \in Master \ {m}, r \in Request : claim[r] = n => claim'[r] = n
  BY <1>3, <1>4
<1>6. job[m][q] \in Job /\ job'[m][q] \in Job
  BY DEF TypeOK
<1>7. ASSUME Busy(m)' => Busy(m), Reached(m, q)'
      PROVE  CancelsReach'
  <2>1. WorkerIsFree(m)'
    BY <1>1, <1>2, <1>7 DEF WorkerIsFree
  <2>2. ASSUME NEW r \in Request, r # q PROVE Reached(m, r)'
    BY <1>1, <1>2, <1>3, <2>2 DEF Reached, Chosen, Entering, Starting, Stops
  <2>3. \A r \in Request : Reached(m, r)'
    BY <1>7, <2>2
  <2> QED
    BY <1>2, <1>3, <1>5, <2>1, <2>3, ReachedWhenActing
<1>8. ASSUME job[m][q].stage \in {"created", "subscribed", "running", "wedged"}
              \/ job'[m][q].stage \notin {"created", "subscribed", "running", "wedged"}
      PROVE  Busy(m)' => Busy(m)
  BY <1>3, <1>8 DEF Busy
<1>9. Reached(m, q)
  BY <1>1
<1>10. CASE SubscribeToStop(m, q)
  <2>1. /\ UNCHANGED <<claim, starting, cancel>> /\ job[m][q].stage = "created"
        /\ job'[m][q].stage = "subscribed"
    BY <1>6, <1>10 DEF SubscribeToStop, SetStage, TypeOK, Job, db
  <2>2. Reached(m, q)'
    BY <1>2, <1>9, <2>1 DEF Reached, Chosen, Entering, Starting, Stops
  <2> QED
    BY <1>7, <1>8, <2>1, <2>2
<1>11. CASE CheckCancelled(m, q)
  <2>1. /\ UNCHANGED <<claim, cancel>> /\ job[m][q].stage = "subscribed"
        /\ starting'[m][q] = None
    BY <1>11 DEF CheckCancelled, TypeOK, db
  <2>2. job'[m][q].stage = IF starting[m][q] = "cancelled" THEN "wedged" ELSE "running"
    BY <1>6, <1>11 DEF CheckCancelled, TypeOK, Job
  <2>3. Busy(m) /\ ~Chosen(m, q)
    BY <1>1, <2>1 DEF Busy, WorkerIsFree, Chosen
  <2>4. ~Chosen(m, q)' /\ ~Starting(m, q)' /\ ~Entering(m, q)'
    BY <1>2, <2>2, <2>3 DEF Chosen, Starting, Entering
  <2>5. cancel[m][q] = "done" => job'[m][q].stage # "running"
    BY <1>9, <2>1, <2>2 DEF Reached, Entering, Stops
  <2>6. Reached(m, q)'
    BY <1>9, <2>1, <2>4, <2>5 DEF Reached, Stops
  <2> QED
    BY <1>7, <2>3, <2>6
<1>12. CASE FinishBuild(m, q) \/ CompleteBuildRequest(m, q)
  <2>1. UNCHANGED <<claim, starting, cancel>>
    BY <1>12 DEF FinishBuild, CompleteBuildRequest, db
  <2>2. job'[m][q].stage \in {"finished", "completed", "none"}
    <3>1. CASE FinishBuild(m, q)
      BY <1>6, <3>1 DEF FinishBuild, TypeOK, Job
    <3>2. CASE CompleteBuildRequest(m, q)
      BY <1>6, <3>2 DEF CompleteBuildRequest, SetStage, TypeOK, Job
    <3> QED
      BY <1>12, <3>1, <3>2
  <2>3. Reached(m, q)'
    BY <1>2, <1>9, <2>1, <2>2 DEF Reached, Chosen, Entering, Starting, Stops
  <2> QED
    BY <1>7, <1>8, <2>2, <2>3
<1>13. CASE Resubmit(m, q)
  <2>1. /\ starting' = starting /\ job'[m][q].stage = "none"
        /\ ~Stops(m, q)'
    BY <1>13 DEF Resubmit, TypeOK, NoJob, Stops
  <2>2. Reached(m, q)'
    BY <1>2, <1>9, <2>1 DEF Reached, Chosen, Entering, Starting, Stops
  <2> QED
    BY <1>7, <1>8, <2>1, <2>2
<1>14. CASE AfterCompletion(m, q)
  <2>1. UNCHANGED <<claim, starting>>
    BY <1>14 DEF AfterCompletion
  <2>2. CASE job[m][q].stage = "completed" /\ cancel' = cancel /\ job'[m][q].stage = "none"
    <3>1. Reached(m, q)'
      BY <1>2, <1>9, <2>1, <2>2 DEF Reached, Chosen, Entering, Starting, Stops
    <3> QED
      BY <1>7, <1>8, <2>2, <3>1
  <2>3. CASE job' = job /\ cancel'[m][q] = "none"
    <3>1. Reached(m, q)'
      BY <1>2, <1>9, <2>1, <2>3 DEF Reached, Chosen, Entering, Starting, Stops
    <3>2. Busy(m)' => Busy(m)
      BY <2>3 DEF Busy
    <3> QED
      BY <1>7, <3>1, <3>2
  <2> QED
    BY <1>14, <2>2, <2>3 DEF AfterCompletion, TypeOK, NoJob
<1>15. CASE TellUnclaimed(m, q)
  <2>1. UNCHANGED <<claim, starting, job, cancel>>
    BY <1>15 DEF TellUnclaimed, db
  <2>2. Reached(m, q)'
    BY <1>2, <1>9, <2>1 DEF Reached, Chosen, Entering, Starting, Stops
  <2>3. Busy(m)' => Busy(m)
    BY <2>1 DEF Busy
  <2> QED
    BY <1>7, <2>2, <2>3
<1> QED
  BY <1>10, <1>11, <1>12, <1>13, <1>14, <1>15 DEF OfRequest

\* A cancellation marks what starts, and stops what listens.
LEMMA ReachedOfCancelling ==
  ASSUME TypeOK, TypeOK', CancelsReach, NEW m \in Master, NEW q \in Request, Cancelling(m, q)
  PROVE  CancelsReach'
<1> USE ClaimsAssumption
<1>1. WorkerIsFree(m) /\ \A r \in Request : Reached(m, r)
  BY DEF CancelsReach
<1>2. chooser' = chooser /\ \A r \in Request : claim[r] # None => claim'[r] = claim[r]
  BY DEF Cancelling, CancelClaims, CancelCompletes, CancelMarks, CancelStops, TypeOK, db
<1>3. \A n \in Master \ {m}, r \in Request : claim[r] = n => claim'[r] = n
  BY <1>2
<1>4. Reached(m, q)
  BY <1>1
<1>5. cancel \in [Master -> [Request -> CancelStage]]
  BY DEF TypeOK, CancelStage
<1>6. \A v : SetCancel(m, q, v) =>
        /\ cancel'[m][q] = v
        /\ \A r \in Request : r # q => cancel'[m][r] = cancel[m][r]
        /\ \A n \in Master \ {m} : cancel'[n] = cancel[n]
  BY <1>5 DEF SetCancel
<1>7. ASSUME job' = job,
             \A n \in Master \ {m} : UNCHANGED <<starting[n], cancel[n]>>,
             \A r \in Request : r # q => UNCHANGED <<starting[m][r], cancel[m][r]>>,
             Reached(m, q)'
      PROVE  CancelsReach'
  <2>1. WorkerIsFree(m)'
    BY <1>1, <1>2, <1>7 DEF WorkerIsFree, Busy
  <2>2. ASSUME NEW r \in Request, r # q PROVE Reached(m, r)'
    <3>1. Reached(m, r) /\ (Stops(m, r) => claim'[r] = m)
      BY <1>1, <1>2 DEF Reached
    <3> QED
      BY <1>2, <1>7, <2>2, <3>1 DEF Reached, Chosen, Entering, Starting, Stops
  <2>3. \A r \in Request : Reached(m, r)'
    BY <1>7, <2>2
  <2> QED
    BY <1>2, <1>3, <1>7, <2>1, <2>3, ReachedWhenActing
<1>8. CASE CancelClaims(m, q) \/ CancelCompletes(m, q)
  <2>1. UNCHANGED <<job, starting>>
        /\ \E v \in {"claimed", "refused", "completed", "none"} : SetCancel(m, q, v)
    BY <1>8 DEF CancelClaims, CancelCompletes
  <2>2. ~Stops(m, q)' /\ \A n \in Master \ {m} : cancel'[n] = cancel[n]
    BY <1>6, <2>1 DEF Stops
  <2>3. \A r \in Request : r # q => cancel'[m][r] = cancel[m][r]
    BY <1>6, <2>1
  <2>4. Reached(m, q)'
    BY <1>2, <1>4, <2>1, <2>2 DEF Reached, Chosen, Entering, Starting, Stops
  <2> QED
    BY <1>7, <2>1, <2>2, <2>3, <2>4
<1>9. CASE CancelMarks(m, q)
  <2>1. /\ UNCHANGED <<claim, job>>
        /\ starting' = [starting EXCEPT ![m][q] = IF @ = None THEN None ELSE "cancelled"]
    BY <1>9 DEF CancelMarks, db
  <2>2. /\ starting'[m][q] = IF starting[m][q] = None THEN None ELSE "cancelled"
        /\ \A r \in Request : r # q => starting'[m][r] = starting[m][r]
        /\ \A n \in Master \ {m} : starting'[n] = starting[n]
    BY <2>1 DEF TypeOK
  <2>3. \/ SetCancel(m, q, "marked") /\ claim[q] = m
        \/ SetCancel(m, q, "passed")
    BY <1>9 DEF CancelMarks
  <2>4. /\ \A r \in Request : r # q => cancel'[m][r] = cancel[m][r]
        /\ \A n \in Master \ {m} : cancel'[n] = cancel[n]
    BY <1>6, <2>3
  <2>5. (cancel'[m][q] = "marked" /\ claim[q] = m) \/ cancel'[m][q] = "passed"
    BY <1>6, <2>3
  <2>6. Reached(m, q)'
    BY <1>2, <1>4, <2>1, <2>2, <2>5 DEF Reached, Chosen, Entering, Starting, Stops
  <2> QED
    BY <1>7, <2>1, <2>2, <2>4, <2>6
<1>10. CASE CancelStops(m, q)
  <2>1. /\ UNCHANGED <<claim, starting>>
        /\ SetCancel(m, q, IF cancel[m][q] = "marked" THEN "done" ELSE "none")
        /\ job' = [n \in Master |-> [job[n] EXCEPT
             ![q].stopped = @ \/ job[n][q].stage \in {"subscribed", "running"}]]
    BY <1>10 DEF CancelStops, db
  <2>2. ASSUME NEW n \in Master
        PROVE  /\ \A r \in Request : r # q => job'[n][r] = job[n][r]
               /\ job'[n][q].stage = job[n][q].stage
               /\ job'[n][q].stopped <=>
                    job[n][q].stopped \/ job[n][q].stage \in {"subscribed", "running"}
    <3> DEFINE b == job[n][q].stopped \/ job[n][q].stage \in {"subscribed", "running"}
    <3>1. job[n] \in [Request -> Job] /\ job'[n] = [job[n] EXCEPT ![q].stopped = b]
      BY <2>1 DEF TypeOK
    <3>2. job[n][q] \in Job
      BY <3>1
    <3> HIDE DEF b
    <3>3. job'[n][q] = [job[n][q] EXCEPT !.stopped = b]
      BY <3>1
    <3>4. job'[n][q].stage = job[n][q].stage /\ job'[n][q].stopped = b
      BY <3>2, <3>3 DEF Job
    <3>5. \A r \in Request : r # q => job'[n][r] = job[n][r]
      BY <3>1
    <3> QED
      BY <3>4, <3>5 DEF b
  <2>3. \A n \in Master, r \in Request : job'[n][r].stage = job[n][r].stage
    BY <2>2
  <2>4. ASSUME NEW n \in Master, NEW r \in Request
        PROVE  \/ cancel'[n][r] \in {"done", "none"} /\ n = m /\ r = q
               \/ cancel'[n][r] = cancel[n][r]
    BY <1>6, <2>1
  <2>5. Stops(m, q)' => Stops(m, q)
    BY <1>6, <2>1 DEF Stops
  <2>6. ASSUME NEW n \in Master PROVE WorkerIsFree(n)'
    BY <1>2, <2>3 DEF CancelsReach, WorkerIsFree, Busy
  <2>7. ASSUME NEW n \in Master, NEW r \in Request PROVE Reached(n, r)'
    <3>1. Reached(n, r) /\ job'[n][r].stage = job[n][r].stage /\ (Stops(n, r)' => Stops(n, r))
      BY <2>3, <2>4, <2>5 DEF CancelsReach, Stops
    <3>2. ASSUME cancel'[n][r] = "done", job'[n][r].stage = "running"
          PROVE  job'[n][r].stopped
      <4>1. CASE r = q
        BY <2>2, <3>1, <3>2, <4>1
      <4>2. CASE r # q
        BY <2>2, <2>4, <3>1, <3>2, <4>2 DEF Reached
      <4> QED
        BY <4>1, <4>2
    <3> QED
      BY <1>2, <2>1, <3>1, <3>2 DEF Reached, Chosen, Entering, Starting
  <2> QED
    BY <2>6, <2>7 DEF CancelsReach
<1> QED
  BY <1>8, <1>9, <1>10 DEF Cancelling

\* Masters come and go, and housekeeping takes only claims of a master at rest.
LEMMA ReachedOfMasters ==
  ASSUME Sound, TypeOK', QuietUntilUp, CancelsReach, NEW m \in Master,
         Housekeeping(m) \/ Heartbeat(m) \/ Crash(m) \/ Expire(m) \/ Boot(m)
  PROVE  CancelsReach'
<1> USE ClaimsAssumption
<1>1. TypeOK /\ CleaningIsSafe
  BY DEF Sound, Claimed
<1>2. CASE \/ ExpireAll(m) \/ (\E n \in Master : ExpireNext(m, n)) \/ HousekeepingReads(m)
           \/ Up(m) \/ Heartbeat(m) \/ Expire(m) \/ Boot(m)
  <2>1. UNCHANGED <<chooser, job, starting, cancel, claim>>
    BY <1>2 DEF ExpireAll, ExpireNext, HousekeepingReads, Up, Heartbeat, Expire, Boot, work, db
  <2> QED
    BY <2>1, ReachedElsewhere
<1>3. CASE HousekeepingUnclaims(m)
  <2>1. /\ cleaning[m] # None /\ UNCHANGED <<chooser, job, starting, cancel>>
        /\ claim' = [r \in Request |->
             IF r \in cleaning[m].requests /\ claim[r] = m THEN None ELSE claim[r]]
    BY <1>3 DEF HousekeepingUnclaims, work
  <2>2. ASSUME NEW r \in Request, r \in cleaning[m].requests, claim[r] = m
        PROVE  ~Stops(m, r)
    <3>1. stage[m] # "up"
      BY <1>1, <2>1, <2>2 DEF CleaningIsSafe
    <3> QED
      BY <3>1 DEF QuietUntilUp
  <2>3. \A n \in Master, r \in Request : Stops(n, r) /\ claim[r] = n => claim'[r] = n
    BY <2>1, <2>2
  <2> QED
    BY <2>1, <2>3, ReachedElsewhere
<1>4. CASE Crash(m)
  <2>1. /\ claim' = claim /\ chooser'[m].stage = "idle"
        /\ \A r \in Request : job'[m][r].stage = "none" /\ cancel'[m][r] = "none"
        /\ \A n \in Master \ {m} : UNCHANGED <<chooser[n], job[n], starting[n], cancel[n]>>
    BY <1>1, <1>4 DEF Crash, db, IdleChooser, NoJob, TypeOK
  <2>2. WorkerIsFree(m)' /\ \A r \in Request : Reached(m, r)'
    BY <2>1 DEF WorkerIsFree, Reached, Chosen, Entering, Starting, Stops
  <2> QED
    BY <2>1, <2>2, ReachedWhenActing
<1> QED
  BY <1>2, <1>3, <1>4 DEF Housekeeping

\* A message of a user is handled later.
LEMMA ReachedOfCancel ==
  ASSUME TypeOK, CancelsReach, NEW q \in Request, Cancel(q)
  PROVE  CancelsReach'
<1>1. UNCHANGED <<claim, chooser, job, starting>>
  BY DEF Cancel, db
<1>2. \A m \in Master, r \in Request :
        cancel'[m][r] = cancel[m][r] \/ cancel'[m][r] = "asked"
  BY DEF Cancel, TypeOK
<1>3. ASSUME NEW m \in Master PROVE WorkerIsFree(m)'
  BY <1>1 DEF CancelsReach, WorkerIsFree, Busy
<1>4. ASSUME NEW m \in Master, NEW r \in Request PROVE Reached(m, r)'
  <2>1. Reached(m, r) /\ (Stops(m, r)' => Stops(m, r))
    BY <1>2 DEF CancelsReach, Stops
  <2> QED
    BY <1>1, <1>2, <2>1 DEF Reached, Chosen, Entering, Starting
<1> QED
  BY <1>3, <1>4 DEF CancelsReach

\* Together they are kept while the claims are sound.
LEMMA NextKeepsCancels ==
  Sound /\ TypeOK' /\ QuietUntilUp /\ CancelsReach /\ [Next]_vars
    => QuietUntilUp' /\ CancelsReach'
<1> SUFFICES ASSUME Sound, TypeOK', QuietUntilUp, CancelsReach, [Next]_vars
             PROVE  CancelsReach'
  BY NextKeepsQuiet
<1>1. TypeOK
  BY DEF Sound
<1>2. CASE UNCHANGED vars
  <2>1. UNCHANGED <<chooser, job, starting, cancel, claim>>
    BY <1>2 DEF vars, db, work
  <2> QED
    BY <2>1, ReachedElsewhere
<1> QED
  BY <1>1, <1>2, ReachedOfMaster, ReachedOfRequest, ReachedOfCancelling,
     ReachedOfMasters, ReachedOfCancel DEF Next

\* Once a master has handled a cancellation the build it runs of the request is
\* stopped, whichever of its starting steps the message met, as long as masters stay
\* apart (process/build.py, "Must be done after subscription").
THEOREM ReturnsAreCancelled == Spec /\ []MastersStayApart => []CancelReaches
<1>1. Init => QuietUntilUp /\ CancelsReach
  BY DEF Init, QuietUntilUp, CancelsReach, WorkerIsFree, Reached, Chosen, Entering,
     Starting, Stops, IdleChooser, NoJob, NoneYet
<1>2. CancelsReach => CancelReaches
  BY DEF CancelsReach, Reached, CancelReaches
<1> QED
  BY <1>1, <1>2, NextKeepsCancels, ClaimsStaySound, ClusterIsTyped, PTL DEF Spec

\* So it is if nobody starts again after it was expired.
THEOREM CancellationsReach == ASSUME NobodyReturns PROVE Spec => []CancelReaches
  BY ReturnsAreCancelled, ClaimsAreSound, PTL
=============================================================================
