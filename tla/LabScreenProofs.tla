---------------------------- MODULE LabScreenProofs ----------------------------
(***************************************************************************)
(* For any number of runs, polls, warm-ups and values of the parameter:    *)
(* the lab never says "Running" with nobody left to end it, what it        *)
(* records was measured, and it is the session its user was promised.      *)
(***************************************************************************)
EXTENDS LabScreen, SequenceTheorems, TLAPS

USE LabAssumption DEF Runs, NoRun, NoValue, Finished, Chains

-----------------------------------------------------------------------------
(* The inductive invariant: what the screen counts, and what it says of    *)
(* each run it asked for.                                                  *)

ScreenTypeOK ==
    /\ running \in BOOLEAN /\ lastError \in BOOLEAN /\ quitting \in BOOLEAN
    /\ medianActive \in BOOLEAN /\ sweepActive \in BOOLEAN
    /\ runTestID \in Runs \cup {NoRun}
    /\ lastTestReq \in 0..(Values - 1) \cup {NoValue}
    /\ warmupCount \in 0..MaxWarmup /\ warmupRemaining \in 0..warmupCount
    /\ medianRemaining \in 0..3 /\ medianResults \in Seq(Runs)
    /\ param \in 0..(Values - 1)
    /\ iterations \in Seq([run : Runs, label : 0..(Values - 1)])

WorkTypeOK ==
    /\ made \in 0..MaxRuns
    /\ request \in [Runs -> 0..(Values - 1) \cup {NoValue}]
    /\ chain \in [Runs -> Chains]
    /\ pollCtx \in [Runs -> Runs \cup {NoRun}]
    /\ polls \in [Runs -> 0..MaxPolls]
    /\ cut \subseteq Runs
    /\ givenUp \subseteq Runs
    /\ api \in [Runs -> {"none", "going", "done", "failed"}]

\* Between runs there is no series, and never more than one.
OneSeries ==
    /\ ~running => warmupRemaining = 0 /\ ~medianActive /\ ~sweepActive
    /\ ~(medianActive /\ sweepActive)
    /\ warmupRemaining > 0 => ~medianActive /\ ~sweepActive

\* The runs a series still owes are within the bound on runs.
RoomLeft ==
    running => /\ warmupRemaining > 0 => made + warmupRemaining <= MaxRuns
               /\ medianActive => made + medianRemaining <= MaxRuns + 1
               /\ sweepActive => made + Values <= MaxRuns + 1 + param

MedianCounts ==
    medianActive => /\ medianRemaining > 0
                    /\ Len(medianResults) + medianRemaining = 3

Watched == {"poll", "progress", "ended", "measured"}

\* The run on screen is watched, and was not given up.
OnScreen ==
    runTestID # NoRun => /\ running /\ chain[runTestID] \in Watched
                         /\ quitting \/ runTestID \notin givenUp

NotAskedYet == \A k \in Runs : k > made => chain[k] = "none"

GivenUpStarted == \A k \in givenUp : chain[k] \in Watched \cup {"over"}

MeasuredIsDone == \A k \in Runs : chain[k] = "measured" => api[k] = "done"

\* The runs whose results the lab holds are over, and none is held twice.
HeldIsOver ==
    /\ \A i \in DOMAIN iterations :
          chain[iterations[i].run] = "over" /\ api[iterations[i].run] = "done"
    /\ \A i \in DOMAIN medianResults :
          chain[medianResults[i]] = "over" /\ api[medianResults[i]] = "done"

HeldOnce ==
    /\ \A i, j \in DOMAIN iterations :
          iterations[i].run = iterations[j].run => i = j
    /\ \A i \in DOMAIN iterations, j \in DOMAIN medianResults :
          iterations[i].run # medianResults[j]

SeriesInv == OneSeries /\ RoomLeft /\ MedianCounts
RunsInv == OnScreen /\ NotAskedYet /\ GivenUpStarted /\ MeasuredIsDone
HeldInv == HeldIsOver /\ HeldOnce

IInv ==
    /\ ScreenTypeOK /\ WorkTypeOK
    /\ SeriesInv /\ RunsInv /\ HeldInv
    /\ WatchedWhileRunning

LEMMA ElementsOfASeq ==
  ASSUME NEW S, NEW s \in Seq(S)
  PROVE  \A i \in DOMAIN s : s[i] \in S
OBVIOUS

LEMMA HeldRuns ==
  ASSUME IInv
  PROVE  /\ \A i \in DOMAIN iterations : iterations[i].run \in Runs
         /\ \A i \in DOMAIN medianResults : medianResults[i] \in Runs
<1>1. \A i \in DOMAIN iterations : iterations[i] \in [run : Runs, label : 0..(Values - 1)]
  BY ElementsOfASeq DEF IInv, ScreenTypeOK
<1>2. \A i \in DOMAIN medianResults : medianResults[i] \in Runs
  BY ElementsOfASeq DEF IInv, ScreenTypeOK
<1> QED BY <1>1, <1>2

-----------------------------------------------------------------------------
(* A key that starts a run. *)

\* What the keys that start a run have in common.
Starts(req) ==
    /\ Idle /\ made + 1 <= MaxRuns
    /\ req \in 0..(Values - 1)
    /\ startRun(req) /\ Dispatch(chain)
    /\ UNCHANGED <<runTestID, lastTestReq, quitting, warmupCount, iterations, givenUp, api>>
    /\ medianResults' = medianResults \/ medianResults' = <<>>

LEMMA StartsWork ==
  ASSUME IInv, NEW req, Starts(req)
  PROVE  WorkTypeOK' /\ RunsInv' /\ HeldInv' /\ WatchedWhileRunning'
<1>1. made + 1 \in Runs /\ made' = made + 1 /\ made \in Nat
  BY DEF IInv, WorkTypeOK, Starts, startRun
<1>2. chain' = [chain EXCEPT ![made + 1] = "create"] /\ chain'[made + 1] = "create"
  BY <1>1 DEF IInv, WorkTypeOK, Starts, Dispatch
<1>3. runTestID = NoRun /\ runTestID' = NoRun
  BY DEF IInv, RunsInv, OnScreen, Starts, Idle
<1>4. chain[made + 1] = "none"
  BY <1>1 DEF IInv, RunsInv, NotAskedYet
<1>5. \A k \in Runs : chain[k] # "none" => chain'[k] = chain[k]
  BY <1>1, <1>2, <1>4 DEF IInv, WorkTypeOK
<1>6. WorkTypeOK'
  BY <1>1, <1>2 DEF IInv, WorkTypeOK, Starts, startRun
<1>7. RunsInv'
  BY <1>1, <1>2, <1>3, <1>5 DEF IInv, WorkTypeOK, Starts, RunsInv, OnScreen,
     NotAskedYet, GivenUpStarted, MeasuredIsDone, Watched
<1>8. HeldInv'
  <2>1. iterations' = iterations /\ api' = api
    BY DEF Starts
  <2>3. CASE medianResults' = medianResults
    BY <1>5, <2>1, <2>3, HeldRuns DEF IInv, HeldInv, HeldIsOver, HeldOnce
  <2>4. CASE medianResults' = <<>>
    BY <1>5, <2>1, <2>4, HeldRuns DEF IInv, HeldInv, HeldIsOver, HeldOnce
  <2> QED BY <2>3, <2>4 DEF Starts
<1>9. WatchedWhileRunning'
  BY <1>1, <1>2 DEF WatchedWhileRunning
<1> QED BY <1>6, <1>7, <1>8, <1>9

LEMMA StartIteration ==
  ASSUME IInv, startIteration
  PROVE  IInv'
<1>1. param' \in 0..(Values - 1)
  BY DEF startIteration, edit
<1>2. Starts(param')
  BY <1>1 DEF startIteration, Starts, Room, IInv, ScreenTypeOK, WorkTypeOK
<1>3. ScreenTypeOK'
  <2>1. /\ running' \in BOOLEAN /\ lastError' \in BOOLEAN /\ quitting' \in BOOLEAN
        /\ medianActive' \in BOOLEAN /\ sweepActive' \in BOOLEAN
    BY DEF startIteration, startRun, IInv, ScreenTypeOK
  <2>2. /\ warmupCount' \in 0..MaxWarmup /\ warmupRemaining' \in 0..warmupCount'
        /\ medianRemaining' \in 0..3 /\ medianResults' \in Seq(Runs)
    BY DEF startIteration, IInv, ScreenTypeOK
  <2>3. UNCHANGED <<runTestID, lastTestReq, iterations>>
    BY DEF startIteration
  <2> QED BY <1>1, <2>1, <2>2, <2>3 DEF IInv, ScreenTypeOK
<1>4. SeriesInv'
  BY DEF startIteration, startRun, Room, Idle, IInv, ScreenTypeOK, WorkTypeOK,
         SeriesInv, OneSeries, RoomLeft, MedianCounts
<1> QED BY <1>2, <1>3, <1>4, StartsWork DEF IInv

LEMMA StartSweep ==
  ASSUME IInv, startSweep
  PROVE  IInv'
<1>1. Starts(0)
  BY DEF startSweep, Starts, Room, IInv, ScreenTypeOK, WorkTypeOK
<1>2. ScreenTypeOK'
  BY DEF startSweep, startRun, IInv, ScreenTypeOK
<1>3. SeriesInv'
  BY DEF startSweep, startRun, Room, Idle, IInv, ScreenTypeOK, WorkTypeOK,
         SeriesInv, OneSeries, RoomLeft, MedianCounts
<1> QED BY <1>1, <1>2, <1>3, StartsWork DEF IInv

LEMMA StartMedian ==
  ASSUME IInv, startMedian
  PROVE  IInv'
<1>1. param' \in 0..(Values - 1)
  BY DEF startMedian, edit
<1>2. Starts(param')
  BY <1>1 DEF startMedian, Starts, Room, IInv, ScreenTypeOK, WorkTypeOK
<1>3. ScreenTypeOK'
  <2>1. /\ running' \in BOOLEAN /\ lastError' \in BOOLEAN /\ quitting' \in BOOLEAN
        /\ medianActive' \in BOOLEAN /\ sweepActive' \in BOOLEAN
    BY DEF startMedian, startRun, IInv, ScreenTypeOK
  <2>2. /\ warmupCount' \in 0..MaxWarmup /\ warmupRemaining' \in 0..warmupCount'
        /\ medianRemaining' \in 0..3 /\ medianResults' \in Seq(Runs)
    BY DEF startMedian, IInv, ScreenTypeOK
  <2>3. UNCHANGED <<runTestID, lastTestReq, iterations>>
    BY DEF startMedian
  <2> QED BY <1>1, <2>1, <2>2, <2>3 DEF IInv, ScreenTypeOK
<1>4. SeriesInv'
  BY DEF startMedian, startRun, Room, Idle, IInv, ScreenTypeOK, WorkTypeOK,
         SeriesInv, OneSeries, RoomLeft, MedianCounts
<1> QED BY <1>2, <1>3, <1>4, StartsWork DEF IInv

LEMMA RetryTest ==
  ASSUME IInv, retryTest
  PROVE  IInv'
<1>1. param' \in 0..(Values - 1)
  BY DEF retryTest, edit
<1>2. Starts(lastTestReq)
  BY DEF retryTest, Starts, Room, series, IInv, ScreenTypeOK, WorkTypeOK
<1>3. ScreenTypeOK'
  BY <1>1 DEF retryTest, startRun, series, IInv, ScreenTypeOK
<1>4. SeriesInv'
  BY DEF retryTest, startRun, Room, Idle, series, IInv, ScreenTypeOK, WorkTypeOK,
         SeriesInv, OneSeries, RoomLeft, MedianCounts
<1> QED BY <1>2, <1>3, <1>4, StartsWork DEF IInv

-----------------------------------------------------------------------------
(* The user cancels, or quits. *)

\* A run on screen, or one being asked for, has been asked for.
LEMMA SomeRunWasAsked ==
  ASSUME IInv, running, ~quitting
  PROVE  made \in Runs
<1>1. PICK k \in Runs : chain[k] # "none"
  BY DEF IInv, WatchedWhileRunning, ScreenTypeOK
<1> QED BY <1>1 DEF IInv, WorkTypeOK, RunsInv, NotAskedYet

LEMMA UpdateRunningKey ==
  ASSUME IInv, updateRunningKey
  PROVE  IInv'
<1>1. cut' \subseteq Runs /\ givenUp' \subseteq Runs
  <2>1. made \in Runs
    BY SomeRunWasAsked DEF updateRunningKey
  <2> QED BY <2>1 DEF updateRunningKey, cancelRun, IInv, ScreenTypeOK, WorkTypeOK
<1>2. /\ running' = FALSE /\ runTestID' = NoRun /\ sweepActive' = FALSE
      /\ medianActive' = FALSE /\ medianResults' = <<>> /\ warmupRemaining' = 0
      /\ UNCHANGED <<medianRemaining, warmupCount, lastError, lastTestReq, quitting, param,
                     iterations, made, request, chain, pollCtx, polls, api>>
  BY DEF updateRunningKey, stopRun
<1>3. ScreenTypeOK'
  <2>1. warmupRemaining' \in 0..warmupCount' /\ medianResults' \in Seq(Runs)
    BY <1>2 DEF IInv, ScreenTypeOK
  <2> QED BY <1>2, <2>1 DEF IInv, ScreenTypeOK
<1>4. WorkTypeOK'
  BY <1>1, <1>2 DEF IInv, WorkTypeOK
<1>5. SeriesInv' /\ HeldInv' /\ WatchedWhileRunning'
  BY <1>2 DEF IInv, SeriesInv, OneSeries, RoomLeft, MedianCounts, HeldInv, HeldIsOver,
              HeldOnce, WatchedWhileRunning
<1>6. RunsInv'
  BY <1>2 DEF updateRunningKey, cancelRun, IInv, RunsInv, OnScreen, NotAskedYet,
              GivenUpStarted, MeasuredIsDone
<1> QED BY <1>3, <1>4, <1>5, <1>6 DEF IInv

LEMMA Quit ==
  ASSUME IInv, RunLab
  PROVE  IInv'
<1>1. cut' \subseteq Runs /\ givenUp' \subseteq Runs
  <2>1. running => made \in Runs
    BY SomeRunWasAsked DEF RunLab
  <2> QED BY <2>1 DEF RunLab, cancelRun, IInv, ScreenTypeOK, WorkTypeOK
<1>2. /\ quitting' = TRUE
      /\ UNCHANGED <<running, runTestID, lastError, lastTestReq, series, param, iterations,
                     made, request, chain, pollCtx, polls, api>>
  BY DEF RunLab
<1>3. ScreenTypeOK'
  BY <1>2 DEF IInv, ScreenTypeOK, series
<1>4. WorkTypeOK'
  BY <1>1, <1>2 DEF IInv, WorkTypeOK
<1>5. SeriesInv' /\ HeldInv' /\ WatchedWhileRunning'
  BY <1>2 DEF IInv, SeriesInv, OneSeries, RoomLeft, MedianCounts, HeldInv, HeldIsOver,
              HeldOnce, WatchedWhileRunning, series
<1>6. RunsInv'
  BY <1>2 DEF RunLab, cancelRun, IInv, RunsInv, OnScreen, NotAskedYet,
              GivenUpStarted, MeasuredIsDone
<1> QED BY <1>3, <1>4, <1>5, <1>6 DEF IInv

-----------------------------------------------------------------------------
(* One run's background work moves on, and the screen stays. *)

LEMMA OneMoves ==
  ASSUME IInv, ~quitting, NEW k \in Runs, NEW c \in Chains \ {"none"},
         UNCHANGED <<screen, made, request, cut, givenUp>>,
         chain[k] \notin {"none", "over"},
         chain' = [chain EXCEPT ![k] = c],
         k = runTestID => c \in Watched,
         k \in givenUp => c \in Watched \cup {"over"},
         running /\ chain[k] \in {"create", "started", "refused"}
            => c \in {"create", "started", "refused"},
         pollCtx' \in [Runs -> Runs \cup {NoRun}],
         polls' \in [Runs -> 0..MaxPolls],
         api' \in [Runs -> {"none", "going", "done", "failed"}],
         \A j \in Runs \ {k} : api'[j] = api[j],
         c = "measured" => api'[k] = "done"
  PROVE  IInv'
<1>1. /\ chain \in [Runs -> Chains] /\ chain'[k] = c
      /\ \A j \in Runs \ {k} : chain'[j] = chain[j]
  BY DEF IInv, WorkTypeOK
<1>2. ScreenTypeOK' /\ SeriesInv'
  BY DEF IInv, screen, series, ScreenTypeOK, SeriesInv, OneSeries, RoomLeft, MedianCounts
<1>3. WorkTypeOK'
  BY <1>1 DEF IInv, WorkTypeOK
<1>4. RunsInv'
  <2>1. OnScreen'
    BY <1>1 DEF IInv, RunsInv, OnScreen, screen, ScreenTypeOK
  <2>2. NotAskedYet'
    BY <1>1 DEF IInv, RunsInv, NotAskedYet
  <2>3. GivenUpStarted' /\ MeasuredIsDone'
    BY <1>1 DEF IInv, RunsInv, GivenUpStarted, MeasuredIsDone, WorkTypeOK
  <2> QED BY <2>1, <2>2, <2>3 DEF RunsInv
<1>5. HeldInv'
  <2>1. \A j \in Runs : chain[j] = "over" => chain'[j] = "over" /\ api'[j] = api[j]
    BY <1>1
  <2>2. UNCHANGED <<iterations, medianResults>>
    BY DEF screen, series
  <2>3. HeldIsOver'
    BY <2>1, <2>2, HeldRuns DEF IInv, HeldInv, HeldIsOver
  <2>4. HeldOnce'
    BY <2>2 DEF IInv, HeldInv, HeldOnce
  <2> QED BY <2>3, <2>4 DEF HeldInv
<1>6. WatchedWhileRunning'
  <2>1. CASE \E j \in Runs : chain[j] \in {"create", "started", "refused"}
    BY <1>1, <2>1 DEF WatchedWhileRunning, screen
  <2>2. CASE runTestID # NoRun /\ chain[runTestID] \in Watched
    BY <1>1, <2>2 DEF WatchedWhileRunning, screen, Watched, IInv, ScreenTypeOK
  <2> QED BY <2>1, <2>2 DEF IInv, WatchedWhileRunning, screen, Watched
<1> QED BY <1>2, <1>3, <1>4, <1>5, <1>6 DEF IInv

LEMMA RunTest ==
  ASSUME IInv, NEW k \in Runs, runTest(k)
  PROVE  IInv'
<1>1. PICK c \in {"started", "refused"} : chain' = [chain EXCEPT ![k] = c]
  BY DEF runTest
<1>2. /\ api' \in [Runs -> {"none", "going", "done", "failed"}]
      /\ \A j \in Runs \ {k} : api'[j] = api[j]
  BY DEF runTest, IInv, WorkTypeOK
<1>3. k # runTestID /\ k \notin givenUp
  BY DEF runTest, IInv, RunsInv, OnScreen, GivenUpStarted, Watched
<1>4. UNCHANGED <<screen, made, request, cut, givenUp, pollCtx, polls>> /\ ~quitting /\ chain[k] = "create"
  BY DEF runTest
<1> QED BY <1>1, <1>2, <1>3, <1>4, OneMoves DEF IInv, WorkTypeOK

LEMMA PollTestOnce ==
  ASSUME IInv, NEW k \in Runs, pollTestOnce(k)
  PROVE  IInv'
<1>1. PICK c \in {"progress", "ended", "measured"} :
         chain' = [chain EXCEPT ![k] = c] /\ (c = "measured" => api'[k] = "done")
  BY DEF pollTestOnce, PollMessage, IInv, WorkTypeOK
<1>2. /\ api' \in [Runs -> {"none", "going", "done", "failed"}]
      /\ \A j \in Runs \ {k} : api'[j] = api[j]
  BY DEF pollTestOnce, PollMessage, IInv, WorkTypeOK
<1>3. polls' \in [Runs -> 0..MaxPolls]
  BY DEF pollTestOnce, IInv, WorkTypeOK
<1>4. UNCHANGED <<screen, made, request, cut, givenUp, pollCtx>> /\ ~quitting /\ chain[k] = "poll"
  BY DEF pollTestOnce
<1> QED BY <1>1, <1>2, <1>3, <1>4, OneMoves DEF IInv, WorkTypeOK, Watched

LEMMA OnProgress ==
  ASSUME IInv, NEW k \in Runs, onProgress(k)
  PROVE  IInv'
<1>1. UNCHANGED <<screen, made, request, cut, givenUp, polls, api>> /\ ~quitting /\ chain[k] = "progress"
  BY DEF onProgress
<1>2. made \in Runs
  BY <1>1 DEF IInv, WorkTypeOK, RunsInv, NotAskedYet
<1>3. pollCtx' \in [Runs -> Runs \cup {NoRun}]
  <2>1. pollCtx' = pollCtx \/ pollCtx' = [pollCtx EXCEPT ![k] = made]
    BY DEF onProgress, Poll
  <2> QED BY <1>2, <2>1 DEF IInv, WorkTypeOK
<1>4. CASE running /\ runTestID = k
  <2>1. chain' = [chain EXCEPT ![k] = "poll"]
    BY <1>4 DEF onProgress, Poll
  <2> QED BY <1>1, <1>3, <2>1, OneMoves DEF IInv, WorkTypeOK, Watched
<1>5. CASE ~(running /\ runTestID = k)
  <2>1. chain' = [chain EXCEPT ![k] = "over"]
    BY <1>5 DEF onProgress, Drop
  <2>2. k # runTestID
    BY <1>5 DEF IInv, RunsInv, OnScreen
  <2> QED BY <1>1, <1>3, <2>1, <2>2, OneMoves DEF IInv, WorkTypeOK, Watched
<1> QED BY <1>4, <1>5

LEMMA OnTestDoneStale ==
  ASSUME IInv, NEW k \in Runs, onTestDoneStale(k)
  PROVE  IInv'
<1>1. /\ UNCHANGED <<screen, made, request, cut, givenUp, pollCtx, polls, api>>
      /\ ~quitting /\ chain[k] \in Finished /\ chain' = [chain EXCEPT ![k] = "over"]
  BY DEF onTestDoneStale, Drop
<1>2. k # runTestID /\ (chain[k] = "refused" => ~running)
  BY DEF onTestDoneStale, Stale, IInv, RunsInv, OnScreen, Watched
<1> QED BY <1>1, <1>2, OneMoves DEF IInv, WorkTypeOK, Watched

-----------------------------------------------------------------------------
(* The answer to a create, and a run that failed. *)

LEMMA OnTestStarted ==
  ASSUME IInv, NEW k \in Runs, onTestStarted(k)
  PROVE  IInv'
<1>1. /\ UNCHANGED <<running, lastError, quitting, series, param, iterations,
                     made, request, polls, cut, api>>
      /\ ~quitting /\ chain[k] = "started"
  BY DEF onTestStarted
<1>2. k # runTestID /\ k \notin givenUp
  BY <1>1 DEF IInv, RunsInv, OnScreen, GivenUpStarted, Watched
<1>3. HeldInv' /\ NotAskedYet' /\ MeasuredIsDone'
  <2>1. PICK c \in {"over", "poll"} : chain' = [chain EXCEPT ![k] = c]
    BY DEF onTestStarted, Drop, Poll
  <2>2. \A j \in Runs : chain'[j] = IF j = k THEN c ELSE chain[j]
    BY <2>1 DEF IInv, WorkTypeOK
  <2>3. UNCHANGED <<iterations, medianResults>>
    BY <1>1 DEF series
  <2>4. HeldIsOver' /\ HeldOnce'
    BY <1>1, <2>2, <2>3, HeldRuns DEF IInv, HeldInv, HeldIsOver, HeldOnce
  <2>5. NotAskedYet' /\ MeasuredIsDone'
    BY <1>1, <2>2 DEF IInv, RunsInv, NotAskedYet, MeasuredIsDone
  <2> QED BY <2>4, <2>5 DEF HeldInv
<1>4. SeriesInv'
  BY <1>1 DEF IInv, SeriesInv, OneSeries, RoomLeft, MedianCounts, series
<1>5. CASE ~running
  <2>1. /\ UNCHANGED <<runTestID, lastTestReq, pollCtx>>
        /\ givenUp' = givenUp \cup {k} /\ chain' = [chain EXCEPT ![k] = "over"]
    BY <1>5 DEF onTestStarted, cancelRun, Drop
  <2>2. \A j \in Runs : chain'[j] = IF j = k THEN "over" ELSE chain[j]
    BY <2>1 DEF IInv, WorkTypeOK
  <2>3. ScreenTypeOK'
    BY <1>1, <2>1 DEF IInv, ScreenTypeOK, series
  <2>4. WorkTypeOK'
    BY <1>1, <2>1 DEF IInv, WorkTypeOK
  <2>5. OnScreen' /\ GivenUpStarted'
    BY <1>1, <1>2, <1>5, <2>1, <2>2 DEF IInv, RunsInv, OnScreen, GivenUpStarted, WorkTypeOK
  <2>6. WatchedWhileRunning'
    BY <1>1, <1>5 DEF WatchedWhileRunning
  <2> QED BY <1>3, <1>4, <2>3, <2>4, <2>5, <2>6 DEF IInv, RunsInv
<1>6. CASE running
  <2>1. /\ runTestID' = k /\ lastTestReq' = request[k]
        /\ chain' = [chain EXCEPT ![k] = "poll"] /\ pollCtx' = [pollCtx EXCEPT ![k] = made]
        /\ givenUp' = givenUp
    BY <1>6 DEF onTestStarted, Poll
  <2>2. \A j \in Runs : chain'[j] = IF j = k THEN "poll" ELSE chain[j]
    BY <2>1 DEF IInv, WorkTypeOK
  <2>3. ScreenTypeOK'
    <3>1. lastTestReq' \in 0..(Values - 1) \cup {NoValue}
      BY <2>1 DEF IInv, WorkTypeOK
    <3> QED BY <1>1, <2>1, <3>1 DEF IInv, ScreenTypeOK, series
  <2>4. WorkTypeOK'
    <3>1. made \in Runs
      BY <1>1, <1>6, SomeRunWasAsked
    <3> QED BY <1>1, <2>1, <3>1 DEF IInv, WorkTypeOK
  <2>5. OnScreen' /\ GivenUpStarted'
    BY <1>1, <1>2, <1>6, <2>1, <2>2 DEF IInv, RunsInv, OnScreen, GivenUpStarted, Watched, WorkTypeOK
  <2>6. WatchedWhileRunning'
    BY <2>1, <2>2 DEF WatchedWhileRunning
  <2> QED BY <1>3, <1>4, <2>3, <2>4, <2>5, <2>6 DEF IInv, RunsInv
<1> QED BY <1>5, <1>6

LEMMA OnTestDoneFailed ==
  ASSUME IInv, NEW k \in Runs, onTestDoneFailed(k)
  PROVE  IInv'
<1>1. /\ running' = FALSE /\ runTestID' = NoRun /\ lastError' = TRUE
      /\ sweepActive' = FALSE /\ warmupRemaining' = 0 /\ medianActive' = FALSE
      /\ UNCHANGED <<quitting, warmupCount, medianRemaining, medianResults, param, iterations,
                     made, request, pollCtx, polls, cut, givenUp, api>>
      /\ chain[k] \in {"refused", "ended"} /\ chain' = [chain EXCEPT ![k] = "over"]
  BY DEF onTestDoneFailed, Drop
<1>2. \A j \in Runs : chain'[j] = IF j = k THEN "over" ELSE chain[j]
  BY <1>1 DEF IInv, WorkTypeOK
<1>3. ScreenTypeOK'
  <2>1. lastTestReq' \in 0..(Values - 1) \cup {NoValue}
    BY DEF onTestDoneFailed, IInv, ScreenTypeOK, WorkTypeOK
  <2>2. warmupRemaining' \in 0..warmupCount'
    BY <1>1 DEF IInv, ScreenTypeOK
  <2> QED BY <1>1, <2>1, <2>2 DEF IInv, ScreenTypeOK
<1>4. WorkTypeOK'
  BY <1>1 DEF IInv, WorkTypeOK
<1>5. SeriesInv' /\ WatchedWhileRunning'
  BY <1>1 DEF SeriesInv, OneSeries, RoomLeft, MedianCounts, WatchedWhileRunning
<1>6. RunsInv'
  BY <1>1, <1>2 DEF IInv, RunsInv, OnScreen, NotAskedYet, GivenUpStarted, MeasuredIsDone, WorkTypeOK
<1>7. HeldIsOver' /\ HeldOnce'
  BY <1>1, <1>2, HeldRuns DEF IInv, HeldInv, HeldIsOver, HeldOnce
<1> QED BY <1>3, <1>4, <1>5, <1>6, <1>7 DEF IInv, HeldInv

-----------------------------------------------------------------------------
(* A run that was measured. *)

LEMMA MeasuredRun ==
  ASSUME IInv, NEW k \in Runs, Measured(k)
  PROVE  /\ running /\ ~quitting /\ runTestID = k
         /\ chain[k] = "measured" /\ api[k] = "done" /\ k \notin givenUp
         /\ \A i \in DOMAIN iterations : iterations[i].run # k
         /\ \A i \in DOMAIN medianResults : medianResults[i] # k
<1>1. chain[k] = "measured" /\ ~quitting /\ runTestID = k
  BY DEF Measured, Stale
<1>2. running /\ k \notin givenUp /\ api[k] = "done"
  BY <1>1 DEF IInv, RunsInv, OnScreen, MeasuredIsDone
<1>3. /\ \A i \in DOMAIN iterations : iterations[i].run # k
      /\ \A i \in DOMAIN medianResults : medianResults[i] # k
  BY <1>1 DEF IInv, HeldInv, HeldIsOver
<1> QED BY <1>1, <1>2, <1>3

LEMMA ContinuesWork ==
  ASSUME IInv, NEW k \in Runs, Measured(k), NEW req \in 0..(Values - 1),
         Continue(k, req), made + 1 <= MaxRuns,
         UNCHANGED <<quitting, givenUp, api>>
  PROVE  /\ WorkTypeOK' /\ RunsInv' /\ WatchedWhileRunning'
         /\ \A j \in Runs : chain[j] = "over" \/ j = k => chain'[j] = "over"
<1>1. made + 1 \in Runs /\ made' = made + 1 /\ made \in Nat
  BY DEF IInv, WorkTypeOK, Continue, startRun
<1>2. chain[k] = "measured"
  BY MeasuredRun
<1>3. chain[made + 1] = "none" /\ k # made + 1
  BY <1>1, <1>2 DEF IInv, RunsInv, NotAskedYet
<1>4. /\ chain' \in [Runs -> Chains] /\ chain'[made + 1] = "create" /\ chain'[k] = "over"
      /\ \A j \in Runs \ {k, made + 1} : chain'[j] = chain[j]
  BY <1>1, <1>3 DEF IInv, WorkTypeOK, Continue, Dispatch
<1>5. WorkTypeOK'
  <2>1. request' \in [Runs -> 0..(Values - 1) \cup {NoValue}]
    BY <1>1 DEF Continue, startRun, IInv, WorkTypeOK
  <2>2. UNCHANGED <<pollCtx, polls, cut>>
    BY DEF Continue, startRun
  <2>3. made' \in 0..MaxRuns /\ UNCHANGED <<givenUp, api>>
    BY <1>1
  <2> QED BY <1>4, <2>1, <2>2, <2>3 DEF IInv, WorkTypeOK
<1>6. RunsInv'
  <2>1. OnScreen'
    BY DEF OnScreen, Continue
  <2>2. NotAskedYet'
    BY <1>1, <1>2, <1>3, <1>4 DEF IInv, RunsInv, NotAskedYet
  <2>3. GivenUpStarted' /\ MeasuredIsDone'
    BY <1>1, <1>3, <1>4 DEF IInv, RunsInv, GivenUpStarted, MeasuredIsDone, Watched, WorkTypeOK
  <2> QED BY <2>1, <2>2, <2>3 DEF RunsInv
<1>7. WatchedWhileRunning'
  BY <1>1, <1>4 DEF WatchedWhileRunning
<1>8. \A j \in Runs : chain[j] = "over" \/ j = k => chain'[j] = "over"
  BY <1>3, <1>4
<1> QED BY <1>5, <1>6, <1>7, <1>8

LEMMA ContinueWarmup ==
  ASSUME IInv, NEW k \in Runs, continueWarmup(k)
  PROVE  IInv'
<1>1. /\ Measured(k) /\ warmupRemaining > 0 /\ warmupRemaining' = warmupRemaining - 1
      /\ Continue(k, param)
      /\ UNCHANGED <<lastError, lastTestReq, quitting, warmupCount, medianActive,
                     medianRemaining, medianResults, sweepActive, param, iterations, givenUp, api>>
  BY DEF continueWarmup
<1>2. running /\ running' = TRUE /\ runTestID' = NoRun /\ made' = made + 1
  BY <1>1, MeasuredRun DEF Continue, startRun
<1>3. warmupRemaining \in Nat /\ made \in Nat /\ warmupCount \in Nat
  BY DEF IInv, ScreenTypeOK, WorkTypeOK
<1>4. made + warmupRemaining <= MaxRuns /\ made + 1 <= MaxRuns
  BY <1>1, <1>2, <1>3 DEF IInv, SeriesInv, RoomLeft
<1>5. param \in 0..(Values - 1)
  BY DEF IInv, ScreenTypeOK
<1>6. /\ WorkTypeOK' /\ RunsInv' /\ WatchedWhileRunning'
      /\ \A j \in Runs : chain[j] = "over" \/ j = k => chain'[j] = "over"
  BY <1>1, <1>4, <1>5, ContinuesWork
<1>7. ScreenTypeOK'
  <2>1. warmupRemaining' \in 0..warmupCount'
    BY <1>1 DEF IInv, ScreenTypeOK
  <2> QED BY <1>1, <1>2, <2>1 DEF IInv, ScreenTypeOK
<1>8. SeriesInv'
  BY <1>1, <1>2, <1>3, <1>4 DEF IInv, SeriesInv, OneSeries, RoomLeft, MedianCounts
<1>9. HeldIsOver' /\ HeldOnce'
  BY <1>1, <1>6, HeldRuns DEF IInv, HeldInv, HeldIsOver, HeldOnce
<1> QED BY <1>6, <1>7, <1>8, <1>9 DEF IInv, HeldInv

LEMMA ContinueMedian ==
  ASSUME IInv, NEW k \in Runs, continueMedian(k)
  PROVE  IInv'
<1>1. /\ Measured(k) /\ warmupRemaining = 0 /\ medianActive /\ medianRemaining > 1
      /\ medianResults' = Append(medianResults, k) /\ medianRemaining' = medianRemaining - 1
      /\ Continue(k, param)
      /\ UNCHANGED <<lastError, lastTestReq, quitting, warmupCount, warmupRemaining,
                     medianActive, sweepActive, param, iterations, givenUp, api>>
  BY DEF continueMedian
<1>2. running /\ running' = TRUE /\ runTestID' = NoRun /\ made' = made + 1
  BY <1>1, MeasuredRun DEF Continue, startRun
<1>3. medianRemaining \in Nat /\ made \in Nat /\ medianRemaining <= 3
  BY DEF IInv, ScreenTypeOK, WorkTypeOK
<1>4. made + medianRemaining <= MaxRuns + 1 /\ made + 1 <= MaxRuns
  BY <1>1, <1>2, <1>3 DEF IInv, SeriesInv, RoomLeft
<1>5. param \in 0..(Values - 1)
  BY DEF IInv, ScreenTypeOK
<1>6. /\ WorkTypeOK' /\ RunsInv' /\ WatchedWhileRunning'
      /\ \A j \in Runs : chain[j] = "over" \/ j = k => chain'[j] = "over"
  BY <1>1, <1>4, <1>5, ContinuesWork
<1>7. /\ medianResults \in Seq(Runs) /\ medianResults' \in Seq(Runs)
      /\ Len(medianResults') = Len(medianResults) + 1
      /\ \A i \in DOMAIN medianResults' :
            \/ medianResults'[i] = k
            \/ i \in DOMAIN medianResults /\ medianResults'[i] = medianResults[i]
  <2>1. medianResults \in Seq(Runs)
    BY DEF IInv, ScreenTypeOK
  <2> QED BY <1>1, <2>1
<1>8. ScreenTypeOK'
  <2>1. medianRemaining' \in 0..3
    BY <1>1, <1>3
  <2> QED BY <1>1, <1>2, <1>7, <2>1 DEF IInv, ScreenTypeOK
<1>9. SeriesInv'
  <2>1. Len(medianResults) \in Nat
    BY <1>7, LenProperties
  <2> QED BY <1>1, <1>2, <1>3, <1>4, <1>7, <2>1 DEF IInv, SeriesInv, OneSeries, RoomLeft, MedianCounts
<1>10. HeldIsOver'
  <2>1. api' = api /\ iterations' = iterations /\ api[k] = "done"
    BY <1>1, MeasuredRun
  <2>2. \A i \in DOMAIN iterations' :
           chain'[iterations'[i].run] = "over" /\ api'[iterations'[i].run] = "done"
    BY <1>6, <2>1, HeldRuns DEF IInv, HeldInv, HeldIsOver
  <2>3. \A i \in DOMAIN medianResults' :
           chain'[medianResults'[i]] = "over" /\ api'[medianResults'[i]] = "done"
    <3> SUFFICES ASSUME NEW i \in DOMAIN medianResults'
                 PROVE  chain'[medianResults'[i]] = "over" /\ api[medianResults'[i]] = "done"
      BY <2>1
    <3>1. CASE medianResults'[i] = k
      BY <1>6, <2>1, <3>1
    <3>2. CASE i \in DOMAIN medianResults /\ medianResults'[i] = medianResults[i]
      BY <1>6, <3>2, HeldRuns DEF IInv, HeldInv, HeldIsOver
    <3> QED BY <1>7, <3>1, <3>2
  <2> QED BY <2>2, <2>3 DEF HeldIsOver
<1>11. HeldOnce'
  BY <1>1, <1>7, MeasuredRun DEF IInv, HeldInv, HeldOnce
<1> QED BY <1>6, <1>8, <1>9, <1>10, <1>11 DEF IInv, HeldInv

\* The run recorded is one the lab held, or the one just measured.
LEMMA RecordedIsHeld ==
  ASSUME IInv, NEW k \in Runs, Measured(k), NEW r \in Recorded(k)
  PROVE  \/ r = k
         \/ medianActive /\ \E i \in DOMAIN medianResults : r = medianResults[i]
<1>1. CASE medianActive
  <2>1. medianResults \in Seq(Runs)
    BY DEF IInv, ScreenTypeOK
  <2>2. PICK i \in DOMAIN Append(medianResults, k) : r = Append(medianResults, k)[i]
    BY <1>1 DEF Recorded, computeMedianIteration, Range
  <2> QED BY <1>1, <2>1, <2>2
<1>2. CASE ~medianActive
  BY <1>2 DEF Recorded
<1> QED BY <1>1, <1>2

LEMMA OnTestDone ==
  ASSUME IInv, NEW k \in Runs, onTestDone(k)
  PROVE  IInv'
<1>1. /\ Measured(k) /\ warmupRemaining = 0 /\ (medianActive => medianRemaining = 1)
      /\ medianActive' = FALSE
      /\ medianRemaining' = IF medianActive THEN 0 ELSE medianRemaining
      /\ medianResults' = IF medianActive THEN <<>> ELSE medianResults
      /\ UNCHANGED <<lastError, lastTestReq, quitting, warmupCount, warmupRemaining, givenUp, api>>
  BY DEF onTestDone
<1>2. PICK r \in Recorded(k) : iterations' = Append(iterations, [run |-> r, label |-> param])
  BY DEF onTestDone, buildIteration
<1>3. /\ running /\ ~quitting /\ runTestID = k /\ chain[k] = "measured" /\ api[k] = "done"
      /\ \A i \in DOMAIN iterations : iterations[i].run # k
      /\ \A i \in DOMAIN medianResults : medianResults[i] # k
  BY <1>1, MeasuredRun
<1>4. /\ r \in Runs /\ api[r] = "done" /\ (r = k \/ chain[r] = "over")
      /\ \A i \in DOMAIN iterations : iterations[i].run # r
      /\ ~medianActive => r = k
  BY <1>1, <1>3, RecordedIsHeld, HeldRuns DEF IInv, HeldInv, HeldIsOver, HeldOnce
<1>5. param \in 0..(Values - 1) /\ made \in Nat
  BY DEF IInv, ScreenTypeOK, WorkTypeOK
<1>6. /\ iterations' \in Seq([run : Runs, label : 0..(Values - 1)])
      /\ \A i \in DOMAIN iterations' :
            \/ iterations'[i].run = r /\ i = Len(iterations) + 1
            \/ i \in DOMAIN iterations /\ iterations'[i] = iterations[i]
  <2>1. iterations \in Seq([run : Runs, label : 0..(Values - 1)])
    BY DEF IInv, ScreenTypeOK
  <2>2. [run |-> r, label |-> param] \in [run : Runs, label : 0..(Values - 1)]
    BY <1>4, <1>5
  <2> HIDE DEF Runs
  <2> QED BY <1>2, <2>1, <2>2
<1>7. medianRemaining' \in 0..3 /\ medianResults' \in Seq(Runs)
  <2>1. medianRemaining \in 0..3 /\ medianResults \in Seq(Runs) /\ medianActive \in BOOLEAN
    BY DEF IInv, ScreenTypeOK
  <2>2. CASE medianActive
    BY <1>1, <2>2
  <2>3. CASE ~medianActive
    BY <1>1, <2>1, <2>3
  <2> QED BY <2>2, <2>3
<1>8. HeldOnce'
  <2>1. \A i, j \in DOMAIN iterations' : iterations'[i].run = iterations'[j].run => i = j
    BY <1>4, <1>6 DEF IInv, HeldInv, HeldOnce
  <2>2. CASE medianActive
    BY <1>1, <2>1, <2>2 DEF HeldOnce
  <2>3. CASE ~medianActive
    <3>1. medianResults' = medianResults /\ r = k
      BY <1>1, <1>4, <2>3
    <3>2. \A i \in DOMAIN iterations', j \in DOMAIN medianResults : iterations'[i].run # medianResults[j]
      BY <1>3, <1>6, <3>1 DEF IInv, HeldInv, HeldOnce
    <3> QED BY <2>1, <3>1, <3>2 DEF HeldOnce
  <2> QED BY <2>2, <2>3
<1>9. ASSUME \A j \in Runs : chain[j] = "over" \/ j = k => chain'[j] = "over"
      PROVE  HeldIsOver'
  <2>1. \A i \in DOMAIN iterations' :
           chain'[iterations'[i].run] = "over" /\ api'[iterations'[i].run] = "done"
    BY <1>1, <1>4, <1>6, <1>9, HeldRuns DEF IInv, HeldInv, HeldIsOver
  <2>2. CASE medianActive
    BY <1>1, <2>1, <2>2 DEF HeldIsOver
  <2>3. CASE ~medianActive
    BY <1>1, <1>9, <2>1, <2>3, HeldRuns DEF IInv, HeldInv, HeldIsOver
  <2> QED BY <2>2, <2>3
<1>10. CASE sweepActive /\ param < Values - 1
  <2>1. param' = param + 1 /\ Continue(k, param + 1) /\ sweepActive' = sweepActive
    BY <1>10 DEF onTestDone
  <2>2. made + Values <= MaxRuns + 1 + param /\ made + 1 <= MaxRuns /\ ~medianActive
    BY <1>3, <1>5, <1>10 DEF IInv, SeriesInv, OneSeries, RoomLeft
  <2>3. running' = TRUE /\ runTestID' = NoRun /\ made' = made + 1
    BY <2>1 DEF Continue, startRun
  <2>4. /\ WorkTypeOK' /\ RunsInv' /\ WatchedWhileRunning'
        /\ \A j \in Runs : chain[j] = "over" \/ j = k => chain'[j] = "over"
    BY <1>1, <1>5, <1>10, <2>1, <2>2, ContinuesWork
  <2>5. ScreenTypeOK'
    <3>1. param' \in 0..(Values - 1)
      BY <1>5, <1>10, <2>1
    <3> QED BY <1>1, <1>6, <1>7, <2>1, <2>3, <3>1 DEF IInv, ScreenTypeOK
  <2>6. SeriesInv'
    BY <1>1, <1>5, <2>1, <2>2, <2>3 DEF IInv, SeriesInv, OneSeries, RoomLeft, MedianCounts
  <2> QED BY <1>8, <1>9, <2>4, <2>5, <2>6 DEF IInv, HeldInv
<1>11. CASE ~(sweepActive /\ param < Values - 1)
  <2>1. /\ sweepActive' = FALSE /\ running' = FALSE /\ runTestID' = NoRun
        /\ chain' = [chain EXCEPT ![k] = "over"]
        /\ UNCHANGED <<param, made, request, pollCtx, polls, cut>>
    BY <1>11 DEF onTestDone, Drop
  <2>2. \A j \in Runs : chain'[j] = IF j = k THEN "over" ELSE chain[j]
    BY <2>1 DEF IInv, WorkTypeOK
  <2>3. ScreenTypeOK'
    BY <1>1, <1>6, <1>7, <2>1 DEF IInv, ScreenTypeOK
  <2>4. WorkTypeOK'
    BY <1>1, <2>1 DEF IInv, WorkTypeOK
  <2>5. SeriesInv' /\ WatchedWhileRunning'
    BY <1>1, <2>1 DEF SeriesInv, OneSeries, RoomLeft, MedianCounts, WatchedWhileRunning
  <2>6. RunsInv'
    BY <1>1, <1>3, <2>1, <2>2 DEF IInv, RunsInv, OnScreen, NotAskedYet, GivenUpStarted,
                                  MeasuredIsDone, WorkTypeOK
  <2>7. HeldIsOver'
    BY <1>9, <2>2
  <2> QED BY <1>8, <2>3, <2>4, <2>5, <2>6, <2>7 DEF IInv, HeldInv
<1> QED BY <1>10, <1>11

-----------------------------------------------------------------------------
(* The theorems. *)

LEMMA InitInv == Init => IInv
<1> SUFFICES ASSUME Init PROVE IInv
  OBVIOUS
<1>1. ScreenTypeOK
  <2>1. /\ warmupCount \in 0..MaxWarmup /\ warmupRemaining \in 0..warmupCount
        /\ param \in 0..(Values - 1) /\ lastTestReq = NoValue
    BY DEF Init
  <2>2. medianResults \in Seq(Runs) /\ iterations \in Seq([run : Runs, label : 0..(Values - 1)])
    BY DEF Init
  <2>3. /\ running \in BOOLEAN /\ lastError \in BOOLEAN /\ quitting \in BOOLEAN
        /\ medianActive \in BOOLEAN /\ sweepActive \in BOOLEAN
        /\ runTestID = NoRun /\ medianRemaining = 0
    BY DEF Init
  <2> QED BY <2>1, <2>2, <2>3 DEF ScreenTypeOK
<1>2. WorkTypeOK
  BY DEF Init, WorkTypeOK
<1>3. SeriesInv /\ RunsInv /\ HeldInv /\ WatchedWhileRunning
  BY DEF Init, SeriesInv, OneSeries, RoomLeft, MedianCounts, RunsInv, OnScreen, NotAskedYet,
         GivenUpStarted, MeasuredIsDone, HeldInv, HeldIsOver, HeldOnce, WatchedWhileRunning
<1> QED BY <1>1, <1>2, <1>3 DEF IInv

LEMMA StutterInv == ASSUME IInv, UNCHANGED vars PROVE IInv'
<1> USE DEF IInv, vars, screen, series, work
<1>1. ScreenTypeOK' /\ WorkTypeOK'
  BY DEF ScreenTypeOK, WorkTypeOK
<1>2. SeriesInv' /\ RunsInv' /\ HeldInv' /\ WatchedWhileRunning'
  BY DEF SeriesInv, OneSeries, RoomLeft, MedianCounts, RunsInv, OnScreen, NotAskedYet,
         GivenUpStarted, MeasuredIsDone, HeldInv, HeldIsOver, HeldOnce, WatchedWhileRunning
<1> QED BY <1>1, <1>2

LEMMA StepInv == IInv /\ [Next]_vars => IInv'
<1> SUFFICES ASSUME IInv, [Next]_vars PROVE IInv'
  OBVIOUS
<1>1. CASE UNCHANGED vars
  BY <1>1, StutterInv
<1>2. CASE startIteration \/ startSweep \/ startMedian \/ retryTest
  BY <1>2, StartIteration, StartSweep, StartMedian, RetryTest
<1>3. CASE updateRunningKey \/ RunLab
  BY <1>3, UpdateRunningKey, Quit
<1>4. CASE \E k \in Runs : Command(k) \/ Message(k)
  <2>1. PICK k \in Runs : Command(k) \/ Message(k)
    BY <1>4
  <2>2. CASE Command(k)
    BY <2>2, RunTest, PollTestOnce DEF Command
  <2>3. CASE Message(k)
    BY <2>3, OnTestStarted, OnProgress, OnTestDoneStale, OnTestDoneFailed,
       ContinueWarmup, ContinueMedian, OnTestDone DEF Message
  <2> QED BY <2>1, <2>2, <2>3
<1> QED BY <1>1, <1>2, <1>3, <1>4 DEF Next

\* The counters of a series and the runs they stand for agree (startRun,
\* onTestStarted, onTestDone).
THEOREM LabInvariant == Spec => []IInv
BY InitInv, StepInv, PTL DEF Spec

\* However the answers of cancelled runs cross those of new ones, a screen
\* that says a run is in flight waits for something (onTestStarted, onProgress).
THEOREM RunningIsWatched == Spec => []WatchedWhileRunning
<1>1. IInv => WatchedWhileRunning
  BY DEF IInv
<1> QED BY <1>1, LabInvariant, PTL

\* Three runs to a median, and only runs the API has as done are recorded,
\* each of them once (continueMedian, onTestDone).
THEOREM RecordStaysSound == Spec => []RecordIsSound
<1>1. IInv => RecordIsSound
  BY DEF IInv, SeriesInv, MedianCounts, HeldInv, HeldIsOver, HeldOnce,
         RecordIsSound, MedianOfThree, RecordedRunsFinished
<1> QED BY <1>1, LabInvariant, PTL

-----------------------------------------------------------------------------
(* The lab is a session: each of its steps is one of the session's, or     *)
(* changes nothing the session knows of.                                   *)

Busy == running /\ ~quitting
HeldRunsOf == {s.run : s \in Range(iterations)} \cup Range(medianResults)

LEMMA AsASession ==
  /\ UNCHANGED Lab!session <=> UNCHANGED <<Busy, HeldRunsOf, givenUp>>
  /\ Lab!SessionInit <=> ~Busy /\ HeldRunsOf = {} /\ givenUp = {}
  /\ Lab!Start <=> /\ ~Busy /\ Busy' /\ HeldRunsOf' \subseteq HeldRunsOf /\ givenUp' = givenUp
  /\ Lab!End <=> /\ Busy /\ ~Busy' /\ HeldRunsOf' \subseteq HeldRunsOf /\ givenUp' = givenUp
  /\ Lab!GiveUp <=> /\ givenUp \subseteq givenUp' /\ HeldRunsOf' \subseteq HeldRunsOf
                    /\ Busy' => Busy
  /\ Lab!Record <=>
        /\ Busy /\ Busy' \in BOOLEAN /\ givenUp' = givenUp
        /\ \E r \in HeldRunsOf' \ HeldRunsOf :
              r \notin givenUp /\ HeldRunsOf' \subseteq HeldRunsOf \cup {r}
BY DEF Lab!session, Lab!SessionInit, Lab!Start, Lab!End, Lab!GiveUp, Lab!Record, Busy, HeldRunsOf

LEMMA HeldShrinks ==
  ASSUME UNCHANGED iterations, medianResults' = medianResults \/ medianResults' = <<>>
  PROVE  HeldRunsOf' \subseteq HeldRunsOf
BY DEF HeldRunsOf, Range

LEMMA StartsASession ==
  ASSUME IInv, startIteration \/ startSweep \/ startMedian \/ retryTest
  PROVE  Lab!Start
<1>1. /\ Idle /\ running' /\ ~quitting' /\ givenUp' = givenUp /\ iterations' = iterations
      /\ medianResults' = medianResults \/ medianResults' = <<>>
  BY DEF startIteration, startSweep, startMedian, retryTest, Idle, startRun, series
<1> QED BY <1>1, HeldShrinks, AsASession DEF Busy, Idle

LEMMA GivesUp ==
  ASSUME IInv,
         \/ updateRunningKey \/ RunLab \/ \E k \in Runs : onTestStarted(k)
  PROVE  Lab!GiveUp
<1>1. /\ givenUp \subseteq givenUp' /\ iterations' = iterations
      /\ medianResults' = medianResults \/ medianResults' = <<>>
      /\ Busy' => Busy
  BY DEF updateRunningKey, RunLab, onTestStarted, cancelRun, stopRun, series, Busy
<1> QED BY <1>1, HeldShrinks, AsASession

LEMMA ChangesNothing ==
  ASSUME NEW k \in Runs, Command(k) \/ onProgress(k) \/ onTestDoneStale(k)
  PROVE  UNCHANGED Lab!session
<1>1. UNCHANGED <<running, quitting, iterations, medianResults, givenUp>>
  BY DEF Command, runTest, pollTestOnce, onProgress, onTestDoneStale, screen, series
<1>2. UNCHANGED <<Busy, HeldRunsOf, givenUp>>
  BY <1>1 DEF Busy, HeldRunsOf
<1> QED BY <1>2, AsASession

LEMMA FailureEnds ==
  ASSUME IInv, NEW k \in Runs, onTestDoneFailed(k)
  PROVE  Lab!End
<1>1. /\ ~running' /\ iterations' = iterations /\ medianResults' = medianResults
      /\ givenUp' = givenUp /\ ~quitting
  BY DEF onTestDoneFailed
<1>2. running
  BY DEF onTestDoneFailed, Stale, IInv, RunsInv, OnScreen
<1> QED BY <1>1, <1>2, HeldShrinks, AsASession DEF Busy

LEMMA NotHeldYet ==
  ASSUME IInv, NEW k \in Runs, Measured(k)
  PROVE  k \notin HeldRunsOf
BY MeasuredRun DEF HeldRunsOf, Range

LEMMA WarmupKeepsOn ==
  ASSUME IInv, NEW k \in Runs, continueWarmup(k)
  PROVE  UNCHANGED Lab!session
<1>1. /\ Measured(k) /\ running' /\ iterations' = iterations /\ medianResults' = medianResults
      /\ givenUp' = givenUp /\ quitting' = quitting
  BY DEF continueWarmup, Continue, startRun
<1>2. running /\ ~quitting
  BY <1>1, MeasuredRun
<1>3. Busy' = Busy
  BY <1>1, <1>2 DEF Busy
<1>4. HeldRunsOf' = HeldRunsOf
  BY <1>1 DEF HeldRunsOf
<1> QED BY <1>1, <1>3, <1>4, AsASession

LEMMA MedianRecords ==
  ASSUME IInv, NEW k \in Runs, continueMedian(k)
  PROVE  Lab!Record
<1>1. /\ Measured(k) /\ running' /\ iterations' = iterations
      /\ medianResults' = Append(medianResults, k)
      /\ givenUp' = givenUp /\ quitting' = quitting
  BY DEF continueMedian, Continue, startRun
<1>2. running /\ ~quitting /\ k \notin givenUp /\ k \notin HeldRunsOf
  BY <1>1, MeasuredRun, NotHeldYet
<1>3. Range(medianResults') = Range(medianResults) \cup {k}
  <2>1. medianResults \in Seq(Runs)
    BY DEF IInv, ScreenTypeOK
  <2>2. /\ DOMAIN medianResults' = DOMAIN medianResults \cup {Len(medianResults) + 1}
        /\ medianResults'[Len(medianResults) + 1] = k
        /\ \A i \in DOMAIN medianResults : medianResults'[i] = medianResults[i]
    BY <1>1, <2>1
  <2> QED BY <2>2 DEF Range
<1>4. HeldRunsOf' = HeldRunsOf \cup {k}
  BY <1>1, <1>3 DEF HeldRunsOf
<1> QED BY <1>1, <1>2, <1>4, AsASession DEF Busy

LEMMA RunsOfOneMore ==
  ASSUME NEW R, NEW r, NEW label
  PROVE  {s.run : s \in R \cup {[run |-> r, label |-> label]}} = {s.run : s \in R} \cup {r}
<1>1. PICK e : e = [run |-> r, label |-> label]
  OBVIOUS
<1>2. e.run = r
  BY <1>1
<1>3. \A x : x \in {s.run : s \in R \cup {e}} <=> x \in {s.run : s \in R} \cup {r}
  BY <1>2
<1> QED BY <1>1, <1>3

LEMMA DoneRecordsOrEnds ==
  ASSUME IInv, NEW k \in Runs, onTestDone(k)
  PROVE  Lab!Record \/ Lab!End
<1>1. /\ Measured(k) /\ givenUp' = givenUp /\ quitting' = quitting
      /\ medianResults' = IF medianActive THEN <<>> ELSE medianResults
  BY DEF onTestDone
<1>2. PICK r \in Recorded(k) : iterations' = Append(iterations, [run |-> r, label |-> param])
  BY DEF onTestDone, buildIteration
<1>3. running /\ ~quitting /\ k \notin givenUp /\ k \notin HeldRunsOf
  BY <1>1, MeasuredRun, NotHeldYet
<1>4. HeldRunsOf' \subseteq HeldRunsOf \cup {r} /\ r \in HeldRunsOf'
  <2>1. iterations \in Seq([run : Runs, label : 0..(Values - 1)])
    BY DEF IInv, ScreenTypeOK
  <2>2. /\ DOMAIN iterations' = DOMAIN iterations \cup {Len(iterations) + 1}
        /\ iterations'[Len(iterations) + 1] = [run |-> r, label |-> param]
        /\ \A i \in DOMAIN iterations : iterations'[i] = iterations[i]
    <3> DEFINE e == [run |-> r, label |-> param]
    <3> HIDE DEF e
    <3>1. iterations' = Append(iterations, e)
      BY <1>2 DEF e
    <3>2. \E S : iterations \in Seq(S)
      BY <2>1
    <3>3. /\ DOMAIN iterations' = DOMAIN iterations \cup {Len(iterations) + 1}
          /\ iterations'[Len(iterations) + 1] = e
          /\ \A i \in DOMAIN iterations : iterations'[i] = iterations[i]
      BY <3>1, <3>2
    <3> QED BY <3>3 DEF e
  <2>3. Range(iterations') = Range(iterations) \cup {[run |-> r, label |-> param]}
    BY <2>2 DEF Range
  <2>4. Range(medianResults') \subseteq Range(medianResults)
    BY <1>1 DEF Range
  <2>5. {s.run : s \in Range(iterations')} = {s.run : s \in Range(iterations)} \cup {r}
    <3>1. PICK e : e = [run |-> r, label |-> param]
      OBVIOUS
    <3>2. {s.run : s \in Range(iterations) \cup {e}} = {s.run : s \in Range(iterations)} \cup {r}
      BY <3>1, RunsOfOneMore
    <3> QED BY <2>3, <3>1, <3>2
  <2> QED BY <2>4, <2>5 DEF HeldRunsOf
<1>5. CASE r = k
  <2>1. Busy /\ Busy' \in BOOLEAN
    BY <1>1, <1>3 DEF Busy
  <2> QED BY <1>1, <1>3, <1>4, <1>5, <2>1, AsASession
<1>6. CASE medianActive /\ \E i \in DOMAIN medianResults : r = medianResults[i]
  <2>1. HeldRunsOf' \subseteq HeldRunsOf
    BY <1>4, <1>6 DEF HeldRunsOf, Range
  <2>2. ~running'
    BY <1>6 DEF onTestDone, IInv, SeriesInv, OneSeries
  <2> QED BY <1>1, <1>3, <2>1, <2>2, AsASession DEF Busy
<1> QED BY <1>1, <1>2, <1>5, <1>6, RecordedIsHeld

LEMMA StepOfTheSession == IInv /\ [Next]_vars => [Lab!SessionNext]_(Lab!session)
<1> SUFFICES ASSUME IInv, [Next]_vars PROVE [Lab!SessionNext]_(Lab!session)
  OBVIOUS
<1>1. CASE UNCHANGED vars
  <2>1. UNCHANGED <<Busy, HeldRunsOf, givenUp>>
    BY <1>1 DEF vars, screen, series, work, Busy, HeldRunsOf
  <2> QED BY <2>1, AsASession
<1>2. CASE startIteration \/ startSweep \/ startMedian \/ retryTest
  BY <1>2, StartsASession DEF Lab!SessionNext
<1>3. CASE updateRunningKey \/ RunLab
  BY <1>3, GivesUp DEF Lab!SessionNext
<1>4. CASE \E k \in Runs : Command(k) \/ Message(k)
  <2>1. PICK k \in Runs : Command(k) \/ Message(k)
    BY <1>4
  <2>2. CASE Command(k) \/ onProgress(k) \/ onTestDoneStale(k)
    BY <2>2, ChangesNothing
  <2>3. CASE onTestStarted(k)
    BY <2>3, GivesUp DEF Lab!SessionNext
  <2>4. CASE onTestDoneFailed(k)
    BY <2>4, FailureEnds DEF Lab!SessionNext
  <2>5. CASE continueWarmup(k)
    BY <2>5, WarmupKeepsOn
  <2>6. CASE continueMedian(k)
    BY <2>6, MedianRecords DEF Lab!SessionNext
  <2>7. CASE onTestDone(k)
    BY <2>7, DoneRecordsOrEnds DEF Lab!SessionNext
  <2> QED BY <2>1, <2>2, <2>3, <2>4, <2>5, <2>6, <2>7 DEF Message
<1> QED BY <1>1, <1>2, <1>3, <1>4 DEF Next

\* The safety half of LabIsASession: one measurement at a time, and a run
\* the lab gave up is never recorded, however late its result comes.
THEOREM LabTakesTurns == Spec => Lab!InTurn
<1>1. Init => Lab!SessionInit
  BY AsASession DEF Init, Busy, HeldRunsOf, Range
<1> QED BY <1>1, InitInv, StepInv, StepOfTheSession, PTL DEF Spec, Lab!InTurn

================================================================================
