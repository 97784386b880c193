------------------------------- MODULE LabScreen -------------------------------
(***************************************************************************)
(* `kates lab`, the full-screen workbench of cli/tui/lab.go.  The screen   *)
(* is one goroutine that handles keys and messages in turn (Update); the   *)
(* requests it sends are commands, goroutines of their own whose messages  *)
(* come back in any order.  Every command that creates a run is followed   *)
(* by the polls of that run, one at a time, so run k's background work is  *)
(* one chain: create, started, poll, progress, poll ... done.              *)
(*                                                                         *)
(* One parameter stands for the pane's, and the warm-up count is set once. *)
(* The views, the pins, the clock, the live counters and the saved session *)
(* only show or copy what is modelled here and are left out.               *)
(***************************************************************************)
EXTENDS Integers, Sequences, FiniteSets, SequencesExt

CONSTANTS
    MaxRuns,     \* bound on the runs one session creates
    MaxPolls,    \* polls that fit before pollMaxWait's deadline
    MaxWarmup,   \* bound on the warm-up count the user sets
    Values,      \* how many values the parameter under the cursor has
    Pane,        \* those the user's edits leave it at
    Speed        \* the throughput each run measures

ASSUME LabAssumption ==
    /\ MaxRuns \in Nat /\ MaxPolls \in Nat /\ MaxWarmup \in Nat
    /\ Values \in Nat \ {0} /\ Pane \subseteq 0..(Values - 1)
    /\ Speed \in [1..MaxRuns -> Nat]

Runs == 1..MaxRuns
NoRun == 0
NoValue == -1

VARIABLES
    running, runTestID, lastError, lastTestReq, quitting,  \* the model's run
    warmupCount, warmupRemaining,
    medianActive, medianRemaining, medianResults,
    sweepActive, param, iterations,
    made,       \* runs asked for so far; also names the model's context
    request,    \* the parameter each run was asked with
    chain,      \* where each run's background work is
    pollCtx,    \* the context its poll runs under
    polls,      \* the polls it has made
    cut,        \* the contexts cancelFn was called on
    givenUp,    \* the runs a cancel command was sent for
    api         \* each run, as the API has it

series == <<warmupCount, warmupRemaining, medianActive, medianRemaining,
            medianResults, sweepActive>>
screen == <<running, runTestID, lastError, lastTestReq, quitting, series,
            param, iterations>>
work == <<made, request, chain, pollCtx, polls, cut, givenUp>>
vars == <<screen, work, api>>

Init ==
    /\ running = FALSE /\ runTestID = NoRun
    /\ lastError = FALSE /\ lastTestReq = NoValue /\ quitting = FALSE
    /\ warmupCount \in 0..MaxWarmup /\ warmupRemaining = 0
    /\ medianActive = FALSE /\ medianRemaining = 0 /\ medianResults = <<>>
    /\ sweepActive = FALSE /\ param = 0 /\ iterations = <<>>
    /\ made = 0
    /\ request = [k \in Runs |-> NoValue]
    /\ chain = [k \in Runs |-> "none"]
    /\ pollCtx = [k \in Runs |-> NoRun]
    /\ polls = [k \in Runs |-> 0]
    /\ cut = {}
    /\ givenUp = {}
    /\ api = [k \in Runs |-> "none"]

Room(n) == made + n <= MaxRuns

(***************************************************************************)
(* Pieces the handlers share.                                              *)
(***************************************************************************)
\* startRun and the command its caller dispatches: a fresh context and a
\* create of the given request.  It leaves runTestID as it was.
startRun(req) ==
    /\ running' = TRUE
    /\ made' = made + 1
    /\ request' = [request EXCEPT ![made + 1] = req]
    /\ UNCHANGED <<pollCtx, polls, cut>>

\* stopRun: whatever was in progress is dropped.
stopRun ==
    /\ running' = FALSE
    /\ runTestID' = NoRun
    /\ sweepActive' = FALSE
    /\ medianActive' = FALSE
    /\ medianResults' = <<>>
    /\ warmupRemaining' = 0
    /\ UNCHANGED <<medianRemaining, warmupCount>>

cancelRun(k) == givenUp' = givenUp \cup ({k} \ {NoRun})

Dispatch(ch) == chain' = [ch EXCEPT ![made + 1] = "create"]

(***************************************************************************)
(* Keys between runs.                                                      *)
(***************************************************************************)
Idle == ~running /\ ~quitting

\* The keys that only move the parameter, and the presets, are taken with
\* the key that starts the next run.
edit == param' \in Pane

startIteration ==
    LET remaining == IF warmupRemaining = 0 THEN warmupCount
                     ELSE warmupRemaining
    IN  /\ Idle /\ Room(remaining + 1)
        /\ warmupRemaining' = remaining
        /\ lastError' = FALSE
        /\ edit
        /\ startRun(param') /\ Dispatch(chain)
        /\ UNCHANGED <<runTestID, lastTestReq, quitting, warmupCount,
                       medianActive, medianRemaining, medianResults,
                       sweepActive, iterations, givenUp, api>>

startSweep ==
    /\ Idle /\ ~sweepActive /\ Room(Values)
    /\ sweepActive' = TRUE
    /\ param' = 0
    /\ startRun(0) /\ Dispatch(chain)
    /\ UNCHANGED <<runTestID, lastError, lastTestReq, quitting, warmupCount,
                   warmupRemaining, medianActive, medianRemaining,
                   medianResults, iterations, givenUp, api>>

startMedianTwoMore ==
    /\ Idle /\ ~medianActive /\ Room(3)
    /\ medianActive' = TRUE
    /\ medianRemaining' = 2
    /\ medianResults' = <<>>
    /\ lastError' = FALSE
    /\ edit
    /\ startRun(param') /\ Dispatch(chain)
    /\ UNCHANGED <<runTestID, lastTestReq, quitting, warmupCount,
                   warmupRemaining, sweepActive, iterations, givenUp, api>>

startMedian ==
    /\ Idle /\ ~medianActive /\ Room(3)
    /\ medianActive' = TRUE
    /\ medianRemaining' = 3
    /\ medianResults' = <<>>
    /\ lastError' = FALSE
    /\ edit
    /\ startRun(param') /\ Dispatch(chain)
    /\ UNCHANGED <<runTestID, lastTestReq, quitting, warmupCount,
                   warmupRemaining, sweepActive, iterations,
                   givenUp, api>>

\* The last request is sent again, whatever the pane says now.
retryTest ==
    /\ Idle /\ lastError /\ lastTestReq # NoValue /\ Room(1)
    /\ lastError' = FALSE
    /\ edit
    /\ startRun(lastTestReq) /\ Dispatch(chain)
    /\ UNCHANGED <<runTestID, lastTestReq, quitting, series,
                   iterations, givenUp, api>>

(***************************************************************************)
(* Keys while a run is in flight: cancel, and quit.                        *)
(***************************************************************************)
updateRunningKey ==
    /\ running /\ ~quitting
    /\ cut' = cut \cup {made}
    /\ cancelRun(runTestID)
    /\ stopRun
    /\ UNCHANGED <<lastError, lastTestReq, quitting, param, iterations,
                   made, request, chain, pollCtx, polls, api>>

\* RunLab givenUp the run on screen once the program has left it.
RunLab ==
    /\ ~quitting
    /\ quitting' = TRUE
    /\ cut' = IF running THEN cut \cup {made} ELSE cut
    /\ cancelRun(runTestID)
    /\ UNCHANGED <<running, runTestID, lastError, lastTestReq, series, param,
                   iterations, made, request, chain, pollCtx, polls,
                   api>>

(***************************************************************************)
(* Messages.                                                               *)
(***************************************************************************)
Poll(k) ==
    /\ chain' = [chain EXCEPT ![k] = "poll"]
    /\ pollCtx' = [pollCtx EXCEPT ![k] = made]

\* The chain is over: nothing of it is looked at again.
Drop(k) == chain' = [chain EXCEPT ![k] = "over"]

onTestStarted(k) ==
    /\ chain[k] = "started" /\ ~quitting
    /\ \/ /\ ~running
          /\ cancelRun(k)
          /\ Drop(k)
          /\ UNCHANGED <<runTestID, lastTestReq, pollCtx>>
       \/ /\ running
          /\ runTestID' = k
          /\ lastTestReq' = request[k]
          /\ Poll(k)
          /\ UNCHANGED givenUp
    /\ UNCHANGED <<running, lastError, quitting, series, param, iterations,
                   made, request, polls, cut, api>>

onProgressGivesUp(k) ==
    /\ chain[k] = "progress" /\ ~quitting
    /\ IF running /\ runTestID = k /\ polls[k] < MaxPolls THEN Poll(k)
       ELSE Drop(k) /\ UNCHANGED pollCtx
    /\ UNCHANGED <<screen, made, request, polls, cut, givenUp, api>>

onProgress(k) ==
    /\ chain[k] = "progress" /\ ~quitting
    /\ IF running /\ runTestID = k THEN Poll(k)
       ELSE Drop(k) /\ UNCHANGED pollCtx
    /\ UNCHANGED <<screen, made, request, polls, cut, givenUp, api>>

StaleWhenIdle(k) == ~running

\* Is a done message dropped?  A create that failed has no run to name.
Stale(k) ==
    \/ chain[k] # "refused" /\ runTestID # k
    \/ chain[k] = "refused" /\ ~running

Finished == {"refused", "ended", "measured"}

onTestDoneStale(k) ==
    /\ chain[k] \in Finished /\ ~quitting /\ Stale(k)
    /\ Drop(k)
    /\ UNCHANGED <<screen, made, request, pollCtx, polls, cut, givenUp, api>>

onTestDoneFailed(k) ==
    /\ chain[k] \in {"refused", "ended"} /\ ~quitting /\ ~Stale(k)
    /\ running' = FALSE /\ runTestID' = NoRun
    /\ lastTestReq' = IF chain[k] = "refused" THEN request[k] ELSE lastTestReq
    /\ lastError' = TRUE
    /\ sweepActive' = FALSE /\ warmupRemaining' = 0 /\ medianActive' = FALSE
    /\ Drop(k)
    /\ UNCHANGED <<quitting, warmupCount, medianRemaining, medianResults,
                   param, iterations, made, request, pollCtx, polls,
                   cut, givenUp, api>>

\* A run that was measured: the next of its series starts, or it is recorded.
Measured(k) == chain[k] = "measured" /\ ~quitting /\ ~Stale(k)

Continue(k, req) ==
    /\ runTestID' = NoRun
    /\ startRun(req)
    /\ Dispatch([chain EXCEPT ![k] = "over"])

continueWarmup(k) ==
    /\ Measured(k) /\ warmupRemaining > 0
    /\ warmupRemaining' = warmupRemaining - 1
    /\ Continue(k, param)
    /\ UNCHANGED <<lastError, lastTestReq, quitting, warmupCount,
                   medianActive, medianRemaining, medianResults, sweepActive,
                   param, iterations, givenUp, api>>

continueMedian(k) ==
    /\ Measured(k) /\ warmupRemaining = 0
    /\ medianActive /\ medianRemaining > 1
    /\ medianResults' = Append(medianResults, k)
    /\ medianRemaining' = medianRemaining - 1
    /\ Continue(k, param)
    /\ UNCHANGED <<lastError, lastTestReq, quitting, warmupCount,
                   warmupRemaining, medianActive, sweepActive, param,
                   iterations, givenUp, api>>

\* The run in the middle when those of s are sorted by throughput: any of
\* the candidates where runs tie.
computeMedianIteration(s) ==
    LET Less(a, b) == Speed[a] < Speed[b]
        middle == Len(s) \div 2
    IN {m \in Range(s) :
          /\ Cardinality({j \in DOMAIN s : Less(s[j], m)}) <= middle
          /\ Cardinality({j \in DOMAIN s : Less(m, s[j])}) < Len(s) - middle}

Recorded(k) ==
    IF medianActive
    THEN computeMedianIteration(Append(medianResults, k))
    ELSE {k}

\* buildIteration labels the result with the parameters on screen.
buildIteration(k) == [run |-> k, label |-> param]

onTestDone(k) ==
    /\ Measured(k) /\ warmupRemaining = 0
    /\ medianActive => medianRemaining = 1
    /\ \E r \in Recorded(k) : iterations' = Append(iterations, buildIteration(r))
    /\ medianActive' = FALSE
    /\ medianRemaining' = IF medianActive THEN 0 ELSE medianRemaining
    /\ medianResults' = IF medianActive THEN <<>> ELSE medianResults
    /\ IF sweepActive /\ param < Values - 1
       THEN /\ param' = param + 1
            /\ Continue(k, param + 1)
            /\ UNCHANGED sweepActive
       ELSE /\ sweepActive' = FALSE
            /\ running' = FALSE /\ runTestID' = NoRun
            /\ Drop(k)
            /\ UNCHANGED <<param, made, request, pollCtx, polls, cut>>
    /\ UNCHANGED <<lastError, lastTestReq, quitting, warmupCount,
                   warmupRemaining, givenUp, api>>

(***************************************************************************)
(* Commands, on goroutines of their own.                                   *)
(***************************************************************************)
\* The create: its context is cut, the API refuses it, or the API makes the
\* run and the answer comes back or is lost.
runTest(k) ==
    /\ chain[k] = "create" /\ ~quitting
    /\ \/ /\ api' = [api EXCEPT ![k] = "going"]
          /\ chain' \in {[chain EXCEPT ![k] = "started"],
                         [chain EXCEPT ![k] = "refused"]}
       \/ chain' = [chain EXCEPT ![k] = "refused"] /\ UNCHANGED api
    /\ UNCHANGED <<screen, made, request, pollCtx, polls, cut, givenUp>>

PollMessage == [going |-> "progress", failed |-> "ended", done |-> "measured"]

\* One poll: cut off, past the deadline, a read that fails, or one that
\* finds how the run is doing.  A cancelled run is still going to a poll,
\* which knows no CANCELLED.
pollTestOnce(k) ==
    /\ chain[k] = "poll" /\ ~quitting
    /\ \/ /\ pollCtx[k] \in cut \/ polls[k] = MaxPolls
          /\ chain' = [chain EXCEPT ![k] = "ended"]
          /\ UNCHANGED <<polls, api>>
       \/ /\ polls[k] < MaxPolls
          /\ polls' = [polls EXCEPT ![k] = @ + 1]
          /\ \/ chain' = [chain EXCEPT ![k] = "progress"] /\ UNCHANGED api
             \/ \E s \in DOMAIN PollMessage :
                   /\ api' = [api EXCEPT ![k] = s]
                   /\ chain' = [chain EXCEPT ![k] = PollMessage[s]]
    /\ UNCHANGED <<screen, made, request, pollCtx, cut, givenUp>>

Command(k) == runTest(k) \/ pollTestOnce(k)

Message(k) ==
    \/ onTestStarted(k) \/ onProgress(k)
    \/ onTestDoneStale(k) \/ onTestDoneFailed(k)
    \/ continueWarmup(k) \/ continueMedian(k) \/ onTestDone(k)

Next ==
    \/ startIteration \/ startSweep \/ startMedian \/ retryTest
    \/ updateRunningKey \/ RunLab
    \/ \E k \in Runs : Command(k) \/ Message(k)

\* A goroutine runs to its end, and the event loop takes every message.
Fairness == \A k \in Runs : WF_vars(Command(k)) /\ WF_vars(Message(k))

Spec == Init /\ [][Next]_vars /\ Fairness

(***************************************************************************)
(* Properties.                                                             *)
(***************************************************************************)
Chains == {"none", "create", "started", "poll", "progress", "over"} \cup Finished

\* The fields of LabModel keep their types; a run's number and the series
\* counters stay in range.
TypeOK ==
    /\ {running, lastError, quitting, medianActive, sweepActive} \subseteq BOOLEAN
    /\ runTestID \in Runs \cup {NoRun}
    /\ lastTestReq \in 0..(Values - 1) \cup {NoValue}
    /\ warmupCount \in 0..MaxWarmup /\ warmupRemaining \in 0..warmupCount
    /\ medianRemaining \in 0..3 /\ medianResults \in Seq(Runs)
    /\ param \in 0..(Values - 1)
    /\ iterations \in Seq([run : Runs, label : 0..(Values - 1)])
    /\ made \in 0..MaxRuns
    /\ request \in [Runs -> 0..(Values - 1) \cup {NoValue}]
    /\ chain \in [Runs -> Chains]
    /\ pollCtx \in [Runs -> Runs \cup {NoRun}]
    /\ polls \in [Runs -> 0..MaxPolls]
    /\ cut \subseteq Runs
    /\ givenUp \subseteq Runs
    /\ api \in [Runs -> {"none", "going", "done", "failed"}]

\* A screen that says a run is in flight is waiting for something: a create
\* whose answer will come, or the poll of the run it names.  However the
\* messages of cancelled runs cross those of new ones, the lab never shows
\* "Running" with nobody left to end it (onTestStarted, onProgress).
WatchedWhileRunning ==
    running /\ ~quitting =>
        \/ \E k \in Runs : chain[k] \in {"create", "started", "refused"}
        \/ /\ runTestID # NoRun
           /\ chain[runTestID] \in {"poll", "progress", "ended", "measured"}

\* Median mode records the middle of exactly three runs: the results of a
\* series that failed half way are not counted in the next (continueMedian).
MedianOfThree ==
    medianActive => Len(medianResults) + medianRemaining = 3

\* What is recorded was measured: the API has the run as done, never as
\* failed, and no run is recorded twice (pollTestOnce, onTestDone).
RecordedRunsFinished ==
    /\ \A i \in DOMAIN iterations : api[iterations[i].run] = "done"
    /\ \A i, j \in DOMAIN iterations :
          iterations[i].run = iterations[j].run => i = j

\* What the lab shows as results are results.
RecordIsSound == MedianOfThree /\ RecordedRunsFinished

Lab == INSTANCE LabSession WITH
    busy <- running /\ ~quitting,
    measured <- {s.run : s \in Range(iterations)} \cup Range(medianResults),
    givenUp <- givenUp

\* The lab is a session: one measurement at a time, a run it gave up is
\* never recorded however late its result comes, and every measurement ends
\* even when the API stops answering or keeps a run for ever.
LabIsASession == Lab!Session

================================================================================
