------------------------------ MODULE CmdRuns ------------------------------
(***************************************************************************)
(* The commands that start, follow and remove test runs and disruptions.   *)
(* What is printed is left out; a table's rows come from the read named.   *)
(***************************************************************************)
EXTENDS CommandSteps

\* cancelStartedRun has its own 15 s: the command's context is the one that was cancelled.
stopStartedRun == Cancel("run") \o Fail
stopFollowingDisruption == LeaveRunning("plan") \o Fail
stopResilienceRun == LeaveRunning("resilience") \o Fail
LostTrack == LeaveRunning("run") \o Fail

\* Waiting for a run: a status that means failure is the command's failure too.
pollUntilDone == FollowOnScreen("run", LostTrack, stopStartedRun) \o Either(Fail, <<>>)
followRun == Follow("run", LostTrack, stopStartedRun) \o Either(Fail, <<>>)

testListCmd == Need("tests")
testGetCmd == Need("tests/run")

runInteractiveTestCreate == Need("form")

\* --dry-run prints the request; the run is followed as JSON or on the screen.
testCreateCmd ==
    Interruptible \o Maybe(runInteractiveTestCreate) \o Need("type is known")
    \o When("dry-run", Stop)
    \o Begin("run")
    \o If("wait", Either(followRun, pollUntilDone), LeaveRunning("run"))

\* It asks nothing, as no command does whose arguments name the one thing it removes.
testDeleteCmd == Destroy("run")

\* Mutant: what could not be cancelled is not counted.
testCancelCmdUncounted == Each(Try("cancel run"))

testCancelCmd == Each(Try("cancel run")) \o Tell

testTypesCmd == Need("tests/types")
testBackendsCmd == Need("tests/backends")
testCompareCmd == Need("tests/run a") \o Need("tests/run b")
testSummaryCmd == Need("tests done") \o Look("tests failed")
testFlameCmd == Need("tests/run")

\* Someone else's run: not cancelled when the watching stops.
testWatchCmd == Need("run reaches its end") \o Look("tests/report/summary") \o Either(Fail, <<>>)
watchEventsCmd == Each(Look("tests"))

\* The spec is the one that was asked for, or the merged one without the fields never used.
replayCmd ==
    Interruptible \o Need("tests/run") \o Need("replaySpec")
    \o Begin("run")
    \o If("wait", pollUntilDone, LeaveRunning("run"))

\* One run after another; a run that cannot be created is a row without a score, and after one
\* that cannot be followed the rest is not started: rows that only the scorecard tells of.
benchmarkCmd ==
    Interruptible \o Need("timeout flag")
    \o Each(Call(Attempt(Begin("run"), Note \o Return)
                  \o Follow("run", LeaveRunning("run") \o Note \o Stop, stopStartedRun)))

\* A gate that gives up at its deadline cancels the run before it fails.
gateCmd ==
    Interruptible \o Need("grade") \o Need("timeout flag")
    \o Begin("run")
    \o Follow("run", Either(Cancel("run") \o Fail, LostTrack), stopStartedRun)
    \o Either(Fail, <<>>)
    \o Need("tests/report/summary")
    \o Either(Fail, <<>>)

(***************************************************************************)
(* test apply: the whole file is linted before the first run starts.       *)
(***************************************************************************)
checkApplyFlags == Need("apply flags")
lintBeforeApply == Need("lint")
parseScenarioFile == Need("scenarios of the file")

\* The screen that waits for one run, until its end or followMaxErrors failed reads in a row.
waitForTest(lost, stopped) == FollowOnScreen("run", lost, stopped)

\* A gate the run did not meet; one the run has no measurement for is said, and fails nothing.
validateSLAs == Maybe(Note)
gradeScenario == Maybe(validateSLAs)

\* The report of what was started is written even when interrupted, which itself ends as a failure.
finishApply(interrupted) ==
    Maybe(Save("JUnit file")) \o interrupted \o Tell \o Either(Fail, <<>>)

\* Mutant: an interrupted wait just ends.
applyOneGoes ==
    Attempt(Begin("run"), IfStopped(finishApply(Fail)) \o Note \o Return)
    \o Unless("wait", LeaveRunning("run") \o Return)
    \o FollowOnScreen("run", LeaveRunning("run") \o Note \o Return, finishApply(Fail))
    \o Maybe(Note)

\* Without --wait the run is on its own.  One that could not be created or followed is a failed row.
applyOne ==
    Attempt(Begin("run"), IfStopped(finishApply(Fail)) \o Note \o Return)
    \o Unless("wait", LeaveRunning("run") \o Return)
    \o waitForTest(LeaveRunning("run") \o Note \o Return, Cancel("run") \o finishApply(Fail))
    \o Maybe(Note) \o gradeScenario

runTestApply ==
    Interruptible \o Need("file flag") \o checkApplyFlags \o Need("file") \o lintBeforeApply
    \o parseScenarioFile \o Need("scenarios")
    \o Each(IfStopped(finishApply(Fail)) \o Call(applyOne)) \o finishApply(<<>>)

(***************************************************************************)
(* Removing runs.                                                          *)
(***************************************************************************)
\* Mutant: the question comes before the second call, not before the first.
runTestPruneAsksAgain ==
    Need("parseOlderThan") \o Need("parsePruneStatuses")
    \o Need("count, a prune with dryRun")
    \o Maybe(Stop) \o When("dry-run", Stop)
    \o Destroy("runs") \o Ask("yes") \o Each(Destroy("runs"))
    \o Either(Fail, <<>>)

\* pruneAll repeats calls of 1000 runs until none is left, none went, or 100 calls are made: runs
\* that are left are an error.
runTestPrune ==
    Need("parseOlderThan") \o Need("parsePruneStatuses")
    \o Need("count, a prune with dryRun")
    \o Maybe(Stop) \o When("dry-run", Stop)
    \o Ask("yes")
    \o Destroy("runs") \o Each(Destroy("runs"))
    \o Either(Fail, <<>>)

runTestCleanup ==
    Need("older-than > 0") \o Need("tests running")
    \o Maybe(Stop) \o When("dry-run", Stop)
    \o Ask("yes")
    \o Each(TryDestroy("run")) \o Tell

(***************************************************************************)
(* Disruptions: a plan that was accepted keeps running when the user stops *)
(* waiting, and the command says so.                                       *)
(***************************************************************************)
runDryRun == Need("disruptions?dryRun") \o Either(Fail, <<>>)
checkSlaExit == Either(Fail, <<>>)
AwaitDisruption == Follow("plan", LeaveRunning("plan") \o Fail, stopFollowingDisruption)

disruptionRunCmd ==
    Interruptible \o Need("config flag") \o Need("file") \o Need("JSON or YAML")
    \o When("dry-run", runDryRun \o Stop)
    \o Begin("plan") \o AwaitDisruption
    \o Maybe(Best("JUnit file")) \o checkSlaExit

disruptionPlaybookRunCmd ==
    Interruptible
    \o When("dry-run", Need("playbook") \o runDryRun \o Stop)
    \o Begin("plan") \o AwaitDisruption

disruptionListCmd == Need("disruptions")
disruptionStatusCmd == Need("disruptions/report")
disruptionTimelineCmd == Need("disruptions/timeline")
disruptionTypesCmd == Need("disruptions/types")
disruptionKafkaMetricsCmd == Need("disruptions/kafka-metrics")
disruptionWatchCmd == Within("event stream", Each(Look("event")) \o Need("end of stream"))
disruptionPlaybookListCmd == Need("disruptions/playbooks")
disruptionPlaybookShowCmd == Need("playbook") \o Need("playbook is JSON")
disruptionScheduleListCmd == Need("disruptions/schedules")
disruptionScheduleCreateCmd == Need("cron flag") \o Need("playbook flag") \o Do("create schedule")
disruptionScheduleDeleteCmd == Destroy("disruption schedule")

\* One request that answers when the fault and the recovery are over.
resilienceRunCmd ==
    Interruptible \o Need("file flag") \o Need("file") \o Need("parseResilienceFile")
    \o Need("checkResilienceFile")
    \o When("dry-run", Stop)
    \o Begin("resilience") \o Follow("resilience", LeaveRunning("resilience") \o Fail, stopResilienceRun)

scheduleListCmd == Need("schedules")
scheduleGetCmd == Need("schedule")
scheduleCreateCmd == Need("flags") \o Need("file") \o Need("request is JSON") \o Do("create schedule")
scheduleDeleteCmd == Destroy("schedule")
baselineSetCmd == Need("tests/run") \o Do("set baseline")
baselineUnsetCmd == Destroy("baseline")
baselineShowCmd == Need("baseline")
baselineListCmd == Need("baselines")
reportRegressionCmd == Need("tests/report/regression")

RunCommands ==
    [testListCmd |-> testListCmd, testGetCmd |-> testGetCmd, testCreateCmd |-> testCreateCmd,
     testDeleteCmd |-> testDeleteCmd, testCancelCmd |-> testCancelCmd, testTypesCmd |-> testTypesCmd,
     testBackendsCmd |-> testBackendsCmd, testCompareCmd |-> testCompareCmd,
     testSummaryCmd |-> testSummaryCmd, testFlameCmd |-> testFlameCmd, testWatchCmd |-> testWatchCmd,
     watchEventsCmd |-> watchEventsCmd, replayCmd |-> replayCmd, benchmarkCmd |-> benchmarkCmd,
     gateCmd |-> gateCmd, runTestApply |-> runTestApply, runTestPrune |-> runTestPrune,
     runTestCleanup |-> runTestCleanup, disruptionRunCmd |-> disruptionRunCmd,
     disruptionPlaybookRunCmd |-> disruptionPlaybookRunCmd, disruptionListCmd |-> disruptionListCmd,
     disruptionStatusCmd |-> disruptionStatusCmd, disruptionTimelineCmd |-> disruptionTimelineCmd,
     disruptionTypesCmd |-> disruptionTypesCmd, disruptionKafkaMetricsCmd |-> disruptionKafkaMetricsCmd,
     disruptionWatchCmd |-> disruptionWatchCmd, disruptionPlaybookListCmd |-> disruptionPlaybookListCmd,
     disruptionPlaybookShowCmd |-> disruptionPlaybookShowCmd,
     disruptionScheduleListCmd |-> disruptionScheduleListCmd,
     disruptionScheduleCreateCmd |-> disruptionScheduleCreateCmd,
     disruptionScheduleDeleteCmd |-> disruptionScheduleDeleteCmd, resilienceRunCmd |-> resilienceRunCmd,
     scheduleListCmd |-> scheduleListCmd, scheduleGetCmd |-> scheduleGetCmd,
     scheduleCreateCmd |-> scheduleCreateCmd, scheduleDeleteCmd |-> scheduleDeleteCmd,
     baselineSetCmd |-> baselineSetCmd, baselineUnsetCmd |-> baselineUnsetCmd,
     baselineShowCmd |-> baselineShowCmd, baselineListCmd |-> baselineListCmd,
     reportRegressionCmd |-> reportRegressionCmd]
=============================================================================
