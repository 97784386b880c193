---------------------------- MODULE RunLifecycle ----------------------------
(***************************************************************************)
(* The life of a benchmark run inside one Kates API process: creation,     *)
(* submission of its tasks, status polling, cancel, delete, the timeout    *)
(* reaper, a crash of the process and the recovery of orphans at the next  *)
(* start (TestOrchestrator, TestTimeoutReaper, TestRunRepository and the   *)
(* worker states of NativeKafkaBackend).                                   *)
(*                                                                         *)
(* A step is one database transaction, one access to a shared in-memory    *)
(* map, or one status change of a backend worker: between two such steps   *)
(* of one thread any other thread may take its own.                        *)
(***************************************************************************)
EXTENDS Integers, Sequences, FiniteSets

CONSTANTS
  Runs,           \* run ids; each is created at most once
  Tasks,          \* the task slots of a run
  Producers,      \* the tasks whose phase is "produce", "round-trip" or "integrity"
  Consumers,      \* the tasks whose phase is "consume"
  Clients,        \* threads serving GET, cancel and DELETE requests
  Reconcilers,    \* threads of the 5 s status reconciler; its ticks may overlap
  Reapers,        \* threads of the 60 s timeout reaper; so may its sweeps
  MaxConcurrent,  \* kates.engine.max-concurrent-tests
  Failures,       \* which of "crash", "throw" (by a database call) and "shutdown" happen
  MaxFaults       \* bound on how often they do

Actors == Clients \cup Reconcilers \cup Reapers

ASSUME RunsAssumption == IsFiniteSet(Runs)
ASSUME MaxConcurrentAssumption == MaxConcurrent \in Nat
ASSUME FailuresAssumption == Failures \subseteq {"crash", "throw", "shutdown"}
ASSUME MaxFaultsAssumption == MaxFaults \in Nat
ASSUME TasksAssumption == /\ Producers \subseteq Tasks
                          /\ Consumers \subseteq Tasks
                          /\ Producers \cap Consumers = {}

VARIABLES
  row,        \* the test_runs row of each run; status "NONE" when there is none
  outbox,     \* the test.lifecycle events queued for each run, oldest first
  permits,    \* the free permits of concurrencyGuard
  holders,    \* permitHolders
  handles,    \* activeHandles, as the tasks whose handle is registered
  worker,     \* the status of each backend worker
  stop,       \* the workers with stopRequested set
  produced,   \* the runs whose producers have sent a record
  sub,        \* the submission thread of each run
  act,        \* the other threads
  clock,      \* 0: before the submission timeout, 1: past it, 2: past the run's deadline
  up,         \* the process has started and recovered its orphans
  announced,  \* terminal events fired at the event stream, per run
  down,       \* the thread that runs the orchestrator's @PreDestroy
  faults      \* the crashes, shutdowns and throws so far, oldest first

store == <<row, outbox>>
slots == <<permits, holders>>
backend == <<worker, stop, produced>>
env == <<clock, up, down, faults>>
vars == <<row, outbox, permits, holders, handles, worker, stop, produced,
          sub, act, clock, up, announced, down, faults>>

-----------------------------------------------------------------------------
(* Statuses *)

Ended == {"DONE", "FAILED"}
NotEnded == {"RUNNING", "PENDING", "STOPPING"}
RunStatus == Ended \cup NotEnded
TaskStatus == {"NONE", "PENDING", "RUNNING", "DONE", "FAILED"}
Unfinished == {"PENDING", "RUNNING"}

\* CHECKING: executeTask has set DONE and not yet applied the post-conditions.
\* STOPPED: DONE because it was asked to stop, whatever it did until then.
WorkerStatus == {"NONE", "PENDING", "RUNNING", "CHECKING", "STOPPED", "DONE", "FAILED"}
Live == {"PENDING", "RUNNING"}

NoTasks == [k \in Tasks |-> "NONE"]
NoRow == [status |-> "NONE", tasks |-> NoTasks]
Row == [status : RunStatus \cup {"NONE"}, tasks : [Tasks -> TaskStatus]]

\* A thread between operations.
Idle == [pc |-> "idle", op |-> "none", run |-> "none", status |-> "NONE", new |-> "NONE",
         tasks |-> NoTasks, got |-> {}, pass |-> 1, next |-> "idle"]

\* A run no submission has started, and a process nothing is shutting down.
NotSubmitted == [pc |-> "none", kind |-> "plain", tasks |-> NoTasks, stored |-> "no", got |-> {}]
Submitted(kind) == [NotSubmitted EXCEPT !.pc = "done", !.kind = kind]
NotDown == [pc |-> "no", run |-> "none", seen |-> {}, tasks |-> NoTasks]

\* The status a run is first stored with, which its submission expects to find.
FirstStatus(kind) == IF kind = "plain" THEN "PENDING" ELSE "RUNNING"

\* Mutant: only the RUNNING tasks are failed.
FailRunningOnly(ts) == [k \in Tasks |-> IF ts[k] = "RUNNING" THEN "FAILED" ELSE ts[k]]

FailUnfinished(ts) == [k \in Tasks |-> IF ts[k] \in Unfinished THEN "FAILED" ELSE ts[k]]

-----------------------------------------------------------------------------
(* TestRunRepository *)

\* save: writes the row, and queues an event only when the status changes.
Save(r, status, ts) ==
  /\ row' = [row EXCEPT ![r] = [status |-> status, tasks |-> ts]]
  /\ outbox' = IF row[r].status = status THEN outbox
               ELSE [outbox EXCEPT ![r] = Append(@, status)]

\* Mutant: the update is not conditional on the status.
SaveOver(r, expected, status, ts) == row[r].status # "NONE" /\ Save(r, status, ts)

\* saveIfStatus, when it saves; when it does not, the store is UNCHANGED.
SaveIfStatus(r, expected, status, ts) ==
  /\ row[r].status = expected
  /\ Save(r, status, ts)

-----------------------------------------------------------------------------
(* The concurrency permit *)

\* Mutant: every terminal path gives a permit back.
ReleaseAgain(r) == holders' = holders \ {r} /\ permits' = permits + 1

ReleasePermit(r) ==
  /\ holders' = holders \ {r}
  /\ permits' = IF r \in holders THEN permits + 1 ELSE permits

-----------------------------------------------------------------------------
(* Failures *)

\* One more failure of this kind.
FaultOf(kind) ==
  /\ kind \in Failures
  /\ Len(faults) < MaxFaults
  /\ faults' = Append(faults, kind)

-----------------------------------------------------------------------------
(* Creating a run, and submitting its tasks *)

\* executeTest and executeScenario up to permitHolders.add. A request refused
\* before the permit, or for want of one, leaves no trace.
Create(r, kind) ==
  /\ up
  /\ sub[r].pc = "none"
  /\ permits > 0
  /\ permits' = permits - 1
  /\ holders' = holders \cup {r}
  /\ sub' = [sub EXCEPT ![r].pc = "save", ![r].kind = kind]
  /\ UNCHANGED <<store, handles, backend, act, announced, env>>

\* The first save; the row is listed from here on.
FirstSave(r) ==
  /\ sub[r].pc = "save"
  /\ Save(r, FirstStatus(sub[r].kind), NoTasks)
  /\ sub' = [sub EXCEPT ![r].pc = "submit"]
  /\ UNCHANGED <<slots, handles, backend, act, announced, env>>

\* backend.submit(task) started a worker. A scenario's later phase waits, PENDING.
SubmitTask(r, k) ==
  /\ sub[r].pc = "submit"
  /\ sub[r].tasks[k] = "NONE"
  /\ worker' = [worker EXCEPT ![r][k] = "PENDING"]
  /\ \E s \in IF sub[r].kind = "plain" THEN {"RUNNING"} ELSE Unfinished :
       sub' = [sub EXCEPT ![r].tasks[k] = s]
  /\ UNCHANGED <<store, slots, handles, stop, produced, act, announced, env>>

\* backend.submit(task) threw: the task is FAILED and has no worker.
SubmitTaskFails(r, k) ==
  /\ sub[r].pc = "submit"
  /\ sub[r].tasks[k] = "NONE"
  /\ sub' = [sub EXCEPT ![r].tasks[k] = "FAILED"]
  /\ UNCHANGED <<store, slots, handles, backend, act, announced, env>>

Started(r) == {k \in Tasks : sub[r].tasks[k] \in Unfinished}

\* failSubmission: creating the topic or building the tasks threw. A plain run
\* builds all its tasks before it submits one; a scenario builds phase by phase.
SubmitThrows(r) ==
  /\ sub[r].pc = "submit"
  /\ sub[r].kind = "plain" => sub[r].tasks = NoTasks
  /\ stop' = [stop EXCEPT ![r] = @ \cup Started(r)]
  /\ sub' = [sub EXCEPT ![r].pc = "store", ![r].tasks = FailUnfinished(@)]
  /\ UNCHANGED <<store, slots, handles, worker, produced, act, announced, env>>

AllSubmitted(r) ==
  /\ sub[r].pc = "submit"
  /\ \A k \in Tasks : sub[r].tasks[k] # "NONE"
  /\ sub' = [sub EXCEPT ![r].pc = "store"]
  /\ UNCHANGED <<store, slots, handles, backend, act, announced, env>>

\* FAILED when every task is FAILED, none included; RUNNING otherwise.
SubmittedStatus(ts) ==
  IF \A k \in Tasks : ts[k] \in {"NONE", "FAILED"} THEN "FAILED" ELSE "RUNNING"

\* The submission's own write, over the row as first stored.
StoreSubmission(r) ==
  /\ sub[r].pc = "store"
  /\ \/ /\ SaveIfStatus(r, FirstStatus(sub[r].kind), SubmittedStatus(sub[r].tasks), sub[r].tasks)
        /\ sub' = [sub EXCEPT ![r].pc = "register", ![r].stored = "yes"]
     \/ /\ row[r].status # FirstStatus(sub[r].kind)
        /\ sub' = [sub EXCEPT ![r].pc = "register", ![r].stored = "no"]
        /\ UNCHANGED store
  /\ UNCHANGED <<slots, handles, backend, act, announced, env>>

\* registerHandles, in the finally block of the write, and what follows it.
Register(r) ==
  /\ sub[r].pc = "register"
  /\ handles' = IF Started(r) = {} THEN handles ELSE [handles EXCEPT ![r] = Started(r)]
  /\ \/ /\ sub[r].stored = "no"
        /\ sub' = [sub EXCEPT ![r].pc = "settle"]
        /\ UNCHANGED <<slots, announced>>
     \/ /\ sub[r].stored = "yes"
        /\ sub' = [sub EXCEPT ![r] = Submitted(@.kind)]
        /\ IF SubmittedStatus(sub[r].tasks) = "FAILED"
           THEN ReleasePermit(r) /\ announced' = [announced EXCEPT ![r] = @ + 1]
           ELSE UNCHANGED <<slots, announced>>
     \/ /\ sub[r].stored = "threw"
        /\ sub' = [sub EXCEPT ![r] = Submitted(@.kind)]
        /\ IF sub[r].kind = "plain" THEN ReleasePermit(r) ELSE UNCHANGED slots
        /\ UNCHANGED announced
  /\ UNCHANGED <<store, backend, act, env>>

\* settle(runId) by the submission that found its run cancelled, reaped or deleted.
SubmissionSettles(r) ==
  /\ sub[r].pc = "settle"
  /\ handles' = [handles EXCEPT ![r] = {}]
  /\ ReleasePermit(r)
  /\ sub' = [sub EXCEPT ![r] = IF handles[r] = {} THEN Submitted(@.kind)
                               ELSE [@ EXCEPT !.pc = "stop", !.got = handles[r]]]
  /\ UNCHANGED <<store, backend, act, announced, env>>

SubmissionStops(r) ==
  /\ sub[r].pc = "stop"
  /\ stop' = [stop EXCEPT ![r] = @ \cup sub[r].got]
  /\ sub' = [sub EXCEPT ![r] = Submitted(@.kind)]
  /\ UNCHANGED <<store, slots, handles, worker, produced, act, announced, env>>

\* The first save threw, before its commit or after it: the permit comes back.
FirstSaveThrows(r) ==
  /\ sub[r].pc = "save"
  /\ FaultOf("throw")
  /\ Save(r, FirstStatus(sub[r].kind), NoTasks) \/ UNCHANGED store
  /\ ReleasePermit(r)
  /\ sub' = [sub EXCEPT ![r].pc = "stranded"]
  /\ UNCHANGED <<handles, backend, act, announced, clock, up, down>>

\* markStrandedAsFailed: best effort, a plain save that may insert.
MarkStrandedAsFailed(r) ==
  /\ sub[r].pc = "stranded"
  /\ \/ Save(r, "FAILED", NoTasks) /\ UNCHANGED faults
     \/ FaultOf("throw") /\ UNCHANGED store
  /\ sub' = [sub EXCEPT ![r] = Submitted(@.kind)]
  /\ UNCHANGED <<slots, handles, backend, act, announced, clock, up, down>>

\* Mutant: no finally block, so the handles of a failed write are lost.
StoreThrowsAway(r) ==
  /\ sub[r].pc = "store"
  /\ FaultOf("throw")
  /\ sub' = [sub EXCEPT ![r] = Submitted(@.kind)]
  /\ UNCHANGED <<store, slots, handles, backend, act, announced, clock, up, down>>

\* The submission's write threw; its finally block still registers the handles.
StoreSubmissionThrows(r) ==
  /\ sub[r].pc = "store"
  /\ FaultOf("throw")
  /\ sub' = [sub EXCEPT ![r].pc = "register", ![r].stored = "threw"]
  /\ UNCHANGED <<store, slots, handles, backend, act, announced, clock, up, down>>

Submission(r) ==
  \/ FirstSave(r) \/ MarkStrandedAsFailed(r) \/ SubmitThrows(r) \/ AllSubmitted(r) \/ StoreSubmission(r)
  \/ Register(r) \/ SubmissionSettles(r) \/ SubmissionStops(r)
  \/ \E k \in Tasks : SubmitTask(r, k) \/ SubmitTaskFails(r, k)

-----------------------------------------------------------------------------
(* Backend workers: executeTask of NativeKafkaBackend *)

SetWorker(r, k, from, to) ==
  /\ worker[r][k] = from
  /\ worker' = [worker EXCEPT ![r][k] = to]
  /\ UNCHANGED <<store, slots, handles, stop, sub, act, announced, env>>

\* awaitStart let it go on; a stop set meanwhile is seen by the workload's loop.
WorkerStarts(r, k) == SetWorker(r, k, "PENDING", "RUNNING") /\ UNCHANGED produced

\* awaitStart saw the stop before the task's turn came.
WorkerNeverStarts(r, k) ==
  /\ sub[r].kind = "scenario"
  /\ k \in stop[r]
  /\ SetWorker(r, k, "PENDING", "STOPPED")
  /\ UNCHANGED produced

\* The first record a producer of the run sends.
WorkerProduces(r, k) ==
  /\ k \in Producers
  /\ worker[r][k] = "RUNNING"
  /\ r \notin produced
  /\ produced' = produced \cup {r}
  /\ UNCHANGED <<store, slots, handles, worker, stop, sub, act, announced, env>>

\* The workload's loop ended. applyPostConditions sets DONE, and that is all
\* there is to it when the worker was asked to stop.
WorkerReturns(r, k) ==
  /\ SetWorker(r, k, "RUNNING", IF k \in stop[r] THEN "STOPPED" ELSE "CHECKING")
  /\ UNCHANGED produced

\* The post-conditions hold.
WorkerPasses(r, k) == SetWorker(r, k, "CHECKING", "DONE") /\ UNCHANGED produced

\* They do not: nothing consumed, or every record sent was rejected.
WorkerFallsShort(r, k) ==
  /\ k \in Producers => r \in produced
  /\ SetWorker(r, k, "CHECKING", "FAILED")
  /\ UNCHANGED produced

\* The workload threw.
WorkerThrows(r, k) == SetWorker(r, k, "RUNNING", "FAILED") /\ UNCHANGED produced

Worker(r, k) ==
  \/ WorkerStarts(r, k) \/ WorkerNeverStarts(r, k) \/ WorkerProduces(r, k)
  \/ WorkerReturns(r, k) \/ WorkerPasses(r, k) \/ WorkerFallsShort(r, k)
  \/ WorkerThrows(r, k)

\* Mutant: the worker's state reaches the row as it is.
ReportedRaw(w) == w

\* What poll reports of a worker.
Reported(w) == IF w \in {"CHECKING", "STOPPED"} THEN "DONE" ELSE w

-----------------------------------------------------------------------------
(* settle(runId), by any thread that ends a run: the handles and the permit  *)
(* go first, then the workers are told to stop.                              *)

Starts(a, op, r) ==
  /\ act[a].pc = "idle"
  /\ act' = [act EXCEPT ![a] = [Idle EXCEPT !.op = op, !.run = r,
                                           !.pc = IF op = "delete" THEN "settle" ELSE "read",
                                           !.next = IF op = "delete" THEN "erase" ELSE "idle"]]
  /\ UNCHANGED <<store, slots, handles, backend, sub, announced, env>>

\* Thread a goes on at pc with what it has read, or is done when pc is "idle".
GoesTo(a, pc) ==
  act' = [act EXCEPT ![a] = IF pc = "idle" THEN Idle ELSE [@ EXCEPT !.pc = pc, !.got = {}]]

\* Thread a goes on at pc, and has no more use for what it has read.
WindsUpAt(a, pc) ==
  act' = [act EXCEPT ![a] = IF pc = "idle" THEN Idle
                            ELSE [Idle EXCEPT !.pc = pc, !.op = act[a].op, !.run = act[a].run]]

\* Mutant: settle keeps the permit.
SettleKeepsPermit(a) ==
  LET r == act[a].run IN
  /\ act[a].pc = "settle"
  /\ handles' = [handles EXCEPT ![r] = {}]
  /\ IF handles[r] = {} THEN GoesTo(a, act[a].next)
     ELSE act' = [act EXCEPT ![a].pc = "stop", ![a].got = handles[r]]
  /\ UNCHANGED <<store, slots, backend, sub, announced, env>>

SettleDrops(a) ==
  LET r == act[a].run IN
  /\ act[a].pc = "settle"
  /\ handles' = [handles EXCEPT ![r] = {}]
  /\ ReleasePermit(r)
  /\ IF handles[r] = {} THEN GoesTo(a, act[a].next)
     ELSE act' = [act EXCEPT ![a].pc = "stop", ![a].got = handles[r]]
  /\ UNCHANGED <<store, backend, sub, announced, env>>

SettleStops(a) ==
  /\ act[a].pc = "stop"
  /\ stop' = [stop EXCEPT ![act[a].run] = @ \cup act[a].got]
  /\ GoesTo(a, act[a].next)
  /\ UNCHANGED <<store, slots, handles, worker, produced, sub, announced, env>>

-----------------------------------------------------------------------------
(* refreshStatus *)

TasksEnded(ts) ==
  /\ \E k \in Tasks : ts[k] # "NONE"
  /\ \A k \in Tasks : ts[k] \notin Unfinished

Outcome(ts) == IF \E k \in Tasks : ts[k] = "FAILED" THEN "FAILED" ELSE "DONE"

\* abortStrandedConsumers: the consumers that wait for records nobody will send.
Stranded(r, ts) ==
  LET producers == {k \in Producers : ts[k] # "NONE"} IN
  IF /\ \A k \in producers : ts[k] \notin Unfinished
     /\ \E k \in producers : ts[k] = "FAILED"
     /\ r \notin produced
  THEN {k \in Consumers : ts[k] \in Unfinished}
  ELSE {}

\* The row: gone, or ended with handles left over, the run is settled.
RefreshReads(a) ==
  LET r == act[a].run IN
  /\ act[a].pc = "read" /\ act[a].op = "refresh"
  /\ \/ /\ row[r].status = "NONE" \/ (row[r].status \in Ended /\ handles[r] # {})
        /\ WindsUpAt(a, "settle")
     \/ /\ row[r].status \in Ended /\ handles[r] = {}
        /\ WindsUpAt(a, "idle")
     \/ /\ row[r].status \in NotEnded
        /\ act' = [act EXCEPT ![a].pc = "handles", ![a].status = row[r].status,
                              ![a].tasks = row[r].tasks]
  /\ UNCHANGED <<store, slots, handles, backend, sub, announced, env>>

RefreshTakesHandles(a) ==
  /\ act[a].pc = "handles"
  /\ act' = [act EXCEPT ![a].pc = "poll", ![a].got = handles[act[a].run]]
  /\ UNCHANGED <<store, slots, handles, backend, sub, announced, env>>

\* Polls the unfinished tasks that have a handle; a poll that throws leaves its
\* task as read. measured: some number of an answered task moved, which alone
\* makes the poll write the row.
RefreshPolls(a) ==
  LET r == act[a].run
      mine == act[a]
  IN
  /\ mine.pc = "poll"
  /\ \E answered \in SUBSET {k \in mine.got : mine.tasks[k] \in Unfinished}, measured \in BOOLEAN :
       LET polled == [k \in Tasks |-> IF k \in answered THEN Reported(worker[r][k]) ELSE mine.tasks[k]]
           stranded == Stranded(r, polled)
           ts == [k \in Tasks |-> IF k \in stranded THEN "FAILED" ELSE polled[k]]
           status == IF TasksEnded(ts) THEN Outcome(ts) ELSE mine.status
       IN
       /\ measured => answered # {}
       /\ stop' = [stop EXCEPT ![r] = @ \cup (stranded \cap mine.got)]
       /\ IF status # mine.status \/ ts # mine.tasks \/ measured
          THEN act' = [act EXCEPT ![a].pc = "write", ![a].new = status, ![a].tasks = ts, ![a].got = {}]
          ELSE WindsUpAt(a, "idle")
  /\ UNCHANGED <<store, slots, handles, worker, produced, sub, announced, env>>

\* Written only over the status this poll read.
RefreshWrites(a) ==
  LET r == act[a].run
      mine == act[a]
  IN
  /\ mine.pc = "write" /\ mine.op = "refresh"
  /\ \/ /\ SaveIfStatus(r, mine.status, mine.new, mine.tasks)
        /\ WindsUpAt(a, IF mine.new \in Ended THEN "finish" ELSE "idle")
     \/ /\ row[r].status # mine.status
        /\ WindsUpAt(a, "reread")
        /\ UNCHANGED store
  /\ UNCHANGED <<slots, handles, backend, sub, announced, env>>

\* Another writer was first: a run that is gone is settled, any other left alone.
RefreshRereads(a) ==
  /\ act[a].pc = "reread"
  /\ WindsUpAt(a, IF row[act[a].run].status = "NONE" THEN "settle" ELSE "idle")
  /\ UNCHANGED <<store, slots, handles, backend, sub, announced, env>>

\* This poll's ending is the one stored.
RefreshFinishes(a) ==
  LET r == act[a].run IN
  /\ act[a].pc = "finish"
  /\ handles' = [handles EXCEPT ![r] = {}]
  /\ announced' = [announced EXCEPT ![r] = @ + 1]
  /\ ReleasePermit(r)
  /\ WindsUpAt(a, "idle")
  /\ UNCHANGED <<store, backend, sub, env>>

Refresh(a) ==
  \/ RefreshReads(a) \/ RefreshTakesHandles(a) \/ RefreshPolls(a)
  \/ RefreshWrites(a) \/ RefreshRereads(a) \/ RefreshFinishes(a)

-----------------------------------------------------------------------------
(* cancelTest *)

CancelReads(a) ==
  LET stored == row[act[a].run] IN
  /\ act[a].pc = "read" /\ act[a].op = "cancel"
  /\ IF stored.status \in {"PENDING", "RUNNING"}
     THEN act' = [act EXCEPT ![a].pc = "settle", ![a].next = "write", ![a].status = stored.status,
                             ![a].new = "FAILED", ![a].tasks = FailUnfinished(stored.tasks)]
     ELSE WindsUpAt(a, "idle")
  /\ UNCHANGED <<store, slots, handles, backend, sub, announced, env>>

\* A run that moved is read again once: it may only have gone PENDING to RUNNING.
CancelWrites(a) ==
  LET r == act[a].run
      mine == act[a]
  IN
  /\ mine.pc = "write" /\ mine.op = "cancel"
  /\ \/ /\ SaveIfStatus(r, mine.status, mine.new, mine.tasks)
        /\ announced' = [announced EXCEPT ![r] = @ + 1]
        /\ WindsUpAt(a, "idle")
     \/ /\ row[r].status # mine.status
        /\ IF mine.pass = 1
           THEN act' = [act EXCEPT ![a] = [Idle EXCEPT !.pc = "read", !.op = "cancel", !.run = r,
                                                       !.pass = 2]]
           ELSE WindsUpAt(a, "idle")
        /\ UNCHANGED <<store, announced>>
  /\ UNCHANGED <<slots, handles, backend, sub, env>>

Cancel(a) == CancelReads(a) \/ CancelWrites(a)

-----------------------------------------------------------------------------
(* deleteTest, once it has settled the run *)

\* Mutant: every delete announces an ending.
DeleteAnnounces(a) ==
  LET r == act[a].run IN
  /\ act[a].pc = "erase"
  /\ row' = [row EXCEPT ![r] = NoRow]
  /\ outbox' = [outbox EXCEPT ![r] = Append(@, "FAILED")]
  /\ announced' = [announced EXCEPT ![r] = @ + 1]
  /\ WindsUpAt(a, "idle")
  /\ UNCHANGED <<slots, handles, backend, sub, env>>

DeleteErases(a) ==
  LET r == act[a].run
      open == row[r].status \in NotEnded
  IN
  /\ act[a].pc = "erase"
  /\ row' = [row EXCEPT ![r] = NoRow]
  /\ outbox' = IF open THEN [outbox EXCEPT ![r] = Append(@, "FAILED")] ELSE outbox
  /\ announced' = IF open THEN [announced EXCEPT ![r] = @ + 1] ELSE announced
  /\ WindsUpAt(a, "idle")
  /\ UNCHANGED <<slots, handles, backend, sub, env>>

-----------------------------------------------------------------------------
(* TestTimeoutReaper *)

\* deadlineOf: a PENDING run has the submission timeout, any other its own deadline.
PastDeadline(r) == clock[r] >= IF row[r].status = "PENDING" THEN 1 ELSE 2

\* Mutant: the sweep lists the RUNNING runs only.
ReapFindsRunning(a, r) ==
  /\ up
  /\ row[r].status = "RUNNING"
  /\ PastDeadline(r)
  /\ Starts(a, "reap", r)

\* The sweep's query found the run, past the deadline of the status it listed.
ReapFinds(a, r) ==
  /\ up
  /\ row[r].status \in NotEnded
  /\ PastDeadline(r)
  /\ Starts(a, "reap", r)

\* Mutant: a PENDING run too is settled before its write.
ReapSettlesFirst(a) ==
  LET stored == row[act[a].run] IN
  /\ act[a].pc = "read" /\ act[a].op = "reap"
  /\ IF stored.status \in NotEnded
     THEN act' = [act EXCEPT ![a].pc = "settle", ![a].next = "write",
                             ![a].status = stored.status, ![a].new = "FAILED",
                             ![a].tasks = FailUnfinished(stored.tasks)]
     ELSE WindsUpAt(a, "idle")
  /\ UNCHANGED <<store, slots, handles, backend, sub, announced, env>>

\* The run read whole. A PENDING one is settled after its write, any other before.
ReapReads(a) ==
  LET stored == row[act[a].run] IN
  /\ act[a].pc = "read" /\ act[a].op = "reap"
  /\ IF stored.status \in NotEnded
     THEN act' = [act EXCEPT ![a].pc = IF stored.status = "PENDING" THEN "write" ELSE "settle",
                             ![a].next = IF stored.status = "PENDING" THEN "idle" ELSE "write",
                             ![a].status = stored.status, ![a].new = "FAILED",
                             ![a].tasks = FailUnfinished(stored.tasks)]
     ELSE WindsUpAt(a, "idle")
  /\ UNCHANGED <<store, slots, handles, backend, sub, announced, env>>

ReapWrites(a) ==
  LET r == act[a].run
      mine == act[a]
  IN
  /\ mine.pc = "write" /\ mine.op = "reap"
  /\ \/ /\ SaveIfStatus(r, mine.status, mine.new, mine.tasks)
        /\ WindsUpAt(a, IF mine.status = "PENDING" THEN "settle" ELSE "idle")
     \/ /\ row[r].status # mine.status
        /\ WindsUpAt(a, "idle")
        /\ UNCHANGED store
  /\ UNCHANGED <<slots, handles, backend, sub, announced, env>>

Reap(a) == ReapReads(a) \/ ReapWrites(a)

-----------------------------------------------------------------------------
(* The threads that act on runs *)

\* A run's id is known once its row can be listed.
Known(r) == sub[r].pc \notin {"none", "save"}

\* GET /api/tests/{id}, POST .../cancel and DELETE /api/tests/{id}.
Requests(a, r) ==
  /\ up
  /\ Known(r)
  /\ \E op \in {"refresh", "cancel", "delete"} : Starts(a, op, r)

\* One run of a tick of reconcileActiveRuns.
Reconciles(a, r) ==
  /\ up
  /\ handles[r] # {}
  /\ Starts(a, "refresh", r)

\* A database call of the thread threw: its operation ends there.
ActThrows(a) ==
  /\ act[a].pc \in {"read", "write", "reread", "erase"}
  /\ FaultOf("throw")
  /\ WindsUpAt(a, "idle")
  /\ UNCHANGED <<store, slots, handles, backend, sub, announced, clock, up, down>>

Continues(a) ==
  \/ SettleDrops(a) \/ SettleStops(a) \/ Refresh(a) \/ Cancel(a)
  \/ DeleteErases(a) \/ Reap(a)

-----------------------------------------------------------------------------
(* Time, the end of the process and its next start *)

\* The run passes its submission timeout, then its deadline.
Tick(r) ==
  /\ row[r].status \in NotEnded
  /\ clock[r] < 2
  /\ clock' = [clock EXCEPT ![r] = @ + 1]
  /\ UNCHANGED <<store, slots, handles, backend, sub, act, announced, up, down, faults>>

\* What the process kept in memory is gone; the store and the clocks are not.
ProcessEnds ==
  /\ permits' = MaxConcurrent
  /\ holders' = {}
  /\ handles' = [r \in Runs |-> {}]
  /\ worker' = [r \in Runs |-> NoTasks]
  /\ stop' = [r \in Runs |-> {}]
  /\ produced' = {}
  /\ sub' = [r \in Runs |-> IF sub[r].pc = "none" THEN sub[r] ELSE Submitted("plain")]
  /\ act' = [a \in Actors |-> Idle]
  /\ up' = FALSE
  /\ down' = NotDown
  /\ UNCHANGED <<store, clock, announced>>

Crash == FaultOf("crash") /\ ProcessEnds

\* recoverOrphans, for one orphan; the process serves nothing until all are done.
RecoverOrphan(r) ==
  /\ ~up /\ down.pc = "no"
  /\ row[r].status \in NotEnded
  /\ Save(r, "FAILED", FailUnfinished(row[r].tasks))
  /\ UNCHANGED <<slots, handles, backend, sub, act, announced, env>>

Ready ==
  /\ ~up /\ down.pc = "no"
  /\ \A r \in Runs : row[r].status \notin NotEnded
  /\ up' = TRUE
  /\ UNCHANGED <<store, slots, handles, backend, sub, act, announced, clock, down, faults>>

\* shutdown (@PreDestroy): no request starts any more, those under way go on.
ShutdownBegins ==
  /\ up
  /\ FaultOf("shutdown")
  /\ up' = FALSE
  /\ down' = [NotDown EXCEPT !.pc = "next"]
  /\ UNCHANGED <<store, slots, handles, backend, sub, act, announced, clock>>

ShutdownStops(r) ==
  /\ down.pc = "next"
  /\ r \notin down.seen
  /\ handles[r] # {}
  /\ stop' = [stop EXCEPT ![r] = @ \cup handles[r]]
  /\ down' = [down EXCEPT !.pc = "read", !.run = r, !.seen = @ \cup {r}]
  /\ UNCHANGED <<store, slots, handles, worker, produced, sub, act, announced, clock, up, faults>>

ShutdownReads ==
  /\ down.pc = "read"
  /\ down' = IF row[down.run].status = "NONE" THEN [down EXCEPT !.pc = "next"]
             ELSE [down EXCEPT !.pc = "save", !.tasks = FailUnfinished(row[down.run].tasks)]
  /\ UNCHANGED <<store, slots, handles, backend, sub, act, announced, clock, up, faults>>

\* A plain save: nothing is asked of the row it finds, or whether it finds one.
ShutdownSaves ==
  /\ down.pc = "save"
  /\ Save(down.run, "FAILED", down.tasks)
  /\ down' = [down EXCEPT !.pc = "next", !.run = "none", !.tasks = NoTasks]
  /\ UNCHANGED <<slots, handles, backend, sub, act, announced, clock, up, faults>>

ShutdownExits ==
  /\ down.pc = "next"
  /\ \A r \in Runs : handles[r] # {} => r \in down.seen
  /\ ProcessEnds
  /\ UNCHANGED faults

Shutdown == (\E r \in Runs : ShutdownStops(r)) \/ ShutdownReads \/ ShutdownSaves \/ ShutdownExits

-----------------------------------------------------------------------------
(* The specification *)

\* "Old Kates API versions could store STOPPING before ending a run, then stop
\* before the final write": such a row may be there at the first start.
LegacyRow == [status |-> "STOPPING", tasks |-> [k \in Tasks |-> "RUNNING"]]

Init ==
  /\ row \in [Runs -> {NoRow, LegacyRow}]
  /\ outbox = [r \in Runs |-> <<>>]
  /\ permits = MaxConcurrent
  /\ holders = {}
  /\ handles = [r \in Runs |-> {}]
  /\ worker = [r \in Runs |-> NoTasks]
  /\ stop = [r \in Runs |-> {}]
  /\ produced = {}
  /\ sub = [r \in Runs |-> IF row[r] = NoRow THEN NotSubmitted ELSE Submitted("plain")]
  /\ act = [a \in Actors |-> Idle]
  /\ clock = [r \in Runs |-> 0]
  /\ up = FALSE
  /\ announced = [r \in Runs |-> 0]
  /\ down = NotDown
  /\ faults = <<>>

RunNext(r) ==
  \/ Create(r, "plain") \/ Create(r, "scenario")
  \/ Submission(r) \/ FirstSaveThrows(r) \/ StoreSubmissionThrows(r)
  \/ (\E k \in Tasks : Worker(r, k))
  \/ (\E a \in Clients : Requests(a, r))
  \/ (\E a \in Reconcilers : Reconciles(a, r))
  \/ (\E a \in Reapers : ReapFinds(a, r))
  \/ Tick(r) \/ RecoverOrphan(r)

Next ==
  \/ \E r \in Runs : RunNext(r)
  \/ \E a \in Actors : Continues(a) \/ ActThrows(a)
  \/ Crash \/ Ready \/ ShutdownBegins \/ Shutdown

Spec == Init /\ [][Next]_vars

\* Threads that have started go on; the two schedulers come back to every run
\* they should; time passes; a process that starts gets ready. Nothing is
\* assumed of the workers, of the clients or of failures.
Fairness ==
  /\ \A r \in Runs : /\ WF_vars(Submission(r)) /\ WF_vars(Tick(r)) /\ WF_vars(RecoverOrphan(r))
                     /\ \A a \in Reconcilers : SF_vars(Reconciles(a, r))
                     /\ \A a \in Reapers : SF_vars(ReapFinds(a, r))
  /\ \A a \in Actors : WF_vars(Continues(a))
  /\ WF_vars(Ready) /\ WF_vars(Shutdown)

FairSpec == Spec /\ Fairness

-----------------------------------------------------------------------------
(* Properties *)

Submissions ==
  [pc : {"none", "save", "stranded", "submit", "store", "register", "settle", "stop", "done"},
   kind : {"plain", "scenario"}, tasks : [Tasks -> TaskStatus],
   stored : {"yes", "no", "threw"}, got : SUBSET Tasks]

Threads ==
  [pc : {"idle", "read", "settle", "stop", "handles", "poll", "write", "reread", "finish", "erase"},
   op : {"none", "refresh", "cancel", "delete", "reap"}, run : Runs \cup {"none"},
   status : RunStatus \cup {"NONE"}, new : RunStatus \cup {"NONE"}, tasks : [Tasks -> TaskStatus],
   got : SUBSET Tasks, pass : {1, 2}, next : {"idle", "write", "erase"}]

Shutdowns ==
  [pc : {"no", "next", "read", "save"}, run : Runs \cup {"none"}, seen : SUBSET Runs,
   tasks : [Tasks -> TaskStatus]]

StoreTypeOK == row \in [Runs -> Row] /\ outbox \in [Runs -> Seq(RunStatus)]

SlotsTypeOK == permits \in Int /\ holders \in SUBSET Runs

BackendTypeOK ==
  /\ worker \in [Runs -> [Tasks -> WorkerStatus]]
  /\ stop \in [Runs -> SUBSET Tasks]
  /\ produced \in SUBSET Runs

\* A thread at work has a run, and something to write when it is to write.
ActTypeOK ==
  /\ act \in [Actors -> Threads]
  /\ \A a \in Actors :
       /\ act[a].pc # "idle" => act[a].run \in Runs
       /\ act[a].pc = "write" \/ act[a].next = "write" => act[a].new \in RunStatus
       /\ act[a].pc \in {"handles", "poll"} => act[a].status \in RunStatus

EnvTypeOK ==
  /\ clock \in [Runs -> 0..2]
  /\ up \in BOOLEAN
  /\ down \in Shutdowns
  /\ down.pc \in {"read", "save"} => down.run \in Runs
  /\ faults \in Seq(Failures)

TypeOK ==
  /\ StoreTypeOK /\ SlotsTypeOK /\ BackendTypeOK /\ ActTypeOK /\ EnvTypeOK
  /\ handles \in [Runs -> SUBSET Tasks]
  /\ sub \in [Runs -> Submissions]
  /\ announced \in [Runs -> Nat]

\* A permit is never lost and never given back twice, whichever of the
\* submission, a poll, a cancel, a delete, the reaper and the failure paths
\* race to end the run (releasePermit: "only the holder that wins the remove
\* releases").
PermitConservation == permits + Cardinality(holders) = MaxConcurrent

\* A run stored as ended has no task stored as still going: nothing polls or
\* reaps it any more, so such a task would read RUNNING for ever.
EndedRunHasNoUnfinishedTask ==
  \A r \in Runs : row[r].status \in Ended => \A k \in Tasks : row[r].tasks[k] \notin Unfinished

\* A failure of this kind has happened.
Met(kind) == \E i \in 1..Len(faults) : faults[i] = kind

\* The two plain saves, which ask nothing of the row they find (shutdown, markStrandedAsFailed).
PlainSave == ShutdownSaves \/ \E r \in Runs : MarkStrandedAsFailed(r)

\* The webhooks are told of one ending of a run, after everything else they are
\* told of it, and it is the ending the row keeps; only a plain save, of a shutdown
\* or of a create whose first save threw, may come after it.
EndingToldOnce ==
  ~Met("shutdown") /\ ~Met("throw") =>
    \A r \in Runs :
      /\ \A i \in 1..Len(outbox[r]) : outbox[r][i] \in Ended => i = Len(outbox[r])
      /\ row[r].status \in Ended => outbox[r] # <<>> /\ outbox[r][Len(outbox[r])] = row[r].status

\* An ended run is announced on the event stream, and counted, at most once,
\* and never while its row says that it is still going.
AnnouncedOnce ==
  \A r \in Runs : announced[r] <= 1 /\ (announced[r] = 1 => row[r].status \notin NotEnded)

\* Webhooks and the event stream are told of an ending, once.
EveryoneIsToldOnce == EndingToldOnce /\ AnnouncedOnce

\* Once a run is stored as ended its row does not change, except to be deleted and by
\* the two plain saves: whatever a poll, a cancel, the reaper and the submission read
\* before, their writes find it ended (saveIfStatus).
EndedIsFinal ==
  [][PlainSave \/ \A r \in Runs : row[r].status \in Ended => row'[r] \in {row[r], NoRow}]_vars

\* A deleted run is not stored again by a write that was under way, the plain saves
\* excepted (the comments of saveIfStatus and deleteTest).
DeletedStaysDeleted ==
  [][PlainSave \/ \A r \in Runs : row[r].status = "NONE" /\ sub[r].pc # "save" => row'[r].status = "NONE"]_vars

\* What a client was told of the end of a run stays true.
EndIsKept == EndedIsFinal /\ DeletedStaysDeleted

\* Someone is ending the run.
BeingEnded(r) == \E a \in Actors : act[a].run = r /\ act[a].op \in {"cancel", "delete", "reap"}

\* permitHolders: a run holds its permit for its whole life. It is without one
\* only while a cancel, a delete or the reaper is about to end it, or after a
\* database call of theirs, or of the submission, threw.
PermitHeldWhileGoing ==
  ~Met("throw") =>
    \A r \in Runs : up /\ row[r].status \in NotEnded => r \in holders \/ BeingEnded(r)

\* Some thread, or the map of handles, still has a way to stop the worker.
Reachable(r, k) ==
  \/ k \in handles[r]
  \/ sub[r].pc \in {"submit", "store", "register"} /\ k \in Started(r)
  \/ sub[r].pc = "stop" /\ k \in sub[r].got
  \/ \E a \in Actors : act[a].pc = "stop" /\ act[a].run = r /\ k \in act[a].got

\* No worker but a consumer runs on with nobody left that could stop it.
NoOrphanWorker ==
  \A r \in Runs, k \in Tasks \ Consumers :
    worker[r][k] \in Live /\ k \notin stop[r] => Reachable(r, k)

\* A run is not stored DONE when a cancel, or the reaper, had cut its workers
\* short (refreshStatus: "has already settled the run, and its write must stay").
DoneRunWasNotCutShort ==
  \A r \in Runs : row[r].status = "DONE" => \A k \in Tasks : worker[r][k] # "STOPPED"

\* Every stored run ends or is deleted, whatever its workers do.
EveryRunEnds ==
  \A r \in Runs : row[r].status \in NotEnded ~> row[r].status \notin NotEnded

\* Every permit taken comes back.
PermitComesBack == \A r \in Runs : r \in holders ~> r \notin holders
=============================================================================
