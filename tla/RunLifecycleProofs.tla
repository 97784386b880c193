------------------------- MODULE RunLifecycleProofs -------------------------
(***************************************************************************)
(* Theorems about RunLifecycle, for every set of runs, tasks and threads,  *)
(* every limit and every combination of failures.                          *)
(***************************************************************************)
EXTENDS RunLifecycle, FiniteSetTheorems, TLAPS

-----------------------------------------------------------------------------
(* What the operators the actions are made of preserve *)

LEMMA ConstantTypes ==
  /\ NoTasks \in [Tasks -> TaskStatus]
  /\ Idle \in Threads
  /\ NotSubmitted \in Submissions
  /\ NotDown \in Shutdowns
  /\ \A kind \in {"plain", "scenario"} : Submitted(kind) \in Submissions
  /\ \A kind \in {"plain", "scenario"} : FirstStatus(kind) \in RunStatus
  /\ \A ts \in [Tasks -> TaskStatus] : FailUnfinished(ts) \in [Tasks -> TaskStatus]
  /\ \A ts \in [Tasks -> TaskStatus] : SubmittedStatus(ts) \in RunStatus
  /\ \A ts \in [Tasks -> TaskStatus] : Outcome(ts) \in RunStatus
<1>1. NoTasks \in [Tasks -> TaskStatus]
  BY DEF NoTasks, TaskStatus
<1>2. Idle \in Threads
  BY <1>1 DEF Idle, Threads
<1>3. NotSubmitted \in Submissions
  BY <1>1 DEF NotSubmitted, Submissions
<1>4. NotDown \in Shutdowns
  BY <1>1 DEF NotDown, Shutdowns
<1>5. \A kind \in {"plain", "scenario"} : Submitted(kind) \in Submissions
  BY <1>1 DEF Submitted, NotSubmitted, Submissions
<1> QED
  BY <1>1, <1>2, <1>3, <1>4, <1>5
     DEF FirstStatus, FailUnfinished, SubmittedStatus, Outcome, RunStatus, Ended, NotEnded,
         TaskStatus, Unfinished

LEMMA SaveType ==
  ASSUME StoreTypeOK, NEW r \in Runs, NEW status \in RunStatus,
         NEW ts \in [Tasks -> TaskStatus], Save(r, status, ts)
  PROVE  StoreTypeOK'
<1>1. [status |-> status, tasks |-> ts] \in Row
  BY DEF Row
<1>2. row' \in [Runs -> Row]
  BY <1>1 DEF StoreTypeOK, Save
<1>3. Append(outbox[r], status) \in Seq(RunStatus)
  BY DEF StoreTypeOK
<1>4. outbox' \in [Runs -> Seq(RunStatus)]
  BY <1>3 DEF StoreTypeOK, Save
<1> QED BY <1>2, <1>4 DEF StoreTypeOK

LEMMA ReleaseType ==
  ASSUME SlotsTypeOK, NEW r \in Runs, ReleasePermit(r)
  PROVE  SlotsTypeOK'
BY DEF SlotsTypeOK, ReleasePermit

\* A thread of the right type that keeps to what ActTypeOK says of threads.
LEMMA ThreadType ==
  ASSUME ActTypeOK, NEW a \in Actors, NEW t \in Threads,
         act' = [act EXCEPT ![a] = t],
         t.pc # "idle" => t.run \in Runs,
         t.pc = "write" \/ t.next = "write" => t.new \in RunStatus,
         t.pc \in {"handles", "poll"} => t.status \in RunStatus
  PROVE  ActTypeOK'
BY DEF ActTypeOK

LEMMA GoesToType ==
  ASSUME ActTypeOK, NEW a \in Actors, act[a].pc \in {"settle", "stop"}, GoesTo(a, act[a].next)
  PROVE  ActTypeOK'
<1> DEFINE t == IF act[a].next = "idle" THEN Idle
                ELSE [act[a] EXCEPT !.pc = act[a].next, !.got = {}]
<1>1. act' = [act EXCEPT ![a] = t]
  BY DEF GoesTo, ActTypeOK
<1>2. t \in Threads
  <2>1. act[a] \in Threads
    BY DEF ActTypeOK
  <2>2. [act[a] EXCEPT !.pc = act[a].next, !.got = {}] \in Threads
    BY <2>1 DEF Threads
  <2> QED BY <2>2, ConstantTypes
<1>3. /\ t.pc # "idle" => t.run \in Runs
      /\ t.pc = "write" \/ t.next = "write" => t.new \in RunStatus
      /\ t.pc \in {"handles", "poll"} => t.status \in RunStatus
  BY DEF ActTypeOK, Threads, Idle
<1> HIDE DEF t
<1> QED BY <1>1, <1>2, <1>3, ThreadType

LEMMA WindsUpType ==
  ASSUME ActTypeOK, NEW a \in Actors, act[a].pc # "idle",
         NEW pc \in {"idle", "settle", "finish", "reread"}, WindsUpAt(a, pc)
  PROVE  ActTypeOK'
<1> DEFINE t == IF pc = "idle" THEN Idle
                ELSE [Idle EXCEPT !.pc = pc, !.op = act[a].op, !.run = act[a].run]
<1>1. act' = [act EXCEPT ![a] = t]
  BY DEF WindsUpAt
<1>2. t \in Threads
  <2>1. act[a] \in Threads
    BY DEF ActTypeOK
  <2>2. [Idle EXCEPT !.pc = pc, !.op = act[a].op, !.run = act[a].run] \in Threads
    BY <2>1, ConstantTypes DEF Threads
  <2> QED BY <2>2, ConstantTypes
<1>3. /\ t.pc # "idle" => t.run \in Runs
      /\ t.pc = "write" \/ t.next = "write" => t.new \in RunStatus
      /\ t.pc \in {"handles", "poll"} => t.status \in RunStatus
  BY DEF ActTypeOK, Threads, Idle
<1> HIDE DEF t
<1> QED BY <1>1, <1>2, <1>3, ThreadType

-----------------------------------------------------------------------------
(* Type correctness, one lemma per group of actions *)

LEMMA CreateType ==
  ASSUME TypeOK, NEW r \in Runs, NEW kind \in {"plain", "scenario"}, Create(r, kind)
  PROVE  TypeOK'
<1>1. SlotsTypeOK'
  BY DEF TypeOK, SlotsTypeOK, Create
<1>2. sub' \in [Runs -> Submissions]
  <2>1. [sub[r] EXCEPT !.pc = "save", !.kind = kind] \in Submissions
    BY DEF TypeOK, Submissions
  <2> QED BY <2>1 DEF TypeOK, Create
<1>3. StoreTypeOK' /\ BackendTypeOK' /\ ActTypeOK' /\ EnvTypeOK'
  BY DEF TypeOK, StoreTypeOK, BackendTypeOK, ActTypeOK, EnvTypeOK, Create, store, backend, env
<1> QED BY <1>1, <1>2, <1>3 DEF TypeOK, Create

LEMMA SubmissionType ==
  ASSUME TypeOK, NEW r \in Runs,
         Submission(r) \/ FirstSaveThrows(r) \/ StoreSubmissionThrows(r)
  PROVE  TypeOK'
<1> USE DEF TypeOK
<1>a. sub[r] \in Submissions
  OBVIOUS
<1>b. Submitted(sub[r].kind) \in Submissions
  BY <1>a, ConstantTypes DEF Submissions
<1>c. /\ FirstStatus(sub[r].kind) \in RunStatus
      /\ SubmittedStatus(sub[r].tasks) \in RunStatus
      /\ sub[r].tasks \in [Tasks -> TaskStatus]
      /\ FailUnfinished(sub[r].tasks) \in [Tasks -> TaskStatus]
      /\ NoTasks \in [Tasks -> TaskStatus]
      /\ "FAILED" \in RunStatus
  BY <1>a, ConstantTypes DEF Submissions, RunStatus, Ended
<1>d. Started(r) \subseteq Tasks
  BY DEF Started
<1>1. CASE FirstSave(r)
  <2>1. StoreTypeOK'
    BY <1>1, <1>c, SaveType DEF FirstSave
  <2>2. sub' \in [Runs -> Submissions]
    BY <1>1, <1>a DEF Submissions, FirstSave
  <2> QED BY <1>1, <2>1, <2>2 DEF FirstSave, SlotsTypeOK, BackendTypeOK, ActTypeOK, EnvTypeOK,
             slots, backend, env
<1>2. CASE MarkStrandedAsFailed(r)
  <2>1. StoreTypeOK'
    BY <1>2, <1>c, SaveType DEF MarkStrandedAsFailed, StoreTypeOK, store
  <2>2. sub' \in [Runs -> Submissions]
    BY <1>2, <1>b DEF MarkStrandedAsFailed
  <2>3. EnvTypeOK'
    <3>1. faults' \in Seq(Failures)
      <4>1. CASE UNCHANGED faults
        BY <4>1 DEF EnvTypeOK
      <4>2. CASE FaultOf("throw")
        BY <4>2 DEF FaultOf, EnvTypeOK
      <4> QED BY <1>2, <4>1, <4>2 DEF MarkStrandedAsFailed
    <3> QED BY <1>2, <3>1 DEF MarkStrandedAsFailed, EnvTypeOK
  <2> QED BY <1>2, <2>1, <2>2, <2>3 DEF MarkStrandedAsFailed, SlotsTypeOK, BackendTypeOK, ActTypeOK,
             slots, backend
<1>3. CASE SubmitThrows(r)
  <2>1. BackendTypeOK'
    BY <1>3, <1>d DEF SubmitThrows, BackendTypeOK
  <2>2. sub' \in [Runs -> Submissions]
    BY <1>3, <1>a, <1>c DEF Submissions, SubmitThrows
  <2> QED BY <1>3, <2>1, <2>2 DEF SubmitThrows, StoreTypeOK, SlotsTypeOK, ActTypeOK, EnvTypeOK,
             store, slots, env
<1>4. CASE AllSubmitted(r)
  <2>1. sub' \in [Runs -> Submissions]
    BY <1>4, <1>a DEF Submissions, AllSubmitted
  <2> QED BY <1>4, <2>1 DEF AllSubmitted, StoreTypeOK, SlotsTypeOK, BackendTypeOK, ActTypeOK,
             EnvTypeOK, store, slots, backend, env
<1>5. CASE StoreSubmission(r)
  <2>1. StoreTypeOK'
    BY <1>5, <1>c, SaveType DEF StoreSubmission, SaveIfStatus, StoreTypeOK, store
  <2>2. sub' \in [Runs -> Submissions]
    <3>1. \A stored \in {"yes", "no"} :
            [sub[r] EXCEPT !.pc = "register", !.stored = stored] \in Submissions
      BY <1>a DEF Submissions
    <3> QED BY <1>5, <3>1 DEF StoreSubmission
  <2> QED BY <1>5, <2>1, <2>2 DEF StoreSubmission, SlotsTypeOK, BackendTypeOK, ActTypeOK, EnvTypeOK,
             slots, backend, env
<1>6. CASE Register(r)
  <2>1. SlotsTypeOK'
    BY <1>6, ReleaseType DEF Register, SlotsTypeOK, slots
  <2>2. sub' \in [Runs -> Submissions]
    <3>1. [sub[r] EXCEPT !.pc = "settle"] \in Submissions
      BY <1>a DEF Submissions
    <3> QED BY <1>6, <1>b, <3>1 DEF Register
  <2>3. handles' \in [Runs -> SUBSET Tasks]
    BY <1>6, <1>d DEF Register
  <2>4. announced' \in [Runs -> Nat]
    BY <1>6 DEF Register
  <2> QED BY <1>6, <2>1, <2>2, <2>3, <2>4 DEF Register, StoreTypeOK, BackendTypeOK, ActTypeOK,
             EnvTypeOK, store, backend, env
<1>7. CASE SubmissionSettles(r)
  <2>1. SlotsTypeOK'
    BY <1>7, ReleaseType DEF SubmissionSettles
  <2>2. sub' \in [Runs -> Submissions]
    <3>1. [sub[r] EXCEPT !.pc = "stop", !.got = handles[r]] \in Submissions
      BY <1>a DEF Submissions
    <3> QED BY <1>7, <1>b, <3>1 DEF SubmissionSettles
  <2>3. handles' \in [Runs -> SUBSET Tasks]
    BY <1>7 DEF SubmissionSettles
  <2> QED BY <1>7, <2>1, <2>2, <2>3 DEF SubmissionSettles, StoreTypeOK, BackendTypeOK, ActTypeOK,
             EnvTypeOK, store, backend, env
<1>8. CASE SubmissionStops(r)
  <2>1. BackendTypeOK'
    BY <1>8, <1>a DEF SubmissionStops, BackendTypeOK, Submissions
  <2>2. sub' \in [Runs -> Submissions]
    BY <1>8, <1>b DEF SubmissionStops
  <2> QED BY <1>8, <2>1, <2>2 DEF SubmissionStops, StoreTypeOK, SlotsTypeOK, ActTypeOK, EnvTypeOK,
             store, slots, env
<1>9. ASSUME NEW k \in Tasks, SubmitTask(r, k)
      PROVE  TypeOK'
  <2>1. BackendTypeOK'
    BY <1>9 DEF SubmitTask, BackendTypeOK, WorkerStatus
  <2>2. sub' \in [Runs -> Submissions]
    <3>1. PICK s \in Unfinished : sub' = [sub EXCEPT ![r].tasks[k] = s]
      BY <1>9 DEF SubmitTask, Unfinished
    <3>2. s \in TaskStatus
      BY DEF Unfinished, TaskStatus
    <3> QED BY <3>1, <3>2, <1>a DEF Submissions
  <2> QED BY <1>9, <2>1, <2>2 DEF SubmitTask, StoreTypeOK, SlotsTypeOK, ActTypeOK, EnvTypeOK,
             store, slots, env
<1>10. ASSUME NEW k \in Tasks, SubmitTaskFails(r, k)
       PROVE  TypeOK'
  <2>1. sub' \in [Runs -> Submissions]
    BY <1>10, <1>a DEF SubmitTaskFails, Submissions, TaskStatus
  <2> QED BY <1>10, <2>1 DEF SubmitTaskFails, StoreTypeOK, SlotsTypeOK, BackendTypeOK, ActTypeOK,
             EnvTypeOK, store, slots, backend, env
<1>11. CASE FirstSaveThrows(r)
  <2>1. StoreTypeOK'
    BY <1>11, <1>c, SaveType DEF FirstSaveThrows, StoreTypeOK, store
  <2>2. SlotsTypeOK'
    BY <1>11, ReleaseType DEF FirstSaveThrows
  <2>3. sub' \in [Runs -> Submissions]
    BY <1>11, <1>a DEF FirstSaveThrows, Submissions
  <2>4. EnvTypeOK'
    BY <1>11 DEF FirstSaveThrows, FaultOf, EnvTypeOK
  <2> QED BY <1>11, <2>1, <2>2, <2>3, <2>4 DEF FirstSaveThrows, BackendTypeOK, ActTypeOK, backend
<1>12. CASE StoreSubmissionThrows(r)
  <2>1. sub' \in [Runs -> Submissions]
    BY <1>12, <1>a DEF StoreSubmissionThrows, Submissions
  <2>2. EnvTypeOK'
    BY <1>12 DEF StoreSubmissionThrows, FaultOf, EnvTypeOK
  <2> QED BY <1>12, <2>1, <2>2 DEF StoreSubmissionThrows, StoreTypeOK, SlotsTypeOK, BackendTypeOK,
             ActTypeOK, store, slots, backend
<1> QED
  BY <1>1, <1>2, <1>3, <1>4, <1>5, <1>6, <1>7, <1>8, <1>9, <1>10, <1>11, <1>12 DEF Submission

LEMMA WorkerType ==
  ASSUME TypeOK, NEW r \in Runs, NEW k \in Tasks, Worker(r, k)
  PROVE  TypeOK'
<1>1. BackendTypeOK'
  BY DEF TypeOK, BackendTypeOK, Worker, WorkerStarts, WorkerNeverStarts, WorkerProduces,
         WorkerReturns, WorkerPasses, WorkerFallsShort, WorkerThrows, SetWorker, WorkerStatus
<1>2. UNCHANGED <<store, slots, handles, sub, act, announced, env>>
  BY DEF Worker, WorkerStarts, WorkerNeverStarts, WorkerProduces, WorkerReturns, WorkerPasses,
         WorkerFallsShort, WorkerThrows, SetWorker
<1> QED
  BY <1>1, <1>2 DEF TypeOK, StoreTypeOK, SlotsTypeOK, ActTypeOK, EnvTypeOK, store, slots, env

LEMMA RowType ==
  ASSUME StoreTypeOK, NEW r \in Runs
  PROVE  /\ row[r].status \in RunStatus \cup {"NONE"}
         /\ row[r].tasks \in [Tasks -> TaskStatus]
         /\ FailUnfinished(row[r].tasks) \in [Tasks -> TaskStatus]
         /\ row[r].status \in NotEnded => row[r].status \in RunStatus
BY ConstantTypes DEF StoreTypeOK, Row, RunStatus, NotEnded

LEMMA StartsType ==
  ASSUME TypeOK, NEW a \in Actors, NEW r \in Runs, NEW op \in {"refresh", "cancel", "delete", "reap"},
         Starts(a, op, r)
  PROVE  TypeOK'
<1> DEFINE t == [Idle EXCEPT !.op = op, !.run = r,
                             !.pc = IF op = "delete" THEN "settle" ELSE "read",
                             !.next = IF op = "delete" THEN "erase" ELSE "idle"]
<1>1. t \in Threads
  BY ConstantTypes DEF Threads
<1>2. /\ t.pc # "idle" => t.run \in Runs
      /\ t.pc = "write" \/ t.next = "write" => t.new \in RunStatus
      /\ t.pc \in {"handles", "poll"} => t.status \in RunStatus
  BY DEF Idle
<1>3. act' = [act EXCEPT ![a] = t]
  BY DEF Starts
<1> HIDE DEF t
<1>4. ActTypeOK'
  BY <1>1, <1>2, <1>3, ThreadType DEF TypeOK
<1> QED
  BY <1>4 DEF Starts, TypeOK, StoreTypeOK, SlotsTypeOK, BackendTypeOK, EnvTypeOK, store, slots,
              backend, env

LEMMA SettleType ==
  ASSUME TypeOK, NEW a \in Actors, SettleDrops(a) \/ SettleStops(a)
  PROVE  TypeOK'
<1> USE DEF TypeOK
<1>a. act[a] \in Threads /\ act[a].run \in Runs
  BY DEF ActTypeOK, SettleDrops, SettleStops
<1>1. CASE SettleDrops(a)
  <2>1. ActTypeOK'
    <3>1. CASE handles[act[a].run] = {}
      BY <1>1, <3>1, GoesToType DEF SettleDrops
    <3>2. CASE handles[act[a].run] # {}
      <4> DEFINE t == [act[a] EXCEPT !.pc = "stop", !.got = handles[act[a].run]]
      <4>1. t \in Threads
        BY <1>a DEF Threads
      <4>2. /\ t.pc # "idle" => t.run \in Runs
            /\ t.pc = "write" \/ t.next = "write" => t.new \in RunStatus
            /\ t.pc \in {"handles", "poll"} => t.status \in RunStatus
        BY <1>a DEF ActTypeOK, Threads
      <4>3. act' = [act EXCEPT ![a] = t]
        BY <1>1, <3>2 DEF SettleDrops
      <4> HIDE DEF t
      <4> QED BY <4>1, <4>2, <4>3, ThreadType
    <3> QED BY <3>1, <3>2
  <2>2. SlotsTypeOK'
    BY <1>1, <1>a, ReleaseType DEF SettleDrops
  <2>3. handles' \in [Runs -> SUBSET Tasks]
    BY <1>1, <1>a DEF SettleDrops
  <2> QED BY <1>1, <2>1, <2>2, <2>3 DEF SettleDrops, StoreTypeOK, BackendTypeOK, EnvTypeOK, store,
             backend, env
<1>2. CASE SettleStops(a)
  <2>1. ActTypeOK'
    BY <1>2, GoesToType DEF SettleStops
  <2>2. BackendTypeOK'
    BY <1>2, <1>a DEF SettleStops, BackendTypeOK, Threads
  <2> QED BY <1>2, <2>1, <2>2 DEF SettleStops, StoreTypeOK, SlotsTypeOK, EnvTypeOK, store, slots, env
<1> QED BY <1>1, <1>2

LEMMA RefreshType ==
  ASSUME TypeOK, NEW a \in Actors, Refresh(a)
  PROVE  TypeOK'
<1> USE DEF TypeOK
<1>a. act[a] \in Threads /\ act[a].pc # "idle" /\ act[a].run \in Runs
  BY DEF ActTypeOK, Refresh, RefreshReads, RefreshTakesHandles, RefreshPolls, RefreshWrites,
         RefreshRereads, RefreshFinishes
<1>1. CASE RefreshReads(a)
  <2>1. ActTypeOK'
    <3>1. CASE row[act[a].run].status \in NotEnded
      <4> DEFINE t == [act[a] EXCEPT !.pc = "handles", !.status = row[act[a].run].status,
                                     !.tasks = row[act[a].run].tasks]
      <4>1. t \in Threads /\ t.status \in RunStatus
        BY <1>a, <3>1, RowType DEF Threads
      <4>2. /\ t.pc # "idle" => t.run \in Runs
            /\ t.pc = "write" \/ t.next = "write" => t.new \in RunStatus
        BY <1>a DEF ActTypeOK, Threads
      <4>3. act' = [act EXCEPT ![a] = t]
        BY <1>1, <3>1 DEF RefreshReads, NotEnded, Ended
      <4> HIDE DEF t
      <4> QED BY <4>1, <4>2, <4>3, ThreadType
    <3>2. CASE row[act[a].run].status \notin NotEnded
      BY <1>1, <1>a, <3>2, WindsUpType DEF RefreshReads
    <3> QED BY <3>1, <3>2
  <2> QED BY <1>1, <2>1 DEF RefreshReads, StoreTypeOK, SlotsTypeOK, BackendTypeOK, EnvTypeOK, store,
             slots, backend, env
<1>2. CASE RefreshTakesHandles(a)
  <2>1. ActTypeOK'
    <3> DEFINE t == [act[a] EXCEPT !.pc = "poll", !.got = handles[act[a].run]]
    <3>1. t \in Threads
      BY <1>a DEF Threads
    <3>2. /\ t.pc # "idle" => t.run \in Runs
          /\ t.pc = "write" \/ t.next = "write" => t.new \in RunStatus
          /\ t.pc \in {"handles", "poll"} => t.status \in RunStatus
      BY <1>2, <1>a DEF ActTypeOK, Threads, RefreshTakesHandles
    <3>3. act' = [act EXCEPT ![a] = t]
      BY <1>2 DEF RefreshTakesHandles
    <3> HIDE DEF t
    <3> QED BY <3>1, <3>2, <3>3, ThreadType
  <2> QED BY <1>2, <2>1 DEF RefreshTakesHandles, StoreTypeOK, SlotsTypeOK, BackendTypeOK, EnvTypeOK,
             store, slots, backend, env
<1>3. CASE RefreshPolls(a)
  <2> DEFINE r == act[a].run
             polled(answered) == [k \in Tasks |-> IF k \in answered THEN Reported(worker[r][k])
                                                   ELSE act[a].tasks[k]]
             ts(answered) == [k \in Tasks |-> IF k \in Stranded(r, polled(answered)) THEN "FAILED"
                                               ELSE polled(answered)[k]]
             status(answered) == IF TasksEnded(ts(answered)) THEN Outcome(ts(answered))
                                 ELSE act[a].status
  <2>1. PICK answered \in SUBSET {k \in act[a].got : act[a].tasks[k] \in Unfinished} :
          /\ stop' = [stop EXCEPT ![r] = @ \cup (Stranded(r, polled(answered)) \cap act[a].got)]
          /\ \/ act' = [act EXCEPT ![a].pc = "write", ![a].new = status(answered),
                                   ![a].tasks = ts(answered), ![a].got = {}]
             \/ WindsUpAt(a, "idle")
    BY <1>3 DEF RefreshPolls
  <2>2. polled(answered) \in [Tasks -> TaskStatus]
    BY <1>a DEF BackendTypeOK, Threads, Reported, WorkerStatus, TaskStatus
  <2>3. ts(answered) \in [Tasks -> TaskStatus]
    BY <2>2 DEF TaskStatus
  <2>4. status(answered) \in RunStatus
    BY <1>3, <1>a, <2>3, ConstantTypes DEF ActTypeOK, RefreshPolls
  <2>5. BackendTypeOK'
    BY <1>3, <1>a, <2>1 DEF BackendTypeOK, RefreshPolls, Threads
  <2>6. ActTypeOK'
    <3>1. CASE act' = [act EXCEPT ![a].pc = "write", ![a].new = status(answered),
                                   ![a].tasks = ts(answered), ![a].got = {}]
      <4> DEFINE t == [act[a] EXCEPT !.pc = "write", !.new = status(answered),
                                     !.tasks = ts(answered), !.got = {}]
      <4> HIDE DEF status, ts
      <4>1. t \in Threads
        BY <1>a, <2>3, <2>4 DEF Threads
      <4>2. /\ t.run \in Runs
            /\ t.new \in RunStatus
            /\ t.pc = "write"
        BY <1>a, <2>4 DEF Threads
      <4>3. act' = [act EXCEPT ![a] = t]
        BY <3>1
      <4> HIDE DEF t
      <4> QED BY <4>1, <4>2, <4>3, ThreadType
    <3>2. CASE WindsUpAt(a, "idle")
      BY <1>a, <3>2, WindsUpType
    <3> QED BY <2>1, <3>1, <3>2
  <2> QED BY <1>3, <2>5, <2>6 DEF RefreshPolls, StoreTypeOK, SlotsTypeOK, EnvTypeOK, store, slots, env
<1>4. CASE RefreshWrites(a)
  <2>1. act[a].new \in RunStatus /\ act[a].tasks \in [Tasks -> TaskStatus]
    BY <1>4, <1>a DEF ActTypeOK, Threads, RefreshWrites
  <2>2. StoreTypeOK'
    BY <1>4, <1>a, <2>1, SaveType DEF RefreshWrites, SaveIfStatus, StoreTypeOK, store
  <2>3. ActTypeOK'
    BY <1>4, <1>a, WindsUpType DEF RefreshWrites
  <2> QED BY <1>4, <2>2, <2>3 DEF RefreshWrites, SlotsTypeOK, BackendTypeOK, EnvTypeOK, slots, backend,
             env
<1>5. CASE RefreshRereads(a)
  <2>1. ActTypeOK'
    BY <1>5, <1>a, WindsUpType DEF RefreshRereads
  <2> QED BY <1>5, <2>1 DEF RefreshRereads, StoreTypeOK, SlotsTypeOK, BackendTypeOK, EnvTypeOK, store,
             slots, backend, env
<1>6. CASE RefreshFinishes(a)
  <2>1. ActTypeOK'
    BY <1>6, <1>a, WindsUpType DEF RefreshFinishes
  <2>2. SlotsTypeOK'
    BY <1>6, <1>a, ReleaseType DEF RefreshFinishes
  <2>3. handles' \in [Runs -> SUBSET Tasks] /\ announced' \in [Runs -> Nat]
    BY <1>6, <1>a DEF RefreshFinishes
  <2> QED BY <1>6, <2>1, <2>2, <2>3 DEF RefreshFinishes, StoreTypeOK, BackendTypeOK, EnvTypeOK, store,
             backend, env
<1> QED BY <1>1, <1>2, <1>3, <1>4, <1>5, <1>6 DEF Refresh

LEMMA EndingType ==
  ASSUME TypeOK, NEW a \in Actors, Cancel(a) \/ DeleteErases(a) \/ Reap(a) \/ ActThrows(a)
  PROVE  TypeOK'
<1> USE DEF TypeOK
<1>a. act[a] \in Threads /\ act[a].pc # "idle" /\ act[a].run \in Runs
  BY DEF ActTypeOK, Cancel, CancelReads, CancelWrites, DeleteErases, Reap, ReapReads, ReapWrites,
         ActThrows
<1>1. ASSUME NEW pc \in {"settle", "write"}, NEW next \in {"idle", "write"},
             row[act[a].run].status \in NotEnded,
             act' = [act EXCEPT ![a].pc = pc, ![a].next = next, ![a].status = row[act[a].run].status,
                                ![a].new = "FAILED", ![a].tasks = FailUnfinished(row[act[a].run].tasks)]
      PROVE  ActTypeOK'
  <2> DEFINE t == [act[a] EXCEPT !.pc = pc, !.next = next, !.status = row[act[a].run].status,
                                 !.new = "FAILED", !.tasks = FailUnfinished(row[act[a].run].tasks)]
  <2>1. t \in Threads
    BY <1>a, <1>1, RowType DEF Threads, RunStatus, Ended
  <2>2. t.run \in Runs /\ t.new \in RunStatus /\ t.pc \notin {"handles", "poll"}
    BY <1>a, <1>1 DEF Threads, RunStatus, Ended
  <2>3. act' = [act EXCEPT ![a] = t]
    BY <1>1
  <2> HIDE DEF t
  <2> QED BY <2>1, <2>2, <2>3, ThreadType
<1>2. CASE CancelReads(a)
  <2>1. ActTypeOK'
    <3>1. CASE row[act[a].run].status \in {"PENDING", "RUNNING"}
      BY <1>1, <1>2, <3>1 DEF CancelReads, NotEnded
    <3>2. CASE row[act[a].run].status \notin {"PENDING", "RUNNING"}
      BY <1>2, <1>a, <3>2, WindsUpType DEF CancelReads
    <3> QED BY <3>1, <3>2
  <2> QED BY <1>2, <2>1 DEF CancelReads, StoreTypeOK, SlotsTypeOK, BackendTypeOK, EnvTypeOK, store,
             slots, backend, env
<1>3. CASE CancelWrites(a)
  <2>1. act[a].new \in RunStatus /\ act[a].tasks \in [Tasks -> TaskStatus]
    BY <1>3, <1>a DEF ActTypeOK, Threads, CancelWrites
  <2>2. StoreTypeOK'
    BY <1>3, <1>a, <2>1, SaveType DEF CancelWrites, SaveIfStatus, StoreTypeOK, store
  <2>3. ActTypeOK'
    <3> DEFINE t == [Idle EXCEPT !.pc = "read", !.op = "cancel", !.run = act[a].run, !.pass = 2]
    <3>1. t \in Threads
      BY <1>a, ConstantTypes DEF Threads
    <3>2. t.run \in Runs /\ t.pc = "read" /\ t.next = "idle"
      BY <1>a DEF Idle
    <3>3. act' = [act EXCEPT ![a] = t] => ActTypeOK'
      <4> HIDE DEF t
      <4> QED BY <3>1, <3>2, ThreadType
    <3> QED BY <1>3, <1>a, <3>3, WindsUpType DEF CancelWrites
  <2>4. announced' \in [Runs -> Nat]
    BY <1>3, <1>a DEF CancelWrites
  <2> QED BY <1>3, <2>2, <2>3, <2>4 DEF CancelWrites, SlotsTypeOK, BackendTypeOK, EnvTypeOK, slots,
             backend, env
<1>4. CASE DeleteErases(a)
  <2>1. NoRow \in Row /\ "FAILED" \in RunStatus
    BY ConstantTypes DEF NoRow, Row, RunStatus, Ended
  <2>2. StoreTypeOK'
    BY <1>4, <1>a, <2>1 DEF DeleteErases, StoreTypeOK
  <2>3. ActTypeOK'
    BY <1>4, <1>a, WindsUpType DEF DeleteErases
  <2>4. announced' \in [Runs -> Nat]
    BY <1>4, <1>a DEF DeleteErases
  <2> QED BY <1>4, <2>2, <2>3, <2>4 DEF DeleteErases, SlotsTypeOK, BackendTypeOK, EnvTypeOK, slots,
             backend, env
<1>5. CASE ReapReads(a)
  <2>1. ActTypeOK'
    <3>1. CASE row[act[a].run].status \in NotEnded
      BY <1>1, <1>5, <3>1 DEF ReapReads
    <3>2. CASE row[act[a].run].status \notin NotEnded
      BY <1>5, <1>a, <3>2, WindsUpType DEF ReapReads
    <3> QED BY <3>1, <3>2
  <2> QED BY <1>5, <2>1 DEF ReapReads, StoreTypeOK, SlotsTypeOK, BackendTypeOK, EnvTypeOK, store,
             slots, backend, env
<1>6. CASE ReapWrites(a)
  <2>1. act[a].new \in RunStatus /\ act[a].tasks \in [Tasks -> TaskStatus]
    BY <1>6, <1>a DEF ActTypeOK, Threads, ReapWrites
  <2>2. StoreTypeOK'
    BY <1>6, <1>a, <2>1, SaveType DEF ReapWrites, SaveIfStatus, StoreTypeOK, store
  <2>3. ActTypeOK'
    BY <1>6, <1>a, WindsUpType DEF ReapWrites
  <2> QED BY <1>6, <2>2, <2>3 DEF ReapWrites, SlotsTypeOK, BackendTypeOK, EnvTypeOK, slots, backend, env
<1>7. CASE ActThrows(a)
  <2>1. ActTypeOK'
    BY <1>7, <1>a, WindsUpType DEF ActThrows
  <2>2. EnvTypeOK'
    BY <1>7 DEF ActThrows, FaultOf, EnvTypeOK
  <2> QED BY <1>7, <2>1, <2>2 DEF ActThrows, StoreTypeOK, SlotsTypeOK, BackendTypeOK, store, slots,
             backend
<1> QED BY <1>2, <1>3, <1>4, <1>5, <1>6, <1>7 DEF Cancel, Reap

LEMMA ProcessEndsType ==
  ASSUME TypeOK, ProcessEnds, faults' \in Seq(Failures)
  PROVE  TypeOK'
<1> USE DEF TypeOK
<1>1. SlotsTypeOK'
  BY MaxConcurrentAssumption DEF ProcessEnds, SlotsTypeOK
<1>2. BackendTypeOK'
  BY DEF ProcessEnds, BackendTypeOK, NoTasks, WorkerStatus
<1>3. ActTypeOK'
  BY ConstantTypes DEF ProcessEnds, ActTypeOK, Idle
<1>4. EnvTypeOK'
  BY ConstantTypes DEF ProcessEnds, EnvTypeOK, NotDown
<1>5. sub' \in [Runs -> Submissions]
  BY ConstantTypes DEF ProcessEnds
<1> QED BY <1>1, <1>2, <1>3, <1>4, <1>5 DEF ProcessEnds, StoreTypeOK, store

LEMMA ProcessType ==
  ASSUME TypeOK,
         \/ Crash \/ Ready \/ ShutdownBegins \/ Shutdown
         \/ \E r \in Runs : Tick(r) \/ RecoverOrphan(r)
  PROVE  TypeOK'
<1> USE DEF TypeOK
<1>1. CASE Crash
  <2>1. faults' \in Seq(Failures)
    BY <1>1 DEF Crash, FaultOf, EnvTypeOK
  <2> QED BY <1>1, <2>1, ProcessEndsType DEF Crash
<1>2. CASE Ready
  BY <1>2 DEF Ready, StoreTypeOK, SlotsTypeOK, BackendTypeOK, ActTypeOK, EnvTypeOK, store, slots,
     backend
<1>3. CASE ShutdownBegins
  <2>1. down' \in Shutdowns /\ down'.pc = "next"
    BY <1>3, ConstantTypes DEF ShutdownBegins, Shutdowns, NotDown
  <2>2. EnvTypeOK'
    <3>1. faults' \in Seq(Failures) /\ clock' \in [Runs -> 0..2]
      BY <1>3 DEF ShutdownBegins, FaultOf, EnvTypeOK
    <3>2. up' \in BOOLEAN
      BY <1>3 DEF ShutdownBegins
    <3> QED BY <2>1, <3>1, <3>2 DEF EnvTypeOK
  <2> QED BY <1>3, <2>2 DEF ShutdownBegins, StoreTypeOK, SlotsTypeOK, BackendTypeOK, ActTypeOK, store,
             slots, backend
<1>4. ASSUME NEW r \in Runs, ShutdownStops(r)
      PROVE  TypeOK'
  <2>1. EnvTypeOK'
    <3>1. down' \in Shutdowns /\ down'.run = r
      BY <1>4 DEF ShutdownStops, EnvTypeOK, Shutdowns
    <3> QED BY <1>4, <3>1 DEF ShutdownStops, EnvTypeOK
  <2>2. BackendTypeOK'
    BY <1>4 DEF ShutdownStops, BackendTypeOK
  <2> QED BY <1>4, <2>1, <2>2 DEF ShutdownStops, StoreTypeOK, SlotsTypeOK, ActTypeOK, store, slots
<1>5. CASE ShutdownReads
  <2>1. down.run \in Runs
    BY <1>5 DEF ShutdownReads, EnvTypeOK
  <2>2. down' \in Shutdowns /\ down'.run = down.run
    BY <1>5, <2>1, RowType DEF ShutdownReads, EnvTypeOK, Shutdowns
  <2>3. EnvTypeOK'
    BY <1>5, <2>1, <2>2 DEF ShutdownReads, EnvTypeOK
  <2> QED BY <1>5, <2>3 DEF ShutdownReads, StoreTypeOK, SlotsTypeOK, BackendTypeOK, ActTypeOK, store,
             slots, backend
<1>6. CASE ShutdownSaves
  <2>1. down.run \in Runs /\ down.tasks \in [Tasks -> TaskStatus] /\ "FAILED" \in RunStatus
    BY <1>6 DEF ShutdownSaves, EnvTypeOK, Shutdowns, RunStatus, Ended
  <2>2. StoreTypeOK'
    BY <1>6, <2>1, SaveType DEF ShutdownSaves
  <2>3. down' \in Shutdowns /\ down'.pc = "next"
    BY <1>6, ConstantTypes DEF ShutdownSaves, EnvTypeOK, Shutdowns
  <2>4. EnvTypeOK'
    BY <1>6, <2>3 DEF ShutdownSaves, EnvTypeOK
  <2> QED BY <1>6, <2>2, <2>4 DEF ShutdownSaves, SlotsTypeOK, BackendTypeOK, ActTypeOK, slots, backend
<1>7. CASE ShutdownExits
  <2>1. faults' \in Seq(Failures)
    BY <1>7 DEF ShutdownExits, EnvTypeOK
  <2> QED BY <1>7, <2>1, ProcessEndsType DEF ShutdownExits
<1>8. ASSUME NEW r \in Runs, Tick(r)
      PROVE  TypeOK'
  <2>1. EnvTypeOK'
    <3>1. clock' \in [Runs -> 0..2]
      <4>1. clock[r] \in 0..2 /\ clock[r] + 1 \in 0..2
        BY <1>8 DEF Tick, EnvTypeOK
      <4> QED BY <1>8, <4>1 DEF Tick, EnvTypeOK
    <3> QED BY <1>8, <3>1 DEF Tick, EnvTypeOK
  <2> QED BY <1>8, <2>1 DEF Tick, StoreTypeOK, SlotsTypeOK, BackendTypeOK, ActTypeOK, store, slots,
             backend
<1>9. ASSUME NEW r \in Runs, RecoverOrphan(r)
      PROVE  TypeOK'
  <2>1. StoreTypeOK'
    BY <1>9, SaveType, RowType DEF RecoverOrphan, RunStatus, Ended
  <2> QED BY <1>9, <2>1 DEF RecoverOrphan, SlotsTypeOK, BackendTypeOK, ActTypeOK, EnvTypeOK, slots,
             backend, env
<1> QED BY <1>1, <1>2, <1>3, <1>4, <1>5, <1>6, <1>7, <1>8, <1>9 DEF Shutdown

LEMMA InitType == Init => TypeOK
<1> SUFFICES ASSUME Init PROVE TypeOK
  OBVIOUS
<1>1. NoRow \in Row /\ LegacyRow \in Row
  BY ConstantTypes DEF NoRow, LegacyRow, Row, RunStatus, NotEnded, TaskStatus
<1>2. StoreTypeOK
  BY <1>1 DEF Init, StoreTypeOK
<1>3. SlotsTypeOK /\ BackendTypeOK
  BY MaxConcurrentAssumption DEF Init, SlotsTypeOK, BackendTypeOK, NoTasks, WorkerStatus
<1>4. ActTypeOK
  BY ConstantTypes DEF Init, ActTypeOK, Idle
<1>5. EnvTypeOK
  <2>1. down \in Shutdowns /\ down.pc = "no"
    BY ConstantTypes DEF Init, NotDown
  <2>2. clock \in [Runs -> 0..2] /\ faults \in Seq(Failures)
    BY DEF Init
  <2>3. up \in BOOLEAN
    BY DEF Init
  <2> QED BY <2>1, <2>2, <2>3 DEF EnvTypeOK
<1>6. sub \in [Runs -> Submissions]
  BY ConstantTypes DEF Init
<1> QED BY <1>2, <1>3, <1>4, <1>5, <1>6 DEF Init, TypeOK

LEMMA StepType == TypeOK /\ [Next]_vars => TypeOK'
<1> SUFFICES ASSUME TypeOK, [Next]_vars PROVE TypeOK'
  OBVIOUS
<1>1. ASSUME NEW r \in Runs, RunNext(r)
      PROVE  TypeOK'
  <2>1. ASSUME NEW a \in Actors, Requests(a, r) \/ Reconciles(a, r) \/ ReapFinds(a, r)
        PROVE  TypeOK'
    BY <2>1, StartsType DEF Requests, Reconciles, ReapFinds
  <2> QED
    BY <1>1, <2>1, CreateType, SubmissionType, WorkerType, ProcessType DEF RunNext, Actors
<1>2. ASSUME NEW a \in Actors, Continues(a) \/ ActThrows(a)
      PROVE  TypeOK'
  BY <1>2, SettleType, RefreshType, EndingType DEF Continues
<1>3. CASE Crash \/ Ready \/ ShutdownBegins \/ Shutdown
  BY <1>3, ProcessType
<1>4. CASE UNCHANGED vars
  BY <1>4 DEF vars, TypeOK, StoreTypeOK, SlotsTypeOK, BackendTypeOK, ActTypeOK, EnvTypeOK
<1> QED BY <1>1, <1>2, <1>3, <1>4 DEF Next

\* Every variable keeps its type: threads that are at work have a run, and those
\* about to write have a status to write.
THEOREM TypeCorrect == Spec => []TypeOK
BY InitType, StepType, PTL DEF Spec

-----------------------------------------------------------------------------
(* What a step does to a submission *)

LEMMA SubSteps ==
  ASSUME TypeOK, [Next]_vars, NEW r \in Runs
  PROVE  \/ sub'[r] = sub[r] \/ ProcessEnds
         \/ \E kind : Create(r, kind)
         \/ Submission(r) \/ FirstSaveThrows(r) \/ StoreSubmissionThrows(r)
<1>1. ASSUME NEW s \in Runs \ {r}, NEW kind, Create(s, kind) PROVE sub'[r] = sub[r]
  BY <1>1 DEF Create, TypeOK
<1>2. ASSUME NEW s \in Runs \ {r}, Submission(s) \/ FirstSaveThrows(s) \/ StoreSubmissionThrows(s)
      PROVE  sub'[r] = sub[r]
  BY <1>2 DEF Submission, FirstSave, MarkStrandedAsFailed, SubmitThrows, AllSubmitted,
     StoreSubmission, Register, SubmissionSettles, SubmissionStops, SubmitTask, SubmitTaskFails,
     FirstSaveThrows, StoreSubmissionThrows, TypeOK
<1>3. ASSUME NEW s \in Runs, NEW k \in Tasks, Worker(s, k) PROVE UNCHANGED sub
  BY <1>3 DEF Worker, WorkerStarts, WorkerNeverStarts, WorkerProduces, WorkerReturns, WorkerPasses,
     WorkerFallsShort, WorkerThrows, SetWorker
<1>4. ASSUME NEW s \in Runs, NEW a \in Actors, Requests(a, s) \/ Reconciles(a, s) \/ ReapFinds(a, s)
      PROVE  UNCHANGED sub
  BY <1>4 DEF Requests, Reconciles, ReapFinds, Starts
<1>5. ASSUME NEW a \in Actors, Continues(a) \/ ActThrows(a) PROVE UNCHANGED sub
  BY <1>5 DEF Continues, ActThrows, SettleDrops, SettleStops, Refresh, RefreshReads,
     RefreshTakesHandles, RefreshPolls, RefreshWrites, RefreshRereads, RefreshFinishes, Cancel,
     CancelReads, CancelWrites, DeleteErases, Reap, ReapReads, ReapWrites
<1>6. ASSUME NEW s \in Runs, Tick(s) \/ RecoverOrphan(s) \/ ShutdownStops(s) PROVE UNCHANGED sub
  BY <1>6 DEF Tick, RecoverOrphan, ShutdownStops
<1>7. ASSUME Ready \/ ShutdownBegins \/ ShutdownReads \/ ShutdownSaves \/ UNCHANGED vars
      PROVE  UNCHANGED sub
  BY <1>7 DEF Ready, ShutdownBegins, ShutdownReads, ShutdownSaves, vars
<1> QED
  BY <1>1, <1>2, <1>3, <1>4, <1>5, <1>6, <1>7
     DEF Next, RunNext, Crash, Shutdown, ShutdownExits, Actors

\* From here to there, in a step of a submission or at the end of the process.
PcMoves(from, to) ==
  \/ from = to
  \/ to = "done" /\ from # "none"
  \/ <<from, to>> \in {<<"none", "save">>, <<"save", "submit">>, <<"save", "stranded">>,
                       <<"submit", "store">>, <<"store", "register">>, <<"register", "settle">>,
                       <<"settle", "stop">>}

LEMMA PcSteps ==
  ASSUME TypeOK, [Next]_vars, NEW r \in Runs
  PROVE  PcMoves(sub[r].pc, sub'[r].pc)
<1>a. sub[r] \in Submissions
  BY DEF TypeOK
<1>b. \A kind : Submitted(kind).pc = "done"
  BY DEF Submitted, NotSubmitted
<1>1. ASSUME NEW kind, Create(r, kind) PROVE sub[r].pc = "none" /\ sub'[r].pc = "save"
  BY <1>1, <1>a DEF Create, TypeOK, Submissions
<1>2. CASE FirstSave(r) \/ FirstSaveThrows(r) \/ SubmitThrows(r) \/ AllSubmitted(r)
  BY <1>2, <1>a DEF FirstSave, FirstSaveThrows, SubmitThrows, AllSubmitted, TypeOK, Submissions, PcMoves
<1>3. CASE StoreSubmission(r) \/ StoreSubmissionThrows(r)
  <2>1. sub[r].pc = "store" /\ sub'[r].pc = "register"
    BY <1>3, <1>a DEF StoreSubmission, StoreSubmissionThrows, TypeOK, Submissions
  <2> QED BY <2>1 DEF PcMoves
<1>4. CASE MarkStrandedAsFailed(r) \/ SubmissionStops(r)
  BY <1>4, <1>b DEF MarkStrandedAsFailed, SubmissionStops, TypeOK, PcMoves
<1>5. CASE Register(r)
  <2>1. sub[r].pc = "register" /\ sub'[r].pc \in {"settle", "done"}
    BY <1>5, <1>b, <1>a DEF Register, TypeOK, Submissions
  <2> QED BY <2>1 DEF PcMoves
<1>6. CASE SubmissionSettles(r)
  <2>1. [sub[r] EXCEPT !.pc = "stop", !.got = handles[r]].pc = "stop"
    BY <1>a DEF Submissions
  <2> QED BY <1>6, <1>b, <2>1 DEF SubmissionSettles, TypeOK, PcMoves
<1>7. ASSUME NEW k \in Tasks, SubmitTask(r, k) \/ SubmitTaskFails(r, k) PROVE sub'[r].pc = sub[r].pc
  BY <1>7, <1>a DEF SubmitTask, SubmitTaskFails, TypeOK, Submissions
<1>8. CASE ProcessEnds
  BY <1>8, <1>b DEF ProcessEnds, PcMoves
<1> QED BY <1>1, <1>2, <1>3, <1>4, <1>5, <1>6, <1>7, <1>8, SubSteps DEF Submission, PcMoves

-----------------------------------------------------------------------------
(* Permits *)

\* PermitConservation is not inductive: a create that took a permit for a run
\* that already holds one would break it.
HoldersWereCreated == \A r \in holders : sub[r].pc # "none"

PermitInv == PermitConservation /\ HoldersWereCreated

LEMMA ReleaseConserves ==
  ASSUME TypeOK, PermitConservation, NEW r \in Runs, ReleasePermit(r)
  PROVE  PermitConservation' /\ holders' \subseteq holders
<1>1. IsFiniteSet(holders)
  BY RunsAssumption, FS_Subset DEF TypeOK, SlotsTypeOK
<1>2. CASE r \in holders
  <2>1. Cardinality(holders \ {r}) = Cardinality(holders) - 1
    BY <1>1, <1>2, FS_RemoveElement
  <2>2. Cardinality(holders) \in Nat
    BY <1>1, FS_CardinalityType
  <2> QED BY <1>2, <2>1, <2>2 DEF PermitConservation, ReleasePermit, TypeOK, SlotsTypeOK
<1>3. CASE r \notin holders
  <2>1. holders \ {r} = holders
    BY <1>3
  <2> QED BY <1>3, <2>1 DEF PermitConservation, ReleasePermit
<1> QED BY <1>2, <1>3

LEMMA CreateConserves ==
  ASSUME TypeOK, PermitInv, NEW r \in Runs, NEW kind \in {"plain", "scenario"}, Create(r, kind)
  PROVE  PermitInv'
<1>1. IsFiniteSet(holders)
  BY RunsAssumption, FS_Subset DEF TypeOK, SlotsTypeOK
<1>2. r \notin holders
  BY DEF PermitInv, HoldersWereCreated, Create
<1>3. /\ Cardinality(holders \cup {r}) = Cardinality(holders) + 1
      /\ Cardinality(holders) \in Nat
  BY <1>1, <1>2, FS_AddElement, FS_CardinalityType
<1>4. PermitConservation'
  BY <1>3 DEF PermitInv, PermitConservation, Create, TypeOK, SlotsTypeOK
<1>5. HoldersWereCreated'
  BY DEF PermitInv, HoldersWereCreated, Create, TypeOK, SlotsTypeOK, Submissions
<1> QED BY <1>4, <1>5 DEF PermitInv

\* No step makes a created run look as if it had not been created.
LEMMA CreatedStaysCreated ==
  ASSUME TypeOK, [Next]_vars, NEW r \in Runs, sub[r].pc # "none"
  PROVE  sub'[r].pc # "none"
BY PcSteps DEF PcMoves

\* What a step may do to the permits.
LEMMA SlotSteps ==
  ASSUME TypeOK, [Next]_vars
  PROVE  \/ UNCHANGED slots
         \/ \E r \in Runs : ReleasePermit(r)
         \/ \E r \in Runs, kind \in {"plain", "scenario"} : Create(r, kind)
         \/ ProcessEnds
<1> DEFINE Released == \E r \in Runs : ReleasePermit(r)
<1>1. ASSUME NEW r \in Runs, Submission(r) \/ FirstSaveThrows(r) \/ StoreSubmissionThrows(r)
      PROVE  UNCHANGED slots \/ Released
  BY <1>1 DEF Submission, FirstSave, MarkStrandedAsFailed, SubmitThrows, AllSubmitted,
     StoreSubmission, Register, SubmissionSettles, SubmissionStops, SubmitTask, SubmitTaskFails,
     FirstSaveThrows, StoreSubmissionThrows
<1>2. ASSUME NEW r \in Runs, NEW k \in Tasks, Worker(r, k) PROVE UNCHANGED slots
  BY <1>2 DEF Worker, WorkerStarts, WorkerNeverStarts, WorkerProduces, WorkerReturns, WorkerPasses,
     WorkerFallsShort, WorkerThrows, SetWorker
<1>3. ASSUME NEW r \in Runs, NEW a \in Actors,
             Requests(a, r) \/ Reconciles(a, r) \/ ReapFinds(a, r)
      PROVE  UNCHANGED slots
  BY <1>3 DEF Requests, Reconciles, ReapFinds, Starts
<1>4. ASSUME NEW a \in Actors, Continues(a) \/ ActThrows(a) PROVE UNCHANGED slots \/ Released
  <2>1. CASE SettleDrops(a) \/ RefreshFinishes(a)
    <3>1. act[a].run \in Runs
      BY <2>1 DEF TypeOK, ActTypeOK, SettleDrops, RefreshFinishes
    <3> QED BY <2>1, <3>1 DEF SettleDrops, RefreshFinishes
  <2> QED
    BY <1>4, <2>1 DEF Continues, ActThrows, SettleStops, Refresh, RefreshReads, RefreshTakesHandles,
       RefreshPolls, RefreshWrites, RefreshRereads, Cancel, CancelReads, CancelWrites, DeleteErases,
       Reap, ReapReads, ReapWrites
<1>5. ASSUME NEW r \in Runs, Tick(r) \/ RecoverOrphan(r) \/ ShutdownStops(r) PROVE UNCHANGED slots
  BY <1>5 DEF Tick, RecoverOrphan, ShutdownStops
<1>6. ASSUME Ready \/ ShutdownBegins \/ ShutdownReads \/ ShutdownSaves \/ UNCHANGED vars
      PROVE  UNCHANGED slots
  BY <1>6 DEF Ready, ShutdownBegins, ShutdownReads, ShutdownSaves, vars, slots
<1> QED
  BY <1>1, <1>2, <1>3, <1>4, <1>5, <1>6
     DEF Next, RunNext, Crash, Shutdown, ShutdownExits, Actors

LEMMA StepPermits == TypeOK /\ PermitInv /\ [Next]_vars => PermitInv'
<1> SUFFICES ASSUME TypeOK, PermitInv, [Next]_vars PROVE PermitInv'
  OBVIOUS
<1>1. CASE UNCHANGED slots
  BY <1>1, CreatedStaysCreated
     DEF PermitInv, PermitConservation, HoldersWereCreated, slots, TypeOK, SlotsTypeOK
<1>2. ASSUME NEW r \in Runs, ReleasePermit(r) PROVE PermitInv'
  BY <1>2, ReleaseConserves, CreatedStaysCreated
     DEF PermitInv, HoldersWereCreated, TypeOK, SlotsTypeOK
<1>3. ASSUME NEW r \in Runs, NEW kind \in {"plain", "scenario"}, Create(r, kind) PROVE PermitInv'
  BY <1>3, CreateConserves
<1>4. CASE ProcessEnds
  BY <1>4, FS_EmptySet, MaxConcurrentAssumption
     DEF ProcessEnds, PermitInv, PermitConservation, HoldersWereCreated
<1> QED BY <1>1, <1>2, <1>3, <1>4, SlotSteps

\* No permit is lost or given back twice: after any interleaving of submissions,
\* polls, cancels, deletes, the reaper, throws, shutdowns and crashes, the free
\* permits and the holders add up to max-concurrent-tests.
THEOREM PermitsConserved == Spec => []PermitConservation
<1>1. Init => PermitInv
  BY FS_EmptySet, MaxConcurrentAssumption
     DEF Init, PermitInv, PermitConservation, HoldersWereCreated
<1>2. PermitInv => PermitConservation
  BY DEF PermitInv
<1> QED BY <1>1, <1>2, StepPermits, TypeCorrect, PTL DEF Spec
-----------------------------------------------------------------------------
(* Tasks of ended runs *)

Closed(ts) == \A k \in Tasks : ts[k] \notin Unfinished

\* What a thread has in hand: an ending only with tasks that have all ended, and
\* while it has not decided, the status of a run that was going on.
ThreadCloses(t) ==
  /\ t.new \in Ended => Closed(t.tasks)
  /\ t.pc = "read" => t.new = "NONE"
  /\ t.pc \in {"handles", "poll"} => t.new = "NONE" /\ t.status \in NotEnded

ThreadsClose == \A a \in Actors : ThreadCloses(act[a])

ShutdownCloses == down.pc = "save" => Closed(down.tasks)

\* EndedRunHasNoUnfinishedTask is not inductive: the tasks a thread is going to
\* write were computed some steps before.
TasksInv == EndedRunHasNoUnfinishedTask /\ ThreadsClose /\ ShutdownCloses

LEMMA FailUnfinishedCloses ==
  ASSUME NEW ts \in [Tasks -> TaskStatus]
  PROVE  Closed(FailUnfinished(ts))
BY DEF Closed, FailUnfinished, Unfinished

LEMMA NoTasksCloses == Closed(NoTasks)
BY DEF Closed, NoTasks, Unfinished

LEMMA SaveCloses ==
  ASSUME StoreTypeOK, EndedRunHasNoUnfinishedTask, NEW r \in Runs, NEW status, NEW ts,
         Save(r, status, ts), status \in Ended => Closed(ts)
  PROVE  EndedRunHasNoUnfinishedTask'
BY DEF StoreTypeOK, EndedRunHasNoUnfinishedTask, Save, Closed

LEMMA StoreKept ==
  ASSUME EndedRunHasNoUnfinishedTask, UNCHANGED store
  PROVE  EndedRunHasNoUnfinishedTask'
BY DEF EndedRunHasNoUnfinishedTask, store

LEMMA ThreadStepCloses ==
  ASSUME ActTypeOK, ThreadsClose, NEW a \in Actors, NEW t, ThreadCloses(t),
         act' = [act EXCEPT ![a] = t]
  PROVE  ThreadsClose'
BY DEF ThreadsClose, ActTypeOK

LEMMA IdleCloses == ThreadCloses(Idle)
BY DEF ThreadCloses, Idle, Ended

LEMMA WoundUpCloses ==
  ASSUME NEW pc, pc \notin {"read", "handles", "poll"}, NEW op, NEW run
  PROVE  ThreadCloses([Idle EXCEPT !.pc = pc, !.op = op, !.run = run])
BY DEF ThreadCloses, Idle, Ended

LEMMA WindsUpCloses ==
  ASSUME ActTypeOK, ThreadsClose, NEW a \in Actors,
         NEW pc \in {"idle", "settle", "finish", "reread"}, WindsUpAt(a, pc)
  PROVE  ThreadsClose'
BY IdleCloses, WoundUpCloses, ThreadStepCloses DEF WindsUpAt

LEMMA GoesToCloses ==
  ASSUME ActTypeOK, ThreadsClose, NEW a \in Actors, GoesTo(a, act[a].next)
  PROVE  ThreadsClose'
<1> DEFINE t == [act[a] EXCEPT !.pc = act[a].next, !.got = {}]
<1>1. act[a] \in Threads /\ ThreadCloses(act[a])
  BY DEF ActTypeOK, ThreadsClose
<1>2. t.new = act[a].new /\ t.tasks = act[a].tasks /\ t.pc \notin {"read", "handles", "poll"}
  BY <1>1 DEF Threads
<1> HIDE DEF t
<1>3. ThreadCloses(t)
  BY <1>1, <1>2 DEF ThreadCloses
<1>4. act' = [act EXCEPT ![a] = IF act[a].next = "idle" THEN Idle ELSE t]
  BY DEF GoesTo, t
<1> QED BY <1>3, <1>4, IdleCloses, ThreadStepCloses

\* The submission thread and its failure paths.
LEMMA SubmissionCloses ==
  ASSUME TypeOK, TasksInv, NEW r \in Runs,
         Submission(r) \/ FirstSaveThrows(r) \/ StoreSubmissionThrows(r)
  PROVE  TasksInv'
<1> USE DEF TypeOK, TasksInv
<1>1. UNCHANGED <<act, down>>
  BY DEF Submission, FirstSave, MarkStrandedAsFailed, SubmitThrows, AllSubmitted, StoreSubmission,
     Register, SubmissionSettles, SubmissionStops, SubmitTask, SubmitTaskFails, FirstSaveThrows,
     StoreSubmissionThrows, env
<1>2. EndedRunHasNoUnfinishedTask'
  <2>1. CASE FirstSave(r) \/ FirstSaveThrows(r)
    <3>1. FirstStatus(sub[r].kind) \notin Ended
      BY DEF FirstStatus, Ended
    <3> QED BY <2>1, <3>1, SaveCloses, StoreKept DEF FirstSave, FirstSaveThrows
  <2>2. CASE MarkStrandedAsFailed(r)
    BY <2>2, NoTasksCloses, SaveCloses, StoreKept DEF MarkStrandedAsFailed
  <2>3. CASE StoreSubmission(r)
    <3>1. SubmittedStatus(sub[r].tasks) \in Ended => Closed(sub[r].tasks)
      BY DEF SubmittedStatus, Closed, Ended, Unfinished
    <3> QED BY <2>3, <3>1, SaveCloses, StoreKept DEF StoreSubmission, SaveIfStatus
  <2>4. CASE UNCHANGED store
    BY <2>4, StoreKept
  <2> QED
    BY <2>1, <2>2, <2>3, <2>4 DEF Submission, SubmitThrows, AllSubmitted, Register,
       SubmissionSettles, SubmissionStops, SubmitTask, SubmitTaskFails, StoreSubmissionThrows
<1> QED BY <1>1, <1>2 DEF ThreadsClose, ShutdownCloses

\* refreshStatus.
LEMMA RefreshCloses ==
  ASSUME TypeOK, TasksInv, NEW a \in Actors, Refresh(a)
  PROVE  TasksInv'
<1> USE DEF TypeOK, TasksInv
<1>a. act[a] \in Threads /\ ThreadCloses(act[a])
  BY DEF ActTypeOK, ThreadsClose
<1>b. act[a].pc # "idle" /\ act[a].run \in Runs
  BY DEF Refresh, RefreshReads, RefreshTakesHandles, RefreshPolls, RefreshWrites, RefreshRereads,
     RefreshFinishes, ActTypeOK
<1>c. ShutdownCloses'
  BY DEF Refresh, RefreshReads, RefreshTakesHandles, RefreshPolls, RefreshWrites, RefreshRereads,
     RefreshFinishes, ShutdownCloses, env
<1>1. CASE RefreshReads(a)
  <2> DEFINE t == [act[a] EXCEPT !.pc = "handles", !.status = row[act[a].run].status,
                                 !.tasks = row[act[a].run].tasks]
  <2>1. t.new = act[a].new /\ t.status = row[act[a].run].status /\ t.pc = "handles"
    BY <1>a DEF Threads
  <2>2. act[a].new = "NONE"
    BY <1>a, <1>1 DEF RefreshReads, ThreadCloses
  <2>3. \/ WindsUpAt(a, "settle") \/ WindsUpAt(a, "idle")
        \/ row[act[a].run].status \in NotEnded /\ act' = [act EXCEPT ![a] = t]
    BY <1>1 DEF RefreshReads, ActTypeOK
  <2> HIDE DEF t
  <2>4. row[act[a].run].status \in NotEnded => ThreadCloses(t)
    BY <2>1, <2>2 DEF ThreadCloses, Ended
  <2>5. ThreadsClose'
    BY <2>3, <2>4, ThreadStepCloses, WindsUpCloses
  <2> QED BY <1>1, <1>c, <2>5, StoreKept DEF RefreshReads
<1>2. CASE RefreshTakesHandles(a)
  <2> DEFINE t == [act[a] EXCEPT !.pc = "poll", !.got = handles[act[a].run]]
  <2>1. t.new = act[a].new /\ t.status = act[a].status /\ t.pc = "poll" /\ t.tasks = act[a].tasks
    BY <1>a DEF Threads
  <2>2. act' = [act EXCEPT ![a] = t]
    BY <1>2 DEF RefreshTakesHandles, ActTypeOK
  <2> HIDE DEF t
  <2>3. ThreadCloses(t)
    BY <1>a, <1>2, <2>1 DEF ThreadCloses, RefreshTakesHandles
  <2> QED BY <1>2, <1>c, <2>2, <2>3, StoreKept, ThreadStepCloses DEF RefreshTakesHandles
<1>3. CASE RefreshPolls(a)
  <2>1. act[a].status \in NotEnded
    BY <1>a, <1>3 DEF RefreshPolls, ThreadCloses
  <2>2. PICK ts, status : /\ \/ act' = [act EXCEPT ![a].pc = "write", ![a].new = status,
                                                   ![a].tasks = ts, ![a].got = {}]
                             \/ WindsUpAt(a, "idle")
                          /\ status = IF TasksEnded(ts) THEN Outcome(ts) ELSE act[a].status
    BY <1>3 DEF RefreshPolls
  <2> DEFINE t == [act[a] EXCEPT !.pc = "write", !.new = status, !.tasks = ts, !.got = {}]
  <2>3. t.new = status /\ t.tasks = ts /\ t.pc = "write"
    BY <1>a DEF Threads
  <2>4. act' = [act EXCEPT ![a] = t] \/ WindsUpAt(a, "idle")
    BY <2>2 DEF ActTypeOK
  <2> HIDE DEF t
  <2>5. status \in Ended => Closed(ts)
    BY <2>1, <2>2 DEF TasksEnded, Closed, NotEnded, Ended
  <2>6. ThreadCloses(t)
    BY <2>3, <2>5 DEF ThreadCloses
  <2> QED BY <1>3, <1>c, <2>4, <2>6, StoreKept, ThreadStepCloses, WindsUpCloses DEF RefreshPolls
<1>4. CASE RefreshWrites(a)
  <2>1. act[a].new \in Ended => Closed(act[a].tasks)
    BY <1>a DEF ThreadCloses
  <2>2. EndedRunHasNoUnfinishedTask'
    BY <1>4, <1>b, <2>1, SaveCloses, StoreKept DEF RefreshWrites, SaveIfStatus
  <2>3. \E pc \in {"idle", "finish", "reread"} : WindsUpAt(a, pc)
    BY <1>4 DEF RefreshWrites
  <2> QED BY <1>c, <2>2, <2>3, WindsUpCloses
<1>5. CASE RefreshRereads(a) \/ RefreshFinishes(a)
  <2>1. \E pc \in {"idle", "settle"} : WindsUpAt(a, pc)
    BY <1>5 DEF RefreshRereads, RefreshFinishes
  <2> QED BY <1>5, <1>c, <2>1, StoreKept, WindsUpCloses DEF RefreshRereads, RefreshFinishes
<1> QED BY <1>1, <1>2, <1>3, <1>4, <1>5 DEF Refresh

\* settle, cancelTest, deleteTest and the reaper.
LEMMA EndingCloses ==
  ASSUME TypeOK, TasksInv, NEW a \in Actors,
         \/ SettleDrops(a) \/ SettleStops(a) \/ Cancel(a) \/ DeleteErases(a) \/ Reap(a)
         \/ ActThrows(a)
  PROVE  TasksInv'
<1> USE DEF TypeOK, TasksInv
<1>a. act[a] \in Threads /\ ThreadCloses(act[a])
  BY DEF ActTypeOK, ThreadsClose
<1>b. act[a].run \in Runs
  BY DEF SettleDrops, SettleStops, Cancel, CancelReads, CancelWrites, DeleteErases, Reap, ReapReads,
     ReapWrites, ActThrows, ActTypeOK
<1>c. ShutdownCloses'
  BY DEF SettleDrops, SettleStops, Cancel, CancelReads, CancelWrites, DeleteErases, Reap, ReapReads,
     ReapWrites, ActThrows, ShutdownCloses, env
<1>d. row[act[a].run].tasks \in [Tasks -> TaskStatus]
  BY <1>b, RowType
<1>1. CASE SettleDrops(a)
  <2> DEFINE t == [act[a] EXCEPT !.pc = "stop", !.got = handles[act[a].run]]
  <2>1. t.new = act[a].new /\ t.pc = "stop" /\ t.tasks = act[a].tasks
    BY <1>a DEF Threads
  <2>2. act' = [act EXCEPT ![a] = t] \/ GoesTo(a, act[a].next)
    BY <1>1 DEF SettleDrops, ActTypeOK
  <2> HIDE DEF t
  <2>3. ThreadCloses(t)
    BY <1>a, <2>1 DEF ThreadCloses
  <2> QED BY <1>1, <1>c, <2>2, <2>3, StoreKept, ThreadStepCloses, GoesToCloses DEF SettleDrops
<1>2. CASE SettleStops(a)
  BY <1>2, <1>c, StoreKept, GoesToCloses DEF SettleStops
<1>3. CASE CancelReads(a)
  <2> DEFINE stored == row[act[a].run]
             t == [act[a] EXCEPT !.pc = "settle", !.next = "write", !.status = stored.status,
                                 !.new = "FAILED", !.tasks = FailUnfinished(stored.tasks)]
  <2>1. t.pc = "settle" /\ t.tasks = FailUnfinished(stored.tasks)
    BY <1>a DEF Threads
  <2>2. act' = [act EXCEPT ![a] = t] \/ WindsUpAt(a, "idle")
    BY <1>3 DEF CancelReads, ActTypeOK
  <2> HIDE DEF t
  <2>3. ThreadCloses(t)
    BY <1>d, <2>1, FailUnfinishedCloses DEF ThreadCloses
  <2> QED BY <1>3, <1>c, <2>2, <2>3, StoreKept, ThreadStepCloses, WindsUpCloses DEF CancelReads
<1>4. CASE ReapReads(a)
  <2> DEFINE stored == row[act[a].run]
             pending == stored.status = "PENDING"
             t == [act[a] EXCEPT !.pc = IF pending THEN "write" ELSE "settle",
                                 !.next = IF pending THEN "idle" ELSE "write",
                                 !.status = stored.status, !.new = "FAILED",
                                 !.tasks = FailUnfinished(stored.tasks)]
  <2>1. t.pc \in {"settle", "write"} /\ t.tasks = FailUnfinished(stored.tasks)
    BY <1>a DEF Threads
  <2>2. act' = [act EXCEPT ![a] = t] \/ WindsUpAt(a, "idle")
    BY <1>4 DEF ReapReads, ActTypeOK
  <2> HIDE DEF t
  <2>3. ThreadCloses(t)
    BY <1>d, <2>1, FailUnfinishedCloses DEF ThreadCloses
  <2> QED BY <1>4, <1>c, <2>2, <2>3, StoreKept, ThreadStepCloses, WindsUpCloses DEF ReapReads
<1>5. CASE CancelWrites(a) \/ ReapWrites(a)
  <2>1. EndedRunHasNoUnfinishedTask'
    <3>1. act[a].new \in Ended => Closed(act[a].tasks)
      BY <1>a DEF ThreadCloses
    <3> QED BY <1>5, <1>b, <3>1, SaveCloses, StoreKept DEF CancelWrites, ReapWrites, SaveIfStatus
  <2> DEFINE t == [Idle EXCEPT !.pc = "read", !.op = "cancel", !.run = act[a].run, !.pass = 2]
  <2>2. t.new = "NONE" /\ t.pc = "read"
    BY DEF Idle
  <2>3. act' = [act EXCEPT ![a] = t] \/ \E pc \in {"idle", "settle"} : WindsUpAt(a, pc)
    BY <1>5 DEF CancelWrites, ReapWrites
  <2> HIDE DEF t
  <2>4. ThreadCloses(t)
    BY <2>2 DEF ThreadCloses, Ended
  <2> QED BY <1>c, <2>1, <2>3, <2>4, ThreadStepCloses, WindsUpCloses
<1>6. CASE DeleteErases(a)
  <2>1. EndedRunHasNoUnfinishedTask'
    BY <1>6, <1>b DEF DeleteErases, EndedRunHasNoUnfinishedTask, NoRow, Ended, StoreTypeOK
  <2> QED BY <1>6, <1>c, <2>1, WindsUpCloses DEF DeleteErases
<1>7. CASE ActThrows(a)
  BY <1>7, <1>c, StoreKept, WindsUpCloses DEF ActThrows
<1> QED BY <1>1, <1>2, <1>3, <1>4, <1>5, <1>6, <1>7 DEF Cancel, Reap

\* A crash, a shutdown and the recovery of orphans.
LEMMA ProcessCloses ==
  ASSUME TypeOK, TasksInv,
         \/ Crash \/ Ready \/ ShutdownBegins \/ Shutdown
         \/ \E r \in Runs : RecoverOrphan(r)
  PROVE  TasksInv'
<1> USE DEF TypeOK, TasksInv
<1>1. ASSUME ProcessEnds PROVE TasksInv'
  <2>1. ThreadsClose'
    BY <1>1, IdleCloses DEF ProcessEnds, ThreadsClose
  <2>2. ShutdownCloses'
    BY <1>1 DEF ProcessEnds, NotDown, ShutdownCloses
  <2> QED BY <1>1, <2>1, <2>2, StoreKept DEF ProcessEnds
<1>2. CASE Ready \/ ShutdownBegins
  <2>1. ShutdownCloses'
    BY <1>2 DEF Ready, ShutdownBegins, NotDown, ShutdownCloses
  <2> QED BY <1>2, <2>1, StoreKept DEF Ready, ShutdownBegins, ThreadsClose
<1>3. ASSUME NEW r \in Runs, ShutdownStops(r) PROVE TasksInv'
  <2>1. ShutdownCloses'
    BY <1>3 DEF ShutdownStops, ShutdownCloses, EnvTypeOK, Shutdowns
  <2> QED BY <1>3, <2>1, StoreKept DEF ShutdownStops, ThreadsClose
<1>4. CASE ShutdownReads
  <2>1. down \in Shutdowns /\ down.run \in Runs
    BY <1>4 DEF ShutdownReads, EnvTypeOK
  <2>2. Closed(FailUnfinished(row[down.run].tasks))
    BY <2>1, RowType, FailUnfinishedCloses
  <2>3. ShutdownCloses'
    BY <1>4, <2>1, <2>2 DEF ShutdownReads, ShutdownCloses, Shutdowns
  <2> QED BY <1>4, <2>3, StoreKept DEF ShutdownReads, ThreadsClose
<1>5. CASE ShutdownSaves
  <2>1. down \in Shutdowns /\ down.run \in Runs /\ Closed(down.tasks)
    BY <1>5 DEF ShutdownSaves, EnvTypeOK, ShutdownCloses
  <2>2. EndedRunHasNoUnfinishedTask'
    BY <1>5, <2>1, SaveCloses DEF ShutdownSaves
  <2>3. ShutdownCloses'
    BY <1>5, <2>1 DEF ShutdownSaves, ShutdownCloses, Shutdowns
  <2> QED BY <1>5, <2>2, <2>3 DEF ShutdownSaves, ThreadsClose
<1>6. ASSUME NEW r \in Runs, RecoverOrphan(r) PROVE TasksInv'
  <2>1. EndedRunHasNoUnfinishedTask'
    BY <1>6, RowType, FailUnfinishedCloses, SaveCloses DEF RecoverOrphan
  <2> QED BY <1>6, <2>1 DEF RecoverOrphan, ThreadsClose, ShutdownCloses, env
<1> QED
  BY <1>1, <1>2, <1>3, <1>4, <1>5, <1>6 DEF Crash, Shutdown, ShutdownExits

LEMMA StepCloses == TypeOK /\ TasksInv /\ [Next]_vars => TasksInv'
<1> SUFFICES ASSUME TypeOK, TasksInv, [Next]_vars PROVE TasksInv'
  OBVIOUS
<1>1. ASSUME NEW r \in Runs,
             \/ Create(r, "plain") \/ Create(r, "scenario") \/ Tick(r)
             \/ \E k \in Tasks : Worker(r, k)
      PROVE  TasksInv'
  <2>1. UNCHANGED <<store, act, down>>
    BY <1>1 DEF Create, Tick, Worker, WorkerStarts, WorkerNeverStarts, WorkerProduces,
       WorkerReturns, WorkerPasses, WorkerFallsShort, WorkerThrows, SetWorker, env
  <2> QED BY <2>1, StoreKept DEF TasksInv, ThreadsClose, ShutdownCloses
<1>2. ASSUME NEW r \in Runs, NEW a \in Actors, Requests(a, r) \/ Reconciles(a, r) \/ ReapFinds(a, r)
      PROVE  TasksInv'
  <2>1. PICK op : Starts(a, op, r)
    BY <1>2 DEF Requests, Reconciles, ReapFinds
  <2> DEFINE t == [Idle EXCEPT !.op = op, !.run = r,
                               !.pc = IF op = "delete" THEN "settle" ELSE "read",
                               !.next = IF op = "delete" THEN "erase" ELSE "idle"]
  <2>2. t.new = "NONE" /\ t.pc \in {"settle", "read"}
    BY DEF Idle
  <2>3. act' = [act EXCEPT ![a] = t]
    BY <2>1 DEF Starts
  <2> HIDE DEF t
  <2>4. ThreadCloses(t)
    BY <2>2 DEF ThreadCloses, Ended
  <2>5. ThreadsClose'
    BY <2>3, <2>4, ThreadStepCloses DEF TypeOK, TasksInv
  <2> QED BY <2>1, <2>5, StoreKept DEF Starts, TasksInv, ShutdownCloses, env
<1>3. ASSUME NEW a \in Actors, Continues(a) \/ ActThrows(a) PROVE TasksInv'
  BY <1>3, RefreshCloses, EndingCloses DEF Continues
<1>4. CASE UNCHANGED vars
  BY <1>4 DEF vars, TasksInv, EndedRunHasNoUnfinishedTask, ThreadsClose, ShutdownCloses
<1> QED
  BY <1>1, <1>2, <1>3, <1>4, SubmissionCloses, ProcessCloses DEF Next, RunNext, Actors

\* No ended run keeps a task stored as still going, whichever thread ended it:
\* the submission, a poll, a cancel, the reaper, a shutdown or the recovery of
\* orphans.
THEOREM EndedRunsAreClosed == Spec => []EndedRunHasNoUnfinishedTask
<1>1. Init => TasksInv
  <2> SUFFICES ASSUME Init PROVE TasksInv
    OBVIOUS
  <2>1. EndedRunHasNoUnfinishedTask
    BY DEF Init, EndedRunHasNoUnfinishedTask, NoRow, LegacyRow, Ended
  <2>2. ThreadsClose /\ ShutdownCloses
    BY IdleCloses DEF Init, ThreadsClose, ShutdownCloses, NotDown
  <2> QED BY <2>1, <2>2 DEF TasksInv
<1>2. TasksInv => EndedRunHasNoUnfinishedTask
  BY DEF TasksInv
<1> QED BY <1>1, <1>2, StepCloses, TypeCorrect, PTL DEF Spec

-----------------------------------------------------------------------------
(* What a step of a thread leaves in its record *)

\* Only thread a moves.
OnlyActs(a) == \A b \in Actors \ {a} : act'[b] = act[b]

\* Thread a keeps op, run and nothing else that it knew, or is idle.
WoundUp(a, pc) ==
  /\ act'[a].pc = pc /\ act'[a].status = "NONE" /\ act'[a].new = "NONE"
  /\ act'[a].tasks = NoTasks /\ act'[a].got = {} /\ act'[a].pass = 1 /\ act'[a].next = "idle"
  /\ pc # "idle" => act'[a].op = act[a].op /\ act'[a].run = act[a].run

\* Thread a has the same in hand at another pc.
SameInHand(a) ==
  /\ act'[a].op = act[a].op /\ act'[a].run = act[a].run /\ act'[a].status = act[a].status
  /\ act'[a].new = act[a].new /\ act'[a].tasks = act[a].tasks /\ act'[a].pass = act[a].pass
  /\ act'[a].next = act[a].next

\* Thread a has read its run, which was going on, and is to do something about it.
HasRead(a, pc, next) ==
  /\ act'[a].op = act[a].op /\ act'[a].run = act[a].run /\ act'[a].pass = act[a].pass
  /\ act'[a].pc = pc /\ act'[a].next = next
  /\ act'[a].status = row[act[a].run].status
  /\ row[act[a].run].status \in NotEnded

LEMMA IdleFields ==
  /\ Idle.pc = "idle" /\ Idle.op = "none" /\ Idle.run = "none" /\ Idle.status = "NONE"
  /\ Idle.new = "NONE" /\ Idle.tasks = NoTasks /\ Idle.got = {} /\ Idle.pass = 1
  /\ Idle.next = "idle"
BY DEF Idle

LEMMA WindsUpFields ==
  ASSUME TypeOK, NEW a \in Actors, NEW pc, WindsUpAt(a, pc)
  PROVE  OnlyActs(a) /\ WoundUp(a, pc)
BY DEF TypeOK, ActTypeOK, WindsUpAt, OnlyActs, WoundUp, Idle

LEMMA GoesToFields ==
  ASSUME TypeOK, NEW a \in Actors, NEW pc, pc # "idle", GoesTo(a, pc)
  PROVE  OnlyActs(a) /\ SameInHand(a) /\ act'[a].pc = pc
BY DEF TypeOK, ActTypeOK, Threads, GoesTo, OnlyActs, SameInHand

LEMMA GoesIdleFields ==
  ASSUME TypeOK, NEW a \in Actors, GoesTo(a, "idle")
  PROVE  OnlyActs(a) /\ WoundUp(a, "idle")
BY DEF TypeOK, ActTypeOK, GoesTo, OnlyActs, WoundUp, Idle

LEMMA StartsFields ==
  ASSUME TypeOK, NEW a \in Actors, NEW op, NEW r \in Runs, Starts(a, op, r)
  PROVE  /\ OnlyActs(a)
         /\ act'[a].pc = (IF op = "delete" THEN "settle" ELSE "read")
         /\ act'[a].next = (IF op = "delete" THEN "erase" ELSE "idle")
         /\ act'[a].op = op /\ act'[a].run = r /\ act'[a].status = "NONE" /\ act'[a].new = "NONE"
         /\ act'[a].tasks = NoTasks /\ act'[a].pass = 1
BY DEF TypeOK, ActTypeOK, Starts, OnlyActs, Idle

LEMMA SettleDropsFields ==
  ASSUME TypeOK, NEW a \in Actors, SettleDrops(a)
  PROVE  /\ OnlyActs(a)
         /\ \/ handles[act[a].run] # {} /\ SameInHand(a) /\ act'[a].pc = "stop"
               /\ act'[a].got = handles[act[a].run]
            \/ handles[act[a].run] = {} /\ act[a].next # "idle" /\ SameInHand(a) /\ act'[a].pc = act[a].next
            \/ handles[act[a].run] = {} /\ act[a].next = "idle" /\ WoundUp(a, "idle")
<1>1. CASE handles[act[a].run] = {}
  BY <1>1, GoesToFields, GoesIdleFields DEF SettleDrops
<1>2. CASE handles[act[a].run] # {}
  BY <1>2 DEF SettleDrops, TypeOK, ActTypeOK, Threads, OnlyActs, SameInHand
<1> QED BY <1>1, <1>2

LEMMA SettleStopsFields ==
  ASSUME TypeOK, NEW a \in Actors, SettleStops(a)
  PROVE  /\ OnlyActs(a)
         /\ \/ act[a].next # "idle" /\ SameInHand(a) /\ act'[a].pc = act[a].next
            \/ act[a].next = "idle" /\ WoundUp(a, "idle")
BY GoesToFields, GoesIdleFields DEF SettleStops

LEMMA RefreshReadsFields ==
  ASSUME TypeOK, NEW a \in Actors, RefreshReads(a)
  PROVE  /\ OnlyActs(a)
         /\ \/ row[act[a].run].status \notin NotEnded /\ WoundUp(a, "settle")
            \/ row[act[a].run].status \notin NotEnded /\ WoundUp(a, "idle")
            \/ /\ HasRead(a, "handles", act[a].next) /\ act'[a].new = act[a].new
               /\ act'[a].tasks = row[act[a].run].tasks
<1>1. CASE WindsUpAt(a, "settle") /\ row[act[a].run].status \notin NotEnded
  BY <1>1, WindsUpFields
<1>2. CASE WindsUpAt(a, "idle") /\ row[act[a].run].status \notin NotEnded
  BY <1>2, WindsUpFields
<1>3. CASE /\ row[act[a].run].status \in NotEnded
           /\ act' = [act EXCEPT ![a].pc = "handles", ![a].status = row[act[a].run].status,
                              ![a].tasks = row[act[a].run].tasks]
  BY <1>3 DEF TypeOK, ActTypeOK, Threads, OnlyActs, HasRead
<1> QED BY <1>1, <1>2, <1>3 DEF RefreshReads, Ended, NotEnded

LEMMA RefreshTakesHandlesFields ==
  ASSUME TypeOK, NEW a \in Actors, RefreshTakesHandles(a)
  PROVE  /\ OnlyActs(a) /\ SameInHand(a) /\ act'[a].pc = "poll"
         /\ act'[a].got = handles[act[a].run]
BY DEF RefreshTakesHandles, TypeOK, ActTypeOK, Threads, OnlyActs, SameInHand

LEMMA CancelReadsFields ==
  ASSUME TypeOK, NEW a \in Actors, CancelReads(a)
  PROVE  /\ OnlyActs(a)
         /\ \/ row[act[a].run].status \notin {"PENDING", "RUNNING"} /\ WoundUp(a, "idle")
            \/ /\ HasRead(a, "settle", "write") /\ act'[a].new = "FAILED"
               /\ row[act[a].run].status # "STOPPING"
<1>1. CASE row[act[a].run].status \notin {"PENDING", "RUNNING"}
  BY <1>1, WindsUpFields DEF CancelReads
<1>2. CASE row[act[a].run].status \in {"PENDING", "RUNNING"}
  BY <1>2 DEF CancelReads, TypeOK, ActTypeOK, Threads, OnlyActs, HasRead, NotEnded
<1> QED BY <1>1, <1>2

LEMMA CancelWritesFields ==
  ASSUME TypeOK, NEW a \in Actors, CancelWrites(a)
  PROVE  /\ OnlyActs(a)
         /\ \/ WoundUp(a, "idle")
            \/ /\ row[act[a].run].status # act[a].status /\ act[a].pass = 1
               /\ act'[a].pc = "read" /\ act'[a].op = "cancel" /\ act'[a].run = act[a].run
               /\ act'[a].pass = 2 /\ act'[a].status = "NONE" /\ act'[a].new = "NONE"
               /\ act'[a].next = "idle"
<1>1. CASE WindsUpAt(a, "idle")
  BY <1>1, WindsUpFields
<1>2. CASE /\ row[act[a].run].status # act[a].status /\ act[a].pass = 1
           /\ act' = [act EXCEPT ![a] = [Idle EXCEPT !.pc = "read", !.op = "cancel",
                                                     !.run = act[a].run, !.pass = 2]]
  BY <1>2 DEF TypeOK, ActTypeOK, OnlyActs, Idle
<1> QED BY <1>1, <1>2 DEF CancelWrites

LEMMA ReapReadsFields ==
  ASSUME TypeOK, NEW a \in Actors, ReapReads(a)
  PROVE  /\ OnlyActs(a)
         /\ \/ row[act[a].run].status \notin NotEnded /\ WoundUp(a, "idle")
            \/ /\ row[act[a].run].status = "PENDING" /\ HasRead(a, "write", "idle")
               /\ act'[a].new = "FAILED"
            \/ /\ row[act[a].run].status # "PENDING" /\ HasRead(a, "settle", "write")
               /\ act'[a].new = "FAILED"
<1>1. CASE row[act[a].run].status \notin NotEnded
  BY <1>1, WindsUpFields DEF ReapReads
<1>2. CASE row[act[a].run].status \in NotEnded
  BY <1>2 DEF ReapReads, TypeOK, ActTypeOK, Threads, OnlyActs, HasRead, NotEnded
<1> QED BY <1>1, <1>2

\* The tasks a poll puts together.
Polled(a, answered) ==
  [k \in Tasks |-> IF k \in answered THEN Reported(worker[act[a].run][k]) ELSE act[a].tasks[k]]

\* What a poll decides to write: the tasks, and an ending only when they have all ended.
PollWrites(a, answered, ts, status) ==
  /\ answered \subseteq {k \in Tasks : act[a].tasks[k] \in Unfinished}
  /\ ts = [k \in Tasks |-> IF k \in Stranded(act[a].run, Polled(a, answered)) THEN "FAILED"
                           ELSE Polled(a, answered)[k]]
  /\ status = IF TasksEnded(ts) THEN Outcome(ts) ELSE act[a].status

LEMMA RefreshPollsFields ==
  ASSUME TypeOK, NEW a \in Actors, RefreshPolls(a)
  PROVE  /\ OnlyActs(a)
         /\ \/ WoundUp(a, "idle")
            \/ /\ act'[a].pc = "write" /\ act'[a].op = act[a].op /\ act'[a].run = act[a].run
               /\ act'[a].status = act[a].status /\ act'[a].pass = act[a].pass
               /\ act'[a].next = act[a].next
               /\ \E answered : PollWrites(a, answered, act'[a].tasks, act'[a].new)
<1>1. PICK answered, ts, status :
        /\ PollWrites(a, answered, ts, status)
        /\ \/ act' = [act EXCEPT ![a].pc = "write", ![a].new = status, ![a].tasks = ts, ![a].got = {}]
           \/ WindsUpAt(a, "idle")
  <2>1. act[a].got \subseteq Tasks
    BY DEF TypeOK, ActTypeOK, Threads
  <2> DEFINE tsOf(x) == [k \in Tasks |-> IF k \in Stranded(act[a].run, Polled(a, x)) THEN "FAILED"
                                         ELSE Polled(a, x)[k]]
             statusOf(x) == IF TasksEnded(tsOf(x)) THEN Outcome(tsOf(x)) ELSE act[a].status
  <2>2. PICK answered \in SUBSET {k \in act[a].got : act[a].tasks[k] \in Unfinished} :
          \/ act' = [act EXCEPT ![a].pc = "write", ![a].new = statusOf(answered),
                                ![a].tasks = tsOf(answered), ![a].got = {}]
          \/ WindsUpAt(a, "idle")
    BY DEF RefreshPolls, Polled
  <2>3. PollWrites(a, answered, tsOf(answered), statusOf(answered))
    BY <2>1, <2>2 DEF PollWrites
  <2> HIDE DEF tsOf, statusOf
  <2> QED BY <2>2, <2>3
<1>2. CASE WindsUpAt(a, "idle")
  BY <1>2, WindsUpFields
<1>3. CASE act' = [act EXCEPT ![a].pc = "write", ![a].new = status, ![a].tasks = ts, ![a].got = {}]
  <2>1. /\ OnlyActs(a) /\ act'[a].pc = "write" /\ act'[a].op = act[a].op /\ act'[a].run = act[a].run
        /\ act'[a].status = act[a].status /\ act'[a].pass = act[a].pass
        /\ act'[a].next = act[a].next /\ act'[a].tasks = ts /\ act'[a].new = status
    BY <1>3 DEF TypeOK, ActTypeOK, Threads, OnlyActs
  <2> QED BY <1>1, <2>1
<1> QED BY <1>1, <1>2, <1>3

-----------------------------------------------------------------------------
(* What a thread has in hand, by its operation *)

Shape(t) ==
  t.pc # "idle" =>
    /\ t.op \in {"refresh", "cancel", "delete", "reap"}
    /\ t.pc = "read" => t.next = "idle"
    /\ t.pc \in {"handles", "poll", "write"} \/ t.next = "write" => t.status \in NotEnded
    /\ t.pc = "write" \/ t.next = "write" => t.new \in Ended \/ (t.op = "refresh" /\ t.new = t.status)
    /\ t.op = "refresh" => /\ t.next = "idle"
                           /\ t.pc \notin {"erase", "idle"}
    /\ t.op = "cancel" => /\ t.pc \in {"read", "settle", "stop", "write"}
                          /\ t.pc \in {"settle", "stop"} => t.next = "write"
    /\ t.op = "delete" => /\ t.pc \in {"settle", "stop", "erase"}
                          /\ t.pc \in {"settle", "stop"} => t.next = "erase"
    /\ t.op = "reap" => /\ t.pc \in {"read", "settle", "stop", "write"}
                        /\ t.next \in {"idle", "write"}

Shapes == \A a \in Actors : Shape(act[a])

\* Which steps move a thread.
LEMMA ActSteps ==
  ASSUME [Next]_vars
  PROVE  \/ UNCHANGED act \/ ProcessEnds
         \/ \E a \in Actors : Continues(a) \/ ActThrows(a)
         \/ \E a \in Actors, r \in Runs : Requests(a, r) \/ Reconciles(a, r) \/ ReapFinds(a, r)
<1>1. ASSUME NEW r \in Runs,
             \/ Create(r, "plain") \/ Create(r, "scenario") \/ Tick(r) \/ RecoverOrphan(r)
             \/ Submission(r) \/ FirstSaveThrows(r) \/ StoreSubmissionThrows(r)
             \/ ShutdownStops(r) \/ \E k \in Tasks : Worker(r, k)
      PROVE  UNCHANGED act
  BY <1>1 DEF Create, Tick, RecoverOrphan, ShutdownStops, Submission, FirstSave,
     MarkStrandedAsFailed, SubmitThrows, AllSubmitted, StoreSubmission, Register,
     SubmissionSettles, SubmissionStops, SubmitTask, SubmitTaskFails, FirstSaveThrows,
     StoreSubmissionThrows, Worker, WorkerStarts, WorkerNeverStarts, WorkerProduces, WorkerReturns,
     WorkerPasses, WorkerFallsShort, WorkerThrows, SetWorker
<1>2. ASSUME Ready \/ ShutdownBegins \/ ShutdownReads \/ ShutdownSaves \/ UNCHANGED vars
      PROVE  UNCHANGED act
  BY <1>2 DEF Ready, ShutdownBegins, ShutdownReads, ShutdownSaves, vars
<1> QED BY <1>1, <1>2 DEF Next, RunNext, Crash, Shutdown, ShutdownExits, Actors

LEMMA PolledShape ==
  ASSUME NEW t, NEW ts, NEW status, t \in NotEnded, status = IF TasksEnded(ts) THEN Outcome(ts) ELSE t
  PROVE  status \in Ended \/ status = t
BY DEF Outcome, Ended

LEMMA ShapeSteps ==
  ASSUME TypeOK, Shapes, [Next]_vars
  PROVE  Shapes'
<1>a. \A a \in Actors : Shape(act[a])
  BY DEF Shapes
<1>b. ASSUME NEW a \in Actors, OnlyActs(a), Shape(act'[a]) PROVE Shapes'
  BY <1>b, <1>a DEF OnlyActs, Shapes
<1>c. ASSUME NEW a \in Actors, OnlyActs(a), WoundUp(a, "idle") PROVE Shapes'
  BY <1>b, <1>c DEF Shape, WoundUp
<1>1. ASSUME NEW a \in Actors, SettleDrops(a) PROVE Shapes'
  <2>1. act[a].pc = "settle" /\ Shape(act[a])
    BY <1>1, <1>a DEF SettleDrops
  <2> QED BY <1>1, <1>b, <1>c, <2>1, SettleDropsFields DEF SameInHand, Shape
<1>2. ASSUME NEW a \in Actors, SettleStops(a) PROVE Shapes'
  <2>1. act[a].pc = "stop" /\ Shape(act[a])
    BY <1>2, <1>a DEF SettleStops
  <2> QED BY <1>2, <1>b, <1>c, <2>1, SettleStopsFields DEF SameInHand, Shape
<1>3. ASSUME NEW a \in Actors, Refresh(a) PROVE Shapes'
  <2>a. Shape(act[a])
    BY <1>a
  <2>1. CASE RefreshReads(a)
    <3>1. act[a].pc = "read" /\ act[a].op = "refresh"
      BY <2>1 DEF RefreshReads
    <3>2. CASE WoundUp(a, "settle")
      BY <2>1, <1>b, <3>1, <3>2, RefreshReadsFields DEF WoundUp, Shape
    <3>3. CASE HasRead(a, "handles", act[a].next)
      <4>1. act[a].next = "idle"
        BY <2>a, <3>1 DEF Shape
      <4>2. Shape(act'[a])
        BY <3>1, <3>3, <4>1 DEF HasRead, Shape
      <4> QED BY <2>1, <1>b, <4>2, RefreshReadsFields
    <3> QED BY <2>1, <1>c, <3>2, <3>3, RefreshReadsFields
  <2>2. CASE RefreshTakesHandles(a)
    <3>1. act[a].pc = "handles"
      BY <2>2 DEF RefreshTakesHandles
    <3> QED BY <2>2, <2>a, <1>b, <3>1, RefreshTakesHandlesFields DEF SameInHand, Shape
  <2>3. CASE RefreshPolls(a)
    <3>1. act[a].pc = "poll" /\ act[a].op = "refresh" /\ act[a].status \in NotEnded
          /\ act[a].next = "idle"
      BY <2>3, <2>a DEF RefreshPolls, Shape
    <3>2. ASSUME NEW answered, PollWrites(a, answered, act'[a].tasks, act'[a].new)
          PROVE  act'[a].new \in Ended \/ act'[a].new = act[a].status
      BY <3>1, <3>2, PolledShape DEF PollWrites
    <3> QED BY <2>3, <1>b, <1>c, <3>1, <3>2, RefreshPollsFields DEF Shape
  <2>4. CASE RefreshWrites(a)
    <3>1. act[a].op = "refresh" /\ \E pc \in {"idle", "finish", "reread"} : WindsUpAt(a, pc)
      BY <2>4 DEF RefreshWrites
    <3> QED BY <1>b, <1>c, <3>1, WindsUpFields DEF WoundUp, Shape
  <2>5. CASE RefreshRereads(a) \/ RefreshFinishes(a)
    <3>1. act[a].op = "refresh" /\ \E pc \in {"idle", "settle"} : WindsUpAt(a, pc)
      BY <2>5, <2>a DEF RefreshRereads, RefreshFinishes, Shape
    <3> QED BY <1>b, <1>c, <3>1, WindsUpFields DEF WoundUp, Shape
  <2> QED BY <1>3, <2>1, <2>2, <2>3, <2>4, <2>5 DEF Refresh
<1>4. ASSUME NEW a \in Actors, CancelReads(a) PROVE Shapes'
  <2>1. act[a].op = "cancel"
    BY <1>4 DEF CancelReads
  <2>2. CASE HasRead(a, "settle", "write") /\ act'[a].new = "FAILED"
    BY <1>4, <1>b, <2>1, <2>2, CancelReadsFields DEF HasRead, Shape, Ended
  <2> QED BY <1>4, <1>c, <2>2, CancelReadsFields
<1>5. ASSUME NEW a \in Actors, CancelWrites(a) PROVE Shapes'
  BY <1>5, <1>b, <1>c, CancelWritesFields DEF Shape
<1>6. ASSUME NEW a \in Actors, ReapReads(a) PROVE Shapes'
  <2>1. act[a].op = "reap"
    BY <1>6 DEF ReapReads
  <2>2. CASE /\ HasRead(a, "settle", "write") \/ HasRead(a, "write", "idle")
             /\ act'[a].new = "FAILED"
    BY <1>6, <1>b, <2>1, <2>2, ReapReadsFields DEF HasRead, Shape, Ended
  <2> QED BY <1>6, <1>c, <2>2, ReapReadsFields
<1>7. ASSUME NEW a \in Actors, ReapWrites(a) PROVE Shapes'
  <2>1. act[a].op = "reap" /\ \E pc \in {"idle", "settle"} : WindsUpAt(a, pc)
    BY <1>7 DEF ReapWrites
  <2> QED BY <1>b, <1>c, <2>1, WindsUpFields DEF WoundUp, Shape
<1>8. ASSUME NEW a \in Actors, DeleteErases(a) \/ ActThrows(a) PROVE Shapes'
  BY <1>8, <1>c, WindsUpFields DEF DeleteErases, ActThrows
<1>9. ASSUME NEW a \in Actors, NEW r \in Runs, Requests(a, r) \/ Reconciles(a, r) \/ ReapFinds(a, r)
      PROVE  Shapes'
  <2>1. PICK op \in {"refresh", "cancel", "delete", "reap"} : Starts(a, op, r)
    BY <1>9 DEF Requests, Reconciles, ReapFinds
  <2> QED BY <1>b, <2>1, StartsFields DEF Shape
<1>10. CASE UNCHANGED act
  BY <1>10 DEF Shapes
<1>11. CASE ProcessEnds
  BY <1>11, IdleFields DEF ProcessEnds, Shapes, Shape
<1> QED
  BY <1>1, <1>2, <1>3, <1>4, <1>5, <1>6, <1>7, <1>8, <1>9, <1>10, <1>11, ActSteps
     DEF Continues, Cancel, Reap

-----------------------------------------------------------------------------
(* What a step does to a row, to the threads and to the handles *)

Unborn(r) == sub[r].pc \in {"none", "save"}

\* The submission has not put the handles of its workers in the map.
Early(r) == sub[r].pc \in {"none", "save", "stranded", "submit", "store", "register"}

\* What the outbox gets when a row's status becomes this.
Queued(r, status) ==
  outbox'[r] = IF row[r].status = status THEN outbox[r] ELSE Append(outbox[r], status)

SameRow(r) == row'[r] = row[r] /\ outbox'[r] = outbox[r]

FirstStored(r) ==
  /\ sub[r].pc = "save" /\ sub'[r].pc # "save"
  /\ row'[r].status = FirstStatus(sub[r].kind) /\ row'[r].tasks = NoTasks
  /\ Queued(r, row'[r].status)

\* Who wrote it knew the status it found.
Onward(r) ==
  /\ row[r].status \in NotEnded
  /\ \/ row'[r].status \in Ended \cup {row[r].status}
     \/ row[r].status = "PENDING" /\ row'[r].status = "RUNNING" /\ StoreSubmission(r)
  /\ Queued(r, row'[r].status)

Erased(r) ==
  /\ row'[r] = NoRow
  /\ outbox'[r] = IF row[r].status \in NotEnded THEN Append(outbox[r], "FAILED") ELSE outbox[r]

PlainlySaved(r) ==
  /\ PlainSave
  /\ (down.pc = "save" /\ down.run = r) \/ sub[r].pc = "stranded"
  /\ row'[r].status = "FAILED"

RowMoves(r) == SameRow(r) \/ FirstStored(r) \/ Onward(r) \/ Erased(r) \/ PlainlySaved(r)

LEMMA SaveMoves ==
  ASSUME TypeOK, NEW r \in Runs, NEW status, NEW ts, Save(r, status, ts)
  PROVE  /\ row'[r].status = status /\ row'[r].tasks = ts /\ Queued(r, status)
         /\ \A s \in Runs \ {r} : SameRow(s)
BY DEF TypeOK, StoreTypeOK, Save, Queued, SameRow

LEMMA SaveIfStatusMoves ==
  ASSUME TypeOK, NEW r \in Runs, NEW from \in NotEnded, NEW to, NEW ts,
         \/ to \in Ended \cup {from}
         \/ from = "PENDING" /\ to = "RUNNING" /\ StoreSubmission(r),
         SaveIfStatus(r, from, to, ts)
  PROVE  \A s \in Runs : RowMoves(s)
<1>1. Save(r, to, ts) /\ row[r].status = from
  BY DEF SaveIfStatus
<1>2. Onward(r)
  BY <1>1, SaveMoves DEF Onward
<1> QED BY <1>1, <1>2, SaveMoves DEF RowMoves

LEMMA RowSteps ==
  ASSUME TypeOK, Shapes, [Next]_vars
  PROVE  \A r \in Runs : RowMoves(r)
<1>a. UNCHANGED store => \A r \in Runs : RowMoves(r)
  BY DEF store, RowMoves, SameRow
<1>b. \A r \in Runs : sub[r] \in Submissions
  BY DEF TypeOK
<1>1. ASSUME NEW s \in Runs, Submission(s) \/ FirstSaveThrows(s) \/ StoreSubmissionThrows(s)
      PROVE  \A r \in Runs : RowMoves(r)
  <2>1. CASE FirstSave(s) \/ FirstSaveThrows(s)
    <3>1. sub[s].pc = "save" /\ sub'[s].pc # "save"
      BY <2>1, <1>b DEF FirstSave, FirstSaveThrows, Submissions, TypeOK
    <3>2. UNCHANGED store \/ Save(s, FirstStatus(sub[s].kind), NoTasks)
      BY <2>1 DEF FirstSave, FirstSaveThrows
    <3>3. CASE Save(s, FirstStatus(sub[s].kind), NoTasks)
      <4>1. FirstStored(s)
        BY <3>1, <3>3, SaveMoves DEF FirstStored
      <4> QED BY <3>3, <4>1, SaveMoves DEF RowMoves
    <3> QED BY <1>a, <3>2, <3>3
  <2>2. CASE MarkStrandedAsFailed(s)
    <3>1. UNCHANGED store \/ Save(s, "FAILED", NoTasks)
      BY <2>2 DEF MarkStrandedAsFailed
    <3>2. CASE Save(s, "FAILED", NoTasks)
      <4>1. PlainlySaved(s)
        BY <2>2, <3>2, SaveMoves DEF PlainlySaved, PlainSave, MarkStrandedAsFailed
      <4> QED BY <3>2, <4>1, SaveMoves DEF RowMoves
    <3> QED BY <1>a, <3>1, <3>2
  <2>3. CASE StoreSubmission(s)
    <3>1. PICK from, to : /\ from \in NotEnded
                          /\ from = FirstStatus(sub[s].kind) /\ to = SubmittedStatus(sub[s].tasks)
                          /\ \/ to \in Ended \cup {from}
                             \/ from = "PENDING" /\ to = "RUNNING"
      BY DEF FirstStatus, SubmittedStatus, NotEnded, Ended
    <3>2. UNCHANGED store \/ SaveIfStatus(s, from, to, sub[s].tasks)
      BY <2>3, <3>1 DEF StoreSubmission
    <3> QED BY <1>a, <2>3, <3>1, <3>2, SaveIfStatusMoves
  <2>4. CASE UNCHANGED store
    BY <2>4, <1>a
  <2> QED
    BY <1>1, <2>1, <2>2, <2>3, <2>4 DEF Submission, SubmitThrows, AllSubmitted, Register,
       SubmissionSettles, SubmissionStops, SubmitTask, SubmitTaskFails, StoreSubmissionThrows
<1>2. ASSUME NEW a \in Actors, RefreshWrites(a) \/ CancelWrites(a) \/ ReapWrites(a)
      PROVE  \A r \in Runs : RowMoves(r)
  <2>1. /\ act[a].status \in NotEnded /\ act[a].run \in Runs
        /\ act[a].new \in Ended \cup {act[a].status}
    BY <1>2 DEF RefreshWrites, CancelWrites, ReapWrites, Shapes, Shape, TypeOK, ActTypeOK
  <2>2. UNCHANGED store \/ SaveIfStatus(act[a].run, act[a].status, act[a].new, act[a].tasks)
    BY <1>2 DEF RefreshWrites, CancelWrites, ReapWrites
  <2> QED BY <1>a, <2>1, <2>2, SaveIfStatusMoves
<1>3. ASSUME NEW a \in Actors, DeleteErases(a) PROVE \A r \in Runs : RowMoves(r)
  <2>1. act[a].run \in Runs
    BY <1>3 DEF DeleteErases, TypeOK, ActTypeOK
  <2>2. Erased(act[a].run) /\ \A s \in Runs \ {act[a].run} : SameRow(s)
    BY <1>3, <2>1 DEF DeleteErases, Erased, SameRow, TypeOK, StoreTypeOK
  <2> QED BY <2>2 DEF RowMoves
<1>4. ASSUME NEW a \in Actors, Continues(a) \/ ActThrows(a) PROVE \A r \in Runs : RowMoves(r)
  BY <1>a, <1>2, <1>3, <1>4 DEF Continues, ActThrows, SettleDrops, SettleStops, Refresh,
     RefreshReads, RefreshTakesHandles, RefreshPolls, RefreshRereads, RefreshFinishes, Cancel,
     CancelReads, Reap, ReapReads
<1>5. ASSUME NEW s \in Runs, RecoverOrphan(s) PROVE \A r \in Runs : RowMoves(r)
  <2>1. row[s].status \in NotEnded /\ Save(s, "FAILED", FailUnfinished(row[s].tasks))
    BY <1>5 DEF RecoverOrphan
  <2>2. Onward(s)
    BY <2>1, SaveMoves DEF Onward, Ended
  <2> QED BY <2>1, <2>2, SaveMoves DEF RowMoves
<1>6. ASSUME ShutdownSaves PROVE \A r \in Runs : RowMoves(r)
  <2>1. /\ down.run \in Runs /\ down.pc = "save" /\ PlainSave
        /\ Save(down.run, "FAILED", down.tasks)
    BY <1>6 DEF ShutdownSaves, PlainSave, TypeOK, EnvTypeOK
  <2>2. PlainlySaved(down.run)
    BY <2>1, SaveMoves DEF PlainlySaved
  <2> QED BY <2>1, <2>2, SaveMoves DEF RowMoves
<1>7. ASSUME NEW s \in Runs,
             \/ Create(s, "plain") \/ Create(s, "scenario") \/ Tick(s) \/ ShutdownStops(s)
             \/ \E k \in Tasks : Worker(s, k)
      PROVE  UNCHANGED store
  BY <1>7 DEF Create, Tick, ShutdownStops, Worker, WorkerStarts, WorkerNeverStarts, WorkerProduces,
     WorkerReturns, WorkerPasses, WorkerFallsShort, WorkerThrows, SetWorker
<1>8. ASSUME NEW s \in Runs, NEW a \in Actors, Requests(a, s) \/ Reconciles(a, s) \/ ReapFinds(a, s)
      PROVE  UNCHANGED store
  BY <1>8 DEF Requests, Reconciles, ReapFinds, Starts
<1>9. ASSUME Ready \/ ShutdownBegins \/ ShutdownReads \/ ProcessEnds \/ UNCHANGED vars
      PROVE  UNCHANGED store
  BY <1>9 DEF Ready, ShutdownBegins, ShutdownReads, ProcessEnds, vars, store
<1> QED
  BY <1>a, <1>1, <1>4, <1>5, <1>6, <1>7, <1>8, <1>9
     DEF Next, RunNext, Crash, Shutdown, ShutdownExits, Actors

\* A run that has been stored, or has failed to be, is not created or stored anew.
LEMMA BornStaysBorn ==
  ASSUME TypeOK, [Next]_vars, NEW r \in Runs
  PROVE  /\ Unborn(r)' => Unborn(r)
         /\ Early(r)' => Early(r)
BY PcSteps DEF PcMoves, Unborn, Early

\* Who announces an ending.
Announces(r) ==
  \/ Register(r) /\ sub[r].stored = "yes" /\ SubmittedStatus(sub[r].tasks) = "FAILED"
  \/ \E a \in Actors : /\ act[a].run = r /\ act[a].pc # "idle"
                       /\ RefreshFinishes(a) \/ (CancelWrites(a) /\ SaveIfStatus(r, act[a].status, act[a].new, act[a].tasks))
                          \/ (DeleteErases(a) /\ row[r].status \in NotEnded)

LEMMA AnnouncedSteps ==
  ASSUME TypeOK, [Next]_vars, NEW r \in Runs
  PROVE  announced'[r] = announced[r] \/ (announced'[r] = announced[r] + 1 /\ Announces(r))
<1>a. announced \in [Runs -> Nat]
  BY DEF TypeOK
<1>1. ASSUME NEW s \in Runs, Register(s)
      PROVE  announced'[r] = announced[r] \/ (announced'[r] = announced[r] + 1 /\ Announces(r))
  BY <1>1, <1>a DEF Register, Announces
<1>2. ASSUME NEW a \in Actors, RefreshFinishes(a)
      PROVE  announced'[r] = announced[r] \/ (announced'[r] = announced[r] + 1 /\ Announces(r))
  <2>1. act[a].pc = "finish"
    BY <1>2 DEF RefreshFinishes
  <2>2. announced' = [announced EXCEPT ![act[a].run] = @ + 1]
    BY <1>2 DEF RefreshFinishes
  <2> QED BY <1>2, <1>a, <2>1, <2>2 DEF Announces
<1>3. ASSUME NEW a \in Actors, CancelWrites(a)
      PROVE  announced'[r] = announced[r] \/ (announced'[r] = announced[r] + 1 /\ Announces(r))
  <2>1. act[a].pc = "write"
    BY <1>3 DEF CancelWrites
  <2>2. \/ UNCHANGED announced
        \/ /\ announced' = [announced EXCEPT ![act[a].run] = @ + 1]
           /\ SaveIfStatus(act[a].run, act[a].status, act[a].new, act[a].tasks)
    BY <1>3 DEF CancelWrites
  <2> QED BY <1>3, <1>a, <2>1, <2>2 DEF Announces
<1>4. ASSUME NEW a \in Actors, DeleteErases(a)
      PROVE  announced'[r] = announced[r] \/ (announced'[r] = announced[r] + 1 /\ Announces(r))
  <2>1. act[a].pc = "erase"
    BY <1>4 DEF DeleteErases
  <2>2. \/ UNCHANGED announced
        \/ /\ announced' = [announced EXCEPT ![act[a].run] = @ + 1]
           /\ row[act[a].run].status \in NotEnded
    BY <1>4 DEF DeleteErases
  <2> QED BY <1>4, <1>a, <2>1, <2>2 DEF Announces
<1>5. ASSUME NEW a \in Actors,
             \/ SettleDrops(a) \/ SettleStops(a) \/ RefreshReads(a) \/ RefreshTakesHandles(a)
             \/ RefreshPolls(a) \/ RefreshWrites(a) \/ RefreshRereads(a) \/ CancelReads(a)
             \/ Reap(a) \/ ActThrows(a)
      PROVE  UNCHANGED announced
  BY <1>5 DEF ActThrows, SettleDrops, SettleStops, RefreshReads,
     RefreshTakesHandles, RefreshPolls, RefreshWrites, RefreshRereads,
     CancelReads, Reap, ReapReads, ReapWrites
<1>6. ASSUME NEW s \in Runs,
             \/ Create(s, "plain") \/ Create(s, "scenario") \/ Tick(s) \/ ShutdownStops(s)
             \/ RecoverOrphan(s) \/ \E k \in Tasks : Worker(s, k)
      PROVE  UNCHANGED announced
  BY <1>6 DEF Create, Tick, ShutdownStops, RecoverOrphan, Worker, WorkerStarts, WorkerNeverStarts,
     WorkerProduces, WorkerReturns, WorkerPasses, WorkerFallsShort, WorkerThrows, SetWorker
<1>7. ASSUME NEW s \in Runs,
             \/ FirstSave(s) \/ MarkStrandedAsFailed(s) \/ SubmitThrows(s) \/ AllSubmitted(s)
             \/ StoreSubmission(s) \/ SubmissionSettles(s) \/ SubmissionStops(s)
             \/ FirstSaveThrows(s) \/ StoreSubmissionThrows(s)
             \/ \E k \in Tasks : SubmitTask(s, k) \/ SubmitTaskFails(s, k)
      PROVE  UNCHANGED announced
  BY <1>7 DEF FirstSave, MarkStrandedAsFailed, SubmitThrows, AllSubmitted, StoreSubmission,
     SubmissionSettles, SubmissionStops, FirstSaveThrows, StoreSubmissionThrows, SubmitTask,
     SubmitTaskFails
<1>8. ASSUME NEW s \in Runs, NEW a \in Actors, Requests(a, s) \/ Reconciles(a, s) \/ ReapFinds(a, s)
      PROVE  UNCHANGED announced
  BY <1>8 DEF Requests, Reconciles, ReapFinds, Starts
<1>9. ASSUME \/ Ready \/ ShutdownBegins \/ ShutdownReads \/ ShutdownSaves \/ ProcessEnds
             \/ UNCHANGED vars
      PROVE  UNCHANGED announced
  BY <1>9 DEF Ready, ShutdownBegins, ShutdownReads, ShutdownSaves, ProcessEnds, vars
<1> QED
  BY <1>1, <1>2, <1>3, <1>4, <1>5, <1>6, <1>7, <1>8, <1>9
     DEF Next, RunNext, Submission, Continues, Refresh, Cancel, Crash, Shutdown, ShutdownExits, Actors

\* A thread is at work on a run it was at work on before, or starts on one that is known, has
\* handles or is going on.
LEMMA ThreadRuns ==
  ASSUME TypeOK, [Next]_vars, NEW a \in Actors, act'[a].pc # "idle"
  PROVE  \/ act[a].pc # "idle" /\ act'[a].run = act[a].run
         \/ /\ act'[a].run \in Runs
            /\ \/ Known(act'[a].run) \/ handles[act'[a].run] # {}
               \/ row[act'[a].run].status \in NotEnded
<1> DEFINE Goal == \/ act[a].pc # "idle" /\ act'[a].run = act[a].run
                   \/ /\ act'[a].run \in Runs
                      /\ \/ Known(act'[a].run) \/ handles[act'[a].run] # {}
                         \/ row[act'[a].run].status \in NotEnded
<1>a. ASSUME NEW b \in Actors, OnlyActs(b), b # a PROVE Goal
  BY <1>a DEF OnlyActs
<1>b. act[a].pc # "idle" /\ act'[a].run = act[a].run => Goal
  OBVIOUS
<1>c. ASSUME NEW pc, WoundUp(a, pc) PROVE act'[a].run = act[a].run
  BY <1>c DEF WoundUp
<1> HIDE DEF Goal
<1>1. ASSUME NEW b \in Actors, SettleDrops(b) PROVE Goal
  <2>1. act[b].pc # "idle" /\ OnlyActs(b)
    BY <1>1, SettleDropsFields DEF SettleDrops
  <2>2. b = a => act'[a].run = act[a].run
    BY <1>1, <1>c, SettleDropsFields DEF SameInHand
  <2> QED BY <1>a, <1>b, <2>1, <2>2
<1>2. ASSUME NEW b \in Actors, SettleStops(b) PROVE Goal
  <2>1. act[b].pc # "idle" /\ OnlyActs(b)
    BY <1>2, SettleStopsFields DEF SettleStops
  <2>2. b = a => act'[a].run = act[a].run
    BY <1>2, <1>c, SettleStopsFields DEF SameInHand
  <2> QED BY <1>a, <1>b, <2>1, <2>2
<1>3. ASSUME NEW b \in Actors, RefreshReads(b) PROVE Goal
  <2>1. act[b].pc # "idle" /\ OnlyActs(b)
    BY <1>3, RefreshReadsFields DEF RefreshReads
  <2>2. b = a => act'[a].run = act[a].run
    BY <1>3, <1>c, RefreshReadsFields DEF HasRead
  <2> QED BY <1>a, <1>b, <2>1, <2>2
<1>4. ASSUME NEW b \in Actors, RefreshTakesHandles(b) PROVE Goal
  BY <1>4, <1>a, <1>b, RefreshTakesHandlesFields DEF RefreshTakesHandles, SameInHand
<1>5. ASSUME NEW b \in Actors, RefreshPolls(b) PROVE Goal
  <2>1. act[b].pc # "idle" /\ OnlyActs(b)
    BY <1>5, RefreshPollsFields DEF RefreshPolls
  <2>2. b = a => act'[a].run = act[a].run
    BY <1>5, <1>c, RefreshPollsFields
  <2> QED BY <1>a, <1>b, <2>1, <2>2
<1>6. ASSUME NEW b \in Actors,
             RefreshWrites(b) \/ RefreshRereads(b) \/ RefreshFinishes(b) \/ ReapWrites(b)
             \/ DeleteErases(b) \/ ActThrows(b)
      PROVE  Goal
  <2>1. act[b].pc # "idle" /\ \E pc : WindsUpAt(b, pc)
    BY <1>6 DEF RefreshWrites, RefreshRereads, RefreshFinishes, ReapWrites, DeleteErases, ActThrows
  <2> QED BY <1>a, <1>b, <1>c, <2>1, WindsUpFields
<1>7. ASSUME NEW b \in Actors, CancelReads(b) PROVE Goal
  <2>1. act[b].pc # "idle" /\ OnlyActs(b)
    BY <1>7, CancelReadsFields DEF CancelReads
  <2>2. b = a => act'[a].run = act[a].run
    BY <1>7, <1>c, CancelReadsFields DEF HasRead
  <2> QED BY <1>a, <1>b, <2>1, <2>2
<1>8. ASSUME NEW b \in Actors, CancelWrites(b) PROVE Goal
  <2>1. act[b].pc # "idle" /\ OnlyActs(b)
    BY <1>8, CancelWritesFields DEF CancelWrites
  <2>2. b = a => act'[a].run = act[a].run
    BY <1>8, <1>c, CancelWritesFields
  <2> QED BY <1>a, <1>b, <2>1, <2>2
<1>9. ASSUME NEW b \in Actors, ReapReads(b) PROVE Goal
  <2>1. act[b].pc # "idle" /\ OnlyActs(b)
    BY <1>9, ReapReadsFields DEF ReapReads
  <2>2. b = a => act'[a].run = act[a].run
    BY <1>9, <1>c, ReapReadsFields DEF HasRead
  <2> QED BY <1>a, <1>b, <2>1, <2>2
<1>10. ASSUME NEW s \in Runs, NEW b \in Actors, Requests(b, s) \/ Reconciles(b, s) \/ ReapFinds(b, s)
       PROVE  Goal
  <2>1. /\ \E op : Starts(b, op, s)
        /\ Known(s) \/ handles[s] # {} \/ row[s].status \in NotEnded
    BY <1>10 DEF Requests, Reconciles, ReapFinds
  <2> QED BY <1>a, <2>1, StartsFields DEF Goal
<1>11. ASSUME UNCHANGED act PROVE Goal
  BY <1>11, <1>b
<1>12. ASSUME ProcessEnds PROVE Goal
  BY <1>12, IdleFields DEF ProcessEnds
<1>z. Goal
  BY <1>1, <1>2, <1>3, <1>4, <1>5, <1>6, <1>7, <1>8, <1>9, <1>10, <1>11, <1>12, ActSteps
     DEF Continues, Refresh, Cancel, Reap
<1> QED BY <1>z DEF Goal

\* Handles are put in the map by the submission only; every other step that changes them empties them.
LEMMA HandleSteps ==
  ASSUME TypeOK, [Next]_vars, NEW r \in Runs
  PROVE  handles'[r] \in {{}, handles[r]} \/ Register(r)
<1>a. handles \in [Runs -> SUBSET Tasks]
  BY DEF TypeOK
<1>1. ASSUME NEW s \in Runs, Register(s) PROVE handles'[r] \in {{}, handles[r]} \/ Register(r)
  BY <1>1, <1>a DEF Register
<1>2. ASSUME NEW s \in Runs,
             \/ FirstSave(s) \/ MarkStrandedAsFailed(s) \/ SubmitThrows(s) \/ AllSubmitted(s)
             \/ StoreSubmission(s) \/ SubmissionSettles(s) \/ SubmissionStops(s)
             \/ FirstSaveThrows(s) \/ StoreSubmissionThrows(s)
             \/ \E k \in Tasks : SubmitTask(s, k) \/ SubmitTaskFails(s, k)
      PROVE  handles'[r] \in {{}, handles[r]}
  BY <1>2, <1>a DEF FirstSave, MarkStrandedAsFailed, SubmitThrows, AllSubmitted, StoreSubmission,
     SubmissionSettles, SubmissionStops, FirstSaveThrows, StoreSubmissionThrows, SubmitTask,
     SubmitTaskFails
<1>3. ASSUME NEW a \in Actors, Continues(a) \/ ActThrows(a) PROVE handles'[r] \in {{}, handles[r]}
  BY <1>3, <1>a DEF Continues, ActThrows, SettleDrops, SettleStops, Refresh, RefreshReads,
     RefreshTakesHandles, RefreshPolls, RefreshWrites, RefreshRereads, RefreshFinishes, Cancel,
     CancelReads, CancelWrites, DeleteErases, Reap, ReapReads, ReapWrites
<1>4. ASSUME NEW s \in Runs,
             \/ Create(s, "plain") \/ Create(s, "scenario") \/ Tick(s) \/ ShutdownStops(s)
             \/ RecoverOrphan(s) \/ \E k \in Tasks : Worker(s, k)
      PROVE  UNCHANGED handles
  BY <1>4 DEF Create, Tick, ShutdownStops, RecoverOrphan, Worker, WorkerStarts, WorkerNeverStarts,
     WorkerProduces, WorkerReturns, WorkerPasses, WorkerFallsShort, WorkerThrows, SetWorker
<1>5. ASSUME NEW s \in Runs, NEW a \in Actors, Requests(a, s) \/ Reconciles(a, s) \/ ReapFinds(a, s)
      PROVE  UNCHANGED handles
  BY <1>5 DEF Requests, Reconciles, ReapFinds, Starts
<1>6. ASSUME Ready \/ ShutdownBegins \/ ShutdownReads \/ ShutdownSaves \/ UNCHANGED vars
      PROVE  UNCHANGED handles
  BY <1>6 DEF Ready, ShutdownBegins, ShutdownReads, ShutdownSaves, vars
<1>7. ASSUME ProcessEnds PROVE handles'[r] = {}
  BY <1>7 DEF ProcessEnds
<1> QED
  BY <1>1, <1>2, <1>3, <1>4, <1>5, <1>6, <1>7
     DEF Next, RunNext, Submission, Crash, Shutdown, ShutdownExits, Actors

\* The shutdown is at a run it was at before, or comes to one that has handles.
LEMMA DownSteps ==
  ASSUME TypeOK, [Next]_vars, down'.pc \in {"read", "save"}
  PROVE  \/ down.pc \in {"read", "save"} /\ down'.run = down.run
         \/ handles[down'.run] # {}
<1>a. down \in Shutdowns
  BY DEF TypeOK, EnvTypeOK
<1>1. ASSUME NEW r \in Runs, ShutdownStops(r) PROVE handles[down'.run] # {}
  BY <1>1, <1>a DEF ShutdownStops, Shutdowns
<1>2. ASSUME ShutdownReads PROVE down.pc \in {"read", "save"} /\ down'.run = down.run
  BY <1>2, <1>a DEF ShutdownReads, Shutdowns
<1>3. ASSUME ShutdownSaves \/ ShutdownBegins \/ ProcessEnds PROVE FALSE
  <2>1. ShutdownSaves => down'.pc = "next"
    BY <1>a DEF ShutdownSaves, Shutdowns
  <2>2. ShutdownBegins => down'.pc = "next"
    BY DEF ShutdownBegins, NotDown
  <2>3. ProcessEnds => down'.pc = "no"
    BY DEF ProcessEnds, NotDown
  <2> QED BY <1>3, <2>1, <2>2, <2>3
<1>4. ASSUME NEW r \in Runs,
             \/ Create(r, "plain") \/ Create(r, "scenario") \/ Tick(r) \/ RecoverOrphan(r)
             \/ Submission(r) \/ FirstSaveThrows(r) \/ StoreSubmissionThrows(r)
             \/ \E k \in Tasks : Worker(r, k)
       PROVE  UNCHANGED down
  BY <1>4 DEF Create, Tick, RecoverOrphan, Submission, FirstSave, MarkStrandedAsFailed,
     SubmitThrows, AllSubmitted, StoreSubmission, Register, SubmissionSettles, SubmissionStops,
     SubmitTask, SubmitTaskFails, FirstSaveThrows, StoreSubmissionThrows, Worker, WorkerStarts,
     WorkerNeverStarts, WorkerProduces, WorkerReturns, WorkerPasses, WorkerFallsShort,
     WorkerThrows, SetWorker, env
<1>5. ASSUME NEW s \in Runs, NEW a \in Actors, Requests(a, s) \/ Reconciles(a, s) \/ ReapFinds(a, s)
      PROVE  UNCHANGED down
  BY <1>5 DEF Requests, Reconciles, ReapFinds, Starts, env
<1>6. ASSUME NEW a \in Actors, Continues(a) \/ ActThrows(a) PROVE UNCHANGED down
  BY <1>6 DEF Continues, ActThrows, SettleDrops, SettleStops, Refresh, RefreshReads,
     RefreshTakesHandles, RefreshPolls, RefreshWrites, RefreshRereads, RefreshFinishes, Cancel,
     CancelReads, CancelWrites, DeleteErases, Reap, ReapReads, ReapWrites, env
<1>7. ASSUME Ready \/ UNCHANGED vars PROVE UNCHANGED down
  BY <1>7 DEF Ready, vars
<1>8. UNCHANGED down => down.pc \in {"read", "save"} /\ down'.run = down.run
  OBVIOUS
<1> QED
  BY <1>1, <1>2, <1>3, <1>4, <1>5, <1>6, <1>7, <1>8
     DEF Next, RunNext, Crash, Shutdown, ShutdownExits, Actors

-----------------------------------------------------------------------------
(* What a client was told of the end of a run stays true *)

\* Nobody has heard of a run before its row is stored for the first time.
Unheard(r) ==
  /\ row[r].status = "NONE" /\ outbox[r] = <<>> /\ announced[r] = 0
  /\ \A a \in Actors : act[a].pc # "idle" => act[a].run # r
  /\ down.pc \in {"read", "save"} => down.run # r

BornInv ==
  \A r \in Runs : /\ Unborn(r) => Unheard(r)
                  /\ Early(r) => handles[r] = {}

LEMMA BornSteps ==
  ASSUME TypeOK, Shapes, BornInv, [Next]_vars
  PROVE  BornInv'
<1> SUFFICES ASSUME NEW r \in Runs
             PROVE  /\ Unborn(r)' => Unheard(r)'
                    /\ Early(r)' => handles'[r] = {}
  BY DEF BornInv
<1>1. ASSUME Early(r)' PROVE handles'[r] = {}
  <2>1. Early(r) /\ handles[r] = {}
    BY <1>1, BornStaysBorn DEF BornInv
  <2>2. ASSUME Register(r) PROVE FALSE
    <3>1. sub'[r].pc \in {"settle", "done"}
      BY <2>2 DEF Register, TypeOK, Submissions, Submitted, NotSubmitted
    <3> QED BY <1>1, <3>1 DEF Early
  <2> QED BY <2>1, <2>2, HandleSteps
<1>2. ASSUME Unborn(r)' PROVE Unheard(r)'
  <2>1. Unborn(r) /\ Unheard(r) /\ Early(r) /\ handles[r] = {}
    BY <1>2, BornStaysBorn DEF BornInv, Unborn, Early
  <2>2. row'[r].status = "NONE" /\ outbox'[r] = <<>>
    <3>1. ~FirstStored(r) /\ ~Onward(r) /\ ~PlainlySaved(r)
      BY <1>2, <2>1, PcSteps DEF PcMoves, FirstStored, Onward, PlainlySaved, Unborn, Unheard, NotEnded
    <3>2. SameRow(r) \/ Erased(r)
      BY <3>1, RowSteps DEF RowMoves
    <3> QED BY <2>1, <3>2 DEF SameRow, Erased, Unheard, NoRow, NotEnded
  <2>3. announced'[r] = 0
    <3>1. ~Announces(r)
      BY <2>1 DEF Announces, Unheard, Unborn, Register
    <3> QED BY <2>1, <3>1, AnnouncedSteps DEF Unheard
  <2>4. ASSUME NEW a \in Actors, act'[a].pc # "idle" PROVE act'[a].run # r
    BY <2>1, <2>4, ThreadRuns DEF Unheard, Known, Unborn, NotEnded
  <2>5. ASSUME down'.pc \in {"read", "save"} PROVE down'.run # r
    BY <2>1, <2>5, DownSteps DEF Unheard
  <2> QED BY <2>2, <2>3, <2>4, <2>5 DEF Unheard
<1> QED BY <1>1, <1>2

\* The thread-local facts and what holds of a run before it is stored: enough for every write to be
\* over the status its writer knew.
StageInv == Shapes /\ BornInv

LEMMA StageInvariant == Spec => []StageInv
<1>1. Init => StageInv
  <2> SUFFICES ASSUME Init PROVE StageInv
    OBVIOUS
  <2>1. Shapes
    BY IdleFields DEF Init, Shapes, Shape
  <2>2. ASSUME NEW r \in Runs, Unborn(r) PROVE Unheard(r)
    <3>1. row[r] = NoRow
      BY <2>2 DEF Init, Unborn, Submitted, NotSubmitted
    <3> QED BY <3>1, IdleFields DEF Init, Unheard, NoRow, NotDown
  <2> QED BY <2>1, <2>2 DEF StageInv, BornInv, Init
<1>2. TypeOK /\ StageInv /\ [Next]_vars => StageInv'
  BY ShapeSteps, BornSteps DEF StageInv
<1> QED BY <1>1, <1>2, TypeCorrect, PTL DEF Spec

\* Once a run is stored as ended its row does not change, except to be deleted and by the two plain
\* saves, and a run that is not there is stored by its own submission only (saveIfStatus, deleteTest):
\* whatever a poll, a cancel, the reaper or the submission read before.
THEOREM EndStaysKept == Spec => EndIsKept
<1>1. TypeOK /\ StageInv /\ [Next]_vars
        => PlainSave \/ \A r \in Runs : row[r].status \in Ended => row'[r] \in {row[r], NoRow}
  <2> SUFFICES ASSUME TypeOK, StageInv, [Next]_vars, ~PlainSave, NEW r \in Runs, row[r].status \in Ended
               PROVE  row'[r] \in {row[r], NoRow}
    OBVIOUS
  <2>1. ~FirstStored(r)
    BY DEF StageInv, BornInv, Unborn, Unheard, FirstStored, Ended
  <2>2. SameRow(r) \/ Erased(r)
    BY <2>1, RowSteps DEF StageInv, RowMoves, Onward, PlainlySaved, Ended, NotEnded
  <2> QED BY <2>2 DEF SameRow, Erased
<1>2. TypeOK /\ StageInv /\ [Next]_vars
        => PlainSave \/ \A r \in Runs : row[r].status = "NONE" /\ sub[r].pc # "save" => row'[r].status = "NONE"
  <2> SUFFICES ASSUME TypeOK, StageInv, [Next]_vars, ~PlainSave, NEW r \in Runs,
                      row[r].status = "NONE", sub[r].pc # "save"
               PROVE  row'[r].status = "NONE"
    OBVIOUS
  <2> QED BY RowSteps DEF StageInv, RowMoves, SameRow, FirstStored, Onward, Erased, PlainlySaved, NotEnded, NoRow
<1>3. Spec => EndedIsFinal
  <2> DEFINE A == PlainSave \/ \A r \in Runs : row[r].status \in Ended => row'[r] \in {row[r], NoRow}
  <2>1. TypeOK /\ StageInv /\ [Next]_vars => [A]_vars
    BY <1>1
  <2>2. Spec => [][A]_vars
    <3> HIDE DEF A
    <3> QED BY <2>1, TypeCorrect, StageInvariant, PTL DEF Spec
  <2> QED BY <2>2 DEF EndedIsFinal
<1>4. Spec => DeletedStaysDeleted
  <2> DEFINE A == PlainSave \/ \A r \in Runs : row[r].status = "NONE" /\ sub[r].pc # "save" => row'[r].status = "NONE"
  <2>1. TypeOK /\ StageInv /\ [Next]_vars => [A]_vars
    BY <1>2
  <2>2. Spec => [][A]_vars
    <3> HIDE DEF A
    <3> QED BY <2>1, TypeCorrect, StageInvariant, PTL DEF Spec
  <2> QED BY <2>2 DEF DeletedStaysDeleted
<1> QED BY <1>3, <1>4 DEF EndIsKept

-----------------------------------------------------------------------------
(* Failures leave a trace *)

LEMMA FaultSteps ==
  ASSUME TypeOK, [Next]_vars, NEW kind, Met(kind)
  PROVE  Met(kind)'
<1>a. ASSUME UNCHANGED faults PROVE Met(kind)'
  BY <1>a DEF Met
<1>b. ASSUME NEW k, FaultOf(k) PROVE Met(kind)'
  BY <1>b DEF FaultOf, Met, TypeOK, EnvTypeOK
<1>1. ASSUME NEW s \in Runs, Submission(s) \/ FirstSaveThrows(s) \/ StoreSubmissionThrows(s)
      PROVE  UNCHANGED faults \/ \E k : FaultOf(k)
  BY <1>1 DEF Submission, FirstSave, MarkStrandedAsFailed, SubmitThrows, AllSubmitted,
     StoreSubmission, Register, SubmissionSettles, SubmissionStops, SubmitTask, SubmitTaskFails,
     FirstSaveThrows, StoreSubmissionThrows, env
<1>2. ASSUME NEW s \in Runs,
             \/ Create(s, "plain") \/ Create(s, "scenario") \/ Tick(s) \/ ShutdownStops(s)
             \/ RecoverOrphan(s) \/ \E k \in Tasks : Worker(s, k)
      PROVE  UNCHANGED faults
  BY <1>2 DEF Create, Tick, ShutdownStops, RecoverOrphan, Worker, WorkerStarts, WorkerNeverStarts,
     WorkerProduces, WorkerReturns, WorkerPasses, WorkerFallsShort, WorkerThrows, SetWorker, env
<1>3. ASSUME NEW s \in Runs, NEW a \in Actors, Requests(a, s) \/ Reconciles(a, s) \/ ReapFinds(a, s)
      PROVE  UNCHANGED faults
  BY <1>3 DEF Requests, Reconciles, ReapFinds, Starts, env
<1>4. ASSUME NEW a \in Actors, Continues(a) PROVE UNCHANGED faults
  BY <1>4 DEF Continues, SettleDrops, SettleStops, Refresh, RefreshReads, RefreshTakesHandles,
     RefreshPolls, RefreshWrites, RefreshRereads, RefreshFinishes, Cancel, CancelReads, CancelWrites,
     DeleteErases, Reap, ReapReads, ReapWrites, env
<1>5. ASSUME Ready \/ ShutdownReads \/ ShutdownSaves \/ ShutdownExits \/ UNCHANGED vars
      PROVE  UNCHANGED faults
  BY <1>5 DEF Ready, ShutdownReads, ShutdownSaves, ShutdownExits, vars
<1>6. ASSUME NEW a \in Actors, ActThrows(a) PROVE \E k : FaultOf(k)
  BY <1>6 DEF ActThrows
<1>7. ASSUME Crash \/ ShutdownBegins PROVE \E k : FaultOf(k)
  BY <1>7 DEF Crash, ShutdownBegins
<1> QED
  BY <1>a, <1>b, <1>1, <1>2, <1>3, <1>4, <1>5, <1>6, <1>7 DEF Next, RunNext, Shutdown, Actors

LEMMA FaultIsMet ==
  ASSUME TypeOK, NEW kind, FaultOf(kind)
  PROVE  Met(kind)'
<1>1. faults' = Append(faults, kind) /\ faults \in Seq(Failures) /\ kind \in Failures
  BY DEF FaultOf, TypeOK, EnvTypeOK
<1>2. Len(faults') \in 1..Len(faults') /\ faults'[Len(faults')] = kind
  BY <1>1
<1> QED BY <1>2 DEF Met

\* The plain saves, and a submission whose write threw, come of a failure.
FaultsInv ==
  /\ down.pc # "no" => Met("shutdown")
  /\ \A r \in Runs : \/ sub[r].pc = "stranded"
                     \/ sub[r].pc = "register" /\ sub[r].stored = "threw"
                     => Met("throw")

LEMMA DownIsAFault ==
  ASSUME TypeOK, [Next]_vars, down'.pc # "no"
  PROVE  down.pc # "no" \/ FaultOf("shutdown")
<1>1. ASSUME NEW r \in Runs,
             \/ Create(r, "plain") \/ Create(r, "scenario") \/ Tick(r) \/ RecoverOrphan(r)
             \/ Submission(r) \/ FirstSaveThrows(r) \/ StoreSubmissionThrows(r)
             \/ \E k \in Tasks : Worker(r, k)
       PROVE  UNCHANGED down
  BY <1>1 DEF Create, Tick, RecoverOrphan, Submission, FirstSave, MarkStrandedAsFailed,
     SubmitThrows, AllSubmitted, StoreSubmission, Register, SubmissionSettles, SubmissionStops,
     SubmitTask, SubmitTaskFails, FirstSaveThrows, StoreSubmissionThrows, Worker, WorkerStarts,
     WorkerNeverStarts, WorkerProduces, WorkerReturns, WorkerPasses, WorkerFallsShort,
     WorkerThrows, SetWorker, env
<1>2. ASSUME NEW s \in Runs, NEW a \in Actors, Requests(a, s) \/ Reconciles(a, s) \/ ReapFinds(a, s)
      PROVE  UNCHANGED down
  BY <1>2 DEF Requests, Reconciles, ReapFinds, Starts, env
<1>3. ASSUME NEW a \in Actors, Continues(a) \/ ActThrows(a) PROVE UNCHANGED down
  BY <1>3 DEF Continues, ActThrows, SettleDrops, SettleStops, Refresh, RefreshReads,
     RefreshTakesHandles, RefreshPolls, RefreshWrites, RefreshRereads, RefreshFinishes, Cancel,
     CancelReads, CancelWrites, DeleteErases, Reap, ReapReads, ReapWrites, env
<1>4. ASSUME Ready \/ UNCHANGED vars PROVE UNCHANGED down
  BY <1>4 DEF Ready, vars
<1>5. ASSUME ProcessEnds PROVE down'.pc = "no"
  BY <1>5 DEF ProcessEnds, NotDown
<1>6. ASSUME ShutdownBegins PROVE FaultOf("shutdown")
  BY <1>6 DEF ShutdownBegins
<1>7. ASSUME (\E r \in Runs : ShutdownStops(r)) \/ ShutdownReads \/ ShutdownSaves PROVE down.pc # "no"
  BY <1>7 DEF ShutdownStops, ShutdownReads, ShutdownSaves
<1> QED
  BY <1>1, <1>2, <1>3, <1>4, <1>5, <1>6, <1>7
     DEF Next, RunNext, Crash, Shutdown, ShutdownExits, Actors

LEMMA SubmissionSources ==
  ASSUME TypeOK, [Next]_vars, NEW r \in Runs
  PROVE  /\ sub'[r].pc = "stranded" => sub[r].pc = "stranded" \/ FaultOf("throw")
         /\ sub'[r].pc = "register" /\ sub[r].pc # "register"
              => /\ sub'[r].tasks = sub[r].tasks
                 /\ StoreSubmission(r) \/ (sub'[r].stored = "threw" /\ FaultOf("throw"))
         /\ sub'[r].pc = "register" /\ sub[r].pc = "register" => sub'[r] = sub[r]
<1>a. sub[r] \in Submissions
  BY DEF TypeOK
<1>b. \A kind : Submitted(kind).pc = "done"
  BY DEF Submitted, NotSubmitted
<1>1. ASSUME NEW kind, Create(r, kind) PROVE sub'[r].pc = "save"
  BY <1>1, <1>a DEF Create, TypeOK, Submissions
<1>2. ASSUME FirstSave(r) \/ SubmitThrows(r) \/ AllSubmitted(r)
      PROVE  sub'[r].pc \in {"submit", "store"}
  BY <1>2, <1>a DEF FirstSave, SubmitThrows, AllSubmitted, TypeOK, Submissions
<1>3. ASSUME NEW k \in Tasks, SubmitTask(r, k) \/ SubmitTaskFails(r, k) PROVE sub'[r].pc = "submit"
  BY <1>3, <1>a DEF SubmitTask, SubmitTaskFails, TypeOK, Submissions
<1>4. ASSUME StoreSubmission(r) \/ StoreSubmissionThrows(r)
      PROVE  /\ sub[r].pc = "store" /\ sub'[r].pc = "register" /\ sub'[r].tasks = sub[r].tasks
             /\ StoreSubmissionThrows(r) => sub'[r].stored = "threw" /\ FaultOf("throw")
  BY <1>4, <1>a DEF StoreSubmission, StoreSubmissionThrows, TypeOK, Submissions
<1>5. ASSUME Register(r) PROVE sub'[r].pc \in {"settle", "done"}
  BY <1>5, <1>a, <1>b DEF Register, TypeOK, Submissions
<1>6. ASSUME SubmissionSettles(r) PROVE sub'[r].pc \in {"stop", "done"}
  <2>1. [sub[r] EXCEPT !.pc = "stop", !.got = handles[r]].pc = "stop"
    BY <1>a DEF Submissions
  <2> QED BY <1>6, <1>b, <2>1 DEF SubmissionSettles, TypeOK
<1>7. ASSUME MarkStrandedAsFailed(r) \/ SubmissionStops(r) PROVE sub'[r].pc = "done"
  BY <1>7, <1>b DEF MarkStrandedAsFailed, SubmissionStops, TypeOK
<1>8. ASSUME FirstSaveThrows(r) PROVE sub'[r].pc = "stranded" /\ FaultOf("throw")
  BY <1>8, <1>a DEF FirstSaveThrows, TypeOK, Submissions
<1>9. ASSUME ProcessEnds PROVE sub'[r] = sub[r] \/ sub'[r].pc = "done"
  BY <1>9, <1>b DEF ProcessEnds
<1> QED
  BY <1>1, <1>2, <1>3, <1>4, <1>5, <1>6, <1>7, <1>8, <1>9, SubSteps DEF Submission

LEMMA FaultsInvSteps ==
  ASSUME TypeOK, FaultsInv, [Next]_vars
  PROVE  FaultsInv'
<1>1. down'.pc # "no" => Met("shutdown")'
  BY DownIsAFault, FaultSteps, FaultIsMet DEF FaultsInv
<1>2. ASSUME NEW r \in Runs,
             \/ sub'[r].pc = "stranded"
             \/ sub'[r].pc = "register" /\ sub'[r].stored = "threw"
      PROVE  Met("throw")'
  <2>1. StoreSubmission(r) => sub'[r].stored # "threw"
    BY DEF StoreSubmission, TypeOK, Submissions
  <2> QED BY <1>2, <2>1, SubmissionSources, FaultSteps, FaultIsMet DEF FaultsInv
<1> QED BY <1>1, <1>2 DEF FaultsInv

-----------------------------------------------------------------------------
(* Endings are told once *)

\* Ended, or deleted.
Gone == Ended \cup {"NONE"}

\* The two places where a thread has stored an ending that it is still to announce.
Finishing(a, r) == act[a].pc = "finish" /\ act[a].run = r
SubTells(r) == /\ sub[r].pc = "register" /\ sub[r].stored = "yes"
               /\ SubmittedStatus(sub[r].tasks) = "FAILED"

NobodyTells(r) == ~SubTells(r) /\ \A a \in Actors : ~Finishing(a, r)

\* An ending is announced, or one thread is to announce it.
TellInv ==
  \A r \in Runs :
    /\ announced[r] <= 1
    /\ announced[r] = 1 => NobodyTells(r)
    /\ row[r].status \in NotEnded => announced[r] = 0 /\ NobodyTells(r)
    /\ SubTells(r) => \A a \in Actors : ~Finishing(a, r)
    /\ \A a, b \in Actors : Finishing(a, r) /\ Finishing(b, r) => a = b

LEMMA RowStatuses ==
  ASSUME TypeOK, NEW r \in Runs
  PROVE  /\ row[r].status \in NotEnded \/ row[r].status \in Gone
         /\ ~(row[r].status \in NotEnded /\ row[r].status \in Gone)
BY DEF TypeOK, StoreTypeOK, Row, RunStatus, Gone, Ended, NotEnded

LEMMA GoneStays ==
  ASSUME TypeOK, StageInv, [Next]_vars, NEW r \in Runs, ~Unborn(r), row[r].status \in Gone
  PROVE  row'[r].status \in Gone
BY RowSteps DEF StageInv, RowMoves, SameRow, FirstStored, Onward, Erased, PlainlySaved, Unborn, Gone,
   Ended, NotEnded, NoRow

\* A thread comes to announce an ending by storing it.
LEMMA FinishingSteps ==
  ASSUME TypeOK, StageInv, [Next]_vars, NEW a \in Actors, NEW r \in Runs, Finishing(a, r)'
  PROVE  \/ Finishing(a, r)
         \/ /\ act[a].run = r /\ row[r].status \in NotEnded /\ row'[r].status \in Ended
            /\ OnlyActs(a) /\ UNCHANGED <<sub, announced>>
<1> DEFINE Goal == \/ Finishing(a, r)
                   \/ /\ act[a].run = r /\ row[r].status \in NotEnded /\ row'[r].status \in Ended
                      /\ OnlyActs(a) /\ UNCHANGED <<sub, announced>>
<1>a. ASSUME NEW b \in Actors, OnlyActs(b), b # a PROVE Goal
  BY <1>a DEF OnlyActs, Finishing
<1>b. ASSUME NEW pc, WoundUp(a, pc), pc # "finish" PROVE FALSE
  BY <1>b DEF WoundUp, Finishing
<1>c. act'[a].pc = "finish" /\ act'[a].run = r
  BY DEF Finishing
<1>d. act'[a].pc # "finish" => Goal
  BY DEF Finishing
<1>e. Shape(act[a])
  BY DEF StageInv, Shapes
<1> HIDE DEF Goal
<1>1. ASSUME NEW b \in Actors, SettleDrops(b) PROVE Goal
  <2>1. act[b].pc = "settle"
    BY <1>1 DEF SettleDrops
  <2> QED BY <1>1, <1>a, <1>b, <1>c, <1>e, <2>1, SettleDropsFields DEF SameInHand, Shape
<1>2. ASSUME NEW b \in Actors, SettleStops(b) PROVE Goal
  <2>1. act[b].pc = "stop"
    BY <1>2 DEF SettleStops
  <2> QED BY <1>2, <1>a, <1>b, <1>c, <1>e, <2>1, SettleStopsFields DEF SameInHand, Shape
<1>3. ASSUME NEW b \in Actors, RefreshReads(b) PROVE Goal
  BY <1>3, <1>a, <1>b, <1>c, RefreshReadsFields DEF HasRead
<1>4. ASSUME NEW b \in Actors, RefreshTakesHandles(b) PROVE Goal
  BY <1>4, <1>a, <1>c, RefreshTakesHandlesFields
<1>5. ASSUME NEW b \in Actors, RefreshPolls(b) PROVE Goal
  BY <1>5, <1>a, <1>b, <1>c, RefreshPollsFields
<1>6. ASSUME NEW b \in Actors, RefreshWrites(b) PROVE Goal
  <2>1. CASE b # a
    BY <1>6, <1>a, <2>1, WindsUpFields DEF RefreshWrites
  <2>2. CASE b = a
    <3>1. /\ act[a].run \in Runs /\ act[a].status \in NotEnded
          /\ UNCHANGED <<sub, announced>>
      BY <1>6, <1>e, <2>2 DEF RefreshWrites, TypeOK, ActTypeOK, Shape
    <3>2. /\ SaveIfStatus(act[a].run, act[a].status, act[a].new, act[a].tasks)
          /\ act[a].new \in Ended /\ WindsUpAt(a, "finish")
      <4>1. \/ /\ SaveIfStatus(act[a].run, act[a].status, act[a].new, act[a].tasks)
               /\ WindsUpAt(a, IF act[a].new \in Ended THEN "finish" ELSE "idle")
            \/ WindsUpAt(a, "reread")
        BY <1>6, <2>2 DEF RefreshWrites
      <4> QED BY <1>b, <4>1, WindsUpFields
    <3>3. OnlyActs(a) /\ act[a].run = r
      BY <1>c, <3>2, WindsUpFields DEF WoundUp
    <3>4. row[r].status \in NotEnded /\ row'[r].status \in Ended
      BY <3>1, <3>2, <3>3, SaveMoves DEF SaveIfStatus
    <3> QED BY <3>1, <3>3, <3>4 DEF Goal
  <2> QED BY <2>1, <2>2
<1>7. ASSUME NEW b \in Actors,
             RefreshRereads(b) \/ RefreshFinishes(b) \/ ReapWrites(b) \/ DeleteErases(b) \/ ActThrows(b)
      PROVE  Goal
  <2>1. \E pc : pc # "finish" /\ WindsUpAt(b, pc)
    BY <1>7 DEF RefreshRereads, RefreshFinishes, ReapWrites, DeleteErases, ActThrows
  <2> QED BY <1>a, <1>b, <2>1, WindsUpFields
<1>8. ASSUME NEW b \in Actors, CancelReads(b) PROVE Goal
  BY <1>8, <1>a, <1>b, <1>c, CancelReadsFields DEF HasRead
<1>9. ASSUME NEW b \in Actors, CancelWrites(b) PROVE Goal
  BY <1>9, <1>a, <1>b, <1>c, CancelWritesFields
<1>10. ASSUME NEW b \in Actors, ReapReads(b) PROVE Goal
  BY <1>10, <1>a, <1>b, <1>c, ReapReadsFields DEF HasRead
<1>11. ASSUME NEW s \in Runs, NEW b \in Actors, Requests(b, s) \/ Reconciles(b, s) \/ ReapFinds(b, s)
       PROVE  Goal
  <2>1. PICK op : Starts(b, op, s)
    BY <1>11 DEF Requests, Reconciles, ReapFinds
  <2>2. act'[b].pc # "finish" /\ OnlyActs(b)
    BY <2>1, StartsFields
  <2> QED BY <1>a, <1>c, <2>2
<1>12. ASSUME UNCHANGED act PROVE Goal
  BY <1>12 DEF Finishing, Goal
<1>13. ASSUME ProcessEnds PROVE Goal
  BY <1>13, <1>d, IdleFields DEF ProcessEnds
<1>z. Goal
  BY <1>1, <1>2, <1>3, <1>4, <1>5, <1>6, <1>7, <1>8, <1>9, <1>10, <1>11, <1>12, <1>13, ActSteps
     DEF Continues, Refresh, Cancel, Reap
<1> QED BY <1>z DEF Goal

LEMMA SubTellsSteps ==
  ASSUME TypeOK, [Next]_vars, NEW r \in Runs, SubTells(r)'
  PROVE  \/ SubTells(r)
         \/ /\ row[r].status \in NotEnded /\ row'[r].status \in Ended
            /\ UNCHANGED <<act, announced>>
<1>1. CASE sub[r].pc = "register"
  BY <1>1, SubmissionSources DEF SubTells
<1>2. CASE sub[r].pc # "register"
  <2>1. StoreSubmission(r) /\ sub'[r].stored = "yes" /\ sub'[r].tasks = sub[r].tasks
    BY <1>2, SubmissionSources DEF SubTells
  <2>2. SaveIfStatus(r, FirstStatus(sub[r].kind), SubmittedStatus(sub[r].tasks), sub[r].tasks)
    BY <2>1 DEF StoreSubmission, TypeOK, Submissions
  <2>3. SubmittedStatus(sub[r].tasks) = "FAILED"
    BY <2>1 DEF SubTells
  <2>4. row[r].status \in NotEnded /\ row'[r].status \in Ended
    BY <2>2, <2>3, SaveMoves DEF SaveIfStatus, FirstStatus, NotEnded, Ended
  <2> QED BY <2>1, <2>4 DEF StoreSubmission
<1> QED BY <1>1, <1>2

\* What an announcement uses up, or ends.
LEMMA AnnouncingEnds ==
  ASSUME TypeOK, StageInv, NEW r \in Runs, Announces(r)
  PROVE  \/ SubTells(r) /\ sub'[r].pc # "register" /\ UNCHANGED act
         \/ \E a \in Actors : Finishing(a, r) /\ act'[a].pc = "idle" /\ OnlyActs(a) /\ UNCHANGED sub
         \/ row[r].status \in NotEnded /\ row'[r].status \in Gone
<1>1. ASSUME Register(r), sub[r].stored = "yes", SubmittedStatus(sub[r].tasks) = "FAILED"
      PROVE  SubTells(r) /\ sub'[r].pc # "register" /\ UNCHANGED act
  BY <1>1 DEF Register, SubTells, Submitted, NotSubmitted, TypeOK, Submissions
<1>2. ASSUME NEW a \in Actors, act[a].run = r, RefreshFinishes(a)
      PROVE  Finishing(a, r) /\ act'[a].pc = "idle" /\ OnlyActs(a) /\ UNCHANGED sub
  <2>1. WindsUpAt(a, "idle") /\ act[a].pc = "finish" /\ UNCHANGED sub
    BY <1>2 DEF RefreshFinishes
  <2> QED BY <1>2, <2>1, WindsUpFields DEF Finishing, WoundUp
<1>3. ASSUME NEW a \in Actors, act[a].run = r, CancelWrites(a),
             SaveIfStatus(r, act[a].status, act[a].new, act[a].tasks)
      PROVE  row[r].status \in NotEnded /\ row'[r].status \in Gone
  <2>1. act[a].new \in Ended /\ act[a].status \in NotEnded
    BY <1>3 DEF CancelWrites, StageInv, Shapes, Shape
  <2> QED BY <1>3, <2>1, SaveMoves DEF SaveIfStatus, Gone
<1>4. ASSUME NEW a \in Actors, act[a].run = r, DeleteErases(a), row[r].status \in NotEnded
      PROVE  row[r].status \in NotEnded /\ row'[r].status \in Gone
  <2>1. row' = [row EXCEPT ![r] = NoRow]
    BY <1>4 DEF DeleteErases
  <2> QED BY <1>4, <2>1 DEF TypeOK, StoreTypeOK, NoRow, Gone
<1> QED BY <1>1, <1>2, <1>3, <1>4 DEF Announces

LEMMA TellSteps ==
  ASSUME TypeOK, StageInv, TellInv, [Next]_vars
  PROVE  TellInv'
<1> DEFINE Told(r) ==
      /\ announced'[r] <= 1
      /\ announced'[r] = 1 => NobodyTells(r)'
      /\ row'[r].status \in NotEnded => announced'[r] = 0 /\ NobodyTells(r)'
      /\ SubTells(r)' => \A a \in Actors : ~Finishing(a, r)'
      /\ \A a, b \in Actors : Finishing(a, r)' /\ Finishing(b, r)' => a = b
<1> SUFFICES ASSUME NEW r \in Runs PROVE Told(r)
  BY DEF TellInv
<1>a. announced[r] \in Nat /\ announced'[r] \in Nat
  BY AnnouncedSteps DEF TypeOK
<1>b. announced'[r] = announced[r] \/ (announced'[r] = announced[r] + 1 /\ Announces(r))
  BY AnnouncedSteps
<1>c. announced[r] = 0 => announced'[r] \in {0, 1} /\ (announced'[r] = 1 => Announces(r))
  BY <1>a, <1>b
<1>1. CASE Unborn(r)
  <2>1. Unheard(r)
    BY <1>1 DEF StageInv, BornInv
  <2>2. announced'[r] = 0
    BY <1>1, <1>b, <2>1 DEF Announces, Unheard, Unborn, Register
  <2>3. row[r].status \notin NotEnded /\ ~SubTells(r) /\ \A a \in Actors : ~Finishing(a, r)
    BY <1>1, <2>1 DEF Unheard, NotEnded, Unborn, SubTells, Finishing
  <2>4. NobodyTells(r)'
    BY <2>3, SubTellsSteps, FinishingSteps DEF NobodyTells
  <2> QED BY <2>2, <2>4 DEF NobodyTells
<1>2. CASE row[r].status \in NotEnded
  <2>1. announced[r] = 0 /\ NobodyTells(r)
    BY <1>2 DEF TellInv
  <2>2. ASSUME NEW a \in Actors, Finishing(a, r)' PROVE Told(r)
    <3>1. row'[r].status \in Ended /\ OnlyActs(a) /\ UNCHANGED <<sub, announced>>
      BY <2>1, <2>2, FinishingSteps DEF NobodyTells
    <3>2. ~SubTells(r)' /\ \A b \in Actors \ {a} : ~Finishing(b, r)'
      BY <2>1, <3>1 DEF NobodyTells, SubTells, Finishing, OnlyActs
    <3> QED BY <2>1, <3>1, <3>2 DEF Ended, NotEnded
  <2>3. ASSUME SubTells(r)' PROVE Told(r)
    <3>1. row'[r].status \in Ended /\ UNCHANGED <<act, announced>>
      BY <2>1, <2>3, SubTellsSteps DEF NobodyTells
    <3>2. \A a \in Actors : ~Finishing(a, r)'
      BY <2>1, <3>1 DEF NobodyTells, Finishing
    <3> QED BY <2>1, <3>1, <3>2 DEF Ended, NotEnded
  <2>4. ASSUME NobodyTells(r)' PROVE Told(r)
    <3>1. Announces(r) => row'[r].status \notin NotEnded
      BY <2>1, AnnouncingEnds DEF NobodyTells, Gone, Ended, NotEnded
    <3> QED BY <1>c, <2>1, <2>4, <3>1 DEF NobodyTells
  <2> HIDE DEF Told
  <2> QED BY <2>2, <2>3, <2>4 DEF NobodyTells
<1>3. CASE ~Unborn(r) /\ row[r].status \in Gone
  <2>1. row[r].status \notin NotEnded /\ row'[r].status \notin NotEnded
    BY <1>3, GoneStays DEF Gone, Ended, NotEnded
  <2>2. /\ SubTells(r)' => SubTells(r)
        /\ \A a \in Actors : Finishing(a, r)' => Finishing(a, r)
    BY <2>1, SubTellsSteps, FinishingSteps
  <2>3. CASE ~Announces(r)
    <3>1. announced'[r] = announced[r]
      BY <1>b, <2>3
    <3> QED BY <2>1, <2>2, <3>1 DEF TellInv, NobodyTells
  <2>4. CASE Announces(r)
    <3>1. announced[r] = 0 /\ NobodyTells(r)'
      <4>1. CASE SubTells(r) /\ sub'[r].pc # "register" /\ UNCHANGED act
        <5>1. \A a \in Actors : ~Finishing(a, r)
          BY <4>1 DEF TellInv
        <5>2. announced[r] = 0
          BY <1>a, <4>1 DEF TellInv, NobodyTells
        <5> QED BY <2>2, <4>1, <5>1, <5>2 DEF NobodyTells, SubTells
      <4>2. ASSUME NEW a \in Actors, Finishing(a, r), act'[a].pc = "idle", OnlyActs(a), UNCHANGED sub
            PROVE  announced[r] = 0 /\ NobodyTells(r)'
        <5>1. ~SubTells(r) /\ \A b \in Actors \ {a} : ~Finishing(b, r)
          BY <4>2 DEF TellInv
        <5>2. announced[r] = 0
          BY <1>a, <4>2 DEF TellInv, NobodyTells
        <5> QED BY <2>2, <4>2, <5>1, <5>2 DEF NobodyTells, Finishing
      <4> QED BY <2>1, <2>4, <4>1, <4>2, AnnouncingEnds
    <3> QED BY <1>c, <2>1, <3>1 DEF NobodyTells
  <2> QED BY <2>3, <2>4
<1> QED BY <1>1, <1>2, <1>3, RowStatuses

\* What the webhooks are told: an ending comes last, and is the one the row keeps.
OutboxInv ==
  ~Met("shutdown") /\ ~Met("throw") =>
    \A r \in Runs :
      /\ \A i \in 1..Len(outbox[r]) :
           outbox[r][i] \in Ended => i = Len(outbox[r]) /\ row[r].status \notin NotEnded
      /\ row[r].status \in Ended => outbox[r] # <<>> /\ outbox[r][Len(outbox[r])] = row[r].status

LEMMA AppendElements ==
  ASSUME NEW S, NEW e \in Seq(S), NEW x \in S
  PROVE  /\ Len(Append(e, x)) = Len(e) + 1 /\ Len(e) \in Nat /\ Append(e, x) # <<>>
         /\ Append(e, x)[Len(e) + 1] = x
         /\ \A i \in 1..Len(e) : Append(e, x)[i] = e[i]
OBVIOUS

LEMMA OutboxSteps ==
  ASSUME TypeOK, StageInv, FaultsInv, OutboxInv, [Next]_vars
  PROVE  OutboxInv'
<1> SUFFICES ASSUME ~Met("shutdown"), ~Met("throw"), NEW r \in Runs
             PROVE  /\ \A i \in 1..Len(outbox'[r]) :
                         outbox'[r][i] \in Ended => i = Len(outbox'[r]) /\ row'[r].status \notin NotEnded
                    /\ row'[r].status \in Ended =>
                         outbox'[r] # <<>> /\ outbox'[r][Len(outbox'[r])] = row'[r].status
  BY FaultSteps DEF OutboxInv
<1> DEFINE e == outbox[r]
<1>1. /\ \A i \in 1..Len(e) : e[i] \in Ended => i = Len(e) /\ row[r].status \notin NotEnded
      /\ row[r].status \in Ended => e # <<>> /\ e[Len(e)] = row[r].status
      /\ e \in Seq(RunStatus)
  BY DEF OutboxInv, TypeOK, StoreTypeOK
<1>2. ASSUME NEW x \in RunStatus, outbox'[r] = Append(e, x), \A i \in 1..Len(e) : e[i] \notin Ended
      PROVE  /\ \A i \in 1..Len(outbox'[r]) : outbox'[r][i] \in Ended => i = Len(outbox'[r]) /\ x \in Ended
             /\ outbox'[r] # <<>> /\ outbox'[r][Len(outbox'[r])] = x
  <2>1. /\ Len(outbox'[r]) = Len(e) + 1 /\ Len(e) \in Nat /\ outbox'[r] # <<>>
        /\ outbox'[r][Len(e) + 1] = x
        /\ \A i \in 1..Len(e) : outbox'[r][i] = e[i]
    BY <1>1, <1>2, AppendElements
  <2> HIDE DEF e
  <2> QED BY <1>2, <2>1
<1>3. CASE SameRow(r)
  BY <1>1, <1>3 DEF SameRow
<1>4. CASE FirstStored(r)
  <2>1. e = <<>> /\ row[r].status = "NONE"
    BY <1>4 DEF StageInv, BornInv, Unheard, Unborn, FirstStored
  <2>2. outbox'[r] = Append(e, row'[r].status) /\ row'[r].status \in NotEnded
    BY <1>4, <2>1 DEF FirstStored, Queued, FirstStatus, NotEnded
  <2> QED BY <1>2, <2>1, <2>2 DEF RunStatus, Ended, NotEnded
<1>5. CASE Onward(r)
  <2>1. \A i \in 1..Len(e) : e[i] \notin Ended
    BY <1>1, <1>5 DEF Onward
  <2>2. CASE row'[r].status = row[r].status
    BY <1>1, <1>5, <2>1, <2>2 DEF Onward, Queued, Ended, NotEnded
  <2>3. CASE row'[r].status # row[r].status
    <3>1. outbox'[r] = Append(e, row'[r].status)
      BY <1>5, <2>3 DEF Onward, Queued
    <3>2. row'[r].status \in RunStatus
      BY <1>5 DEF Onward, RunStatus, NotEnded
    <3> QED BY <1>2, <2>1, <3>1, <3>2 DEF Ended, NotEnded
  <2> QED BY <2>2, <2>3
<1>6. CASE Erased(r)
  <2>1. row'[r].status \notin NotEnded /\ row'[r].status \notin Ended
    BY <1>6 DEF Erased, NoRow, Ended, NotEnded
  <2>2. CASE row[r].status \in NotEnded
    BY <1>1, <1>2, <1>6, <2>1, <2>2 DEF Erased, RunStatus, Ended
  <2>3. CASE row[r].status \notin NotEnded
    BY <1>1, <1>6, <2>1, <2>3 DEF Erased
  <2> QED BY <2>2, <2>3
<1>7. CASE PlainlySaved(r)
  BY <1>7 DEF PlainlySaved, FaultsInv
<1> QED BY <1>3, <1>4, <1>5, <1>6, <1>7, RowSteps DEF StageInv, RowMoves

LEMMA ToldInvariant == Spec => [](FaultsInv /\ TellInv)
<1>1. Init => FaultsInv /\ TellInv
  <2> SUFFICES ASSUME Init PROVE FaultsInv /\ TellInv
    OBVIOUS
  <2>1. FaultsInv
    BY DEF Init, FaultsInv, NotDown, Submitted, NotSubmitted
  <2>2. TellInv
    BY IdleFields DEF Init, TellInv, NobodyTells, SubTells, Finishing, Submitted, NotSubmitted
  <2> QED BY <2>1, <2>2
<1>2. TypeOK /\ StageInv /\ FaultsInv /\ TellInv /\ [Next]_vars => FaultsInv' /\ TellInv'
  BY FaultsInvSteps, TellSteps
<1> QED BY <1>1, <1>2, TypeCorrect, StageInvariant, PTL DEF Spec

\* Webhooks and the event stream are told of an ending, once, by whichever of the submission, a
\* poll, a cancel and a delete stored it (save, announce; settle for a row already ended).
THEOREM EveryoneHearsOnce == Spec => []EveryoneIsToldOnce
<1>1. Init => OutboxInv
  BY DEF Init, OutboxInv, NoRow, LegacyRow, Ended
<1>2. TypeOK /\ StageInv /\ (FaultsInv /\ TellInv) /\ OutboxInv /\ [Next]_vars => OutboxInv'
  BY OutboxSteps
<1>3. TellInv /\ OutboxInv => EveryoneIsToldOnce
  <2>1. OutboxInv => EndingToldOnce
    BY DEF OutboxInv, EndingToldOnce
  <2>2. TellInv => AnnouncedOnce
    BY DEF TellInv, AnnouncedOnce
  <2> QED BY <2>1, <2>2 DEF EveryoneIsToldOnce
<1> QED BY <1>1, <1>2, <1>3, TypeCorrect, StageInvariant, ToldInvariant, PTL DEF Spec

-----------------------------------------------------------------------------
(* While a process serves *)

\* From its start to the end of its shutdown.
Serving == up \/ down.pc # "no"

ServingInv ==
  /\ Serving => \A r \in Runs : row[r].status # "STOPPING"
  /\ ~Serving => \A a \in Actors : act[a].pc = "idle"

\* A process comes to serve when it is ready, and ends when it no longer does.
LEMMA UpSteps ==
  ASSUME TypeOK, [Next]_vars
  PROVE  /\ up' => up \/ Ready
         /\ Serving' => Serving \/ Ready
         /\ Serving => Serving' \/ ProcessEnds
         /\ ProcessEnds => ~Serving'
<1> DEFINE Goal == (up' => up \/ Ready) /\ (Serving' => Serving \/ Ready) /\ (Serving => Serving' \/ ProcessEnds)
<1>a. UNCHANGED <<up, down>> => Goal
  BY DEF Serving
<1>1. ASSUME NEW r \in Runs,
             \/ Create(r, "plain") \/ Create(r, "scenario") \/ Tick(r) \/ RecoverOrphan(r)
             \/ Submission(r) \/ FirstSaveThrows(r) \/ StoreSubmissionThrows(r)
             \/ \E k \in Tasks : Worker(r, k)
       PROVE  UNCHANGED <<up, down>>
  BY <1>1 DEF Create, Tick, RecoverOrphan, Submission, FirstSave, MarkStrandedAsFailed,
     SubmitThrows, AllSubmitted, StoreSubmission, Register, SubmissionSettles, SubmissionStops,
     SubmitTask, SubmitTaskFails, FirstSaveThrows, StoreSubmissionThrows, Worker, WorkerStarts,
     WorkerNeverStarts, WorkerProduces, WorkerReturns, WorkerPasses, WorkerFallsShort,
     WorkerThrows, SetWorker, env
<1>2. ASSUME NEW s \in Runs, NEW a \in Actors, Requests(a, s) \/ Reconciles(a, s) \/ ReapFinds(a, s)
      PROVE  UNCHANGED <<up, down>>
  BY <1>2 DEF Requests, Reconciles, ReapFinds, Starts, env
<1>3. ASSUME NEW a \in Actors, Continues(a) \/ ActThrows(a) PROVE UNCHANGED <<up, down>>
  BY <1>3 DEF Continues, ActThrows, SettleDrops, SettleStops, Refresh, RefreshReads,
     RefreshTakesHandles, RefreshPolls, RefreshWrites, RefreshRereads, RefreshFinishes, Cancel,
     CancelReads, CancelWrites, DeleteErases, Reap, ReapReads, ReapWrites, env
<1>4. ASSUME UNCHANGED vars PROVE UNCHANGED <<up, down>>
  BY <1>4 DEF vars
<1>5. ASSUME Ready PROVE Goal
  BY <1>5 DEF Ready, Serving
<1>6. ASSUME ProcessEnds PROVE Goal /\ ~Serving'
  BY <1>6 DEF ProcessEnds, NotDown, Serving
<1>7. ASSUME ShutdownBegins PROVE Goal
  BY <1>7 DEF ShutdownBegins, NotDown, Serving
<1>8. ASSUME (\E r \in Runs : ShutdownStops(r)) \/ ShutdownReads \/ ShutdownSaves PROVE Goal
  <2>1. UNCHANGED up /\ down.pc # "no" /\ down \in Shutdowns
    BY <1>8 DEF ShutdownStops, ShutdownReads, ShutdownSaves, TypeOK, EnvTypeOK
  <2>2. down'.pc # "no"
    BY <1>8, <2>1 DEF ShutdownStops, ShutdownReads, ShutdownSaves, Shutdowns
  <2> QED BY <2>1, <2>2 DEF Serving
<1> HIDE DEF Goal
<1>z. Goal
  BY <1>a, <1>1, <1>2, <1>3, <1>4, <1>5, <1>6, <1>7, <1>8
     DEF Next, RunNext, Crash, Shutdown, ShutdownExits, Actors
<1> QED BY <1>z, <1>6 DEF Goal

LEMMA ServingSteps ==
  ASSUME TypeOK, StageInv, ServingInv, [Next]_vars
  PROVE  ServingInv'
<1>1. ASSUME Serving', NEW r \in Runs PROVE row'[r].status # "STOPPING"
  <2>1. CASE Serving
    BY <2>1, RowSteps DEF ServingInv, StageInv, RowMoves, SameRow, FirstStored, FirstStatus, Onward,
       Erased, PlainlySaved, NoRow, Ended
  <2>2. CASE Ready
    BY <2>2 DEF Ready, NotEnded, store
  <2> QED BY <1>1, <2>1, <2>2, UpSteps
<1>2. ASSUME ~Serving', NEW a \in Actors PROVE act'[a].pc = "idle"
  <2>1. CASE ProcessEnds
    BY <2>1, IdleFields DEF ProcessEnds
  <2>2. CASE ~Serving /\ ~ProcessEnds
    <3>1. \A b \in Actors : act[b].pc = "idle"
      BY <2>2 DEF ServingInv
    <3>2. ASSUME NEW b \in Actors, Continues(b) \/ ActThrows(b) PROVE FALSE
      BY <3>1, <3>2 DEF Continues, ActThrows, SettleDrops, SettleStops, Refresh, RefreshReads,
         RefreshTakesHandles, RefreshPolls, RefreshWrites, RefreshRereads, RefreshFinishes, Cancel,
         CancelReads, CancelWrites, DeleteErases, Reap, ReapReads, ReapWrites
    <3>3. ASSUME NEW b \in Actors, NEW r \in Runs, Requests(b, r) \/ ReapFinds(b, r) \/ Reconciles(b, r)
          PROVE  FALSE
      BY <2>2, <3>3 DEF Requests, ReapFinds, Reconciles, Serving
    <3>4. UNCHANGED act
      BY <2>2, <3>2, <3>3, ActSteps
    <3> QED BY <3>1, <3>4
  <2> QED BY <1>2, <2>1, <2>2, UpSteps
<1> QED BY <1>1, <1>2 DEF ServingInv

-----------------------------------------------------------------------------
(* What a thread knows of its run's row *)

\* st: the status of the row of the thread's run.
OnRow(t, st) ==
  t.pc # "idle" =>
    /\ t.status # "STOPPING"
    /\ t.status = "RUNNING" => st # "PENDING"
    /\ t.pass = 2 => st # "PENDING" /\ t.status # "PENDING" /\ t.op = "cancel"
    /\ t.op = "refresh" /\ t.pc \in {"settle", "stop", "finish"} => st \in Gone
    /\ t.op = "reap" /\ t.pc \in {"settle", "stop"} /\ t.next = "idle" => st \in Gone
    /\ t.op = "reap" /\ t.next = "write" => t.status # "PENDING"

OnRows == \A a \in Actors : OnRow(act[a], row[act[a].run].status)

\* A run's row goes on: never back to PENDING, and what is gone stays gone.
LEMMA RowGoesOn ==
  ASSUME TypeOK, StageInv, [Next]_vars, NEW a \in Actors, act[a].pc # "idle"
  PROVE  /\ act[a].run \in Runs
         /\ row[act[a].run].status # "PENDING" => row'[act[a].run].status # "PENDING"
         /\ row[act[a].run].status \in Gone => row'[act[a].run].status \in Gone
<1>1. act[a].run \in Runs
  BY DEF TypeOK, ActTypeOK
<1>2. ~Unborn(act[a].run)
  BY <1>1 DEF StageInv, BornInv, Unheard
<1>3. row[act[a].run].status # "PENDING" => row'[act[a].run].status # "PENDING"
  BY <1>1, <1>2, RowSteps DEF StageInv, RowMoves, SameRow, FirstStored, Onward, Erased, PlainlySaved,
     Unborn, NoRow, Ended
<1> QED BY <1>1, <1>2, <1>3, GoneStays

LEMMA OnRowSteps ==
  ASSUME TypeOK, StageInv, ServingInv, OnRows, [Next]_vars
  PROVE  OnRows'
<1>a. \A a \in Actors : OnRow(act[a], row[act[a].run].status) /\ Shape(act[a])
  BY DEF OnRows, StageInv, Shapes
<1>b. ASSUME NEW a \in Actors PROVE OnRow(act[a], row'[act[a].run].status)
  <2>1. CASE act[a].pc = "idle"
    BY <2>1 DEF OnRow
  <2>2. CASE act[a].pc # "idle"
    BY <2>2, <1>a, RowGoesOn DEF OnRow
  <2> QED BY <2>1, <2>2
<1>c. ASSUME NEW a \in Actors, OnlyActs(a), OnRow(act'[a], row'[act'[a].run].status) PROVE OnRows'
  BY <1>b, <1>c DEF OnlyActs, OnRows
<1>d. ASSUME NEW a \in Actors, OnlyActs(a), NEW pc, WoundUp(a, pc), pc \notin {"settle", "stop", "finish"}
      PROVE  OnRows'
  BY <1>c, <1>d DEF WoundUp, OnRow
<1>e. \A a \in Actors : act[a].pc # "idle" => act[a].run \in Runs /\ row[act[a].run].status # "STOPPING"
  BY RowGoesOn DEF ServingInv
<1>1. ASSUME NEW a \in Actors, SettleDrops(a) PROVE OnRows'
  <2>1. act[a].pc = "settle"
    BY <1>1 DEF SettleDrops
  <2>2. OnRow(act[a], row'[act[a].run].status) /\ Shape(act[a])
    BY <1>a, <1>b
  <2>3. ASSUME SameInHand(a), act'[a].pc = "stop" \/ (act[a].next # "idle" /\ act'[a].pc = act[a].next)
        PROVE  OnRow(act'[a], row'[act'[a].run].status)
    BY <2>1, <2>2, <2>3 DEF SameInHand, OnRow, Shape
  <2> QED BY <1>1, <1>c, <1>d, <2>3, SettleDropsFields
<1>2. ASSUME NEW a \in Actors, SettleStops(a) PROVE OnRows'
  <2>1. act[a].pc = "stop"
    BY <1>2 DEF SettleStops
  <2>2. OnRow(act[a], row'[act[a].run].status) /\ Shape(act[a])
    BY <1>a, <1>b
  <2>3. ASSUME SameInHand(a), act[a].next # "idle", act'[a].pc = act[a].next
        PROVE  OnRow(act'[a], row'[act'[a].run].status)
    BY <2>1, <2>2, <2>3 DEF SameInHand, OnRow, Shape
  <2> QED BY <1>2, <1>c, <1>d, <2>3, SettleStopsFields
<1>3. ASSUME NEW a \in Actors, RefreshReads(a) PROVE OnRows'
  <2>1. act[a].pc = "read" /\ act[a].op = "refresh" /\ row' = row
    BY <1>3 DEF RefreshReads, store
  <2>2. CASE WoundUp(a, "settle") /\ row[act[a].run].status \notin NotEnded
    <3>1. row'[act[a].run].status \in Gone
      BY <1>e, <2>1, <2>2, RowStatuses
    <3> QED BY <1>3, <1>c, <2>1, <2>2, <3>1, RefreshReadsFields DEF WoundUp, OnRow
  <2>3. CASE HasRead(a, "handles", act[a].next)
    <3>1. OnRow(act'[a], row'[act'[a].run].status)
      BY <1>a, <1>e, <2>1, <2>3 DEF HasRead, OnRow, Shape
    <3> QED BY <1>3, <1>c, <3>1, RefreshReadsFields
  <2> QED BY <1>3, <1>d, <2>2, <2>3, RefreshReadsFields
<1>4. ASSUME NEW a \in Actors, RefreshTakesHandles(a) PROVE OnRows'
  <2>1. act[a].pc = "handles"
    BY <1>4 DEF RefreshTakesHandles
  <2>2. OnRow(act'[a], row'[act'[a].run].status)
    BY <1>4, <1>a, <1>b, <2>1, RefreshTakesHandlesFields DEF SameInHand, OnRow, Shape
  <2> QED BY <1>4, <1>c, <2>2, RefreshTakesHandlesFields
<1>5. ASSUME NEW a \in Actors, RefreshPolls(a) PROVE OnRows'
  <2>1. act[a].pc = "poll"
    BY <1>5 DEF RefreshPolls
  <2>2. CASE act'[a].pc = "write" /\ act'[a].op = act[a].op /\ act'[a].run = act[a].run
             /\ act'[a].status = act[a].status /\ act'[a].pass = act[a].pass
             /\ act'[a].next = act[a].next
    <3>1. OnRow(act'[a], row'[act'[a].run].status)
      BY <1>a, <1>b, <2>1, <2>2 DEF OnRow, Shape
    <3> QED BY <1>5, <1>c, <3>1, RefreshPollsFields
  <2> QED BY <1>5, <1>d, <2>2, RefreshPollsFields
<1>6. ASSUME NEW a \in Actors, RefreshWrites(a) PROVE OnRows'
  <2>1. act[a].pc = "write" /\ act[a].run \in Runs
    BY <1>6 DEF RefreshWrites, TypeOK, ActTypeOK
  <2>2. CASE SaveIfStatus(act[a].run, act[a].status, act[a].new, act[a].tasks) /\ act[a].new \in Ended
             /\ WindsUpAt(a, "finish")
    <3>1. row'[act[a].run].status \in Gone
      BY <2>1, <2>2, SaveMoves DEF SaveIfStatus, Gone
    <3> QED BY <1>c, <2>2, <3>1, WindsUpFields DEF WoundUp, OnRow
  <2>3. CASE WindsUpAt(a, "idle") \/ WindsUpAt(a, "reread")
    BY <1>d, <2>3, WindsUpFields
  <2> QED BY <1>6, <2>2, <2>3 DEF RefreshWrites
<1>7. ASSUME NEW a \in Actors, RefreshRereads(a) PROVE OnRows'
  <2>1. CASE row[act[a].run].status = "NONE" /\ WindsUpAt(a, "settle")
    <3>1. row'[act[a].run].status \in Gone
      BY <1>7, <2>1 DEF RefreshRereads, store, Gone
    <3> QED BY <1>c, <2>1, <3>1, WindsUpFields DEF WoundUp, OnRow
  <2>2. CASE WindsUpAt(a, "idle")
    BY <1>d, <2>2, WindsUpFields
  <2> QED BY <1>7, <2>1, <2>2 DEF RefreshRereads
<1>8. ASSUME NEW a \in Actors, RefreshFinishes(a) \/ DeleteErases(a) \/ ActThrows(a) PROVE OnRows'
  BY <1>8, <1>d, WindsUpFields DEF RefreshFinishes, DeleteErases, ActThrows
<1>9. ASSUME NEW a \in Actors, CancelReads(a) PROVE OnRows'
  <2>1. act[a].pc = "read" /\ act[a].op = "cancel" /\ row' = row
    BY <1>9 DEF CancelReads, store
  <2>2. CASE HasRead(a, "settle", "write")
    <3>1. OnRow(act'[a], row'[act'[a].run].status)
      BY <1>a, <1>e, <2>1, <2>2 DEF HasRead, OnRow, Shape
    <3> QED BY <1>9, <1>c, <3>1, CancelReadsFields
  <2> QED BY <1>9, <1>d, <2>2, CancelReadsFields
<1>10. ASSUME NEW a \in Actors, CancelWrites(a) PROVE OnRows'
  <2>1. act[a].pc = "write" /\ act[a].op = "cancel" /\ Shape(act[a])
        /\ OnRow(act[a], row[act[a].run].status)
    BY <1>10, <1>a DEF CancelWrites
  <2>2. CASE WoundUp(a, "idle")
    BY <1>10, <1>d, <2>2, CancelWritesFields
  <2>3. CASE row[act[a].run].status # act[a].status /\ act'[a].pc = "read" /\ act'[a].op = "cancel"
             /\ act'[a].run = act[a].run /\ act'[a].status = "NONE" /\ act'[a].next = "idle"
    <3>1. row[act[a].run].status # "PENDING"
      BY <2>1, <2>3 DEF Shape, OnRow, NotEnded
    <3>2. row'[act[a].run].status # "PENDING"
      BY <2>1, <3>1, RowGoesOn
    <3>3. OnRow(act'[a], row'[act'[a].run].status)
      BY <2>3, <3>2 DEF OnRow
    <3> QED BY <1>10, <1>c, <3>3, CancelWritesFields
  <2> QED BY <1>10, <2>2, <2>3, CancelWritesFields
<1>11. ASSUME NEW a \in Actors, ReapReads(a) PROVE OnRows'
  <2>1. act[a].pc = "read" /\ act[a].op = "reap" /\ row' = row
    BY <1>11 DEF ReapReads, store
  <2>2. CASE \/ row[act[a].run].status = "PENDING" /\ HasRead(a, "write", "idle")
             \/ row[act[a].run].status # "PENDING" /\ HasRead(a, "settle", "write")
    <3>1. OnRow(act'[a], row'[act'[a].run].status)
      BY <1>a, <1>e, <2>1, <2>2 DEF HasRead, OnRow, Shape
    <3> QED BY <1>11, <1>c, <3>1, ReapReadsFields
  <2> QED BY <1>11, <1>d, <2>2, ReapReadsFields
<1>12. ASSUME NEW a \in Actors, ReapWrites(a) PROVE OnRows'
  <2>1. act[a].pc = "write" /\ act[a].op = "reap" /\ act[a].run \in Runs /\ act[a].new \in Ended
    BY <1>12, <1>a DEF ReapWrites, TypeOK, ActTypeOK, Shape
  <2>2. CASE SaveIfStatus(act[a].run, act[a].status, act[a].new, act[a].tasks) /\ WindsUpAt(a, "settle")
    <3>1. row'[act[a].run].status \in Gone
      BY <2>1, <2>2, SaveMoves DEF SaveIfStatus, Gone
    <3> QED BY <1>c, <2>2, <3>1, WindsUpFields DEF WoundUp, OnRow
  <2>3. CASE WindsUpAt(a, "idle")
    BY <1>d, <2>3, WindsUpFields
  <2> QED BY <1>12, <2>2, <2>3 DEF ReapWrites
<1>13. ASSUME NEW s \in Runs, NEW a \in Actors, Requests(a, s) \/ Reconciles(a, s) \/ ReapFinds(a, s)
       PROVE  OnRows'
  <2>1. PICK op \in {"refresh", "cancel", "delete", "reap"} : Starts(a, op, s)
    BY <1>13 DEF Requests, Reconciles, ReapFinds
  <2>2. OnRow(act'[a], row'[act'[a].run].status)
    BY <2>1, StartsFields DEF OnRow
  <2> QED BY <1>c, <2>1, <2>2, StartsFields
<1>14. ASSUME UNCHANGED act PROVE OnRows'
  BY <1>14, <1>b DEF OnRows
<1>15. ASSUME ProcessEnds PROVE OnRows'
  BY <1>15, IdleFields DEF ProcessEnds, OnRows, OnRow
<1> QED
  BY <1>1, <1>2, <1>3, <1>4, <1>5, <1>6, <1>7, <1>8, <1>9, <1>10, <1>11, <1>12, <1>13, <1>14, <1>15,
     ActSteps
     DEF Continues, Refresh, Cancel, Reap

-----------------------------------------------------------------------------
(* What gives a permit back *)

\* A run's permit comes back by its submission, or by a thread that settles or ends the run.
LEMMA HolderSteps ==
  ASSUME TypeOK, [Next]_vars, NEW r \in Runs, r \in holders, r \notin holders'
  PROVE  \/ (Register(r) /\ (sub[r].stored = "threw" \/ SubTells(r)))
         \/ SubmissionSettles(r) \/ FirstSaveThrows(r) \/ ProcessEnds
         \/ \E a \in Actors : act[a].run = r /\ (SettleDrops(a) \/ RefreshFinishes(a))
<1>a. UNCHANGED slots => r \in holders'
  BY DEF slots
<1>b. \A s : s # r => ~ReleasePermit(s)
  BY DEF ReleasePermit
<1>1. ASSUME NEW s \in Runs, Register(s)
      PROVE  s = r /\ (sub[r].stored = "threw" \/ SubTells(r))
  <2>1. CASE sub[s].stored = "threw"
    BY <1>1, <1>a, <1>b, <2>1 DEF Register
  <2>2. CASE sub[s].stored = "no"
    BY <1>1, <1>a, <2>2 DEF Register
  <2>3. CASE sub[s].stored = "yes"
    BY <1>1, <1>a, <1>b, <2>3 DEF Register, SubTells
  <2>4. sub[s] \in Submissions
    BY DEF TypeOK
  <2> QED BY <2>1, <2>2, <2>3, <2>4 DEF Submissions
<1>2. ASSUME NEW s \in Runs, SubmissionSettles(s) \/ FirstSaveThrows(s) PROVE s = r
  BY <1>2, <1>b DEF SubmissionSettles, FirstSaveThrows
<1>3. ASSUME NEW a \in Actors, SettleDrops(a) \/ RefreshFinishes(a) PROVE act[a].run = r
  BY <1>3, <1>b DEF SettleDrops, RefreshFinishes
<1>4. ASSUME NEW s \in Runs,
             \/ FirstSave(s) \/ MarkStrandedAsFailed(s) \/ SubmitThrows(s) \/ AllSubmitted(s)
             \/ StoreSubmission(s) \/ SubmissionStops(s) \/ StoreSubmissionThrows(s)
             \/ \E k \in Tasks : SubmitTask(s, k) \/ SubmitTaskFails(s, k) \/ Worker(s, k)
             \/ Tick(s) \/ RecoverOrphan(s) \/ ShutdownStops(s)
      PROVE  UNCHANGED slots
  BY <1>4 DEF FirstSave, MarkStrandedAsFailed, SubmitThrows, AllSubmitted, StoreSubmission,
     SubmissionStops, SubmitTask, SubmitTaskFails, StoreSubmissionThrows, Worker, WorkerStarts,
     WorkerNeverStarts, WorkerProduces, WorkerReturns, WorkerPasses, WorkerFallsShort, WorkerThrows,
     SetWorker, Tick, RecoverOrphan, ShutdownStops
<1>5. ASSUME NEW s \in Runs, NEW kind, Create(s, kind) PROVE r \in holders'
  BY <1>5 DEF Create
<1>6. ASSUME NEW s \in Runs, NEW a \in Actors, Requests(a, s) \/ Reconciles(a, s) \/ ReapFinds(a, s)
      PROVE  UNCHANGED slots
  BY <1>6 DEF Requests, Reconciles, ReapFinds, Starts
<1>7. ASSUME NEW a \in Actors, Continues(a) \/ ActThrows(a), ~SettleDrops(a), ~RefreshFinishes(a)
      PROVE  UNCHANGED slots
  BY <1>7 DEF Continues, ActThrows, SettleStops, Refresh, RefreshReads, RefreshTakesHandles,
     RefreshPolls, RefreshWrites, RefreshRereads, Cancel, CancelReads, CancelWrites, DeleteErases,
     Reap, ReapReads, ReapWrites
<1>8. ASSUME Ready \/ ShutdownBegins \/ ShutdownReads \/ ShutdownSaves \/ UNCHANGED vars
      PROVE  UNCHANGED slots
  BY <1>8 DEF Ready, ShutdownBegins, ShutdownReads, ShutdownSaves, vars, slots
<1> QED
  BY <1>a, <1>1, <1>2, <1>3, <1>4, <1>5, <1>6, <1>7, <1>8
     DEF Next, RunNext, Submission, Crash, Shutdown, ShutdownExits, Actors

-----------------------------------------------------------------------------
(* What a submission knows of its row and of its permit *)

SubFits(r) ==
  /\ sub[r].pc = "save" => r \in holders
  /\ sub[r].pc \in {"submit", "store"} => row[r].status \in Gone \cup {FirstStatus(sub[r].kind)}
  /\ sub[r].pc = "register" /\ sub[r].stored = "no" => row[r].status \in Gone
  /\ sub[r].pc \in {"settle", "stop"} => row[r].status \in Gone

SubFit == \A r \in Runs : SubFits(r)

LEMMA SubFitSteps ==
  ASSUME TypeOK, StageInv, SubFit, [Next]_vars
  PROVE  SubFit'
<1> SUFFICES ASSUME NEW r \in Runs PROVE SubFits(r)'
  BY DEF SubFit
<1>a. SubFits(r) /\ sub[r] \in Submissions
  BY DEF SubFit, TypeOK
<1>b. \A kind : Submitted(kind).pc = "done"
  BY DEF Submitted, NotSubmitted
<1>c. sub'[r].pc \in {"none", "stranded", "done"} => SubFits(r)'
  BY DEF SubFits
<1>d. ~Unborn(r) /\ row[r].status \in Gone => row'[r].status \in Gone
  BY GoneStays
<1>1. CASE sub'[r] = sub[r] /\ ~StoreSubmission(r)
  <2>1. ASSUME sub[r].pc = "save" PROVE r \in holders'
    <3>1. \A a \in Actors : act[a].pc # "idle" => act[a].run # r
      BY <2>1 DEF StageInv, BornInv, Unborn, Unheard
    <3>2. ~Register(r) /\ ~SubmissionSettles(r)
      BY <2>1 DEF Register, SubmissionSettles
    <3>3. FirstSaveThrows(r) => sub'[r].pc = "stranded"
      BY <1>a DEF FirstSaveThrows, TypeOK, Submissions
    <3>4. ~(\E a \in Actors : act[a].run = r /\ (SettleDrops(a) \/ RefreshFinishes(a)))
      BY <3>1 DEF SettleDrops, RefreshFinishes
    <3>5. ProcessEnds => sub'[r].pc = "done"
      BY <2>1, <1>b DEF ProcessEnds
    <3> QED BY <1>1, <1>a, <2>1, <3>2, <3>3, <3>4, <3>5, HolderSteps DEF SubFits
  <2>2. ASSUME sub[r].pc \in {"submit", "store"}
        PROVE  row'[r].status \in Gone \cup {FirstStatus(sub[r].kind)}
    <3>1. ~Unborn(r) /\ sub[r].pc # "save"
      BY <2>2 DEF Unborn
    <3>2. RowMoves(r)
      BY RowSteps DEF StageInv
    <3>3. SameRow(r) \/ Erased(r) \/ PlainlySaved(r) \/ (row[r].status \in NotEnded /\ row'[r].status \in Ended \cup {row[r].status})
      BY <1>1, <3>1, <3>2 DEF RowMoves, FirstStored, Onward
    <3> QED BY <1>a, <2>2, <3>3 DEF SubFits, SameRow, Erased, PlainlySaved, NoRow, Gone, Ended
  <2>3. sub[r].pc \in {"register", "settle", "stop"} => ~Unborn(r)
    BY DEF Unborn
  <2> QED BY <1>1, <1>a, <1>d, <2>1, <2>2, <2>3 DEF SubFits
<1>2. CASE ProcessEnds
  <2>1. sub'[r].pc \in {"none", "done"}
    BY <1>2, <1>b DEF ProcessEnds
  <2> QED BY <1>c, <2>1
<1>3. ASSUME NEW kind, Create(r, kind) PROVE SubFits(r)'
  <2>1. sub'[r].pc = "save" /\ r \in holders'
    BY <1>3, <1>a DEF Create, TypeOK, Submissions
  <2> QED BY <2>1 DEF SubFits
<1>4. CASE FirstSave(r)
  <2>1. sub'[r].pc = "submit" /\ sub'[r].kind = sub[r].kind
    BY <1>4, <1>a DEF FirstSave, TypeOK, Submissions
  <2>2. row'[r].status = FirstStatus(sub[r].kind)
    BY <1>4, SaveMoves DEF FirstSave
  <2> QED BY <2>1, <2>2 DEF SubFits
<1>5. CASE SubmitThrows(r) \/ AllSubmitted(r) \/ \E k \in Tasks : SubmitTask(r, k) \/ SubmitTaskFails(r, k)
  <2>1. sub'[r].pc \in {"submit", "store"} /\ sub'[r].kind = sub[r].kind /\ sub[r].pc = "submit" /\ row' = row
    BY <1>5, <1>a DEF SubmitThrows, AllSubmitted, SubmitTask, SubmitTaskFails, TypeOK, Submissions, store
  <2> QED BY <1>a, <2>1 DEF SubFits
<1>6. CASE StoreSubmission(r)
  <2>1. CASE sub' = [sub EXCEPT ![r].pc = "register", ![r].stored = "yes"]
    <3>1. sub'[r].pc = "register" /\ sub'[r].stored = "yes"
      BY <1>a, <2>1 DEF TypeOK, Submissions
    <3> QED BY <3>1 DEF SubFits
  <2>2. CASE /\ row[r].status # FirstStatus(sub[r].kind) /\ UNCHANGED store
             /\ sub' = [sub EXCEPT ![r].pc = "register", ![r].stored = "no"]
    <3>1. sub'[r].pc = "register" /\ row' = row /\ row[r].status \in Gone
      BY <1>6, <1>a, <2>2 DEF TypeOK, Submissions, StoreSubmission, SubFits, store
    <3> QED BY <3>1 DEF SubFits
  <2> QED BY <1>6, <2>1, <2>2 DEF StoreSubmission
<1>7. CASE Register(r)
  <2>1. CASE sub[r].stored = "no" /\ sub' = [sub EXCEPT ![r].pc = "settle"]
    <3>1. sub'[r].pc = "settle" /\ row' = row /\ row[r].status \in Gone
      BY <1>7, <1>a, <2>1 DEF TypeOK, Submissions, Register, SubFits, store
    <3> QED BY <3>1 DEF SubFits
  <2>2. CASE sub' = [sub EXCEPT ![r] = Submitted(@.kind)]
    <3>1. sub'[r].pc = "done"
      BY <1>b, <2>2 DEF TypeOK
    <3> QED BY <1>c, <3>1
  <2> QED BY <1>7, <2>1, <2>2 DEF Register
<1>8. CASE SubmissionSettles(r)
  <2>1. [sub[r] EXCEPT !.pc = "stop", !.got = handles[r]].pc = "stop"
    BY <1>a DEF Submissions
  <2>2. sub'[r].pc \in {"stop", "done"} /\ row' = row /\ row[r].status \in Gone
    BY <1>8, <1>a, <1>b, <2>1 DEF SubmissionSettles, TypeOK, SubFits, store
  <2> QED BY <1>c, <2>2 DEF SubFits
<1>9. CASE SubmissionStops(r) \/ MarkStrandedAsFailed(r)
  <2>1. sub'[r].pc = "done"
    BY <1>9, <1>b DEF SubmissionStops, MarkStrandedAsFailed, TypeOK
  <2> QED BY <1>c, <2>1
<1>10. CASE FirstSaveThrows(r)
  <2>1. sub'[r].pc = "stranded"
    BY <1>10, <1>a DEF FirstSaveThrows, TypeOK, Submissions
  <2> QED BY <1>c, <2>1
<1>11. CASE StoreSubmissionThrows(r)
  <2>1. sub'[r].pc = "register" /\ sub'[r].stored = "threw"
    BY <1>11, <1>a DEF StoreSubmissionThrows, TypeOK, Submissions
  <2> QED BY <2>1 DEF SubFits
<1> QED
  BY <1>1, <1>2, <1>3, <1>4, <1>5, <1>6, <1>7, <1>8, <1>9, <1>10, <1>11, SubSteps DEF Submission
-----------------------------------------------------------------------------
(* A run that goes on holds its permit *)

\* Thread t will end run r without its permit, or find that another did.
Ends(t, r) ==
  /\ t.pc # "idle" /\ t.run = r
  /\ \/ t.op = "delete"
     \/ t.op = "cancel" /\ (t.pc # "read" \/ t.pass = 2)
     \/ t.op = "reap" /\ t.status # "PENDING" /\ (t.next = "write" \/ t.pc = "write")

HeldInv ==
  up /\ ~Met("throw") =>
    \A r \in Runs : row[r].status \in NotEnded => r \in holders \/ \E a \in Actors : Ends(act[a], r)

FitInv == SubFit /\ ServingInv /\ OnRows

\* A thread that settles a run still going on is ending it, and goes on to end it.
LEMMA SettlingEnds ==
  ASSUME TypeOK, StageInv, FitInv, NEW a \in Actors, SettleDrops(a) \/ SettleStops(a),
         row[act[a].run].status \in NotEnded
  PROVE  Ends(act'[a], act[a].run)
<1>a. OnRow(act[a], row[act[a].run].status) /\ Shape(act[a])
  BY DEF FitInv, OnRows, StageInv, Shapes
<1>b. act[a].pc \in {"settle", "stop"} /\ act[a].run \in Runs
  BY DEF SettleDrops, SettleStops, TypeOK, ActTypeOK
<1>c. row[act[a].run].status \notin Gone
  BY <1>b, RowStatuses
<1>1. /\ act[a].next # "idle"
      /\ \/ act[a].op \in {"delete", "cancel"}
         \/ act[a].op = "reap" /\ act[a].status # "PENDING" /\ act[a].next = "write"
  BY <1>a, <1>b, <1>c DEF OnRow, Shape
<1>2. SameInHand(a) /\ act'[a].pc \in {"stop", act[a].next}
  BY <1>1, SettleDropsFields, SettleStopsFields
<1>3. act'[a].pc \notin {"idle", "read"}
  BY <1>a, <1>b, <1>1, <1>2 DEF Shape
<1> QED BY <1>1, <1>2, <1>3 DEF SameInHand, Ends

\* A thread that is ending a run goes on until it has ended it, or a call of it throws.
LEMMA EndingGoesOn ==
  ASSUME TypeOK, StageInv, FitInv, [Next]_vars, up', NEW a \in Actors, NEW r \in Runs,
         Ends(act[a], r), row[r].status \in NotEnded, row'[r].status \in NotEnded, ~FaultOf("throw")
  PROVE  Ends(act'[a], r)
<1>a. OnRow(act[a], row[r].status) /\ Shape(act[a]) /\ act[a].run = r /\ act[a].pc # "idle"
  BY DEF FitInv, OnRows, StageInv, Shapes, Ends
<1>b. row[r].status \in {"PENDING", "RUNNING"}
  <2>1. Serving
    BY <1>a DEF FitInv, ServingInv
  <2> QED BY <2>1 DEF FitInv, ServingInv, NotEnded
<1>c. act'[a] = act[a] => Ends(act'[a], r)
  OBVIOUS
<1>1. ASSUME NEW b \in Actors, Continues(b) \/ ActThrows(b), b # a PROVE act'[a] = act[a]
  BY <1>1 DEF Continues, ActThrows, SettleDrops, SettleStops, Refresh, RefreshReads,
     RefreshTakesHandles, RefreshPolls, RefreshWrites, RefreshRereads, RefreshFinishes, Cancel,
     CancelReads, CancelWrites, DeleteErases, Reap, ReapReads, ReapWrites, GoesTo, WindsUpAt,
     TypeOK, ActTypeOK
<1>2. CASE SettleDrops(a) \/ SettleStops(a)
  BY <1>a, <1>2, SettlingEnds
<1>3. ASSUME Refresh(a) PROVE FALSE
  BY <1>3, <1>a DEF Refresh, RefreshReads, RefreshTakesHandles, RefreshPolls, RefreshWrites,
     RefreshRereads, RefreshFinishes, Ends, Shape
<1>4. CASE CancelReads(a)
  <2>1. act[a].op = "cancel"
    BY <1>4 DEF CancelReads
  <2> QED BY <1>a, <1>b, <1>4, <2>1, CancelReadsFields DEF HasRead, Ends
<1>5. CASE CancelWrites(a)
  <2>1. act[a].pc = "write" /\ act[a].op = "cancel"
    BY <1>5 DEF CancelWrites
  <2>2. ~SaveIfStatus(r, act[a].status, act[a].new, act[a].tasks)
    BY <1>a, <2>1, SaveMoves DEF SaveIfStatus, Shape, Ended, NotEnded
  <2>3. /\ row[r].status # act[a].status
        /\ IF act[a].pass = 1
           THEN act' = [act EXCEPT ![a] = [Idle EXCEPT !.pc = "read", !.op = "cancel", !.run = r,
                                                       !.pass = 2]]
           ELSE WindsUpAt(a, "idle")
    BY <1>a, <1>5, <2>2 DEF CancelWrites
  <2>4. act[a].pass = 1
    <3>1. act[a].pass \in {1, 2}
      BY DEF TypeOK, ActTypeOK, Threads
    <3>2. act[a].status \in NotEnded
      BY <1>a, <2>1 DEF Shape
    <3> QED BY <1>a, <1>b, <2>3, <3>1, <3>2 DEF OnRow, NotEnded
  <2>5. act'[a].pc = "read" /\ act'[a].op = "cancel" /\ act'[a].run = r /\ act'[a].pass = 2
    BY <2>3, <2>4 DEF TypeOK, ActTypeOK, Idle
  <2> QED BY <2>5 DEF Ends
<1>6. ASSUME DeleteErases(a) PROVE FALSE
  BY <1>6, <1>a DEF DeleteErases, NoRow, TypeOK, StoreTypeOK, NotEnded
<1>7. ASSUME ReapReads(a) PROVE FALSE
  BY <1>7, <1>a DEF ReapReads, Ends, Shape
<1>8. ASSUME ReapWrites(a) PROVE FALSE
  <2>1. act[a].pc = "write" /\ act[a].op = "reap" /\ act[a].status \in NotEnded
    BY <1>8, <1>a DEF ReapWrites, Shape
  <2>2. ~SaveIfStatus(r, act[a].status, act[a].new, act[a].tasks)
    BY <1>a, <2>1, SaveMoves DEF SaveIfStatus, Shape, Ended, NotEnded
  <2>3. row[r].status # act[a].status
    BY <1>a, <1>8, <2>2 DEF ReapWrites
  <2> QED BY <1>a, <1>b, <2>1, <2>3 DEF OnRow, Ends, NotEnded
<1>9. ASSUME NEW s \in Runs, NEW b \in Actors, Requests(b, s) \/ Reconciles(b, s) \/ ReapFinds(b, s)
      PROVE  act'[a] = act[a]
  BY <1>9, <1>a DEF Requests, Reconciles, ReapFinds, Starts, TypeOK, ActTypeOK
<1>10. ~ActThrows(a)
  BY DEF ActThrows
<1>11. ~ProcessEnds
  BY DEF ProcessEnds
<1> QED BY <1>c, <1>1, <1>2, <1>3, <1>4, <1>5, <1>6, <1>7, <1>8, <1>9, <1>10, <1>11, ActSteps
        DEF Continues, Cancel, Reap

LEMMA HeldSteps ==
  ASSUME TypeOK, StageInv, FitInv, FaultsInv, TellInv, HeldInv, [Next]_vars
  PROVE  HeldInv'
<1> SUFFICES ASSUME up', ~Met("throw")', NEW r \in Runs, row'[r].status \in NotEnded
             PROVE  r \in holders' \/ \E a \in Actors : Ends(act'[a], r)
  BY DEF HeldInv
<1>a. ~Met("throw") /\ ~FaultOf("throw")
  BY FaultSteps, FaultIsMet
<1>b. up
  <2>1. ~Ready
    BY DEF Ready, store
  <2> QED BY <2>1, UpSteps
<1>c. ~ProcessEnds
  BY DEF ProcessEnds
<1>1. CASE r \in holders
  <2>1. ASSUME r \notin holders', Register(r), sub[r].stored = "threw" PROVE FALSE
    BY <1>a, <2>1 DEF Register, FaultsInv
  <2>2. ASSUME r \notin holders', Register(r), SubTells(r) PROVE FALSE
    <3>1. row' = row
      BY <2>2 DEF Register, store
    <3> QED BY <2>2, <3>1 DEF TellInv, NobodyTells
  <2>3. ASSUME SubmissionSettles(r) PROVE FALSE
    <3>1. row' = row /\ row[r].status \in Gone
      BY <2>3 DEF SubmissionSettles, store, FitInv, SubFit, SubFits
    <3> QED BY <3>1, RowStatuses
  <2>4. ~FirstSaveThrows(r)
    BY <1>a DEF FirstSaveThrows
  <2>5. ASSUME NEW a \in Actors, act[a].run = r, SettleDrops(a) PROVE Ends(act'[a], r)
    <3>1. row' = row
      BY <2>5 DEF SettleDrops, store
    <3> QED BY <2>5, <3>1, SettlingEnds
  <2>6. ASSUME NEW a \in Actors, act[a].run = r, RefreshFinishes(a) PROVE FALSE
    <3>1. row' = row /\ act[a].pc = "finish"
      BY <2>6 DEF RefreshFinishes, store
    <3>2. act[a].op = "refresh" /\ OnRow(act[a], row[r].status)
      BY <2>6, <3>1 DEF StageInv, Shapes, Shape, FitInv, OnRows
    <3> QED BY <3>1, <3>2, RowStatuses DEF OnRow
  <2> QED BY <1>c, <1>1, <2>1, <2>2, <2>3, <2>4, <2>5, <2>6, HolderSteps
<1>2. CASE r \notin holders
  <2>1. RowMoves(r)
    BY RowSteps DEF StageInv
  <2>2. ~FirstStored(r)
    BY <1>2 DEF FirstStored, FitInv, SubFit, SubFits
  <2>3. row[r].status \in NotEnded
    BY <2>1, <2>2 DEF RowMoves, SameRow, Onward, Erased, PlainlySaved, NoRow, NotEnded
  <2>4. PICK a \in Actors : Ends(act[a], r)
    BY <1>a, <1>b, <1>2, <2>3 DEF HeldInv
  <2> QED BY <1>a, <2>3, <2>4, EndingGoesOn
<1> QED BY <1>1, <1>2

LEMMA FitSteps == TypeOK /\ StageInv /\ FitInv /\ [Next]_vars => FitInv'
BY SubFitSteps, ServingSteps, OnRowSteps DEF FitInv

LEMMA FitInvariant == Spec => []FitInv
<1>1. Init => FitInv
  <2> SUFFICES ASSUME Init PROVE FitInv
    OBVIOUS
  <2>1. SubFit
    BY DEF Init, SubFit, SubFits, Submitted, NotSubmitted
  <2>2. ServingInv
    BY IdleFields DEF Init, ServingInv, Serving, NotDown
  <2>3. OnRows
    BY IdleFields DEF Init, OnRows, OnRow
  <2> QED BY <2>1, <2>2, <2>3 DEF FitInv
<1> QED BY <1>1, FitSteps, TypeCorrect, StageInvariant, PTL DEF Spec

\* permitHolders: a run that goes on holds its permit, unless a cancel, a delete or the reaper
\* is about to end it; the endings that release a permit and then fail to store are no exception.
THEOREM PermitIsHeld == Spec => []PermitHeldWhileGoing
<1>1. Init => HeldInv
  BY DEF Init, HeldInv
<1>2. HeldInv => PermitHeldWhileGoing
  BY DEF HeldInv, PermitHeldWhileGoing, BeingEnded, Ends
<1>3. TypeOK /\ StageInv /\ FitInv /\ (FaultsInv /\ TellInv) /\ HeldInv /\ [Next]_vars => HeldInv'
  BY HeldSteps
<1> QED BY <1>1, <1>2, <1>3, TypeCorrect, StageInvariant, FitInvariant, ToldInvariant, PTL DEF Spec

-----------------------------------------------------------------------------
(* Workers that run on *)

\* The worker has not ended and nobody has asked it to.
Loose(r, k) == worker[r][k] \in Live /\ k \notin stop[r]

\* A worker comes to run on only by being submitted.
LEMMA LooseSteps ==
  ASSUME TypeOK, [Next]_vars, NEW r \in Runs, NEW k \in Tasks, Loose(r, k)'
  PROVE  Loose(r, k) \/ SubmitTask(r, k)
<1>a. /\ worker \in [Runs -> [Tasks -> WorkerStatus]] /\ stop \in [Runs -> SUBSET Tasks]
      /\ worker'[r][k] \in Live /\ k \notin stop'[r]
  BY DEF TypeOK, BackendTypeOK, Loose
<1>b. worker'[r][k] = worker[r][k] /\ stop[r] \subseteq stop'[r] => Loose(r, k)
  BY <1>a DEF Loose
<1>1. ASSUME NEW s \in Runs, NEW l \in Tasks, SubmitTask(s, l) PROVE Loose(r, k) \/ SubmitTask(r, k)
  <2>1. (s = r /\ l = k) \/ worker'[r][k] = worker[r][k]
    BY <1>1, <1>a DEF SubmitTask
  <2> QED BY <1>1, <1>b, <2>1 DEF SubmitTask
<1>2. ASSUME NEW s \in Runs, NEW l \in Tasks, Worker(s, l) PROVE Loose(r, k)
  <2>1. ASSUME NEW from, NEW to, SetWorker(s, l, from, to), to \notin Live \/ from \in Live
        PROVE  Loose(r, k)
    <3>1. CASE s = r /\ l = k
      <4>1. worker'[r][k] = to /\ worker[r][k] = from /\ stop' = stop
        BY <1>a, <2>1, <3>1 DEF SetWorker
      <4> QED BY <1>a, <2>1, <4>1 DEF Loose
    <3>2. CASE ~(s = r /\ l = k)
      <4>1. worker'[r][k] = worker[r][k] /\ stop' = stop
        BY <1>a, <2>1, <3>2 DEF SetWorker
      <4> QED BY <1>b, <4>1
    <3> QED BY <3>1, <3>2
  <2>2. CASE WorkerProduces(s, l)
    BY <1>b, <2>2 DEF WorkerProduces
  <2> QED BY <1>2, <2>1, <2>2 DEF Worker, WorkerStarts, WorkerNeverStarts, WorkerReturns, WorkerPasses,
     WorkerFallsShort, WorkerThrows, Live
<1>3. ASSUME NEW s \in Runs, NEW more, worker' = worker, stop' = [stop EXCEPT ![s] = @ \cup more]
      PROVE  Loose(r, k)
  BY <1>3, <1>a, <1>b
<1>4. ASSUME NEW s \in Runs, SubmitThrows(s) \/ SubmissionStops(s) \/ ShutdownStops(s) PROVE Loose(r, k)
  BY <1>3, <1>4 DEF SubmitThrows, SubmissionStops, ShutdownStops
<1>5. ASSUME NEW a \in Actors, SettleStops(a) PROVE Loose(r, k)
  <2>1. act[a].run \in Runs
    BY <1>5 DEF SettleStops, TypeOK, ActTypeOK
  <2> QED BY <1>3, <1>5, <2>1 DEF SettleStops
<1>6. ASSUME NEW a \in Actors, RefreshPolls(a) PROVE Loose(r, k)
  <2>1. act[a].run \in Runs
    BY <1>6 DEF RefreshPolls, TypeOK, ActTypeOK
  <2>2. worker' = worker /\ \E more : stop' = [stop EXCEPT ![act[a].run] = @ \cup more]
    BY <1>6 DEF RefreshPolls
  <2> QED BY <1>3, <2>1, <2>2
<1>7. ASSUME ProcessEnds PROVE FALSE
  BY <1>7, <1>a DEF ProcessEnds, NoTasks, Live
<1>c. UNCHANGED <<worker, stop>> => Loose(r, k)
  BY <1>b
<1>8. ASSUME NEW s \in Runs,
             \/ Create(s, "plain") \/ Create(s, "scenario")
             \/ FirstSave(s) \/ MarkStrandedAsFailed(s) \/ AllSubmitted(s) \/ StoreSubmission(s)
             \/ Register(s) \/ SubmissionSettles(s) \/ FirstSaveThrows(s) \/ StoreSubmissionThrows(s)
             \/ Tick(s) \/ RecoverOrphan(s) \/ \E l \in Tasks : SubmitTaskFails(s, l)
      PROVE  UNCHANGED <<worker, stop>>
  BY <1>8 DEF Create, FirstSave, MarkStrandedAsFailed, AllSubmitted, StoreSubmission, Register,
     SubmissionSettles, FirstSaveThrows, StoreSubmissionThrows, Tick, RecoverOrphan,
     SubmitTaskFails, backend
<1>9. ASSUME NEW s \in Runs, NEW a \in Actors, Requests(a, s) \/ Reconciles(a, s) \/ ReapFinds(a, s)
      PROVE  UNCHANGED <<worker, stop>>
  BY <1>9 DEF Requests, Reconciles, ReapFinds, Starts, backend
<1>10. ASSUME NEW a \in Actors, Continues(a) \/ ActThrows(a), ~SettleStops(a), ~RefreshPolls(a)
       PROVE  UNCHANGED <<worker, stop>>
  BY <1>10 DEF Continues, ActThrows, SettleDrops, Refresh, RefreshReads, RefreshTakesHandles,
     RefreshWrites, RefreshRereads, RefreshFinishes, Cancel, CancelReads, CancelWrites, DeleteErases,
     Reap, ReapReads, ReapWrites, backend
<1>11. ASSUME Ready \/ ShutdownBegins \/ ShutdownReads \/ ShutdownSaves \/ UNCHANGED vars
       PROVE  UNCHANGED <<worker, stop>>
  BY <1>11 DEF Ready, ShutdownBegins, ShutdownReads, ShutdownSaves, vars, backend
<1> QED
  BY <1>c, <1>1, <1>2, <1>4, <1>5, <1>6, <1>7, <1>8, <1>9, <1>10, <1>11
     DEF Next, RunNext, Submission, Crash, Shutdown, ShutdownExits, Actors

\* A handle is dropped with the run's others, by who takes them to stop the workers or
\* by a poll that has seen every task end.
LEMMA HandleLost ==
  ASSUME TypeOK, [Next]_vars, NEW r \in Runs, NEW k \in handles[r], k \notin handles'[r]
  PROVE  \/ Register(r) \/ SubmissionSettles(r) \/ ProcessEnds
         \/ \E a \in Actors : act[a].run = r /\ (SettleDrops(a) \/ RefreshFinishes(a))
<1>a. handles \in [Runs -> SUBSET Tasks]
  BY DEF TypeOK
<1>1. ASSUME NEW s \in Runs, Register(s) \/ SubmissionSettles(s) PROVE s = r
  BY <1>1, <1>a DEF Register, SubmissionSettles
<1>2. ASSUME NEW a \in Actors, SettleDrops(a) \/ RefreshFinishes(a) PROVE act[a].run = r
  BY <1>2, <1>a DEF SettleDrops, RefreshFinishes
<1>3. ASSUME NEW s \in Runs,
             \/ FirstSave(s) \/ MarkStrandedAsFailed(s) \/ SubmitThrows(s) \/ AllSubmitted(s)
             \/ StoreSubmission(s) \/ SubmissionStops(s) \/ FirstSaveThrows(s) \/ StoreSubmissionThrows(s)
             \/ \E l \in Tasks : SubmitTask(s, l) \/ SubmitTaskFails(s, l) \/ Worker(s, l)
             \/ Create(s, "plain") \/ Create(s, "scenario") \/ Tick(s) \/ ShutdownStops(s)
             \/ RecoverOrphan(s)
      PROVE  UNCHANGED handles
  BY <1>3 DEF FirstSave, MarkStrandedAsFailed, SubmitThrows, AllSubmitted, StoreSubmission,
     SubmissionStops, FirstSaveThrows, StoreSubmissionThrows, SubmitTask, SubmitTaskFails, Create,
     Tick, ShutdownStops, RecoverOrphan, Worker, WorkerStarts, WorkerNeverStarts, WorkerProduces,
     WorkerReturns, WorkerPasses, WorkerFallsShort, WorkerThrows, SetWorker
<1>4. ASSUME NEW a \in Actors, Continues(a) \/ ActThrows(a), ~SettleDrops(a), ~RefreshFinishes(a)
      PROVE  UNCHANGED handles
  BY <1>4 DEF Continues, ActThrows, SettleStops, Refresh, RefreshReads, RefreshTakesHandles,
     RefreshPolls, RefreshWrites, RefreshRereads, Cancel, CancelReads, CancelWrites, DeleteErases,
     Reap, ReapReads, ReapWrites
<1>5. ASSUME NEW s \in Runs, NEW a \in Actors, Requests(a, s) \/ Reconciles(a, s) \/ ReapFinds(a, s)
      PROVE  UNCHANGED handles
  BY <1>5 DEF Requests, Reconciles, ReapFinds, Starts
<1>6. ASSUME Ready \/ ShutdownBegins \/ ShutdownReads \/ ShutdownSaves \/ UNCHANGED vars
      PROVE  UNCHANGED handles
  BY <1>6 DEF Ready, ShutdownBegins, ShutdownReads, ShutdownSaves, vars
<1> QED
  BY <1>1, <1>2, <1>3, <1>4, <1>5, <1>6
     DEF Next, RunNext, Submission, Crash, Shutdown, ShutdownExits, Actors

\* What a run still going on has as its tasks: none at its first save, then what its submission
\* or a poll stored.
LEMMA RowTasksSteps ==
  ASSUME TypeOK, StageInv, [Next]_vars, NEW r \in Runs, row'[r].status \in NotEnded
  PROVE  \/ row'[r] = row[r]
         \/ row'[r].tasks = NoTasks
         \/ StoreSubmission(r) /\ row'[r].tasks = sub[r].tasks
         \/ \E a \in Actors : /\ RefreshWrites(a) /\ act[a].run = r /\ row'[r].tasks = act[a].tasks
                              /\ row[r].status \in NotEnded
<1> DEFINE Goal == \/ row'[r] = row[r]
                   \/ row'[r].tasks = NoTasks
                   \/ StoreSubmission(r) /\ row'[r].tasks = sub[r].tasks
                   \/ \E a \in Actors : /\ RefreshWrites(a) /\ act[a].run = r
                                        /\ row'[r].tasks = act[a].tasks /\ row[r].status \in NotEnded
<1>a. ASSUME NEW s \in Runs, NEW status, NEW ts, Save(s, status, ts), s # r \/ status \notin NotEnded PROVE Goal
  BY <1>a, SaveMoves DEF SameRow
<1>b. UNCHANGED store => Goal
  BY DEF store
<1>1. ASSUME NEW s \in Runs, FirstSave(s) \/ FirstSaveThrows(s) \/ MarkStrandedAsFailed(s) PROVE Goal
  <2>1. UNCHANGED store \/ \E status : Save(s, status, NoTasks)
    BY <1>1 DEF FirstSave, FirstSaveThrows, MarkStrandedAsFailed
  <2> QED BY <1>a, <1>b, <2>1, SaveMoves
<1>2. ASSUME NEW s \in Runs, StoreSubmission(s) PROVE Goal
  <2>1. UNCHANGED store \/ \E status : Save(s, status, sub[s].tasks)
    BY <1>2 DEF StoreSubmission, SaveIfStatus
  <2> QED BY <1>2, <1>a, <1>b, <2>1, SaveMoves
<1>3. ASSUME NEW a \in Actors, RefreshWrites(a) PROVE Goal
  <2>1. act[a].run \in Runs /\ act[a].status \in NotEnded
    BY <1>3 DEF RefreshWrites, TypeOK, ActTypeOK, StageInv, Shapes, Shape
  <2>2. UNCHANGED store \/ SaveIfStatus(act[a].run, act[a].status, act[a].new, act[a].tasks)
    BY <1>3 DEF RefreshWrites
  <2> QED BY <1>3, <1>a, <1>b, <2>1, <2>2, SaveMoves DEF SaveIfStatus
<1>4. ASSUME NEW a \in Actors, CancelWrites(a) \/ ReapWrites(a) PROVE Goal
  <2>1. act[a].run \in Runs /\ act[a].new \in Ended
    BY <1>4 DEF CancelWrites, ReapWrites, TypeOK, ActTypeOK, StageInv, Shapes, Shape
  <2>2. UNCHANGED store \/ Save(act[a].run, act[a].new, act[a].tasks)
    BY <1>4 DEF CancelWrites, ReapWrites, SaveIfStatus
  <2> QED BY <1>a, <1>b, <2>1, <2>2 DEF Ended, NotEnded
<1>5. ASSUME NEW a \in Actors, DeleteErases(a) PROVE Goal
  <2>1. act[a].run \in Runs
    BY <1>5 DEF DeleteErases, TypeOK, ActTypeOK
  <2> QED BY <1>5, <2>1 DEF DeleteErases, NoRow, TypeOK, StoreTypeOK
<1>6. ASSUME NEW s \in Runs, RecoverOrphan(s) PROVE Goal
  BY <1>a, <1>6 DEF RecoverOrphan, NotEnded
<1>7. ASSUME ShutdownSaves PROVE Goal
  BY <1>a, <1>7 DEF ShutdownSaves, TypeOK, EnvTypeOK, NotEnded
<1> HIDE DEF Goal
<1>8. ASSUME NEW a \in Actors, Continues(a) \/ ActThrows(a) PROVE Goal
  BY <1>b, <1>3, <1>4, <1>5, <1>8 DEF Continues, ActThrows, SettleDrops, SettleStops, Refresh,
     RefreshReads, RefreshTakesHandles, RefreshPolls, RefreshRereads, RefreshFinishes, Cancel,
     CancelReads, Reap, ReapReads
<1>9. ASSUME NEW s \in Runs,
             \/ Create(s, "plain") \/ Create(s, "scenario") \/ Tick(s) \/ ShutdownStops(s)
             \/ SubmitThrows(s) \/ AllSubmitted(s) \/ Register(s) \/ SubmissionSettles(s)
             \/ SubmissionStops(s) \/ StoreSubmissionThrows(s)
             \/ \E k \in Tasks : Worker(s, k) \/ SubmitTask(s, k) \/ SubmitTaskFails(s, k)
      PROVE  UNCHANGED store
  BY <1>9 DEF Create, Tick, ShutdownStops, Worker, WorkerStarts, WorkerNeverStarts, WorkerProduces,
     WorkerReturns, WorkerPasses, WorkerFallsShort, WorkerThrows, SetWorker, SubmitThrows,
     AllSubmitted, Register, SubmissionSettles, SubmissionStops, StoreSubmissionThrows, SubmitTask,
     SubmitTaskFails
<1>10. ASSUME NEW s \in Runs, NEW a \in Actors, Requests(a, s) \/ Reconciles(a, s) \/ ReapFinds(a, s)
      PROVE  UNCHANGED store
  BY <1>10 DEF Requests, Reconciles, ReapFinds, Starts
<1>11. ASSUME Ready \/ ShutdownBegins \/ ShutdownReads \/ ProcessEnds \/ UNCHANGED vars
      PROVE  UNCHANGED store
  BY <1>11 DEF Ready, ShutdownBegins, ShutdownReads, ProcessEnds, vars, store
<1>z. Goal
  BY <1>b, <1>1, <1>2, <1>6, <1>7, <1>8, <1>9, <1>10, <1>11
     DEF Next, RunNext, Submission, Crash, Shutdown, ShutdownExits, Actors
<1> QED BY <1>z DEF Goal
-----------------------------------------------------------------------------
(* What is known of the workers of a run *)

\* The submission has written the row, or is past trying to.
Settled(r) == sub[r].pc \notin {"none", "save", "submit", "store"}

\* The tasks say it of every worker that runs on, consumers aside.
Tells(r, ts) == \A k \in Tasks \ Consumers : ts[k] \notin Unfinished => ~Loose(r, k)

Truth(r, ts) == ts = NoTasks \/ (Settled(r) /\ Tells(r, ts))
Quiet(r) == Settled(r) /\ \A k \in Tasks \ Consumers : ~Loose(r, k)

\* What a poll has in hand.
Polls(t) ==
  t.pc # "idle" /\ t.op = "refresh" =>
    /\ t.pc \in {"handles", "poll", "write"} => Truth(t.run, t.tasks)
    /\ t.pc = "write" /\ t.new \in Ended => TasksEnded(t.tasks)
    /\ t.pc = "finish" => Quiet(t.run)

RowTells == \A r \in Runs : row[r].status \in NotEnded => Truth(r, row[r].tasks)

SubTasks ==
  \A r \in Runs : /\ Unborn(r) => sub[r].tasks = NoTasks
                  /\ Early(r) => Tells(r, sub[r].tasks)

TruthInv == RowTells /\ SubTasks /\ \A a \in Actors : Polls(act[a])

\* Once a submission is done with its tasks, none of its workers comes to run on.
LEMMA SettledSteps ==
  ASSUME TypeOK, [Next]_vars, NEW r \in Runs, Settled(r)
  PROVE  /\ Settled(r)'
         /\ \A k \in Tasks : Loose(r, k)' => Loose(r, k)
         /\ Quiet(r) => Quiet(r)'
         /\ \A ts : Tells(r, ts) => Tells(r, ts)'
<1>1. Settled(r)'
  BY PcSteps DEF Settled, PcMoves
<1>2. ASSUME NEW k \in Tasks, Loose(r, k)' PROVE Loose(r, k)
  BY <1>2, LooseSteps DEF SubmitTask, Settled
<1> QED BY <1>1, <1>2 DEF Quiet, Tells

LEMMA TruthStays ==
  ASSUME TypeOK, [Next]_vars, NEW r \in Runs, NEW ts, Truth(r, ts)
  PROVE  Truth(r, ts)'
BY SettledSteps DEF Truth

LEMMA PollsStay ==
  ASSUME TypeOK, [Next]_vars, NEW t, t.pc # "idle" => t.run \in Runs, Polls(t)
  PROVE  Polls(t)'
BY TruthStays, SettledSteps DEF Polls, Quiet

LEMMA ThreadStays ==
  ASSUME TypeOK, [Next]_vars, NEW a \in Actors, Polls(act[a]), act'[a] = act[a]
  PROVE  Polls(act[a])'
<1>1. act[a].pc # "idle" => act[a].run \in Runs
  BY DEF TypeOK, ActTypeOK
<1> QED BY <1>1, PollsStay

LEMMA RowTellsSteps ==
  ASSUME TypeOK, StageInv, TruthInv, [Next]_vars
  PROVE  RowTells'
<1> SUFFICES ASSUME NEW r \in Runs, row'[r].status \in NotEnded PROVE Truth(r, row[r].tasks)'
  BY DEF RowTells
<1>1. CASE row'[r] = row[r]
  <2>1. Truth(r, row[r].tasks)
    BY <1>1 DEF TruthInv, RowTells
  <2> QED BY <1>1, <2>1, TruthStays
<1>2. CASE row'[r].tasks = NoTasks
  BY <1>2 DEF Truth
<1>3. CASE StoreSubmission(r) /\ row'[r].tasks = sub[r].tasks
  <2>1. Settled(r)'
    <3>1. sub'[r].pc = "register"
      BY <1>3 DEF StoreSubmission, TypeOK, Submissions
    <3> QED BY <3>1 DEF Settled
  <2>2. Tells(r, sub[r].tasks) /\ UNCHANGED <<worker, stop>>
    BY <1>3 DEF StoreSubmission, TruthInv, SubTasks, Early, backend
  <2> QED BY <1>3, <2>1, <2>2 DEF Truth, Tells, Loose
<1>4. ASSUME NEW a \in Actors, RefreshWrites(a), act[a].run = r, row'[r].tasks = act[a].tasks
      PROVE  Truth(r, row[r].tasks)'
  <2>1. Truth(r, act[a].tasks)
    BY <1>4 DEF RefreshWrites, TruthInv, Polls
  <2> QED BY <1>4, <2>1, TruthStays
<1> QED BY <1>1, <1>2, <1>3, <1>4, RowTasksSteps

LEMMA SubTasksSteps ==
  ASSUME TypeOK, SubTasks, [Next]_vars
  PROVE  SubTasks'
<1> SUFFICES ASSUME NEW r \in Runs
             PROVE  /\ Unborn(r)' => sub'[r].tasks = NoTasks
                    /\ Early(r)' => Tells(r, sub[r].tasks)'
  BY DEF SubTasks
<1> DEFINE Goal == /\ Unborn(r)' => sub'[r].tasks = NoTasks
                   /\ Early(r)' => Tells(r, sub[r].tasks)'
<1>a. sub[r] \in Submissions
  BY DEF TypeOK
<1>b. /\ Unborn(r) => sub[r].tasks = NoTasks
      /\ Early(r) => Tells(r, sub[r].tasks)
  BY DEF SubTasks
<1>c. \A k \in Tasks : Loose(r, k)' => Loose(r, k) \/ SubmitTask(r, k)
  BY LooseSteps
<1>d. \A kind : Submitted(kind).pc = "done"
  BY DEF Submitted, NotSubmitted
<1>e. ASSUME sub'[r].tasks = sub[r].tasks, \A k \in Tasks : ~SubmitTask(r, k) PROVE Goal
  <2>1. (Unborn(r)' => Unborn(r)) /\ (Early(r)' => Early(r))
    BY BornStaysBorn
  <2>2. Tells(r, sub[r].tasks) => Tells(r, sub[r].tasks)'
    BY <1>c, <1>e DEF Tells
  <2> QED BY <1>b, <1>e, <2>1, <2>2
<1>f. sub'[r].pc \in {"settle", "stop", "done"} => Goal
  BY DEF Unborn, Early
<1> HIDE DEF Goal
<1>1. ASSUME sub'[r] = sub[r] PROVE Goal
  <2>1. ASSUME NEW k \in Tasks, SubmitTask(r, k) PROVE FALSE
    <3>1. sub[r].tasks[k] = "NONE" /\ sub'[r].tasks[k] \in Unfinished
      BY <2>1, <1>a DEF SubmitTask, TypeOK, Submissions, Unfinished
    <3> QED BY <1>1, <3>1 DEF Unfinished
  <2> QED BY <1>1, <1>e, <2>1
<1>2. ASSUME ProcessEnds PROVE Goal
  <2>1. \/ sub'[r].pc = "done"
        \/ sub'[r] = sub[r]
    BY <1>2, <1>d DEF ProcessEnds
  <2> QED BY <1>1, <1>f, <2>1
<1>3. ASSUME NEW kind, Create(r, kind) PROVE Goal
  <2>1. sub'[r].tasks = sub[r].tasks /\ sub[r].pc = "none"
    BY <1>3, <1>a DEF Create, TypeOK, Submissions
  <2> QED BY <1>e, <2>1 DEF SubmitTask
<1>4. ASSUME FirstSave(r) \/ AllSubmitted(r) \/ StoreSubmission(r) \/ FirstSaveThrows(r) \/ StoreSubmissionThrows(r) PROVE Goal
  <2>1. sub'[r].tasks = sub[r].tasks /\ (sub'[r].pc # "submit" \/ sub[r].pc # "submit")
    BY <1>4, <1>a DEF FirstSave, AllSubmitted, StoreSubmission, FirstSaveThrows, StoreSubmissionThrows,
       TypeOK, Submissions
  <2>2. ASSUME NEW k \in Tasks, SubmitTask(r, k) PROVE sub[r].pc = "submit" /\ sub'[r].pc = "submit"
    BY <2>2, <1>a DEF SubmitTask, TypeOK, Submissions
  <2> QED BY <1>e, <2>1, <2>2
<1>5. ASSUME SubmitThrows(r) PROVE Goal
  <2>1. /\ sub'[r].tasks = FailUnfinished(sub[r].tasks) /\ sub'[r].pc = "store" /\ sub[r].pc = "submit"
        /\ worker' = worker /\ stop'[r] = stop[r] \cup Started(r)
    BY <1>5, <1>a DEF SubmitThrows, TypeOK, BackendTypeOK, Submissions
  <2>2. ASSUME NEW k \in Tasks \ Consumers, Loose(r, k)' PROVE FALSE
    <3>1. Loose(r, k) /\ k \notin Started(r)
      BY <2>1, <2>2 DEF Loose
    <3>2. sub[r].tasks[k] \in Unfinished
      BY <1>b, <2>1, <3>1 DEF Early, Tells
    <3> QED BY <3>1, <3>2 DEF Started
  <2> QED BY <2>1, <2>2 DEF Goal, Unborn, Tells
<1>6. ASSUME NEW k \in Tasks, SubmitTask(r, k) PROVE Goal
  <2>1. /\ sub'[r].pc = "submit" /\ sub[r].pc = "submit" /\ sub'[r].tasks[k] \in Unfinished
        /\ \A l \in Tasks \ {k} : sub'[r].tasks[l] = sub[r].tasks[l]
        /\ stop' = stop /\ \A l \in Tasks \ {k} : worker'[r][l] = worker[r][l]
    BY <1>6, <1>a DEF SubmitTask, TypeOK, BackendTypeOK, Submissions, Unfinished
  <2>2. Tells(r, sub[r].tasks)
    BY <1>b, <2>1 DEF Early
  <2> QED BY <2>1, <2>2 DEF Goal, Unborn, Tells, Loose
<1>7. ASSUME NEW k \in Tasks, SubmitTaskFails(r, k) PROVE Goal
  <2>1. /\ sub'[r].pc = "submit" /\ sub[r].pc = "submit" /\ sub[r].tasks[k] = "NONE"
        /\ \A l \in Tasks \ {k} : sub'[r].tasks[l] = sub[r].tasks[l]
        /\ worker' = worker /\ stop' = stop
    BY <1>7, <1>a DEF SubmitTaskFails, TypeOK, Submissions, backend
  <2>2. Tells(r, sub[r].tasks)
    BY <1>b, <2>1 DEF Early
  <2>3. ASSUME NEW l \in Tasks \ Consumers, sub'[r].tasks[l] \notin Unfinished PROVE ~Loose(r, l)'
    <3>1. sub[r].tasks[l] \notin Unfinished
      BY <2>1, <2>3 DEF Unfinished
    <3> QED BY <2>1, <2>2, <3>1 DEF Tells, Loose
  <2> QED BY <2>1, <2>3 DEF Goal, Unborn, Tells
<1>8. ASSUME Register(r) \/ SubmissionSettles(r) \/ SubmissionStops(r) \/ MarkStrandedAsFailed(r) PROVE Goal
  <2>1. [sub[r] EXCEPT !.pc = "stop", !.got = handles[r]].pc = "stop" /\ [sub[r] EXCEPT !.pc = "settle"].pc = "settle"
    BY <1>a DEF Submissions
  <2>2. sub'[r].pc \in {"settle", "stop", "done"}
    BY <1>8, <1>d, <2>1 DEF Register, SubmissionSettles, SubmissionStops, MarkStrandedAsFailed, TypeOK
  <2> QED BY <1>f, <2>2
<1>z. Goal
  BY <1>1, <1>2, <1>3, <1>4, <1>5, <1>6, <1>7, <1>8, SubSteps DEF Submission
<1> QED BY <1>z DEF Goal

\* A poll that reports a worker as ended has seen it end.
LEMMA PolledTells ==
  ASSUME TypeOK, NEW a \in Actors, act[a].run \in Runs, Truth(act[a].run, act[a].tasks),
         NEW answered, NEW ts, NEW status, PollWrites(a, answered, ts, status)
  PROVE  Truth(act[a].run, ts)
<1>1. CASE act[a].tasks = NoTasks
  <2>1. answered = {}
    BY <1>1 DEF PollWrites, NoTasks, Unfinished
  <2>2. Polled(a, answered) = NoTasks
    BY <1>1, <2>1 DEF Polled, NoTasks
  <2>3. Stranded(act[a].run, NoTasks) = {}
    BY TasksAssumption DEF Stranded, NoTasks, Unfinished
  <2>4. ts = NoTasks
    BY <2>2, <2>3 DEF PollWrites, NoTasks
  <2> QED BY <2>4 DEF Truth
<1>2. CASE Settled(act[a].run) /\ Tells(act[a].run, act[a].tasks)
  <2>1. ASSUME NEW k \in Tasks \ Consumers, ts[k] \notin Unfinished PROVE ~Loose(act[a].run, k)
    <3>1. k \notin Stranded(act[a].run, Polled(a, answered))
      BY <2>1 DEF Stranded
    <3>2. ts[k] = Polled(a, answered)[k]
      BY <3>1 DEF PollWrites
    <3>3. CASE k \in answered
      <4>1. Reported(worker[act[a].run][k]) \notin Unfinished
        BY <2>1, <3>2, <3>3 DEF Polled
      <4> QED BY <4>1 DEF Reported, Unfinished, Live, Loose
    <3>4. CASE k \notin answered
      BY <1>2, <2>1, <3>2, <3>4 DEF Polled, Tells
    <3> QED BY <3>3, <3>4
  <2> QED BY <1>2, <2>1 DEF Truth, Tells
<1> QED BY <1>1, <1>2 DEF Truth

LEMMA PollsSteps ==
  ASSUME TypeOK, StageInv, TruthInv, [Next]_vars
  PROVE  \A a \in Actors : Polls(act[a])'
<1>a. \A a \in Actors : Polls(act[a]) /\ Shape(act[a]) /\ (act[a].pc # "idle" => act[a].run \in Runs)
  BY DEF TruthInv, StageInv, Shapes, TypeOK, ActTypeOK
<1> DEFINE Goal == \A a \in Actors : Polls(act[a])'
<1>b. ASSUME NEW a \in Actors, OnlyActs(a), Polls(act[a])' PROVE Goal
  BY <1>a, <1>b, ThreadStays DEF OnlyActs
<1>c. ASSUME NEW a \in Actors, NEW pc, OnlyActs(a), WoundUp(a, pc), pc \notin {"handles", "poll", "write", "finish"}
      PROVE  Goal
  <2>1. Polls(act[a])'
    BY <1>c DEF WoundUp, Polls
  <2> QED BY <1>b, <1>c, <2>1
<1>d. ASSUME NEW a \in Actors, OnlyActs(a), act'[a].op # "refresh" \/ act'[a].pc \in {"idle", "read", "settle", "stop", "erase"}
      PROVE  Goal
  <2>1. Polls(act[a])'
    BY <1>d DEF Polls
  <2> QED BY <1>b, <1>d, <2>1
<1>e. UNCHANGED act => Goal
  BY <1>a, ThreadStays
<1> HIDE DEF Goal
<1>1. ASSUME NEW a \in Actors, SettleDrops(a) \/ SettleStops(a) PROVE Goal
  <2>1. act[a].pc \in {"settle", "stop"}
    BY <1>1 DEF SettleDrops, SettleStops
  <2>2. act[a].next # "idle" => act[a].op # "refresh"
    BY <1>a, <2>1 DEF Shape
  <2>3. OnlyActs(a) /\ (act'[a].pc \in {"stop", "idle"} \/ act'[a].op # "refresh")
    BY <1>1, <2>2, SettleDropsFields, SettleStopsFields DEF SameInHand, WoundUp
  <2> QED BY <1>d, <2>3
<1>2. ASSUME NEW a \in Actors, RefreshReads(a) PROVE Goal
  <2>1. row' = row /\ act[a].run \in Runs
    BY <1>2, <1>a DEF RefreshReads, store
  <2>2. CASE /\ HasRead(a, "handles", act[a].next) /\ act'[a].tasks = row[act[a].run].tasks
    <3>1. Truth(act[a].run, row[act[a].run].tasks)
      BY <2>1, <2>2 DEF HasRead, TruthInv, RowTells
    <3>2. Truth(act[a].run, act[a].tasks)'
      BY <2>1, <2>2, <3>1, TruthStays DEF HasRead
    <3>3. Polls(act[a])'
      BY <2>2, <3>2 DEF HasRead, Polls
    <3> QED BY <1>2, <1>b, <3>3, RefreshReadsFields
  <2>3. CASE WoundUp(a, "settle") \/ WoundUp(a, "idle")
    BY <1>2, <1>c, <2>3, RefreshReadsFields
  <2> QED BY <1>2, <2>2, <2>3, RefreshReadsFields
<1>3. ASSUME NEW a \in Actors, RefreshTakesHandles(a) PROVE Goal
  <2>1. act[a].pc = "handles" /\ act[a].run \in Runs
    BY <1>3, <1>a DEF RefreshTakesHandles
  <2>2. CASE act[a].op = "refresh"
    <3>1. Truth(act[a].run, act[a].tasks)
      BY <1>a, <2>1, <2>2 DEF Polls
    <3>2. SameInHand(a) /\ act'[a].pc = "poll" /\ OnlyActs(a)
      BY <1>3, RefreshTakesHandlesFields
    <3>3. Truth(act[a].run, act[a].tasks)'
      BY <2>1, <3>1, <3>2, TruthStays DEF SameInHand
    <3>4. Polls(act[a])'
      BY <3>2, <3>3 DEF Polls
    <3> QED BY <1>b, <3>2, <3>4
  <2>3. CASE act[a].op # "refresh"
    BY <1>3, <1>d, <2>3, RefreshTakesHandlesFields DEF SameInHand
  <2> QED BY <2>2, <2>3
<1>4. ASSUME NEW a \in Actors, RefreshPolls(a) PROVE Goal
  <2>1. act[a].pc = "poll" /\ act[a].run \in Runs /\ act[a].op = "refresh" /\ act[a].status \in NotEnded
    BY <1>4, <1>a DEF RefreshPolls, Shape
  <2>2. CASE WoundUp(a, "idle")
    BY <1>4, <1>c, <2>2, RefreshPollsFields
  <2>3. ASSUME NEW answered, PollWrites(a, answered, act'[a].tasks, act'[a].new),
               act'[a].pc = "write", act'[a].op = act[a].op, act'[a].run = act[a].run
        PROVE  Goal
    <3>1. Truth(act[a].run, act[a].tasks)
      BY <1>a, <2>1 DEF Polls
    <3>2. Truth(act[a].run, act'[a].tasks)
      BY <2>1, <2>3, <3>1, PolledTells
    <3>3. Truth(act[a].run, act[a].tasks)'
      BY <2>1, <2>3, <3>2, TruthStays
    <3>4. act'[a].new \in Ended => TasksEnded(act'[a].tasks)
      BY <2>1, <2>3 DEF PollWrites, Ended, NotEnded
    <3>5. Polls(act[a])'
      BY <2>3, <3>3, <3>4 DEF Polls
    <3> QED BY <1>4, <1>b, <3>5, RefreshPollsFields
  <2> QED BY <1>4, <2>2, <2>3, RefreshPollsFields
<1>5. ASSUME NEW a \in Actors, RefreshWrites(a) PROVE Goal
  <2>1. act[a].pc = "write" /\ act[a].run \in Runs /\ act[a].op = "refresh"
    BY <1>5, <1>a DEF RefreshWrites
  <2>2. CASE WindsUpAt(a, "finish") /\ act[a].new \in Ended
    <3>1. Truth(act[a].run, act[a].tasks) /\ TasksEnded(act[a].tasks)
      BY <1>a, <2>1, <2>2 DEF Polls
    <3>2. Quiet(act[a].run)
      BY <3>1 DEF Truth, TasksEnded, NoTasks, Tells, Quiet
    <3>3. OnlyActs(a) /\ WoundUp(a, "finish") /\ act'[a].run = act[a].run
      BY <2>2, WindsUpFields DEF WoundUp
    <3>4. Quiet(act[a].run)'
      BY <2>1, <3>2, <3>3, SettledSteps DEF Quiet
    <3>5. Polls(act[a])'
      BY <3>3, <3>4 DEF WoundUp, Polls
    <3> QED BY <1>b, <3>3, <3>5
  <2>3. CASE WindsUpAt(a, "idle") \/ WindsUpAt(a, "reread")
    BY <1>c, <2>3, WindsUpFields
  <2> QED BY <1>5, <2>2, <2>3 DEF RefreshWrites
<1>6. ASSUME NEW a \in Actors,
             RefreshRereads(a) \/ RefreshFinishes(a) \/ DeleteErases(a) \/ ActThrows(a)
      PROVE  Goal
  <2>1. \E pc \in {"idle", "settle"} : WindsUpAt(a, pc)
    BY <1>6 DEF RefreshRereads, RefreshFinishes, DeleteErases, ActThrows
  <2> QED BY <1>c, <2>1, WindsUpFields
<1>7. ASSUME NEW a \in Actors, Cancel(a) PROVE Goal
  <2>1. OnlyActs(a) /\ (act'[a].pc \in {"idle", "read", "settle"})
    BY <1>7, CancelReadsFields, CancelWritesFields DEF Cancel, WoundUp, HasRead
  <2> QED BY <1>d, <2>1
<1>8. ASSUME NEW a \in Actors, ReapReads(a) PROVE Goal
  <2>1. act[a].op = "reap"
    BY <1>8 DEF ReapReads
  <2>2. OnlyActs(a) /\ (act'[a].pc = "idle" \/ act'[a].op # "refresh")
    BY <1>8, <2>1, ReapReadsFields DEF WoundUp, HasRead
  <2> QED BY <1>d, <2>2
<1>9. ASSUME NEW a \in Actors, ReapWrites(a) PROVE Goal
  <2>1. \E pc \in {"idle", "settle"} : WindsUpAt(a, pc)
    BY <1>9 DEF ReapWrites
  <2> QED BY <1>c, <2>1, WindsUpFields
<1>10. ASSUME NEW s \in Runs, NEW a \in Actors, Requests(a, s) \/ Reconciles(a, s) \/ ReapFinds(a, s)
       PROVE  Goal
  <2>1. PICK op \in {"refresh", "cancel", "delete", "reap"} : Starts(a, op, s)
    BY <1>10 DEF Requests, Reconciles, ReapFinds
  <2>2. OnlyActs(a) /\ act'[a].pc \in {"read", "settle"}
    BY <2>1, StartsFields
  <2> QED BY <1>d, <2>2
<1>11. ASSUME ProcessEnds PROVE Goal
  <2>1. \A a \in Actors : act'[a].pc = "idle"
    BY <1>11, IdleFields DEF ProcessEnds
  <2> QED BY <2>1 DEF Goal, Polls
<1>z. Goal
  BY <1>e, <1>1, <1>2, <1>3, <1>4, <1>5, <1>6, <1>7, <1>8, <1>9, <1>10, <1>11, ActSteps
     DEF Continues, Refresh, Reap
<1> QED BY <1>z DEF Goal

LEMMA ReachSteps ==
  ASSUME TypeOK, StageInv, TruthInv, NoOrphanWorker, [Next]_vars
  PROVE  NoOrphanWorker'
<1> SUFFICES ASSUME NEW r \in Runs, NEW k \in Tasks \ Consumers, Loose(r, k)'
             PROVE  Reachable(r, k)'
  BY DEF NoOrphanWorker, Loose
<1>a. /\ sub[r] \in Submissions /\ \A a \in Actors : act[a] \in Threads
      /\ handles \in [Runs -> SUBSET Tasks] /\ k \in Tasks
  BY DEF TypeOK, ActTypeOK
<1>b. k \notin stop'[r] /\ worker'[r][k] \in Live
  BY DEF Loose
<1>c. ~ProcessEnds
  BY <1>b DEF ProcessEnds, NoTasks, Live
<1>d. k \in handles'[r] => Reachable(r, k)'
  BY DEF Reachable
<1>e. sub'[r].pc \in {"submit", "store", "register"} /\ sub'[r].tasks[k] \in Unfinished => Reachable(r, k)'
  BY DEF Reachable, Started
<1>f. \A kind : Submitted(kind).pc = "done"
  BY DEF Submitted, NotSubmitted
<1>g. sub'[r].pc = "stop" /\ k \in sub'[r].got => Reachable(r, k)'
  BY DEF Reachable
<1>h. \A a \in Actors : act'[a].pc = "stop" /\ act'[a].run = r /\ k \in act'[a].got => Reachable(r, k)'
  BY DEF Reachable
<1>1. CASE SubmitTask(r, k)
  <2>1. sub'[r].pc = "submit" /\ sub'[r].tasks[k] \in Unfinished
    BY <1>1, <1>a DEF SubmitTask, TypeOK, Submissions, Unfinished
  <2> QED BY <1>e, <2>1
<1>2. ASSUME k \in handles[r], Loose(r, k) PROVE Reachable(r, k)'
  <2>1. ~Register(r)
    BY <1>2 DEF Register, StageInv, BornInv, Early
  <2>2. CASE SubmissionSettles(r)
    <3>1. sub'[r] = [sub[r] EXCEPT !.pc = "stop", !.got = handles[r]]
      BY <1>2, <2>2 DEF SubmissionSettles, TypeOK
    <3>2. sub'[r].pc = "stop" /\ sub'[r].got = handles[r]
      BY <1>a, <3>1 DEF Submissions
    <3> QED BY <1>2, <1>g, <3>2
  <2>3. ASSUME NEW a \in Actors, act[a].run = r, SettleDrops(a) PROVE Reachable(r, k)'
    <3>1. act'[a].pc = "stop" /\ act'[a].run = r /\ act'[a].got = handles[r]
      BY <1>2, <2>3, SettleDropsFields DEF SameInHand
    <3> QED BY <1>2, <1>h, <3>1
  <2>4. ASSUME NEW a \in Actors, act[a].run = r, RefreshFinishes(a) PROVE FALSE
    <3>1. act[a].pc = "finish" /\ act[a].op = "refresh" /\ Polls(act[a])
      BY <2>4 DEF RefreshFinishes, StageInv, Shapes, Shape, TruthInv
    <3> QED BY <1>2, <2>4, <3>1 DEF Polls, Quiet
  <2> QED BY <1>2, <1>c, <1>d, <2>1, <2>2, <2>3, <2>4, HandleLost
<1>3. ASSUME sub[r].pc \in {"submit", "store", "register"}, k \in Started(r) PROVE Reachable(r, k)'
  <2>a. sub[r].tasks[k] \in Unfinished
    BY <1>3 DEF Started
  <2>1. CASE sub'[r] = sub[r]
    BY <1>3, <1>e, <2>a, <2>1
  <2>2. CASE SubmitThrows(r)
    <3>1. k \in stop'[r]
      BY <1>3, <2>2 DEF SubmitThrows, TypeOK, BackendTypeOK
    <3> QED BY <1>b, <3>1
  <2>3. CASE AllSubmitted(r) \/ StoreSubmission(r) \/ StoreSubmissionThrows(r)
    <3>1. sub'[r].pc \in {"store", "register"} /\ sub'[r].tasks = sub[r].tasks
      BY <1>a, <2>3 DEF AllSubmitted, StoreSubmission, StoreSubmissionThrows, TypeOK, Submissions
    <3> QED BY <1>e, <2>a, <3>1
  <2>4. ASSUME NEW l \in Tasks, SubmitTask(r, l) \/ SubmitTaskFails(r, l) PROVE Reachable(r, k)'
    <3>1. l # k /\ sub[r].pc = "submit"
      BY <2>a, <2>4 DEF SubmitTask, SubmitTaskFails, Unfinished
    <3>2. sub'[r].pc = "submit" /\ sub'[r].tasks[k] = sub[r].tasks[k]
      BY <1>a, <2>4, <3>1 DEF SubmitTask, SubmitTaskFails, TypeOK, Submissions
    <3> QED BY <1>e, <2>a, <3>2
  <2>5. CASE Register(r)
    <3>1. handles'[r] = Started(r)
      BY <1>3, <1>a, <2>5 DEF Register
    <3> QED BY <1>3, <1>d, <3>1
  <2>6. ASSUME \/ \E kind : Create(r, kind)
               \/ FirstSave(r) \/ FirstSaveThrows(r) \/ MarkStrandedAsFailed(r)
               \/ SubmissionSettles(r) \/ SubmissionStops(r)
        PROVE FALSE
    BY <1>3, <2>6 DEF Create, FirstSave, FirstSaveThrows, MarkStrandedAsFailed, SubmissionSettles,
       SubmissionStops
  <2> QED BY <1>c, <2>1, <2>2, <2>3, <2>4, <2>5, <2>6, SubSteps DEF Submission
<1>4. ASSUME sub[r].pc = "stop", k \in sub[r].got PROVE Reachable(r, k)'
  <2>1. CASE sub'[r] = sub[r]
    BY <1>4, <1>g, <2>1
  <2>2. CASE SubmissionStops(r)
    <3>1. k \in stop'[r]
      BY <1>4, <2>2 DEF SubmissionStops, TypeOK, BackendTypeOK
    <3> QED BY <1>b, <3>1
  <2>3. ASSUME \/ \E kind : Create(r, kind)
               \/ FirstSave(r) \/ FirstSaveThrows(r) \/ MarkStrandedAsFailed(r)
               \/ SubmissionSettles(r) \/ SubmitThrows(r) \/ AllSubmitted(r) \/ StoreSubmission(r)
               \/ StoreSubmissionThrows(r) \/ Register(r)
               \/ \E l \in Tasks : SubmitTask(r, l) \/ SubmitTaskFails(r, l)
        PROVE FALSE
    BY <1>4, <2>3 DEF Create, FirstSave, FirstSaveThrows, MarkStrandedAsFailed, SubmissionSettles,
       SubmitThrows, AllSubmitted, StoreSubmission, StoreSubmissionThrows, Register, SubmitTask,
       SubmitTaskFails
  <2> QED BY <1>c, <2>1, <2>2, <2>3, SubSteps DEF Submission
<1>5. ASSUME NEW a \in Actors, act[a].pc = "stop", act[a].run = r, k \in act[a].got PROVE Reachable(r, k)'
  <2>1. CASE act'[a] = act[a]
    BY <1>5, <1>h, <2>1
  <2>2. CASE SettleStops(a)
    <3>1. k \in stop'[r]
      BY <1>5, <2>2 DEF SettleStops, TypeOK, BackendTypeOK
    <3> QED BY <1>b, <3>1
  <2>3. ASSUME Continues(a) \/ ActThrows(a), ~SettleStops(a) PROVE FALSE
    BY <1>5, <2>3 DEF Continues, ActThrows, SettleDrops, Refresh, RefreshReads, RefreshTakesHandles,
       RefreshPolls, RefreshWrites, RefreshRereads, RefreshFinishes, Cancel, CancelReads,
       CancelWrites, DeleteErases, Reap, ReapReads, ReapWrites
  <2>4. ASSUME NEW b \in Actors, Continues(b) \/ ActThrows(b), b # a PROVE act'[a] = act[a]
    BY <2>4 DEF Continues, ActThrows, SettleDrops, SettleStops, Refresh, RefreshReads,
       RefreshTakesHandles, RefreshPolls, RefreshWrites, RefreshRereads, RefreshFinishes, Cancel,
       CancelReads, CancelWrites, DeleteErases, Reap, ReapReads, ReapWrites, GoesTo, WindsUpAt,
       TypeOK, ActTypeOK
  <2>5. ASSUME NEW s \in Runs, NEW b \in Actors, Requests(b, s) \/ Reconciles(b, s) \/ ReapFinds(b, s)
        PROVE  act'[a] = act[a]
    BY <1>5, <2>5 DEF Requests, Reconciles, ReapFinds, Starts, TypeOK, ActTypeOK
  <2> QED BY <1>c, <2>1, <2>2, <2>3, <2>4, <2>5, ActSteps
<1>6. CASE Loose(r, k)
  <2>1. Reachable(r, k)
    BY <1>6 DEF NoOrphanWorker, Loose
  <2> QED BY <1>2, <1>3, <1>4, <1>5, <1>6, <2>1 DEF Reachable
<1> QED BY <1>1, <1>6, <1>a, LooseSteps

\* Whatever ends a run, and whichever of them are at it together, each of its workers (consumers
\* aside) ends by itself or stays within reach of a handle or of a thread about to stop it.
THEOREM EveryWorkerIsReachable == Spec => []NoOrphanWorker
<1> DEFINE Inv == TruthInv /\ NoOrphanWorker
<1>1. Init => Inv
  <2> SUFFICES ASSUME Init PROVE Inv
    OBVIOUS
  <2>a. \A r \in Runs, k \in Tasks : ~Loose(r, k)
    BY DEF Init, Loose, NoTasks, Live
  <2>1. RowTells
    <3>1. ASSUME NEW r \in Runs, row[r].status \in NotEnded PROVE Truth(r, row[r].tasks)
      <4>1. row[r] # NoRow
        BY <3>1 DEF NoRow, NotEnded
      <4>2. Settled(r)
        BY <4>1 DEF Init, Settled, Submitted, NotSubmitted
      <4> QED BY <2>a, <4>2 DEF Truth, Tells
    <3> QED BY <3>1 DEF RowTells
  <2>2. SubTasks
    BY <2>a DEF Init, SubTasks, Tells, Unborn, Submitted, NotSubmitted
  <2>3. \A a \in Actors : Polls(act[a])
    BY IdleFields DEF Init, Polls
  <2>4. NoOrphanWorker
    BY <2>a DEF NoOrphanWorker, Loose
  <2> QED BY <2>1, <2>2, <2>3, <2>4 DEF TruthInv
<1>2. TypeOK /\ StageInv /\ Inv /\ [Next]_vars => Inv'
  <2> SUFFICES ASSUME TypeOK, StageInv, Inv, [Next]_vars PROVE TruthInv' /\ NoOrphanWorker'
    OBVIOUS
  <2>1. RowTells' /\ SubTasks' /\ (\A a \in Actors : Polls(act[a])')
    BY RowTellsSteps, SubTasksSteps, PollsSteps DEF TruthInv
  <2> QED BY <2>1, ReachSteps DEF TruthInv
<1>3. Inv => NoOrphanWorker
  OBVIOUS
<1> HIDE DEF Inv
<1> QED BY <1>1, <1>2, <1>3, TypeCorrect, StageInvariant, PTL DEF Spec
=============================================================================
