---------------------------- MODULE ApiClientProofs ----------------------------
(***************************************************************************)
(* For every method of the client, any number of attempts, of polls and of *)
(* failed polls in a row: a call that changes something is carried out at  *)
(* most once, and what a wait says of its disruption is so.                *)
(***************************************************************************)
EXTENDS ApiClient, TLAPS

-----------------------------------------------------------------------------
(* The requests: none that changes something may be sent again. *)

Fields == {"verb", "named", "does", "retryable", "limit"}

ChangesOnce(r) == r.does # "nothing" => ~r.retryable

Kinds ==
  {Reads, ReadsOne, Creates, CreatesAt, ReplacesOne, PatchesOne, RemovesOne,
   PruneTests, PruneTestsDryRun, RunDryRun, Resilience, DisruptionStream}

LEMMA PlainKinds ==
  /\ get.does = "nothing" /\ DOMAIN get = Fields
  /\ postJSON.does = "creates" /\ ~postJSON.retryable /\ DOMAIN postJSON = Fields
  /\ ~put.retryable /\ ~patch.retryable /\ ~delete.retryable
  /\ ~PruneTests.retryable
  /\ RunDryRun.does = "nothing" /\ PruneTestsDryRun.does = "nothing"
BY DEF get, postJSON, put, patch, delete, PruneTests, PruneTestsDryRun, RunDryRun,
       Request, Fields

LEMMA NamedKinds ==
  /\ Reads.does = "nothing"
  /\ ReadsOne.does = "nothing" /\ DOMAIN ReadsOne = Fields
  /\ Creates.does = "creates" /\ ~Creates.retryable
  /\ CreatesAt.does = "creates" /\ ~CreatesAt.retryable
  /\ ~ReplacesOne.retryable /\ ~PatchesOne.retryable /\ ~RemovesOne.retryable
  /\ ~Resilience.retryable
BY PlainKinds DEF Reads, ReadsOne, Creates, CreatesAt, ReplacesOne, PatchesOne,
                  RemovesOne, Resilience, Fields

LEMMA StreamIsOpenedOnce == ~DisruptionStream.retryable
BY NamedKinds DEF DisruptionStream, Fields

LEMMA EveryEndpointHasAKind ==
  ASSUME NEW m \in DOMAIN Endpoints
  PROVE  Endpoints[m] \in Kinds
BY SMTT(60) DEF Kinds, Endpoints,
   Health, ClusterInfo, ClusterTopology, ClusterAlerts, Topics, TopicDetail,
   ConsumerGroups, ConsumerGroupDetail, BrokerConfigs, ClusterCheck,
   ListTests, GetTest, CreateTest, RerunTest, CreateCompareRebalanceTest,
   DeleteTest, CancelTest, TestTypes, Backends, Report, ReportSummary,
   Compare, ExportCSV, ExportHeatmap, ExportJUnit, Trends, TrendPhases,
   TrendBreakdown, ReportBrokers, ReportSnapshot, BrokerTrend,
   ReportRegression, TuningTypes, Audit, ListSchedules, GetSchedule,
   CreateSchedule, UpdateSchedule, DeleteSchedule, StartDisruption,
   StartPlaybook, DisruptionStatus, DisruptionTimelineData, DisruptionTypes,
   DisruptionList, DisruptionKafkaMetrics, PlaybookList,
   DisruptionScheduleList, DisruptionScheduleCreate,
   DisruptionScheduleDelete, ListWebhooks, RegisterWebhook, DeleteWebhook,
   KafkaBrokers, KafkaTopics, KafkaTopicDetail, KafkaGroups,
   KafkaGroupDetail, KafkaConsume, KafkaProduce, KafkaCreateTopic,
   KafkaAlterTopic, KafkaDeleteTopic, BaselineSet, BaselineUnset,
   BaselineGet, BaselineList, SecurityAudit, SecurityTLS, SecurityAuthTest,
   SecurityPentest, SecurityCompliance, SecurityBaselineSave, SecurityDrift,
   SecurityGate, SecurityCerts, SecurityCVE, SecurityConfigDiff,
   SecurityACLMap, SecurityTrend, SecuritySecrets

LEMMA OwnRequestChangesOnce ==
  ASSUME method \in Methods
  PROVE  /\ OwnRequest.does # "nothing" => ~OwnRequest.retryable
         /\ method \in Waits => OwnRequest.does # "nothing"
<1>1. \A r \in Kinds : ChangesOnce(r)
  BY PlainKinds, NamedKinds, StreamIsOpenedOnce DEF Kinds, ChangesOnce
<1>2. CASE method \in Waits
  BY <1>2, NamedKinds DEF Waits, OwnRequest, RunDisruption, PlaybookRun,
                          StartDisruption, StartPlaybook
<1>3. CASE method \notin Waits
  <2>1. OwnRequest = Endpoints[method] /\ method \in DOMAIN Endpoints
    BY <1>3 DEF Waits, Methods, OwnRequest
  <2> QED BY <2>1, <1>1, <1>3, EveryEndpointHasAKind DEF ChangesOnce
<1> QED BY <1>2, <1>3

-----------------------------------------------------------------------------
(* The inductive invariant *)

Changes == OwnRequest.does # "nothing"

Answers == {"lost", "5xx", "429", "4xx", "ok"}
NotSent == {"invalid", "setup"}

TypeInv ==
  /\ method \in Methods /\ fit \in BOOLEAN /\ setupErr \in BOOLEAN
  /\ wait \in {"none", "first", "poll"}
  /\ stage \in {"build", "send", "sent", "backoff", "answered", "pause", "returned"}
  /\ got \in Answers \cup NotSent \cup {"none", "cancelled"}
  /\ attempt \in Nat /\ failures \in Nat /\ polls \in Nat
  /\ lost \in Nat /\ done \in Nat
  /\ ctx \in {"live", "cancelled"}
  /\ api \in Statuses /\ read \in Statuses
  /\ result \in {"none", "report", "gave up", "timed out", "cancelled"}
                  \cup Answers \cup NotSent
  /\ result # "none" => stage = "returned"

\* The method's own request: until an attempt at it that changes something,
\* nothing was done, and there is no second attempt at such a one.
OwnRequestInv ==
  /\ done <= 1
  /\ done = 1 => Changes
  /\ wait = "none" =>
        /\ stage = "build" => done = 0
        /\ stage = "send" /\ Changes => done = 0
        /\ stage \in {"sent", "backoff"} => attempt >= 1
        /\ stage = "backoff" => ~Changes
        /\ stage \in {"sent", "answered"} =>
              /\ got = "ok" /\ Changes => done = 1
              /\ got \in {"429", "4xx"} \cup NotSent => done = 0
        /\ stage = "returned" =>
              /\ result = "ok" /\ Changes => done = 1
              /\ result \in {"429", "4xx"} \cup NotSent => done = 0
              /\ result # "report"
        /\ result # "gave up"
        /\ stage # "pause"
  /\ wait # "none" => method \in Waits /\ done = 1

\* The wait: nothing was read as ended but what it reported, and the
\* counter of failures never runs ahead of the polls that brought nothing.
WaitInv ==
  /\ wait = "first" => api \in Ended
  /\ read \in Ended => result = "report" /\ read = api
  /\ result = "report" => read \in Ended
  /\ stage # "returned" => failures <= lost
  /\ result = "gave up" => lost >= maxConsecutivePollFailures

IInv == TypeInv /\ OwnRequestInv /\ WaitInv

-----------------------------------------------------------------------------
(* Every step keeps it *)

LEMMA SameRequest ==
  ASSUME UNCHANGED call
  PROVE  method' = method /\ (Changes' <=> Changes)
BY DEF call, OwnRequest, Changes

LEMMA InitInv == Init => IInv
BY DEF Init, IInv, TypeInv, OwnRequestInv, WaitInv, Statuses, Ended, NotSent, Answers

LEMMA BuildInv == IInv /\ Build => IInv'
<1> SUFFICES ASSUME IInv, Build PROVE IInv'
  OBVIOUS
<1> USE DEF IInv, Build, waiting, world
<1>1. TypeInv'
  BY DEF TypeInv, call, NotSent
<1>2. OwnRequestInv'
  BY SameRequest DEF OwnRequestInv, NotSent, TypeInv
<1>3. WaitInv'
  BY DEF WaitInv, TypeInv
<1> QED BY <1>1, <1>2, <1>3

\* Only the attempt itself has the API do anything.
LEMMA CarriedOutEffect ==
  ASSUME IInv, CarriedOut, UNCHANGED call
  PROVE  \/ wait = "none" /\ Changes /\ done' = done + 1
            /\ api' \in Statuses /\ (api # "none" => api' = api)
         \/ ~(wait = "none" /\ Changes) /\ done' = done /\ api' = api
BY DEF CarriedOut, Changes, IInv, TypeInv, InHand, Statuses

LEMMA SendInv == IInv /\ Send => IInv'
<1> SUFFICES ASSUME IInv, Send PROVE IInv'
  OBVIOUS
<1>1. PICK answer \in Answers :
         /\ got' = answer
         /\ \/ answer = "ok" /\ CarriedOut
            \/ answer \in {"lost", "5xx"} /\ CarriedOut
            \/ answer # "ok" /\ UNCHANGED <<done, api>>
  BY Zenon DEF Send, Answers
<1>2. method' = method /\ (Changes' <=> Changes)
  BY SameRequest DEF Send
<1>3. \/ /\ wait = "none" /\ Changes /\ done' = done + 1
         /\ api' \in Statuses /\ (api # "none" => api' = api)
         /\ answer \in {"ok", "lost", "5xx"}
      \/ ~(wait = "none" /\ Changes) /\ done' = done /\ api' = api
      \/ answer # "ok" /\ done' = done /\ api' = api
  BY <1>1, CarriedOutEffect DEF Send
<1>4. /\ stage = "send" /\ stage' = "sent" /\ attempt' = attempt + 1
      /\ UNCHANGED <<call, waiting, result, ctx>>
  BY DEF Send
<1> USE DEF IInv, waiting
<1>a. attempt \in Nat /\ done \in Nat /\ api \in Statuses
  BY DEF TypeInv
<1>b. attempt' \in Nat /\ attempt' >= 1
  BY <1>4, <1>a
<1>5. TypeInv'
  <2>1. done' \in Nat /\ api' \in Statuses
    BY <1>3, <1>a
  <2> QED BY <1>1, <1>4, <1>b, <2>1 DEF TypeInv, call
<1>6. OwnRequestInv'
  <2>2. wait = "none" /\ Changes => done = 0
    BY <1>4 DEF OwnRequestInv
  <2>1. done <= 1
    BY DEF OwnRequestInv
  <2>3. /\ wait = "none" /\ ~Changes => done = 0
        /\ done \in {0, 1}
    <3>1. done \in {0, 1}
      BY <1>a, <2>1
    <3> QED BY <3>1 DEF OwnRequestInv
  <2>4. /\ done' \in {0, 1}
        /\ done' = 1 => Changes
    <3>1. done = 1 => Changes
      BY DEF OwnRequestInv
    <3> QED BY <1>3, <2>2, <2>3, <3>1
  <2>5. wait = "none" =>
          /\ got' = "ok" /\ Changes => done' = 1
          /\ got' \in {"429", "4xx"} \cup NotSent => done' = 0
    BY <1>1, <1>3, <2>2, <2>3 DEF NotSent, Answers
  <2>6. wait # "none" => method \in Waits /\ done' = 1
    BY <1>3 DEF OwnRequestInv
  <2>7. done' <= 1
    BY <2>4
  <2>8. /\ stage' = "sent" /\ wait' = wait
        /\ method' = method /\ (Changes' <=> Changes)
    BY <1>2, <1>4
  <2>9. result' # "gave up"
    BY <1>4 DEF TypeInv
  <2> QED BY <1>b, <2>4, <2>5, <2>6, <2>7, <2>8, <2>9 DEF OwnRequestInv
<1>7. WaitInv'
  BY <1>3, <1>4 DEF WaitInv, TypeInv, Ended, Statuses, OwnRequestInv
<1> QED BY <1>5, <1>6, <1>7

\* There is a second attempt only at what changes nothing.
LEMMA AgainInv == IInv /\ Again => IInv'
<1> SUFFICES ASSUME IInv, Again PROVE IInv'
  OBVIOUS
<1> USE DEF IInv, Again, waiting, world
<1>1. wait = "none" => ~Changes
  <2> SUFFICES ASSUME wait = "none" PROVE ~Changes
    OBVIOUS
  <2>1. attempt >= 1 /\ attempt \in Nat /\ attempt < attempts
    BY DEF OwnRequestInv, TypeInv
  <2>2. attempts # 1
    BY <2>1
  <2>3. OwnRequest.retryable
    BY <2>2 DEF attempts, InHand
  <2> QED BY <2>3, OwnRequestChangesOnce DEF TypeInv, Changes
<1>2. TypeInv'
  BY DEF TypeInv, call
<1>3. OwnRequestInv'
  BY <1>1, SameRequest DEF OwnRequestInv, TypeInv
<1>4. WaitInv'
  BY DEF WaitInv, TypeInv
<1> QED BY <1>2, <1>3, <1>4

LEMMA AnsweredInv == IInv /\ Answered => IInv'
<1> SUFFICES ASSUME IInv, Answered PROVE IInv'
  OBVIOUS
<1> USE DEF IInv, Answered, waiting, world
<1>1. TypeInv'
  BY DEF TypeInv, call
<1>2. OwnRequestInv'
  BY SameRequest DEF OwnRequestInv, TypeInv
<1>3. WaitInv'
  BY DEF WaitInv, TypeInv
<1> QED BY <1>1, <1>2, <1>3

LEMMA BackoffInv == IInv /\ Backoff => IInv'
<1> SUFFICES ASSUME IInv, Backoff PROVE IInv'
  OBVIOUS
<1> USE DEF IInv, Backoff, waiting, world
<1>1. TypeInv'
  BY DEF TypeInv, call
<1>2. OwnRequestInv'
  BY SameRequest DEF OwnRequestInv, TypeInv, NotSent
<1>3. WaitInv'
  BY DEF WaitInv, TypeInv
<1> QED BY <1>1, <1>2, <1>3

LEMMA DeliverInv == IInv /\ Deliver => IInv'
<1> SUFFICES ASSUME IInv, Deliver PROVE IInv'
  OBVIOUS
<1> USE DEF IInv, Deliver, Return, world
<1>1. TypeInv'
  BY DEF TypeInv, call
<1>2. OwnRequestInv'
  BY SameRequest DEF OwnRequestInv, TypeInv, NotSent, Answers
<1>3. WaitInv'
  BY DEF WaitInv, TypeInv, NotSent, Answers
<1> QED BY <1>1, <1>2, <1>3

LEMMA StartWaitInv == IInv /\ StartWait => IInv'
<1> SUFFICES ASSUME IInv, StartWait PROVE IInv'
  OBVIOUS
<1> USE DEF IInv
<1>1. method \in Waits /\ stage = "answered" /\ wait = "none" /\ got = "ok"
  BY DEF StartWait
<1>2. Changes
  BY <1>1, OwnRequestChangesOnce DEF TypeInv, Changes
<1>3. /\ wait' \in {"first", "poll"} /\ (wait' = "first" => api \in Ended)
      /\ stage' = "build" /\ attempt' = 0 /\ got' = "none"
      /\ UNCHANGED <<call, failures, polls, read, lost, result, world>>
  BY DEF StartWait, Ask, isTerminalDisruptionStatus, Ended
<1>4. TypeInv'
  BY <1>1, <1>3 DEF TypeInv, call, world
<1>5. OwnRequestInv'
  BY <1>1, <1>2, <1>3, SameRequest DEF OwnRequestInv, TypeInv, call, world
<1>6. WaitInv'
  BY <1>1, <1>3 DEF WaitInv, TypeInv, world
<1> QED BY <1>4, <1>5, <1>6

LEMMA FirstReadInv == IInv /\ FirstRead => IInv'
<1> SUFFICES ASSUME IInv, FirstRead PROVE IInv'
  OBVIOUS
<1> USE DEF IInv, FirstRead, Return, world
<1>1. TypeInv'
  BY DEF TypeInv, call
<1>2. OwnRequestInv'
  BY SameRequest DEF OwnRequestInv, TypeInv, call
<1>3. WaitInv'
  BY DEF WaitInv, TypeInv, Answers, NotSent
<1> QED BY <1>1, <1>2, <1>3

LEMMA PollInv == IInv /\ Poll => IInv'
<1> SUFFICES ASSUME IInv, Poll PROVE IInv'
  OBVIOUS
<1>1. PICK n \in Nat :
        /\ n = consecutiveFailures(IF got = "ok" THEN 0 ELSE 1)
        /\ n <= lost' /\ lost' \in Nat
  <2>1. lost' = IF got = "ok" THEN 0 ELSE lost + 1
    BY DEF Poll
  <2>2. consecutiveFailures(IF got = "ok" THEN 0 ELSE 1)
          = IF got = "ok" THEN 0 ELSE failures + 1
    BY DEF consecutiveFailures
  <2>3. failures \in Nat /\ lost \in Nat /\ failures <= lost
    BY DEF IInv, Poll, WaitInv, TypeInv
  <2> QED BY <2>1, <2>2, <2>3
<1>2. UNCHANGED <<call, wait, world, attempt, got>>
  BY DEF Poll, Return
<1>3. \/ got = "ok" /\ api \in Ended /\ stage' = "returned" /\ result' = "report"
      \/ /\ got = "ok" => api \notin Ended
         /\ stage' = "returned" /\ result' \in {"4xx", "timed out"}
      \/ /\ got # "ok" /\ n >= maxConsecutivePollFailures
         /\ stage' = "returned" /\ result' = "gave up"
      \/ /\ got = "ok" => api \notin Ended
         /\ stage' = "pause" /\ result' = result /\ failures' = n
  BY <1>1 DEF Poll, Return, Permanent, isTerminalDisruptionStatus
<1>4. failures' \in Nat /\ polls' \in Nat
  <2>1. /\ failures' = failures \/ failures' = n
        /\ polls' = polls \/ polls' = polls + 1
    BY <1>1 DEF Poll, Return
  <2>2. failures \in Nat /\ polls \in Nat
    BY DEF IInv, TypeInv
  <2> QED BY <1>1, <2>1, <2>2
<1>5. read' = IF got = "ok" THEN api ELSE read
  BY DEF Poll
<1>6. wait = "poll" /\ stage = "answered" /\ result = "none" /\ read \notin Ended
  BY DEF Poll, IInv, TypeInv, WaitInv
<1>7. TypeInv'
  BY <1>1, <1>2, <1>3, <1>4, <1>5, <1>6 DEF IInv, TypeInv, call, world, Answers
<1>8. OwnRequestInv'
  BY <1>2, <1>6, SameRequest DEF IInv, OwnRequestInv, call, world
<1>9. WaitInv'
  <2>1. api' = api /\ api \in Statuses /\ wait' = wait
    BY <1>2 DEF IInv, TypeInv, world
  <2>2. /\ read' \in Ended <=> result' = "report"
        /\ read' \in Ended => read' = api'
    BY <1>3, <1>5, <1>6, <2>1 DEF Ended
  <2>3. stage' # "returned" => failures' <= lost'
    BY <1>1, <1>3
  <2>4. result' = "gave up" => lost' >= maxConsecutivePollFailures
    <3>1. maxConsecutivePollFailures \in Nat
      BY ClientAssumption
    <3>2. result' = "gave up" => n >= maxConsecutivePollFailures
      BY <1>3, <1>6
    <3>3. n <= lost' /\ lost' \in Nat
      BY <1>1
    <3>4. ASSUME n >= maxConsecutivePollFailures
          PROVE  lost' >= maxConsecutivePollFailures
      BY <3>1, <3>3, <3>4
    <3> QED BY <3>2, <3>4
  <2> QED BY <1>6, <2>1, <2>2, <2>3, <2>4 DEF WaitInv
<1> QED BY <1>7, <1>8, <1>9 DEF IInv

LEMMA PauseInv == IInv /\ Pause => IInv'
<1> SUFFICES ASSUME IInv, Pause PROVE IInv'
  OBVIOUS
<1> USE DEF IInv, Pause, Return, Ask, world
<1>1. TypeInv'
  <2>1. CASE ctx = "cancelled"
    BY <2>1 DEF TypeInv, call
  <2>2. CASE ctx # "cancelled"
    <3>1. /\ stage' = "build" /\ attempt' = 0 /\ got' = "none" /\ wait' = "poll"
          /\ UNCHANGED <<call, failures, polls, read, lost, result, world>>
      BY <2>2
    <3>2. result = "none"
      BY DEF TypeInv
    <3> QED BY <3>1, <3>2 DEF TypeInv, call
  <2> QED BY <2>1, <2>2
<1>2. OwnRequestInv'
  BY SameRequest DEF OwnRequestInv, TypeInv, call
<1>3. WaitInv'
  BY DEF WaitInv, TypeInv
<1> QED BY <1>1, <1>2, <1>3

LEMMA OutsideInv == IInv /\ (Interrupt \/ DisruptionEnds) => IInv'
<1> SUFFICES ASSUME IInv, Interrupt \/ DisruptionEnds PROVE IInv'
  OBVIOUS
<1> USE DEF IInv, Interrupt, DisruptionEnds, request, waiting
<1>1. TypeInv'
  BY DEF TypeInv, call, Statuses
<1>2. OwnRequestInv'
  BY SameRequest DEF OwnRequestInv, TypeInv
<1>3. WaitInv'
  BY DEF WaitInv, TypeInv, Ended
<1> QED BY <1>1, <1>2, <1>3

LEMMA StutterInv == IInv /\ UNCHANGED vars => IInv'
BY DEF IInv, TypeInv, OwnRequestInv, WaitInv, vars, call, request, waiting, world,
       Changes, OwnRequest

LEMMA StepInv == IInv /\ [Next]_vars => IInv'
BY BuildInv, SendInv, AgainInv, AnsweredInv, BackoffInv, DeliverInv, StartWaitInv,
   FirstReadInv, PollInv, PauseInv, OutsideInv, StutterInv
   DEF Next, Requesting, Deciding

\* The inductive invariant: what has been done of the call's own request by
\* each stage of it, and what a wait has read (doRequestWith,
\* awaitDisruptionFrom).
THEOREM CallInvariant == Spec => []IInv
BY InitInv, StepInv, PTL DEF Spec

-----------------------------------------------------------------------------
(* What it says of a call *)

\* A call that changes something is carried out at most once, and what is
\* returned as done was done, and as refused was not, whatever was lost on
\* the way and however often a request that may be repeated was repeated
\* (doRequestWith, PruneTests).
THEOREM ChangesAtMostOnce == Spec => []ChangedAtMostOnce
<1>1. IInv => ChangedAtMostOnce
  <2> SUFFICES ASSUME IInv PROVE ChangedAtMostOnce
    OBVIOUS
  <2>2. result \in {"ok", "report"} /\ Changes => done = 1
    <3> SUFFICES ASSUME result \in {"ok", "report"}, Changes PROVE done = 1
      OBVIOUS
    <3>1. stage = "returned"
      BY DEF IInv, TypeInv
    <3> QED BY <3>1 DEF IInv, OwnRequestInv
  <2>3. result \in {"4xx", "429", "invalid", "setup"} /\ wait = "none" => done = 0
    BY DEF IInv, TypeInv, OwnRequestInv, NotSent
  <2> QED BY <2>2, <2>3 DEF ChangedAtMostOnce, Changes, IInv, OwnRequestInv
<1> QED BY <1>1, CallInvariant, PTL

\* A wait's report is of a disruption that has ended, one that may still be
\* running was never read as ended, and the wait gives up only after so many
\* polls in a row that brought nothing, for every budget of polls and every
\* limit of failures (awaitDisruptionFrom).
THEOREM WaitsTellTheTruth == Spec => []WaitTellsTheTruth
<1>1. IInv => WaitTellsTheTruth
  BY DEF IInv, WaitInv, WaitTellsTheTruth
<1> QED BY <1>1, CallInvariant, PTL
================================================================================
