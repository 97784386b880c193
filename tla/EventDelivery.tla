---------------------------- MODULE EventDelivery ----------------------------
(***************************************************************************)
(* What becomes of a run's lifecycle event once its transaction has queued *)
(* it: the outbox poller publishes it to Kafka, the poller's callbacks     *)
(* delete it or count the failure, the consumer reads it back, remembers   *)
(* it in processed_events and fires the webhooks, and each webhook is      *)
(* tried three times (OutboxPoller, OutboxCleaner, WebhookService).        *)
(*                                                                         *)
(* RunLifecycle says which events are queued, and when. Here an event is   *)
(* one idempotency key, a run's id with a status.                          *)
(***************************************************************************)
EXTENDS Integers, Sequences, FiniteSets

CONSTANTS
  Events,       \* run id and status pairs
  Endings,      \* those whose status is DONE or FAILED
  Poison,       \* those whose payload does not deserialise
  Hooks,        \* names webhooks are registered under
  Window,       \* rows one poll reads: 50 in the code
  MaxAttempts,  \* kates.outbox.max-attempts
  MaxTries,     \* attempts at one webhook: 3 in the code
  Retention,    \* kates.outbox.processed-events-retention-days
  MaxTime,      \* bound on the clock, in the unit of Retention
  MaxBacklog,   \* bound on an event's callbacks that wait in the executor
  Failures,     \* which of "restart" and "throw" (by a database call) happen
  MaxFaults     \* bound on how often they do

ASSUME EventsAssumption == IsFiniteSet(Events) /\ Endings \subseteq Events /\ Poison \subseteq Events
ASSUME TimesAssumption == Retention \in Nat /\ MaxTime \in Nat
ASSUME BoundsAssumption == MaxFaults \in Nat /\ MaxTries \in Nat \ {0}

VARIABLES
  queued,     \* the rows of outbox_events
  order,      \* the place of an event's createdAt among the others
  attempts,   \* failed attempts at publishing each event
  dead,       \* outbox_dead_letters
  flight,     \* inFlight: "sent", or "written" once the broker has it; "no" otherwise
  deletes,    \* cleaner.delete calls that wait in the executor, per event
  fails,      \* cleaner.recordFailure calls that do
  topic,      \* kates-test-events
  position,   \* records the consumer has read
  committed,  \* the consumer group's committed offset
  consumer,   \* the thread in onTestEvent
  born,       \* an event's timestamp; -1 before it is queued
  ledger,     \* processed_events: when an event was first handled, or -1
  hooks,      \* webhook_registrations: the endings each one asks for, {} for no row
  delivery,   \* the thread that calls one webhook about one event
  fired,      \* how often the webhooks of an event were fired
  now,        \* the time
  faults      \* restarts and throws so far

rows == <<queued, order, attempts, dead>>
sending == <<flight, deletes, fails>>
reading == <<topic, position, committed>>
telling == <<ledger, hooks, delivery, fired>>
vars == <<queued, order, attempts, dead, flight, deletes, fails, topic, position, committed,
          consumer, born, ledger, hooks, delivery, fired, now, faults>>

Waiting == [pc |-> "idle", event |-> "none"]
NotFired == [state |-> "none", tries |-> 0]

\* One more failure of this kind.
FaultOf(kind) ==
  /\ kind \in Failures
  /\ faults < MaxFaults
  /\ faults' = faults + 1

-----------------------------------------------------------------------------
(* Queueing: enqueueLifecycleEvent, in the transaction that changes the status *)

Enqueue(e) ==
  /\ born[e] = -1
  /\ born' = [born EXCEPT ![e] = now]
  /\ order' = [order EXCEPT ![e] = Cardinality({f \in Events : born[f] # -1})]
  /\ queued' = queued \cup {e}
  /\ UNCHANGED <<attempts, dead, sending, reading, consumer, telling, now, faults>>

-----------------------------------------------------------------------------
(* Publishing: OutboxPoller and OutboxCleaner *)

\* Mutant: failures are not counted, and no event is ever retired.
NeverRetire(failed) == UNCHANGED <<queued, attempts, dead>>

\* recordFailure, for the events of a set: a row with no attempt left is moved
\* to the dead letters.
RecordFailure(failed) ==
  LET retired == {e \in failed : attempts[e] + 1 >= MaxAttempts} IN
  /\ attempts' = [e \in Events |-> IF e \in failed THEN attempts[e] + 1 ELSE attempts[e]]
  /\ dead' = dead \cup retired
  /\ queued' = queued \ retired

\* The oldest rows, but for those that still await their answer.
Batch ==
  {e \in queued : /\ flight[e] = "no"
                  /\ Cardinality({f \in queued : order[f] < order[e]}) < Window}

Backlog(e) == fails[e] + deletes[e]

\* Mutant: a row goes as soon as it is sent.
DeleteAtOnce ==
  /\ Batch # {}
  /\ flight' = [e \in Events |-> IF e \in Batch THEN "sent" ELSE flight[e]]
  /\ queued' = queued \ Batch
  /\ UNCHANGED <<order, attempts, dead, deletes, fails, reading, consumer, born, telling, now, faults>>

\* processOutbox. refused: the payloads that do not parse and the sends the
\* emitter does not take. When its commit throws, what was sent stays sent.
ProcessOutbox ==
  /\ Batch # {}
  /\ \A e \in Batch : Backlog(e) < MaxBacklog
  /\ \E refused \in SUBSET Batch :
       /\ Batch \cap Poison \subseteq refused
       /\ flight' = [e \in Events |-> IF e \in Batch \ refused THEN "sent" ELSE flight[e]]
       /\ \/ RecordFailure(refused) /\ UNCHANGED faults
          \/ FaultOf("throw") /\ UNCHANGED <<queued, attempts, dead>>
  /\ UNCHANGED <<order, deletes, fails, reading, consumer, born, telling, now>>

\* The broker appends the record.
BrokerWrites(e) ==
  /\ flight[e] = "sent"
  /\ flight' = [flight EXCEPT ![e] = "written"]
  /\ topic' = Append(topic, e)
  /\ UNCHANGED <<rows, deletes, fails, position, committed, consumer, born, telling, now, faults>>

\* The callback of dispatch: the send is acknowledged, or failed, and a record
\* whose send failed may have been written all the same.
Acknowledged(e) ==
  /\ flight[e] = "written"
  /\ flight' = [flight EXCEPT ![e] = "no"]
  /\ deletes' = [deletes EXCEPT ![e] = @ + 1]
  /\ UNCHANGED <<rows, fails, reading, consumer, born, telling, now, faults>>

SendFailed(e) ==
  /\ flight[e] # "no"
  /\ flight' = [flight EXCEPT ![e] = "no"]
  /\ fails' = [fails EXCEPT ![e] = @ + 1]
  /\ UNCHANGED <<rows, deletes, reading, consumer, born, telling, now, faults>>

\* cleaner.delete, in the executor; an exception leaves the row.
Delete(e) ==
  /\ deletes[e] > 0
  /\ deletes' = [deletes EXCEPT ![e] = @ - 1]
  /\ \/ queued' = queued \ {e} /\ UNCHANGED faults
     \/ FaultOf("throw") /\ UNCHANGED queued
  /\ UNCHANGED <<order, attempts, dead, flight, fails, reading, consumer, born, telling, now>>

\* cleaner.recordFailure, in the executor; the row may be gone by then.
RecordFailureLater(e) ==
  /\ fails[e] > 0
  /\ fails' = [fails EXCEPT ![e] = @ - 1]
  /\ \/ RecordFailure({e} \cap queued) /\ UNCHANGED faults
     \/ FaultOf("throw") /\ UNCHANGED <<queued, attempts, dead>>
  /\ UNCHANGED <<order, flight, deletes, reading, consumer, born, telling, now>>

-----------------------------------------------------------------------------
(* Handling: onTestEvent *)

\* Mutant: events of any age are handled.
NeverOld(e) == FALSE

OlderThanLedger(e) == born[e] < now - Retention

\* The next record of the topic, unless it is too old to be handled.
OnTestEvent ==
  LET e == topic[position + 1] IN
  /\ consumer.pc = "idle"
  /\ position < Len(topic)
  /\ position' = position + 1
  /\ IF OlderThanLedger(e) THEN UNCHANGED consumer ELSE consumer' = [pc |-> "mark", event |-> e]
  /\ UNCHANGED <<rows, sending, topic, committed, born, telling, now, faults>>

\* checkAndMarkProcessed; it takes an exception for a concurrent duplicate.
CheckAndMarkProcessed ==
  LET e == consumer.event IN
  /\ consumer.pc = "mark"
  /\ \/ /\ ledger[e] # -1
        /\ consumer' = Waiting
        /\ UNCHANGED <<ledger, faults>>
     \/ /\ ledger[e] = -1
        /\ ledger' = [ledger EXCEPT ![e] = now]
        /\ consumer' = IF e \in Endings THEN [pc |-> "fire", event |-> e] ELSE Waiting
        /\ UNCHANGED faults
     \/ /\ FaultOf("throw")
        /\ consumer' = Waiting
        /\ UNCHANGED ledger
  /\ UNCHANGED <<rows, sending, reading, born, hooks, delivery, fired, now>>

\* Lists the registrations and calls fireAsync for each one that asks for the
\* event; one whose URL the policy blocks is parked in the webhook_dlq.
Fire ==
  LET e == consumer.event
      targets == {w \in Hooks : e \in hooks[w]}
  IN
  /\ consumer.pc = "fire"
  /\ \E blocked \in SUBSET targets :
       delivery' = [delivery EXCEPT ![e] =
         [w \in Hooks |-> IF w \in blocked THEN [state |-> "parked", tries |-> 0]
                          ELSE IF w \in targets THEN [state |-> "trying", tries |-> 1]
                          ELSE @[w]]]
  /\ fired' = [fired EXCEPT ![e] = @ + 1]
  /\ consumer' = Waiting
  /\ UNCHANGED <<rows, sending, reading, born, ledger, hooks, now, faults>>

\* Listing them threw: the record is nacked, which stops the channel until the
\* process starts again.
FireThrows ==
  /\ consumer.pc = "fire"
  /\ FaultOf("throw")
  /\ consumer' = [consumer EXCEPT !.pc = "stopped"]
  /\ UNCHANGED <<rows, sending, reading, born, telling, now>>

\* The offsets of the records that were handled are committed.
CommitOffset ==
  /\ consumer.pc = "idle"
  /\ committed' = position
  /\ UNCHANGED <<rows, sending, topic, position, consumer, born, telling, now, faults>>

-----------------------------------------------------------------------------
(* Telling: the threads fireAsync starts, and the registrations *)

\* A 2xx answer.
Delivered(e, w) ==
  /\ delivery[e][w].state = "trying"
  /\ delivery' = [delivery EXCEPT ![e][w].state = "delivered"]
  /\ UNCHANGED <<rows, sending, reading, consumer, born, ledger, hooks, fired, now, faults>>

\* Mutant: one try too many.
TriesOnceMore(e, w) ==
  /\ delivery[e][w].state = "trying"
  /\ delivery' = [delivery EXCEPT ![e][w] =
       IF @.tries <= MaxTries THEN [@ EXCEPT !.tries = @ + 1] ELSE [@ EXCEPT !.state = "parked"]]
  /\ UNCHANGED <<rows, sending, reading, consumer, born, ledger, hooks, fired, now, faults>>

\* Any other answer, or none: tried again, and parked after the last try.
\* saveToDlq logs its own failure, and nothing keeps the event then.
TryFails(e, w) ==
  /\ delivery[e][w].state = "trying"
  /\ \/ /\ delivery[e][w].tries < MaxTries
        /\ delivery' = [delivery EXCEPT ![e][w].tries = @ + 1]
        /\ UNCHANGED faults
     \/ /\ delivery[e][w].tries = MaxTries
        /\ \/ delivery' = [delivery EXCEPT ![e][w].state = "parked"] /\ UNCHANGED faults
           \/ FaultOf("throw") /\ delivery' = [delivery EXCEPT ![e][w].state = "lost"]
  /\ UNCHANGED <<rows, sending, reading, consumer, born, ledger, hooks, fired, now>>

\* register inserts a row or replaces what it asks for.
Register(w, wanted) ==
  /\ hooks' = [hooks EXCEPT ![w] = wanted]
  /\ UNCHANGED <<rows, sending, reading, consumer, born, ledger, delivery, fired, now, faults>>

Unregister(w) ==
  /\ hooks' = [hooks EXCEPT ![w] = {}]
  /\ UNCHANGED <<rows, sending, reading, consumer, born, ledger, delivery, fired, now, faults>>

-----------------------------------------------------------------------------
(* Time, the ledger's retention and restarts *)

\* A handler is far quicker than a day: none is between its two checks of an
\* event's age when the clock moves.
Tick ==
  /\ now < MaxTime
  /\ consumer.pc # "mark"
  /\ now' = now + 1
  /\ UNCHANGED <<rows, sending, reading, consumer, born, telling, faults>>

PruneProcessedEvents ==
  /\ \E e \in Events : ledger[e] # -1 /\ ledger[e] < now - Retention
  /\ ledger' = [e \in Events |-> IF ledger[e] < now - Retention THEN -1 ELSE ledger[e]]
  /\ UNCHANGED <<rows, sending, reading, consumer, born, hooks, delivery, fired, now, faults>>

\* The process ends and starts again, and the group resumes from its committed
\* offset, or from the oldest record when it has none any more.
Restart ==
  /\ FaultOf("restart")
  /\ flight' = [e \in Events |-> "no"]
  /\ deletes' = [e \in Events |-> 0]
  /\ fails' = [e \in Events |-> 0]
  /\ position' \in {committed, 0}
  /\ committed' = position'
  /\ consumer' = Waiting
  /\ delivery' = [e \in Events |-> [w \in Hooks |->
       IF delivery[e][w].state = "trying" THEN [delivery[e][w] EXCEPT !.state = "lost"]
       ELSE delivery[e][w]]]
  /\ UNCHANGED <<rows, topic, born, ledger, hooks, fired, now>>

-----------------------------------------------------------------------------
(* The specification *)

Init ==
  /\ queued = {}
  /\ order = [e \in Events |-> 0]
  /\ attempts = [e \in Events |-> 0]
  /\ dead = {}
  /\ flight = [e \in Events |-> "no"]
  /\ deletes = [e \in Events |-> 0]
  /\ fails = [e \in Events |-> 0]
  /\ topic = <<>>
  /\ position = 0
  /\ committed = 0
  /\ consumer = Waiting
  /\ born = [e \in Events |-> -1]
  /\ ledger = [e \in Events |-> -1]
  /\ hooks = [w \in Hooks |-> {}]
  /\ delivery = [e \in Events |-> [w \in Hooks |-> NotFired]]
  /\ fired = [e \in Events |-> 0]
  /\ now = 0
  /\ faults = 0

Answered(e) == Acknowledged(e) \/ SendFailed(e)
Callback(e) == Delete(e) \/ RecordFailureLater(e)
Handling == OnTestEvent \/ CheckAndMarkProcessed \/ Fire
Tried(e, w) == Delivered(e, w) \/ TryFails(e, w)

Next ==
  \/ \E e \in Events : Enqueue(e) \/ BrokerWrites(e) \/ Answered(e) \/ Callback(e)
  \/ ProcessOutbox
  \/ Handling \/ FireThrows \/ CommitOffset
  \/ \E e \in Events, w \in Hooks : Tried(e, w)
  \/ \E w \in Hooks : Unregister(w) \/ \E wanted \in SUBSET Endings \ {{}} : Register(w, wanted)
  \/ Tick \/ PruneProcessedEvents \/ Restart

Spec == Init /\ [][Next]_vars

\* The scheduler polls, every send is answered in the end (the producer gives up
\* after its delivery timeout), the executor runs what it was given, the
\* consumer goes on and a call of a webhook ends (it times out). Nothing is
\* assumed of the broker, of the receivers' answers, or of time.
Fairness ==
  /\ WF_vars(ProcessOutbox)
  /\ \A e \in Events : WF_vars(Answered(e)) /\ WF_vars(Delete(e)) /\ WF_vars(RecordFailureLater(e))
  /\ WF_vars(Handling)
  /\ \A e \in Events, w \in Hooks : WF_vars(Tried(e, w))

FairSpec == Spec /\ Fairness

-----------------------------------------------------------------------------
(* Properties *)

Published == {topic[i] : i \in 1..Len(topic)}

RowsTypeOK ==
  /\ queued \in SUBSET Events /\ dead \in SUBSET Events
  /\ order \in [Events -> Nat] /\ attempts \in [Events -> Nat]

SendingTypeOK ==
  /\ flight \in [Events -> {"no", "sent", "written"}]
  /\ deletes \in [Events -> Nat] /\ fails \in [Events -> Nat]

\* onTestEvent waits, or has an event in hand.
Handlers == {Waiting} \cup [pc : {"mark", "fire", "stopped"}, event : Events]

ReadingTypeOK ==
  /\ topic \in Seq(Events)
  /\ position \in 0..Len(topic) /\ committed \in 0..Len(topic)
  /\ consumer \in Handlers

TimesTypeOK ==
  /\ now \in 0..MaxTime /\ faults \in 0..MaxFaults
  /\ born \in [Events -> -1..now] /\ ledger \in [Events -> -1..now]

\* The call of a webhook: what became of it, and which try it is.
Calls == [state : {"none", "trying", "delivered", "parked", "lost"}, tries : 0..MaxTries]

TellingTypeOK ==
  /\ hooks \in [Hooks -> SUBSET Endings]
  /\ delivery \in [Events -> [Hooks -> Calls]]
  /\ fired \in [Events -> Nat]

TypeOK == RowsTypeOK /\ SendingTypeOK /\ ReadingTypeOK /\ TimesTypeOK /\ TellingTypeOK

\* "An event read twice fires its webhooks once": whatever is published again
\* because its delete came late, failed or was lost, whatever offsets the group
\* goes back to and whatever the ledger has forgotten.
FiredOnce == \A e \in Events : fired[e] <= 1

\* At-least-once publishing ("the row is deleted only after the broker
\* acknowledges"): a row that is gone is in the topic or in the dead letters.
NothingDropped == \A e \in Events : born[e] # -1 => e \in queued \cup dead \cup Published

\* When no database call throws and the process stays up, a webhook that asks
\* for an ending in time hears of it or has it parked, unless the event is given up or
\* gets too old.
EndingIsTold ==
  \A e \in Endings, w \in Hooks :
    e \in queued /\ fired[e] = 0 /\ e \in hooks[w]
      ~> \/ delivery[e][w].state \in {"delivered", "parked"}
         \/ e \notin hooks[w] \/ e \in dead \/ OlderThanLedger(e) \/ faults > 0
==============================================================================
