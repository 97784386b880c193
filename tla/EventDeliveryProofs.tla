------------------------- MODULE EventDeliveryProofs -------------------------
(***************************************************************************)
(* For any number of events, hooks, attempts and failures: EventDelivery    *)
(* keeps its types, fires the webhooks of an event at most once and drops   *)
(* no event between the outbox and the topic.                              *)
(***************************************************************************)
EXTENDS EventDelivery, FiniteSetTheorems, SequenceTheorems, TLAPS

-----------------------------------------------------------------------------
(* Type correctness *)

LEMMA FaultType ==
  ASSUME NEW kind, faults \in 0..MaxFaults, FaultOf(kind)
  PROVE  faults' \in 0..MaxFaults
BY BoundsAssumption DEF FaultOf

LEMMA RecordFailureType ==
  ASSUME RowsTypeOK, NEW failed \in SUBSET Events, RecordFailure(failed), UNCHANGED order
  PROVE  RowsTypeOK'
BY DEF RowsTypeOK, RecordFailure

\* Which groups of variables a step leaves alone.
LEMMA Untouched ==
  /\ RowsTypeOK /\ UNCHANGED rows => RowsTypeOK'
  /\ SendingTypeOK /\ UNCHANGED sending => SendingTypeOK'
  /\ ReadingTypeOK /\ UNCHANGED reading /\ UNCHANGED consumer => ReadingTypeOK'
  /\ TimesTypeOK /\ UNCHANGED <<now, born, ledger>> /\ faults' \in 0..MaxFaults => TimesTypeOK'
  /\ TellingTypeOK /\ UNCHANGED <<hooks, delivery, fired>> => TellingTypeOK'
BY DEF RowsTypeOK, SendingTypeOK, ReadingTypeOK, TimesTypeOK, TellingTypeOK, rows, sending, reading

\* The event the consumer has in hand.
LEMMA InHand ==
  ASSUME ReadingTypeOK, consumer.pc # "idle"
  PROVE  consumer.event \in Events
BY DEF ReadingTypeOK, Handlers, Waiting

\* Enqueueing, the poller and its callbacks.
LEMMA PublishingType ==
  ASSUME TypeOK,
         \/ \E e \in Events : Enqueue(e) \/ BrokerWrites(e) \/ Answered(e) \/ Callback(e)
         \/ ProcessOutbox
  PROVE  TypeOK'
<1> USE DEF TypeOK
<1>a. faults \in 0..MaxFaults
  BY DEF TimesTypeOK
<1>1. ASSUME NEW e \in Events, Enqueue(e) PROVE TypeOK'
  <2>1. Cardinality({f \in Events : born[f] # -1}) \in Nat
    BY EventsAssumption, FS_Subset, FS_CardinalityType
  <2>2. RowsTypeOK'
    BY <1>1, <2>1 DEF Enqueue, RowsTypeOK
  <2>3. TimesTypeOK'
    BY <1>1 DEF Enqueue, TimesTypeOK, telling
  <2> QED BY <1>1, <2>2, <2>3, Untouched DEF Enqueue, telling
<1>2. ASSUME NEW e \in Events, BrokerWrites(e) PROVE TypeOK'
  <2>1. topic' \in Seq(Events) /\ Len(topic') = Len(topic) + 1 /\ Len(topic) \in Nat
    BY <1>2 DEF ReadingTypeOK, BrokerWrites
  <2>2. ReadingTypeOK'
    BY <1>2, <2>1 DEF ReadingTypeOK, BrokerWrites
  <2>3. SendingTypeOK'
    BY <1>2 DEF SendingTypeOK, BrokerWrites
  <2> QED BY <1>2, <1>a, <2>2, <2>3, Untouched DEF BrokerWrites, telling
<1>3. ASSUME NEW e \in Events, Answered(e) PROVE TypeOK'
  <2>1. SendingTypeOK'
    BY <1>3 DEF SendingTypeOK, Answered, Acknowledged, SendFailed
  <2> QED BY <1>3, <1>a, <2>1, Untouched DEF Answered, Acknowledged, SendFailed, telling
<1>4. ASSUME NEW e \in Events, Delete(e) PROVE TypeOK'
  <2>1. faults' \in 0..MaxFaults
    BY <1>4, <1>a, FaultType DEF Delete
  <2>2. RowsTypeOK' /\ SendingTypeOK'
    BY <1>4 DEF RowsTypeOK, SendingTypeOK, Delete
  <2> QED BY <1>4, <2>1, <2>2, Untouched DEF Delete, telling
<1>5. ASSUME NEW e \in Events, RecordFailureLater(e) PROVE TypeOK'
  <2>1. faults' \in 0..MaxFaults
    BY <1>5, <1>a, FaultType DEF RecordFailureLater
  <2>2. RowsTypeOK'
    BY <1>5, RecordFailureType, Untouched DEF RecordFailureLater, rows
  <2>3. SendingTypeOK'
    BY <1>5 DEF SendingTypeOK, RecordFailureLater
  <2> QED BY <1>5, <2>1, <2>2, <2>3, Untouched DEF RecordFailureLater, telling
<1>6. ASSUME ProcessOutbox PROVE TypeOK'
  <2>1. faults' \in 0..MaxFaults
    BY <1>6, <1>a, FaultType DEF ProcessOutbox
  <2>2. Batch \subseteq Events
    BY DEF Batch, RowsTypeOK
  <2>3. RowsTypeOK'
    BY <1>6, <2>2, RecordFailureType, Untouched DEF ProcessOutbox, rows
  <2>4. SendingTypeOK'
    BY <1>6 DEF SendingTypeOK, ProcessOutbox
  <2> QED BY <1>6, <2>1, <2>3, <2>4, Untouched DEF ProcessOutbox, telling
<1> QED BY <1>1, <1>2, <1>3, <1>4, <1>5, <1>6 DEF Callback

\* The consumer.
LEMMA HandlingType ==
  ASSUME TypeOK, Handling \/ FireThrows \/ CommitOffset
  PROVE  TypeOK'
<1> USE DEF TypeOK
<1>a. faults \in 0..MaxFaults
  BY DEF TimesTypeOK
<1>b. Waiting \in Handlers /\ \A pc \in {"mark", "fire", "stopped"}, e \in Events :
                                [pc |-> pc, event |-> e] \in Handlers
  BY DEF Handlers
<1>1. CASE OnTestEvent
  <2>1. position + 1 \in 1..Len(topic) /\ topic[position + 1] \in Events
    <3>1. topic \in Seq(Events) /\ Len(topic) \in Nat /\ position \in Nat /\ position < Len(topic)
      BY <1>1 DEF ReadingTypeOK, OnTestEvent
    <3>2. position + 1 \in 1..Len(topic)
      BY <3>1
    <3> QED BY <3>1, <3>2, ElementOfSeq
  <2>2. ReadingTypeOK'
    <3>1. consumer' \in Handlers
      BY <1>1, <1>b, <2>1 DEF ReadingTypeOK, OnTestEvent
    <3>2. position' \in 0..Len(topic)
      BY <1>1, <2>1 DEF ReadingTypeOK, OnTestEvent
    <3> QED BY <1>1, <3>1, <3>2 DEF ReadingTypeOK, OnTestEvent
  <2> QED BY <1>1, <1>a, <2>2, Untouched DEF OnTestEvent, telling
<1>2. CASE CheckAndMarkProcessed
  <2>1. consumer.event \in Events
    BY <1>2, InHand DEF CheckAndMarkProcessed
  <2>2. faults' \in 0..MaxFaults
    BY <1>2, <1>a, FaultType DEF CheckAndMarkProcessed
  <2>3. TimesTypeOK'
    BY <1>2, <2>1, <2>2 DEF TimesTypeOK, CheckAndMarkProcessed
  <2>4. ReadingTypeOK'
    <3>1. consumer' \in Handlers
      BY <1>2, <1>b, <2>1 DEF CheckAndMarkProcessed
    <3> QED BY <1>2, <3>1 DEF ReadingTypeOK, CheckAndMarkProcessed, reading
  <2> QED BY <1>2, <2>3, <2>4, Untouched DEF CheckAndMarkProcessed
<1>3. CASE Fire
  <2>1. consumer.event \in Events
    BY <1>3, InHand DEF Fire
  <2>2. [state |-> "parked", tries |-> 0] \in Calls /\ [state |-> "trying", tries |-> 1] \in Calls
    BY BoundsAssumption DEF Calls
  <2>3. TellingTypeOK'
    BY <1>3, <2>1, <2>2 DEF Fire, TellingTypeOK
  <2>4. ReadingTypeOK'
    BY <1>3, <1>b DEF Fire, ReadingTypeOK, reading
  <2> QED BY <1>3, <1>a, <2>3, <2>4, Untouched DEF Fire
<1>4. CASE FireThrows
  <2>1. faults' \in 0..MaxFaults
    BY <1>4, <1>a, FaultType DEF FireThrows
  <2>2. consumer' \in Handlers
    BY <1>4 DEF FireThrows, ReadingTypeOK, Handlers, Waiting
  <2>3. ReadingTypeOK'
    BY <1>4, <2>2 DEF FireThrows, ReadingTypeOK, reading
  <2> QED BY <1>4, <2>1, <2>3, Untouched DEF FireThrows, telling
<1>5. CASE CommitOffset
  <2>1. ReadingTypeOK'
    BY <1>5 DEF CommitOffset, ReadingTypeOK
  <2> QED BY <1>5, <1>a, <2>1, Untouched DEF CommitOffset, telling
<1> QED BY <1>1, <1>2, <1>3, <1>4, <1>5 DEF Handling

\* The calls of the webhooks, their registrations, time and restarts.
LEMMA TellingType ==
  ASSUME TypeOK,
         \/ \E e \in Events, w \in Hooks : Tried(e, w)
         \/ \E w \in Hooks : Unregister(w) \/ \E wanted \in SUBSET Endings \ {{}} : Register(w, wanted)
         \/ Tick \/ PruneProcessedEvents \/ Restart
  PROVE  TypeOK'
<1> USE DEF TypeOK
<1>a. faults \in 0..MaxFaults
  BY DEF TimesTypeOK
<1>1. ASSUME NEW e \in Events, NEW w \in Hooks, Tried(e, w) PROVE TypeOK'
  <2>1. faults' \in 0..MaxFaults
    BY <1>1, <1>a, FaultType DEF Tried, Delivered, TryFails
  <2>2. delivery[e][w] \in Calls
    BY DEF TellingTypeOK
  <2>3. /\ \A s \in {"delivered", "parked", "lost"} : [delivery[e][w] EXCEPT !.state = s] \in Calls
        /\ delivery[e][w].tries < MaxTries
             => [delivery[e][w] EXCEPT !.tries = delivery[e][w].tries + 1] \in Calls
    BY <2>2, BoundsAssumption DEF Calls
  <2>4. \E call \in Calls : delivery' = [delivery EXCEPT ![e][w] = call]
    BY <1>1, <2>3 DEF Tried, Delivered, TryFails, TellingTypeOK
  <2>5. TellingTypeOK'
    BY <1>1, <2>4 DEF TellingTypeOK, Tried, Delivered, TryFails
  <2> QED BY <1>1, <2>1, <2>5, Untouched DEF Tried, Delivered, TryFails
<1>2. ASSUME NEW w \in Hooks, NEW wanted \in SUBSET Endings, Unregister(w) \/ Register(w, wanted)
      PROVE  TypeOK'
  <2>1. TellingTypeOK'
    BY <1>2 DEF TellingTypeOK, Unregister, Register
  <2> QED BY <1>2, <1>a, <2>1, Untouched DEF Unregister, Register
<1>3. CASE Tick
  <2>1. now' \in 0..MaxTime /\ -1..now \subseteq -1..now'
    BY <1>3, TimesAssumption DEF TimesTypeOK, Tick
  <2>2. TimesTypeOK'
    BY <1>3, <2>1 DEF TimesTypeOK, Tick, telling
  <2> QED BY <1>3, <2>2, Untouched DEF Tick, telling
<1>4. CASE PruneProcessedEvents
  <2>1. TimesTypeOK'
    BY <1>4, TimesAssumption DEF TimesTypeOK, PruneProcessedEvents
  <2> QED BY <1>4, <2>1, Untouched DEF PruneProcessedEvents
<1>5. CASE Restart
  <2>1. faults' \in 0..MaxFaults
    BY <1>5, <1>a, FaultType DEF Restart
  <2>2. \A e \in Events, w \in Hooks : [delivery[e][w] EXCEPT !.state = "lost"] \in Calls
    BY DEF TellingTypeOK, Calls
  <2>3. TellingTypeOK'
    BY <1>5, <2>2 DEF Restart, TellingTypeOK
  <2>4. ReadingTypeOK'
    BY <1>5 DEF Restart, ReadingTypeOK, Handlers
  <2>5. SendingTypeOK'
    BY <1>5 DEF Restart, SendingTypeOK
  <2> QED BY <1>5, <2>1, <2>3, <2>4, <2>5, Untouched DEF Restart
<1> QED BY <1>1, <1>2, <1>3, <1>4, <1>5

\* Every variable keeps its type; in particular the consumer never reads past the
\* topic and no webhook is tried more often than it should be.
THEOREM TypeCorrect == Spec => []TypeOK
<1>1. Init => TypeOK
  <2> SUFFICES ASSUME Init PROVE TypeOK
    OBVIOUS
  <2>1. RowsTypeOK /\ SendingTypeOK
    BY DEF Init, RowsTypeOK, SendingTypeOK
  <2>2. ReadingTypeOK
    BY DEF Init, ReadingTypeOK, Handlers
  <2>3. TimesTypeOK
    BY TimesAssumption, BoundsAssumption DEF Init, TimesTypeOK
  <2>4. TellingTypeOK
    BY BoundsAssumption DEF Init, TellingTypeOK, NotFired, Calls
  <2> QED BY <2>1, <2>2, <2>3, <2>4 DEF TypeOK
<1>2. TypeOK /\ [Next]_vars => TypeOK'
  <2> SUFFICES ASSUME TypeOK, [Next]_vars PROVE TypeOK'
    OBVIOUS
  <2>1. CASE UNCHANGED vars
    <3>1. UNCHANGED <<rows, sending, reading, consumer, now, born, telling, faults>>
      BY <2>1 DEF vars, rows, sending, reading, telling
    <3> QED BY <3>1, Untouched DEF TypeOK, TimesTypeOK, telling
  <2> QED BY <2>1, PublishingType, HandlingType, TellingType DEF Next
<1> QED BY <1>1, <1>2, PTL DEF Spec

-----------------------------------------------------------------------------
(* Nothing is dropped *)

\* What the broker has, and what is about to be deleted, is in the topic.
WrittenIsPublished ==
  \A e \in Events : flight[e] = "written" \/ deletes[e] > 0 => e \in Published

\* NothingDropped is not inductive: a delete runs long after the acknowledgement
\* it rests on.
DropInv == NothingDropped /\ WrittenIsPublished

LEMMA PublishedKept == UNCHANGED topic => Published' = Published
BY DEF Published

LEMMA PublishedGrows ==
  ASSUME ReadingTypeOK, NEW e \in Events, topic' = Append(topic, e)
  PROVE  Published' = Published \cup {e}
<1>1. /\ Len(topic') = Len(topic) + 1 /\ topic'[Len(topic) + 1] = e /\ Len(topic) \in Nat
      /\ \A i \in 1..Len(topic) : topic'[i] = topic[i]
  BY DEF ReadingTypeOK
<1>2. 1..Len(topic') = 1..Len(topic) \cup {Len(topic) + 1}
  BY <1>1
<1> QED BY <1>1, <1>2 DEF Published

\* recordFailure moves rows and loses none.
LEMMA RecordFailureKeeps ==
  ASSUME NEW failed, RecordFailure(failed)
  PROVE  queued \cup dead \subseteq queued' \cup dead'
BY DEF RecordFailure

LEMMA StepDropsNothing == TypeOK /\ DropInv /\ [Next]_vars => DropInv'
<1> SUFFICES ASSUME TypeOK, DropInv, [Next]_vars PROVE DropInv'
  OBVIOUS
<1> USE DEF TypeOK, DropInv
<1>1. ASSUME NEW e \in Events, Enqueue(e) PROVE DropInv'
  <2>1. Published' = Published
    BY <1>1, PublishedKept DEF Enqueue, reading
  <2> QED BY <1>1, <2>1 DEF Enqueue, NothingDropped, WrittenIsPublished, sending, TimesTypeOK
<1>2. ASSUME NEW e \in Events, BrokerWrites(e) PROVE DropInv'
  <2>1. Published' = Published \cup {e}
    BY <1>2, PublishedGrows DEF BrokerWrites
  <2> QED BY <1>2, <2>1 DEF BrokerWrites, NothingDropped, WrittenIsPublished, rows, SendingTypeOK
<1>3. ASSUME NEW e \in Events, Answered(e) PROVE DropInv'
  <2>1. Published' = Published
    BY <1>3, PublishedKept DEF Answered, Acknowledged, SendFailed, reading
  <2> QED BY <1>3, <2>1 DEF Answered, Acknowledged, SendFailed, NothingDropped, WrittenIsPublished,
             rows, SendingTypeOK
<1>4. ASSUME NEW e \in Events, Delete(e) PROVE DropInv'
  <2>1. Published' = Published
    BY <1>4, PublishedKept DEF Delete, reading
  <2>2. e \in Published
    BY <1>4 DEF Delete, WrittenIsPublished
  <2>3. NothingDropped'
    BY <1>4, <2>1, <2>2 DEF Delete, NothingDropped
  <2>4. WrittenIsPublished'
    BY <1>4, <2>1, <2>2 DEF Delete, WrittenIsPublished, SendingTypeOK
  <2> QED BY <2>3, <2>4
<1>5. ASSUME NEW e \in Events, RecordFailureLater(e) PROVE DropInv'
  <2>1. Published' = Published
    BY <1>5, PublishedKept DEF RecordFailureLater, reading
  <2>2. queued \cup dead \subseteq queued' \cup dead'
    BY <1>5, RecordFailureKeeps DEF RecordFailureLater
  <2> QED BY <1>5, <2>1, <2>2 DEF RecordFailureLater, NothingDropped, WrittenIsPublished
<1>6. ASSUME ProcessOutbox PROVE DropInv'
  <2>1. Published' = Published
    BY <1>6, PublishedKept DEF ProcessOutbox, reading
  <2>2. queued \cup dead \subseteq queued' \cup dead'
    BY <1>6, RecordFailureKeeps DEF ProcessOutbox
  <2>3. \A e \in Events : flight'[e] = "written" => flight[e] = "written"
    BY <1>6 DEF ProcessOutbox
  <2> QED BY <1>6, <2>1, <2>2, <2>3 DEF ProcessOutbox, NothingDropped, WrittenIsPublished
<1>7. CASE Restart
  <2>1. Published' = Published
    BY <1>7, PublishedKept DEF Restart
  <2> QED BY <1>7, <2>1 DEF Restart, NothingDropped, WrittenIsPublished, rows
<1>8. CASE UNCHANGED <<topic, rows, sending, born>>
  <2>1. Published' = Published
    BY <1>8, PublishedKept
  <2> QED BY <1>8, <2>1 DEF NothingDropped, WrittenIsPublished, rows, sending
<1>9. ASSUME \/ Handling \/ FireThrows \/ CommitOffset
             \/ \E e \in Events, w \in Hooks : Tried(e, w)
             \/ \E w \in Hooks : Unregister(w) \/ \E wanted \in SUBSET Endings \ {{}} : Register(w, wanted)
             \/ Tick \/ PruneProcessedEvents \/ UNCHANGED vars
      PROVE  UNCHANGED <<topic, rows, sending, born>>
  BY <1>9 DEF Handling, OnTestEvent, CheckAndMarkProcessed, Fire, FireThrows, CommitOffset, Tried,
     Delivered, TryFails, Unregister, Register, Tick, PruneProcessedEvents, vars, rows, sending,
     reading
<1> QED BY <1>1, <1>2, <1>3, <1>4, <1>5, <1>6, <1>7, <1>8, <1>9 DEF Next, Callback

\* No event is lost between the outbox and the topic: whatever sends fail after
\* the broker wrote them, whatever callbacks come late or are lost in a restart,
\* a row goes only when its event is in the topic or in the dead letters.
THEOREM PublishesAtLeastOnce == Spec => []NothingDropped
<1>1. Init => DropInv
  BY DEF Init, DropInv, NothingDropped, WrittenIsPublished
<1>2. DropInv => NothingDropped
  BY DEF DropInv
<1> QED BY <1>1, <1>2, StepDropsNothing, TypeCorrect, PTL DEF Spec

-----------------------------------------------------------------------------
(* Webhooks are fired once *)

Born == {e \in Events : born[e] # -1}

\* Only events that were queued are sent, published or handled.
KnownEvents ==
  /\ queued \subseteq Born
  /\ \A e \in Events : flight[e] # "no" => e \in Born
  /\ Published \subseteq Born
  /\ consumer.pc # "idle" => consumer.event \in Born

\* An event that was handled is in the ledger since a time that is not before its
\* own timestamp, or is too old to be handled again: whatever the sweep takes out
\* of the ledger has become too old by then.
Remembered(e) == (ledger[e] # -1 /\ ledger[e] >= born[e]) \/ OlderThanLedger(e)

OnceInv ==
  /\ KnownEvents
  /\ \A e \in Events : fired[e] \in {0, 1}
  /\ \A e \in Events : fired[e] = 1 => e \in Born /\ Remembered(e)
  /\ consumer.pc = "mark" => ~OlderThanLedger(consumer.event)
  /\ consumer.pc = "fire" => fired[consumer.event] = 0 /\ Remembered(consumer.event)

LEMMA StepKnown == TypeOK /\ KnownEvents /\ [Next]_vars => KnownEvents'
<1> SUFFICES ASSUME TypeOK, KnownEvents, [Next]_vars PROVE KnownEvents'
  OBVIOUS
<1> USE DEF TypeOK
<1>1. ASSUME NEW e \in Events, Enqueue(e) PROVE KnownEvents'
  <2>1. Published' = Published
    BY <1>1, PublishedKept DEF Enqueue, reading
  <2>2. Born' = Born \cup {e}
    BY <1>1 DEF Enqueue, Born, TimesTypeOK
  <2> QED BY <1>1, <2>1, <2>2 DEF Enqueue, KnownEvents, sending
<1>2. ASSUME NEW e \in Events, BrokerWrites(e) PROVE KnownEvents'
  <2>1. Published' = Published \cup {e} /\ e \in Born
    BY <1>2, PublishedGrows DEF BrokerWrites, KnownEvents
  <2>2. Born' = Born
    BY <1>2 DEF BrokerWrites, Born
  <2> QED BY <1>2, <2>1, <2>2 DEF BrokerWrites, KnownEvents, rows, SendingTypeOK
<1>3. ASSUME UNCHANGED <<topic, born>>, queued' \subseteq queued,
             \A e \in Events : flight'[e] # "no" => flight[e] # "no" \/ e \in queued,
             consumer'.pc # "idle" => consumer'.event \in Born
      PROVE  KnownEvents'
  <2>1. Published' = Published /\ Born' = Born
    BY <1>3, PublishedKept DEF Born
  <2> QED BY <1>3, <2>1 DEF KnownEvents
<1>4. ASSUME NEW e \in Events, Answered(e) \/ Callback(e) PROVE KnownEvents'
  BY <1>4, <1>3 DEF Answered, Acknowledged, SendFailed, Callback, Delete, RecordFailureLater,
     RecordFailure, KnownEvents, rows, reading, SendingTypeOK
<1>5. CASE ProcessOutbox
  <2>1. \A e \in Events : flight'[e] # "no" => flight[e] # "no" \/ e \in queued
    BY <1>5 DEF ProcessOutbox, Batch
  <2> QED BY <1>5, <1>3, <2>1 DEF ProcessOutbox, RecordFailure, KnownEvents, reading
<1>6. CASE OnTestEvent
  <2>1. position + 1 \in 1..Len(topic)
    BY <1>6 DEF OnTestEvent, ReadingTypeOK
  <2>2. topic[position + 1] \in Born
    BY <2>1 DEF KnownEvents, Published
  <2> QED BY <1>6, <1>3, <2>2 DEF OnTestEvent, KnownEvents, rows, sending
<1>7. CASE CheckAndMarkProcessed
  <2>1. consumer.event \in Born
    BY <1>7 DEF CheckAndMarkProcessed, KnownEvents
  <2> QED BY <1>7, <1>3, <2>1 DEF CheckAndMarkProcessed, Waiting, rows, sending, reading
<1>8. CASE Fire \/ FireThrows \/ Restart
  <2>1. consumer'.pc # "idle" => consumer'.event \in Born
    BY <1>8 DEF Fire, FireThrows, Restart, Waiting, KnownEvents, ReadingTypeOK, Handlers
  <2> QED BY <1>8, <1>3, <2>1 DEF Fire, FireThrows, Restart, rows, sending, reading
<1>9. ASSUME \/ CommitOffset
             \/ \E e \in Events, w \in Hooks : Tried(e, w)
             \/ \E w \in Hooks : Unregister(w) \/ \E wanted \in SUBSET Endings \ {{}} : Register(w, wanted)
             \/ Tick \/ PruneProcessedEvents \/ UNCHANGED vars
      PROVE  KnownEvents'
  <2>1. UNCHANGED <<topic, queued, flight, born, consumer>>
    BY <1>9 DEF CommitOffset, Tried, Delivered, TryFails, Unregister, Register, Tick,
       PruneProcessedEvents, vars, rows, sending, reading
  <2> QED BY <2>1, <1>3 DEF KnownEvents
<1> QED BY <1>1, <1>2, <1>4, <1>5, <1>6, <1>7, <1>8, <1>9 DEF Next, Handling

LEMMA StepFiresOnce == TypeOK /\ OnceInv /\ [Next]_vars => OnceInv'
<1> SUFFICES ASSUME TypeOK, OnceInv, [Next]_vars PROVE OnceInv'
  OBVIOUS
<1> USE DEF TypeOK
<1>a. KnownEvents'
  BY StepKnown DEF OnceInv
<1>b. now \in Int /\ Retention \in Nat /\ \A e \in Events : born[e] \in Int /\ ledger[e] \in Int
  BY TimesAssumption DEF TimesTypeOK
<1>1. ASSUME UNCHANGED <<ledger, born, now, fired>>, consumer' \in {consumer, Waiting} PROVE OnceInv'
  BY <1>1, <1>a DEF OnceInv, Remembered, OlderThanLedger, Born, Waiting
<1>2. ASSUME NEW e \in Events, Enqueue(e) PROVE OnceInv'
  <2>1. e \notin Born
    BY <1>2 DEF Enqueue, Born
  <2>2. \A f \in Born : born'[f] = born[f] /\ f \in Born'
    BY <1>2, <2>1 DEF Enqueue, Born, TimesTypeOK
  <2>3. \A f \in Born : (Remembered(f) <=> Remembered(f)') /\ (OlderThanLedger(f) <=> OlderThanLedger(f)')
    BY <1>2, <2>2 DEF Enqueue, Remembered, OlderThanLedger, telling
  <2>4. consumer.pc # "idle" => consumer.event \in Born
    BY DEF OnceInv, KnownEvents
  <2> QED BY <1>2, <1>a, <2>2, <2>3, <2>4 DEF OnceInv, Enqueue, telling
<1>3. CASE OnTestEvent
  <2> DEFINE e == topic[position + 1]
  <2>1. consumer' = consumer \/ (~OlderThanLedger(e) /\ consumer' = [pc |-> "mark", event |-> e])
    BY <1>3 DEF OnTestEvent
  <2>2. UNCHANGED <<ledger, born, now, fired>>
    BY <1>3 DEF OnTestEvent, telling
  <2> QED BY <1>1, <1>a, <2>1, <2>2 DEF OnceInv, Remembered, OlderThanLedger, Born
<1>4. CASE CheckAndMarkProcessed
  <2>1. PICK e \in Events : e = consumer.event /\ ~OlderThanLedger(e)
    BY <1>4, InHand DEF CheckAndMarkProcessed, OnceInv
  <2>2. CASE ledger[e] = -1 /\ ledger' = [ledger EXCEPT ![e] = now]
    <3>1. fired[e] = 0
      BY <2>1, <2>2 DEF OnceInv, Remembered
    <3>2. UNCHANGED <<born, now, fired>>
      BY <1>4 DEF CheckAndMarkProcessed
    <3>3. born[e] <= now
      BY <2>1 DEF TimesTypeOK
    <3>4. ledger'[e] = now /\ now # -1
      BY <2>1, <2>2 DEF TimesTypeOK
    <3>5. Remembered(e)'
      BY <3>2, <3>3, <3>4, <1>b, <2>1 DEF Remembered
    <3>6. \A f \in Events : f # e => (Remembered(f) => Remembered(f)')
      BY <2>1, <2>2, <3>2 DEF Remembered, OlderThanLedger, TimesTypeOK
    <3>7. consumer' = Waiting \/ consumer' = [pc |-> "fire", event |-> e]
      BY <1>4, <2>2, <2>1 DEF CheckAndMarkProcessed, TimesTypeOK
    <3> QED BY <1>a, <2>1, <3>1, <3>2, <3>5, <3>6, <3>7 DEF OnceInv, Born, Waiting
  <2>3. CASE UNCHANGED ledger /\ consumer' = Waiting
    BY <1>1, <1>4, <2>3 DEF CheckAndMarkProcessed
  <2> QED BY <1>4, <2>1, <2>2, <2>3 DEF CheckAndMarkProcessed
<1>5. CASE Fire
  <2> DEFINE e == consumer.event
  <2>1. e \in Events /\ fired[e] = 0 /\ Remembered(e) /\ e \in Born
    BY <1>5, InHand DEF Fire, OnceInv, KnownEvents
  <2>2. fired' = [fired EXCEPT ![e] = 1]
    BY <1>5, <2>1 DEF Fire
  <2>3. UNCHANGED <<ledger, born, now>> /\ consumer' = Waiting
    BY <1>5 DEF Fire
  <2> QED BY <1>a, <2>1, <2>2, <2>3 DEF OnceInv, Remembered, OlderThanLedger, Born, Waiting,
             TellingTypeOK
<1>6. CASE FireThrows
  <2>1. consumer'.pc = "stopped" /\ UNCHANGED <<ledger, born, now, fired>>
    BY <1>6 DEF FireThrows, ReadingTypeOK, Handlers, Waiting, telling
  <2> QED BY <1>a, <2>1 DEF OnceInv, Remembered, OlderThanLedger, Born
<1>7. CASE Tick
  <2>1. now' = now + 1 /\ consumer.pc # "mark" /\ UNCHANGED <<ledger, born, fired, consumer>>
    BY <1>7 DEF Tick, telling
  <2>2. \A e \in Events : Remembered(e) => Remembered(e)'
    BY <2>1, <1>b DEF Remembered, OlderThanLedger
  <2>3. consumer.pc = "fire" => consumer.event \in Events
    BY InHand
  <2> QED BY <1>a, <2>1, <2>2, <2>3 DEF OnceInv, Born
<1>8. CASE PruneProcessedEvents
  <2>1. UNCHANGED <<born, now, fired, consumer>>
    BY <1>8 DEF PruneProcessedEvents
  <2>2. \A e \in Events : Remembered(e) => Remembered(e)'
    BY <1>8, <1>b DEF PruneProcessedEvents, Remembered, OlderThanLedger
  <2>3. consumer.pc = "fire" => consumer.event \in Events
    BY InHand
  <2> QED BY <1>a, <2>1, <2>2, <2>3 DEF OnceInv, Born, OlderThanLedger
<1>9. ASSUME \/ \E e \in Events : BrokerWrites(e) \/ Answered(e) \/ Callback(e)
             \/ ProcessOutbox \/ CommitOffset
             \/ \E e \in Events, w \in Hooks : Tried(e, w)
             \/ \E w \in Hooks : Unregister(w) \/ \E wanted \in SUBSET Endings \ {{}} : Register(w, wanted)
             \/ Restart \/ UNCHANGED vars
      PROVE  UNCHANGED <<ledger, born, now, fired>> /\ consumer' \in {consumer, Waiting}
  BY <1>9 DEF BrokerWrites, Answered, Acknowledged, SendFailed, Callback, Delete, RecordFailureLater,
     ProcessOutbox, CommitOffset, Tried, Delivered, TryFails, Unregister, Register, Restart, vars,
     telling
<1> QED BY <1>1, <1>2, <1>3, <1>4, <1>5, <1>6, <1>7, <1>8, <1>9 DEF Next, Handling

\* The webhooks of an event are fired at most once, however often the event is
\* published or read and whatever the ledger's retention sweep has removed.
THEOREM WebhooksFireOnce == Spec => []FiredOnce
<1>1. Init => OnceInv
  BY DEF Init, OnceInv, KnownEvents, Published, Waiting
<1>2. OnceInv => FiredOnce
  BY DEF OnceInv, FiredOnce
<1> QED BY <1>1, <1>2, StepFiresOnce, TypeCorrect, PTL DEF Spec
==============================================================================
