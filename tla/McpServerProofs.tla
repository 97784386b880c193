--------------------------- MODULE McpServerProofs ---------------------------
(***************************************************************************)
(* For any calls, clusters, limits and faults: what the guard of the MCP   *)
(* server counts, and whose data its answers carry.                        *)
(***************************************************************************)
EXTENDS McpServer, FiniteSetTheorems, SequenceTheorems, TLAPS

-----------------------------------------------------------------------------
(* The inductive invariant *)

Works == [at : Steps, tool : Seq(Stages), live : Clusters \union {None}, todo : SUBSET STRING,
          got : BOOLEAN, from : {"pin", "other", "named"}, moved : BOOLEAN, cut : BOOLEAN]

TypeInv ==
  /\ work \in [Calls -> Works] /\ answer \in [Calls -> Errors \union {"none", "ok"}]
  /\ api \in Clusters \union {None} /\ pinned \in Clusters \union {None}
  /\ inFlight \in Nat /\ tokens \in Nat /\ admitted \in Nat /\ refills \in Nat

\* Where a call stands, what its client got, the pin, and the cluster behind the URL: a call past the
\* pin check read the pinned cluster there, and while the URL does not move its data is of it.
Sound(w, a, held, here) ==
  /\ a = "ok" => /\ w.at = "gone" /\ held # None /\ w.live = held
                 /\ w.from # "named" /\ (~w.moved => w.from = "pin")
  /\ w.at \in {"pin", "pinTo", "args"} => w.from = "pin"
  /\ w.at = "pinTo" => w.live # None
  /\ w.at \in {"args", "read"} => held # None /\ w.live = held
  /\ w.at \in {"pinTo", "args", "read"} /\ ~w.moved => here = w.live
  /\ w.at = "read" => w.tool # <<>>
  /\ w.at = "read" /\ ~w.moved => w.from = "pin"

CallInv == \A c \in Calls : Sound(work[c], answer[c], pinned, api)

IInv == TypeInv /\ CallInv /\ SlotsAreWork /\ RateIsKept

-----------------------------------------------------------------------------
(* Types *)

LEMMA IdleType == Idle \in Works /\ Idle.from = "pin" /\ ~Idle.moved
BY DEF Idle, Works, Steps

LEMMA HeadType ==
  ASSUME NEW t \in Seq(Stages), t # <<>>
  PROVE  /\ Head(t) \in Stages /\ Reads(Head(t)) \in SUBSET STRING /\ Tail(t) \in Seq(Stages)
         /\ Len(t) \in Nat
         /\ Len(t) > 1 => Tail(t) # <<>>
<1>1. Head(t) \in Stages /\ Tail(t) \in Seq(Stages) /\ Len(t) \in Nat
  OBVIOUS
<1>2. Len(t) > 1 => Tail(t) # <<>>
  <2>1. Len(Tail(t)) = Len(t) - 1
    OBVIOUS
  <2>2. Tail(t) = <<>> => Len(Tail(t)) = 0
    BY <1>1, EmptySeq
  <2> QED BY <1>1, <2>1, <2>2
<1>3. Reads(Head(t)) \in SUBSET STRING
  BY <1>1 DEF Reads, Stages
<1> QED BY <1>1, <1>2, <1>3

-----------------------------------------------------------------------------
(* A step of one call *)

Busy(w) == w.at \notin {"new", "gone"}
Told == Errors \union {"none", "ok"}

\* c's record and answer become w and a; the pin may be set.
Becomes(c, w, a) ==
  /\ work' = [work EXCEPT ![c] = w] /\ answer' = [answer EXCEPT ![c] = a]
  /\ api' = api /\ pinned' \in Clusters \union {None} /\ (pinned = None \/ pinned' = pinned)

LEMMA OneCall ==
  ASSUME IInv, NEW c \in Calls, NEW w \in Works, NEW a \in Told, Becomes(c, w, a),
         Sound(w, a, pinned', api),
         tokens' \in Nat, admitted' \in Nat, refills' = refills, RateIsKept',
         \/ (Busy(w) <=> Working(c)) /\ inFlight' = inFlight
         \/ Busy(w) /\ ~Working(c) /\ inFlight < MaxInFlight /\ inFlight' = inFlight + 1
         \/ ~Busy(w) /\ Working(c) /\ inFlight' = inFlight - 1
  PROVE  IInv'
<1>1. /\ work' \in [Calls -> Works] /\ answer' \in [Calls -> Told]
      /\ work'[c] = w /\ answer'[c] = a
      /\ \A d \in Calls : d # c => work'[d] = work[d] /\ answer'[d] = answer[d]
  BY DEF Becomes, IInv, TypeInv, Told
<1>2. CallInv'
  <2> SUFFICES ASSUME NEW d \in Calls PROVE Sound(work'[d], answer'[d], pinned', api)
    BY DEF CallInv, Becomes
  <2>1. CASE d = c
    BY <1>1, <2>1
  <2>2. CASE d # c
    BY <1>1, <2>2 DEF IInv, CallInv, Sound, Becomes
  <2> QED BY <2>1, <2>2
<1>3. AtWork' = IF Busy(w) THEN AtWork \union {c} ELSE AtWork \ {c}
  BY <1>1 DEF AtWork, Working, Busy
<1>4. AtWork \subseteq Calls /\ (c \in AtWork <=> Working(c))
  BY DEF AtWork
<1>5. IsFiniteSet(AtWork) /\ Cardinality(AtWork) \in Nat
  BY <1>4, McpAssumption, FS_Subset, FS_CardinalityType
<1>6. inFlight = Cardinality(AtWork) /\ Cardinality(AtWork) <= MaxInFlight
  BY DEF IInv, SlotsAreWork
<1>7. SlotsAreWork' /\ inFlight' \in Nat
  <2>1. CASE (Busy(w) <=> Working(c)) /\ inFlight' = inFlight
    <3>1. AtWork' = AtWork
      BY <1>3, <1>4, <2>1
    <3> QED BY <1>5, <1>6, <2>1, <3>1 DEF SlotsAreWork
  <2>2. CASE Busy(w) /\ ~Working(c) /\ inFlight < MaxInFlight /\ inFlight' = inFlight + 1
    <3>1. Cardinality(AtWork') = Cardinality(AtWork) + 1
      BY <1>3, <1>4, <1>5, <2>2, FS_AddElement
    <3>2. Cardinality(AtWork') <= MaxInFlight
      BY <1>5, <1>6, <2>2, <3>1, McpAssumption
    <3> QED BY <1>5, <1>6, <2>2, <3>1, <3>2 DEF SlotsAreWork
  <2>3. CASE ~Busy(w) /\ Working(c) /\ inFlight' = inFlight - 1
    <3>1. Cardinality(AtWork') = Cardinality(AtWork) - 1 /\ Cardinality(AtWork') \in Nat
      <4>1. IsFiniteSet(AtWork')
        BY <1>3, <1>5, <2>3, FS_RemoveElement
      <4> QED BY <1>3, <1>4, <1>5, <2>3, <4>1, FS_RemoveElement, FS_CardinalityType
    <3>2. Cardinality(AtWork') <= MaxInFlight
      BY <1>5, <1>6, <3>1, McpAssumption
    <3> QED BY <1>6, <2>3, <3>1, <3>2 DEF SlotsAreWork
  <2> QED BY <2>1, <2>2, <2>3
<1>8. TypeInv'
  BY <1>1, <1>7 DEF IInv, TypeInv, Becomes, Told
<1> QED BY <1>2, <1>7, <1>8 DEF IInv

LEMMA Known ==
  ASSUME IInv, NEW c \in Calls
  PROVE  /\ work \in [Calls -> Works] /\ work[c] \in Works
         /\ answer \in [Calls -> Told] /\ answer[c] \in Told
         /\ Sound(work[c], answer[c], pinned, api)
         /\ api \in Clusters \union {None} /\ pinned \in Clusters \union {None}
         /\ inFlight \in Nat /\ tokens \in Nat /\ admitted \in Nat /\ refills \in Nat
         /\ admitted + tokens = Burst + refills
         /\ Working(c) => answer[c] # "ok"
<1>1. Working(c) => answer[c] # "ok"
  BY DEF IInv, CallInv, Sound, Working
<1> QED BY <1>1 DEF IInv, TypeInv, CallInv, Told, RateIsKept

LEMMA AnsweredIs ==
  ASSUME IInv, NEW c \in Calls, NEW a \in Told, Answered(c, a)
  PROVE  \E b \in {a, answer[c]} : answer' = [answer EXCEPT ![c] = b] /\ b \in Told
BY Known DEF Answered

\* The end of a goroutine: what it answers is sound if it is an error, or if its data is the pin's.
LEMMA ReturnStep ==
  ASSUME IInv, NEW c \in Calls, Working(c), NEW a \in Errors \union {"ok"}, Return(c, a),
         api' = api, pinned' \in Clusters \union {None}, pinned = None \/ pinned' = pinned,
         UNCHANGED <<tokens, refills, admitted>>,
         a = "ok" => /\ pinned' # None /\ work[c].live = pinned' /\ work[c].from # "named"
                     /\ ~work[c].moved => work[c].from = "pin"
  PROVE  IInv'
<1> DEFINE w == IF a = "ok" THEN [Idle EXCEPT !.at = "gone", !.live = work[c].live,
                                              !.from = work[c].from, !.moved = work[c].moved]
                ELSE [Idle EXCEPT !.at = "gone"]
<1>1. /\ w \in Works /\ w.at = "gone"
      /\ a = "ok" => w.live = work[c].live /\ w.from = work[c].from /\ (w.moved <=> work[c].moved)
  <2>1. work[c] \in Works
    BY Known
  <2>2. PICK l, f, m : l = work[c].live /\ f = work[c].from /\ m = work[c].moved
    OBVIOUS
  <2>3. l \in Clusters \union {None} /\ f \in {"pin", "other", "named"} /\ m \in BOOLEAN
    BY <2>1, <2>2 DEF Works
  <2>4. CASE a = "ok"
    <3> DEFINE v == [Idle EXCEPT !.at = "gone", !.live = l, !.from = f, !.moved = m]
    <3>1. v \in Works /\ v.at = "gone" /\ v.live = l /\ v.from = f /\ v.moved = m
      BY <2>3, IdleType DEF Works, Steps
    <3>2. w = v
      BY <2>2, <2>4
    <3> HIDE DEF v, w
    <3> QED BY <2>2, <3>1, <3>2
  <2>5. CASE a # "ok"
    BY <2>5, IdleType DEF Works, Steps
  <2> QED BY <2>4, <2>5
<1>2. work' = [work EXCEPT ![c] = w] /\ inFlight' = inFlight - 1 /\ Answered(c, a)
  BY DEF Return
<1> HIDE DEF w
<1>3. PICK b \in {a, answer[c]} : answer' = [answer EXCEPT ![c] = b] /\ b \in Told
  BY <1>2, AnsweredIs DEF Told
<1>4. Becomes(c, w, b)
  BY <1>2, <1>3 DEF Becomes
<1>5. Sound(w, b, pinned', api)
  BY <1>1, <1>3, Known DEF Sound
<1> QED BY <1>1, <1>2, <1>3, <1>4, <1>5, Known, OneCall DEF RateIsKept, Busy

\* A step that leaves the goroutine at work, or not.
LEMMA GoesOn ==
  ASSUME IInv, NEW c \in Calls, NEW w \in Works, work' = [work EXCEPT ![c] = w],
         Busy(w) <=> Working(c), api' = api,
         pinned' \in Clusters \union {None}, pinned = None \/ pinned' = pinned,
         NEW a \in Told, answer' = [answer EXCEPT ![c] = a], Sound(w, a, pinned', api),
         UNCHANGED limits
  PROVE  IInv'
<1>1. Becomes(c, w, a)
  BY DEF Becomes
<1> QED BY <1>1, Known, OneCall DEF limits, RateIsKept

LEMMA InvokeStep ==
  ASSUME IInv, NEW c \in Calls, invoke(c)
  PROVE  IInv'
<1>1. /\ work[c].at = "new" /\ UNCHANGED <<world, pinned, faults, alive>>
      /\ Sound(work[c], answer[c], pinned, api) /\ pinned' = pinned /\ api' = api
      /\ ~Working(c)
  BY Known DEF invoke, world, Working
<1>2. PICK t \in InPlay[c] : Refused(c) \/ Admitted(c, t)
  BY DEF invoke
<1>3. CASE Refused(c)
  <2> DEFINE w == [work[c] EXCEPT !.at = "gone"]
  <2>1. w \in Works /\ w.at = "gone" /\ work' = [work EXCEPT ![c] = w]
    BY <1>3, Known DEF Works, Steps, Refused
  <2> HIDE DEF w
  <2>2. PICK b \in {"rateLimited", answer[c]} : answer' = [answer EXCEPT ![c] = b] /\ b \in Told
    BY <1>3, AnsweredIs DEF Refused, Told, Errors
  <2>3. Sound(w, b, pinned', api)
    BY <1>1, <2>1, <2>2 DEF Sound
  <2> QED BY <1>1, <1>3, <2>1, <2>2, <2>3, Known, GoesOn DEF Refused, Busy
<1>4. CASE Admitted(c, t)
  <2> DEFINE w == [Idle EXCEPT !.at = "pin", !.tool = t]
  <2>1. t \in Seq(Stages)
    BY McpAssumption
  <2>2. w \in Works /\ w.at = "pin" /\ w.from = "pin" /\ work' = [work EXCEPT ![c] = w]
    BY <1>4, <2>1, IdleType DEF Works, Steps, Admitted
  <2> HIDE DEF w
  <2>3. Sound(w, answer[c], pinned', api) /\ Becomes(c, w, answer[c])
    BY <1>1, <1>4, <2>2, Known DEF Sound, Becomes, Admitted
  <2>4. /\ tokens' \in Nat /\ admitted' \in Nat /\ refills' = refills /\ RateIsKept'
        /\ inFlight < MaxInFlight /\ inFlight' = inFlight + 1
    <3>1. /\ tokens \in Nat /\ admitted \in Nat /\ refills \in Nat
          /\ admitted + tokens = Burst + refills
      BY Known
    <3>2. /\ inFlight < MaxInFlight /\ inFlight' = inFlight + 1
          /\ tokens > 0 /\ tokens' = tokens - 1 /\ admitted' = admitted + 1 /\ refills' = refills
      BY <1>4 DEF Admitted
    <3>3. Burst \in Nat
      BY McpAssumption
    <3>4. tokens - 1 \in Nat /\ admitted + 1 \in Nat /\ (admitted + 1) + (tokens - 1) = Burst + refills
      BY <3>1, <3>2, <3>3
    <3> QED BY <3>2, <3>4 DEF RateIsKept
  <2> QED BY <1>1, <2>2, <2>3, <2>4, Known, OneCall DEF Busy
<1> QED BY <1>2, <1>3, <1>4

LEMMA ResourceStep ==
  ASSUME IInv, NEW c \in Calls, readResource(c)
  PROVE  IInv'
<1>1. /\ work[c].at = "new" /\ pinned' = pinned /\ api' = api /\ ~Working(c) /\ UNCHANGED limits
      /\ Sound(work[c], answer[c], pinned, api) /\ Answered(c, "invalid")
  BY Known DEF readResource, world, Working
<1> DEFINE w == [work[c] EXCEPT !.at = "gone"]
<1>2. w \in Works /\ w.at = "gone" /\ work' = [work EXCEPT ![c] = w]
  BY Known DEF Works, Steps, readResource
<1> HIDE DEF w
<1>3. PICK b \in {"invalid", answer[c]} : answer' = [answer EXCEPT ![c] = b] /\ b \in Told
  BY <1>1, AnsweredIs DEF Told, Errors
<1>4. Sound(w, b, pinned', api)
  BY <1>1, <1>2, <1>3 DEF Sound
<1> QED BY <1>1, <1>2, <1>3, <1>4, Known, GoesOn DEF Busy

LEMMA PinStep ==
  ASSUME IInv, NEW c \in Calls, pin(c)
  PROVE  IInv'
<1>1. /\ work[c].at = "pin" /\ Working(c) /\ pinned' = pinned /\ api' = api
      /\ UNCHANGED <<tokens, refills, admitted>>
  BY DEF pin, Working, world
<1>2. CASE Return(c, "failed")
  BY <1>1, <1>2, Known, ReturnStep DEF Errors
<1>3. CASE /\ Answers(c) /\ UNCHANGED <<inFlight, faults, answer>>
           /\ work' = [work EXCEPT ![c].at = "pinTo", ![c].live = api]
  <2> DEFINE w == [work[c] EXCEPT !.at = "pinTo", !.live = api]
  <2>1. /\ w \in Works /\ w.at = "pinTo" /\ w.live = api /\ w.from = work[c].from
        /\ (w.moved <=> work[c].moved) /\ api # None
    BY <1>3, Known DEF Works, Steps, Answers
  <2>2. work' = [work EXCEPT ![c] = w] /\ answer' = [answer EXCEPT ![c] = answer[c]]
    BY <1>3, Known
  <2> HIDE DEF w
  <2>3. Sound(w, answer[c], pinned', api)
    BY <1>1, <2>1, Known DEF Sound
  <2> QED BY <1>1, <1>3, <2>1, <2>2, <2>3, Known, GoesOn DEF Busy, limits
<1> QED BY <1>2, <1>3 DEF pin

LEMMA PinToStep ==
  ASSUME IInv, NEW c \in Calls, pinTo(c)
  PROVE  IInv'
<1> DEFINE live == work[c].live
           held == IF pinned = None /\ live \in Allowed THEN live ELSE pinned
<1>1. /\ work[c].at = "pinTo" /\ Working(c) /\ pinned' = held /\ api' = api
      /\ UNCHANGED <<tokens, refills, admitted>>
  BY DEF pinTo, Working, world
<1>2. /\ held \in Clusters \union {None} /\ (pinned = None \/ held = pinned)
      /\ live # None /\ Sound(work[c], answer[c], pinned, api)
  BY <1>1, Known, McpAssumption DEF Sound
<1>3. CASE Return(c, "notAllowed") \/ Return(c, "clusterChanged")
  BY <1>1, <1>2, <1>3, ReturnStep DEF Errors
<1>4. CASE held = live /\ work' = [work EXCEPT ![c].at = "args"] /\ UNCHANGED <<inFlight, answer>>
  <2> DEFINE w == [work[c] EXCEPT !.at = "args"]
  <2>1. /\ w \in Works /\ w.at = "args" /\ w.live = live /\ w.from = work[c].from
        /\ (w.moved <=> work[c].moved)
    BY Known DEF Works, Steps
  <2>2. work' = [work EXCEPT ![c] = w] /\ answer' = [answer EXCEPT ![c] = answer[c]]
    BY <1>4, Known
  <2> HIDE DEF w, held, live
  <2>3. Sound(w, answer[c], held, api)
    BY <1>1, <1>2, <1>4, <2>1, Known DEF Sound, live
  <2> QED BY <1>1, <1>2, <1>4, <2>1, <2>2, <2>3, Known, GoesOn DEF Busy, limits
<1> QED BY <1>3, <1>4 DEF pinTo

LEMMA HandlerStep ==
  ASSUME IInv, NEW c \in Calls, handler(c)
  PROVE  IInv'
<1>1. /\ work[c].at = "args" /\ Working(c) /\ pinned' = pinned /\ api' = api
      /\ UNCHANGED <<tokens, refills, admitted>>
      /\ Sound(work[c], answer[c], pinned, api)
  BY Known DEF handler, Working, world
<1>2. CASE Return(c, "invalid")
  BY <1>1, <1>2, Known, ReturnStep DEF Errors
<1>3. CASE Return(c, "ok")
  BY <1>1, <1>3, Known, ReturnStep DEF Sound
<1>4. CASE /\ work[c].tool # <<>> /\ UNCHANGED <<inFlight, answer>>
           /\ work' = [work EXCEPT ![c].at = "read", ![c].todo = Reads(Head(work[c].tool))]
  <2> DEFINE r == Reads(Head(work[c].tool))
             w == [work[c] EXCEPT !.at = "read", !.todo = r]
  <2>1. work[c].tool \in Seq(Stages)
    BY Known DEF Works
  <2>2. r \in SUBSET STRING
    BY <1>4, <2>1, HeadType
  <2>3. work' = [work EXCEPT ![c] = w] /\ answer' = [answer EXCEPT ![c] = answer[c]]
    BY <1>4, Known
  <2> HIDE DEF r
  <2>4. /\ w \in Works /\ w.at = "read" /\ w.live = work[c].live /\ w.from = work[c].from
        /\ (w.moved <=> work[c].moved) /\ w.tool = work[c].tool
    BY <2>2, Known DEF Works, Steps
  <2> HIDE DEF w
  <2>5. Sound(w, answer[c], pinned', api)
    BY <1>1, <1>4, <2>4, Known DEF Sound
  <2> QED BY <1>1, <1>4, <2>3, <2>4, <2>5, Known, GoesOn DEF Busy, limits
<1> QED BY <1>2, <1>3, <1>4 DEF handler

LEMMA AnswersStep ==
  ASSUME IInv, NEW c \in Calls, ReadAnswers(c)
  PROVE  IInv'
<1>1. /\ work[c].at = "read" /\ Working(c) /\ pinned' = pinned /\ api' = api /\ answer' = answer
      /\ UNCHANGED limits /\ Sound(work[c], answer[c], pinned, api)
  BY Known DEF ReadAnswers, Working, world
<1>2. PICK r : work' = [work EXCEPT ![c].todo = @ \ {r}, ![c].got = Head(work[c].tool).some,
                               ![c].from = Source(c, r)]
  BY DEF ReadAnswers
<1>3. PICK g, f, t : /\ g = Head(work[c].tool).some /\ t = work[c].todo \ {r}
                    /\ f = Source(c, r)
  OBVIOUS
<1>4. /\ g \in BOOLEAN /\ f \in {"pin", "other", "named"} /\ t \in SUBSET STRING
      /\ api = pinned => f = work[c].from
  <2>1. work[c].tool \in Seq(Stages) /\ work[c].tool # <<>> /\ work[c].todo \in SUBSET STRING
        /\ work[c].from \in {"pin", "other", "named"}
    BY <1>1, Known DEF Works, Sound
  <2>2. Head(work[c].tool) \in Stages
    BY <2>1, HeadType
  <2>3. g \in BOOLEAN
    BY <1>3, <2>2 DEF Stages
  <2>4. t \in SUBSET STRING
    BY <1>3, <2>1
  <2>5. f \in {work[c].from, "named", "other"} /\ (api = pinned => f = work[c].from)
    BY <1>3 DEF Source
  <2> QED BY <2>1, <2>3, <2>4, <2>5
<1> DEFINE w == [work[c] EXCEPT !.todo = t, !.got = g, !.from = f]
<1>5. work' = [work EXCEPT ![c] = w] /\ answer' = [answer EXCEPT ![c] = answer[c]]
  <2>1. work[c] \in Works /\ work \in [Calls -> Works] /\ answer \in [Calls -> Told]
    BY Known
  <2>3. work' = [work EXCEPT ![c] = w]
    BY <1>2, <1>3, <2>1
  <2> QED BY <1>1, <2>1, <2>3
<1>6. /\ w \in Works /\ w.at = "read" /\ w.live = work[c].live /\ w.from = f
      /\ (w.moved <=> work[c].moved) /\ w.tool = work[c].tool
  BY <1>1, <1>4, Known DEF Works
<1> HIDE DEF w
<1>7. Sound(w, answer[c], pinned', api)
  BY <1>1, <1>4, <1>6, Known DEF Sound
<1> QED BY <1>1, <1>5, <1>6, <1>7, Known, GoesOn DEF Busy

LEMMA FailsStep ==
  ASSUME IInv, NEW c \in Calls, ReadFails(c)
  PROVE  IInv'
<1>1. /\ work[c].at = "read" /\ Working(c) /\ pinned' = pinned /\ api' = api
      /\ UNCHANGED <<tokens, refills, admitted>> /\ Sound(work[c], answer[c], pinned, api)
  BY Known DEF ReadFails, Working, world
<1>2. CASE Return(c, "failed")
  BY <1>1, <1>2, Known, ReturnStep DEF Errors
<1>3. ASSUME NEW r, work' = [work EXCEPT ![c].todo = @ \ {r}], UNCHANGED <<inFlight, answer>>
      PROVE  IInv'
  <2> DEFINE w == [work[c] EXCEPT !.todo = @ \ {r}]
  <2>1. work' = [work EXCEPT ![c] = w] /\ answer' = [answer EXCEPT ![c] = answer[c]]
    BY <1>3, Known
  <2>2. /\ w \in Works /\ w.at = "read" /\ w.live = work[c].live /\ w.from = work[c].from
        /\ (w.moved <=> work[c].moved) /\ w.tool = work[c].tool
    BY <1>1, Known DEF Works
  <2> HIDE DEF w
  <2>3. Sound(w, answer[c], pinned', api)
    BY <1>1, <2>2, Known DEF Sound
  <2> QED BY <1>1, <1>3, <2>1, <2>2, <2>3, Known, GoesOn DEF Busy, limits
<1> QED BY <1>2, <1>3 DEF ReadFails

LEMMA StageStep ==
  ASSUME IInv, NEW c \in Calls, StageDone(c)
  PROVE  IInv'
<1>1. /\ work[c].at = "read" /\ Working(c) /\ pinned' = pinned /\ api' = api
      /\ UNCHANGED <<tokens, refills, admitted>> /\ Sound(work[c], answer[c], pinned, api)
  BY Known DEF StageDone, Working, world
<1>2. CASE Return(c, "clusterChanged") \/ Return(c, "failed")
  BY <1>1, <1>2, Known, ReturnStep DEF Errors
<1>3. CASE CheckCluster(c) /\ Return(c, "ok")
  BY <1>1, <1>3, Known, ReturnStep DEF Sound, CheckCluster
<1>4. CASE /\ Len(work[c].tool) > 1 /\ UNCHANGED <<inFlight, answer>>
           /\ work' = [work EXCEPT ![c].tool = Tail(@), ![c].got = FALSE,
                                  ![c].todo = Reads(Head(Tail(work[c].tool)))]
  <2>1. PICK t, r : t = Tail(work[c].tool) /\ r = Reads(Head(Tail(work[c].tool)))
    OBVIOUS
  <2>2. t \in Seq(Stages) /\ t # <<>> /\ r \in SUBSET STRING
    <3>1. work[c].tool \in Seq(Stages) /\ work[c].tool # <<>>
      BY <1>1, Known DEF Works, Sound
    <3>2. t \in Seq(Stages) /\ t # <<>>
      BY <1>4, <2>1, <3>1, HeadType
    <3>3. Reads(Head(t)) \in SUBSET STRING
      BY <3>2, HeadType
    <3> QED BY <2>1, <3>2, <3>3
  <2> DEFINE w == [work[c] EXCEPT !.tool = t, !.got = FALSE, !.todo = r]
  <2>3. work' = [work EXCEPT ![c] = w] /\ answer' = [answer EXCEPT ![c] = answer[c]]
    BY <1>4, <2>1, Known
  <2>4. /\ w \in Works /\ w.at = "read" /\ w.live = work[c].live /\ w.from = work[c].from
        /\ (w.moved <=> work[c].moved) /\ w.tool = t
    BY <1>1, <2>2, Known DEF Works
  <2> HIDE DEF w
  <2>5. Sound(w, answer[c], pinned', api)
    BY <1>1, <2>2, <2>4, Known DEF Sound
  <2> QED BY <1>1, <1>4, <2>3, <2>4, <2>5, Known, GoesOn DEF Busy, limits
<1> QED BY <1>2, <1>3, <1>4 DEF StageDone

LEMMA PanicStep ==
  ASSUME IInv, NEW c \in Calls, panicked(c)
  PROVE  IInv'
BY Known, ReturnStep DEF panicked, world, Errors

LEMMA GiveUpStep ==
  ASSUME IInv, NEW c \in Calls, NEW a \in Errors, GiveUp(c, a), UNCHANGED <<world, pinned>>
  PROVE  IInv'
<1> DEFINE w == [work[c] EXCEPT !.cut = TRUE]
<1>1. /\ Working(c) /\ Answered(c, a) /\ UNCHANGED limits /\ pinned' = pinned /\ api' = api
      /\ Sound(work[c], answer[c], pinned, api) /\ work' = [work EXCEPT ![c] = w]
  BY Known DEF GiveUp, world
<1>2. /\ w \in Works /\ w.at = work[c].at /\ w.live = work[c].live /\ w.from = work[c].from
      /\ (w.moved <=> work[c].moved) /\ w.tool = work[c].tool
  BY Known DEF Works
<1> HIDE DEF w
<1>3. PICK b \in {a, answer[c]} : answer' = [answer EXCEPT ![c] = b] /\ b \in Told
  BY <1>1, AnsweredIs DEF Told
<1>4. b # "ok"
  BY <1>1, <1>3, Known DEF Errors
<1>5. Sound(w, b, pinned', api)
  BY <1>1, <1>2, <1>4 DEF Sound
<1> QED BY <1>1, <1>2, <1>3, <1>5, Known, GoesOn DEF Busy, Working

LEMMA SwitchStep == IInv /\ Switch => IInv'
<1> SUFFICES ASSUME IInv, Switch PROVE IInv'
  OBVIOUS
<1> DEFINE moved(c) == [work[c] EXCEPT !.moved = Working(c) \/ @]
<1>1. /\ api' \in Clusters \union {None} /\ UNCHANGED <<pinned, limits, faults, alive, answer>>
      /\ work' = [c \in Calls |-> moved(c)]
  BY DEF Switch
<1>2. ASSUME NEW c \in Calls
      PROVE  /\ moved(c) \in Works /\ moved(c).at = work[c].at
             /\ Sound(moved(c), answer[c], pinned, api')
  <2>1. /\ moved(c) \in Works /\ moved(c).at = work[c].at /\ moved(c).live = work[c].live
        /\ moved(c).from = work[c].from /\ moved(c).tool = work[c].tool
        /\ moved(c).moved <=> Working(c) \/ work[c].moved
    BY Known DEF Works
  <2> HIDE DEF moved
  <2> QED BY <2>1, Known DEF Sound, Working
<1> HIDE DEF moved
<1>3. AtWork' = AtWork
  BY <1>1, <1>2 DEF AtWork, Working
<1>4. TypeInv' /\ CallInv'
  BY <1>1, <1>2 DEF IInv, TypeInv, CallInv, limits
<1>5. SlotsAreWork' /\ RateIsKept'
  BY <1>1, <1>3 DEF IInv, SlotsAreWork, RateIsKept, limits
<1> QED BY <1>4, <1>5 DEF IInv

LEMMA RestStep == IInv /\ (Stop \/ Refill \/ UNCHANGED vars) => IInv'
<1> SUFFICES ASSUME IInv, Stop \/ Refill \/ UNCHANGED vars PROVE IInv'
  OBVIOUS
<1>1. UNCHANGED <<api, pinned, inFlight, admitted, work, answer>>
  BY DEF Stop, Refill, vars, world, limits
<1>2. tokens' \in Nat /\ refills' \in Nat /\ RateIsKept'
  BY McpAssumption DEF IInv, TypeInv, RateIsKept, Stop, Refill, vars, limits
<1>3. AtWork' = AtWork
  BY <1>1 DEF AtWork, Working
<1> QED BY <1>1, <1>2, <1>3 DEF IInv, TypeInv, CallInv, SlotsAreWork

-----------------------------------------------------------------------------
(* The invariant *)

LEMMA InitInv == Init => IInv
<1> SUFFICES ASSUME Init PROVE IInv
  OBVIOUS
<1>1. TypeInv
  BY IdleType, McpAssumption DEF Init, TypeInv
<1>2. \A c \in Calls : work[c].at = "new" /\ answer[c] = "none"
  BY DEF Init, Idle
<1>3. CallInv
  BY <1>2 DEF CallInv, Sound
<1>4. AtWork = {}
  BY <1>2 DEF AtWork, Working
<1>5. SlotsAreWork /\ RateIsKept
  BY <1>4, FS_EmptySet, McpAssumption DEF Init, SlotsAreWork, RateIsKept
<1> QED BY <1>1, <1>3, <1>5 DEF IInv

LEMMA StepInv == IInv /\ [Next]_vars => IInv'
<1> SUFFICES ASSUME IInv, [Next]_vars PROVE IInv'
  OBVIOUS
<1>1. ASSUME NEW c \in Calls, invoke(c) \/ readResource(c) PROVE IInv'
  BY <1>1, InvokeStep, ResourceStep
<1>2. ASSUME NEW c \in Calls, Goroutine(c) PROVE IInv'
  BY <1>2, PinStep, PinToStep, HandlerStep, AnswersStep, FailsStep, StageStep, PanicStep
     DEF Goroutine
<1>3. ASSUME NEW c \in Calls, Deadline(c) \/ Cancelled(c) PROVE IInv'
  BY <1>3, GiveUpStep DEF Deadline, Cancelled, Errors
<1> QED BY <1>1, <1>2, <1>3, SwitchStep, RestStep DEF Next

\* The inductive invariant: the slots and tokens against the goroutines at work, and the cluster
\* each call has read from at each of its steps (admit, pin, CheckCluster).
THEOREM McpInvariant == Spec => []IInv
<1>1. Init => IInv
  BY InitInv
<1>2. IInv /\ [Next]_vars => IInv'
  BY StepInv
<1> QED BY <1>1, <1>2, PTL DEF Spec

\* The slots taken are the goroutines at work, those the guard gave up on included, and no more calls
\* are let through than the burst and what the bucket got back (admit, invoke).
THEOREM AdmissionStaysExact == Spec => []AdmissionIsExact
<1>1. IInv => AdmissionIsExact
  BY DEF IInv, AdmissionIsExact
<1> QED BY <1>1, McpInvariant, PTL

\* An answer with data was checked against the pin, and is the pinned cluster's whenever the URL did
\* not move during the call (pin, pinTo, CheckCluster).
THEOREM AnswersStayThePins == Spec => []AnswersAreOfThePin
<1>1. IInv => AnswersAreOfThePin
  BY DEF IInv, CallInv, Sound, AnswersAreOfThePin
<1> QED BY <1>1, McpInvariant, PTL
==============================================================================
