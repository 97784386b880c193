----------------------------- MODULE McpServer ------------------------------
(***************************************************************************)
(* The guard every call to `kates mcp` goes through (cmd/mcp_guard.go):    *)
(* an in-flight slot and a rate token, the pin check, the handler's reads, *)
(* the deadline.  The handler runs in a goroutine of its own that may      *)
(* outlive the call; the slot belongs to the goroutine.  The API is a URL, *)
(* usually a forwarded port: what answers on it may change between any two *)
(* requests.                                                               *)
(***************************************************************************)
EXTENDS McpTools, Naturals, FiniteSetsExt

CONSTANTS
    Clusters,     \* clusters the URL may reach
    Allowed,      \* --allow-cluster
    None,         \* no cluster
    Calls,        \* the calls a client makes
    InPlay,       \* call -> the tools and resources it may be of
    MaxInFlight,  \* mcpLimits.MaxInFlight
    Burst,        \* mcpLimits.Burst
    MaxSwitches,  \* bound: changes of what the URL reaches
    MaxRefills,   \* bound: rate tokens that come back
    MaxFaults     \* bound: reads that fail of themselves

ASSUME McpAssumption ==
    /\ Allowed \subseteq Clusters /\ Allowed # {} /\ None \notin Clusters
    /\ IsFiniteSet(Calls) /\ \A c \in Calls : InPlay[c] \subseteq Seq(Stages)
    /\ MaxInFlight \in Nat \ {0} /\ Burst \in Nat \ {0}
    /\ MaxSwitches \in Nat /\ MaxRefills \in Nat /\ MaxFaults \in Nat

VARIABLES
    api,        \* the cluster the URL reaches now
    switches,   \* how often that changed
    pinned,     \* mcpDeps.pinnedID
    inFlight,   \* slots taken
    tokens,     \* rate tokens left
    refills,    \* tokens that came back
    admitted,   \* calls let through
    faults,     \* failures used up
    alive,      \* FALSE once the server was told to stop
    work,       \* call -> its goroutine
    answer      \* call -> what its client got

vars == <<api, switches, pinned, inFlight, tokens, refills, admitted, faults, alive, work, answer>>
limits == <<inFlight, tokens, refills, admitted>>
world == <<api, switches>>

Steps == {"new", "pin", "pinTo", "args", "read", "gone"}
\* "failed" stands for the classes of a failed read (mcpClassifyError).
Errors == {"rateLimited", "unavailable", "cancelled", "clusterChanged", "notAllowed", "failed", "invalid"}

\* tool: the stages to come; live: the clusterId the pin check read; todo: reads not yet answered;
\* got: some read of the stage answered; from: whose the data is, the pinned cluster's ("pin"), in part
\* another's ("other"), with an answer that says so ("named"); moved: the URL moved during the call;
\* cut: its context is over.
Idle == [at |-> "new", tool |-> <<>>, live |-> None, todo |-> {}, got |-> FALSE,
         from |-> "pin", moved |-> FALSE, cut |-> FALSE]

Working(c) == work[c].at \notin {"new", "gone"}
AtWork == {c \in Calls : Working(c)}

-----------------------------------------------------------------------------
\* runMCP: a cluster that is not allowed stops the server, one that cannot be read leaves it unpinned.
Init ==
    /\ api \in Clusters \union {None}
    /\ pinned = IF api \in Allowed THEN api ELSE None
    /\ api \in Clusters => api \in Allowed
    /\ switches = 0
    /\ inFlight = 0
    /\ tokens = Burst
    /\ refills = 0
    /\ admitted = 0
    /\ faults = 0
    /\ alive = TRUE
    /\ work = [c \in Calls |-> Idle]
    /\ answer = [c \in Calls |-> "none"]

Answered(c, a) == answer' = IF answer[c] = "none" THEN [answer EXCEPT ![c] = a] ELSE answer

\* Mutant: a call refused for its rate keeps the slot.
RefusedKeepsSlot(c) ==
    /\ inFlight = MaxInFlight \/ tokens = 0
    /\ Answered(c, "rateLimited")
    /\ work' = [work EXCEPT ![c].at = "gone"]
    /\ inFlight' = IF inFlight = MaxInFlight THEN inFlight ELSE inFlight + 1
    /\ UNCHANGED <<tokens, refills, admitted>>


\* admit, refused: no slot, or no token, in which case the slot is given back.
Refused(c) ==
    /\ inFlight = MaxInFlight \/ tokens = 0
    /\ Answered(c, "rateLimited")
    /\ work' = [work EXCEPT ![c].at = "gone"]
    /\ UNCHANGED limits


\* admit, let through: the goroutine starts.
Admitted(c, t) ==
    /\ inFlight < MaxInFlight /\ tokens > 0
    /\ inFlight' = inFlight + 1
    /\ tokens' = tokens - 1
    /\ admitted' = admitted + 1
    /\ work' = [work EXCEPT ![c] = [Idle EXCEPT !.at = "pin", !.tool = t]]
    /\ UNCHANGED <<refills, answer>>

\* invoke, up to the goroutine.
invoke(c) ==
    /\ alive /\ work[c].at = "new"
    /\ \E t \in InPlay[c] : Refused(c) \/ Admitted(c, t)
    /\ UNCHANGED <<world, pinned, faults, alive>>

\* readResource: a URI or a variable that is not well-formed is refused before the guard.
readResource(c) ==
    /\ alive /\ work[c].at = "new"
    /\ InPlay[c] \intersect Resources # {}
    /\ Answered(c, "invalid")
    /\ work' = [work EXCEPT ![c].at = "gone"]
    /\ UNCHANGED <<world, pinned, limits, faults, alive>>

-----------------------------------------------------------------------------
\* The goroutine's deferred function: the slot is released, then the outcome is sent.
Return(c, a) ==
    /\ work' = [work EXCEPT ![c] = IF a = "ok" THEN [Idle EXCEPT !.at = "gone", !.live = work[c].live,
                                                      !.from = work[c].from, !.moved = work[c].moved]
                                    ELSE [Idle EXCEPT !.at = "gone"]]
    /\ inFlight' = inFlight - 1
    /\ Answered(c, a)

\* What a request meets: an answer of the cluster behind the URL, or a failure.
Answers(c) == api # None /\ ~work[c].cut
Fails(c) ==
    \/ (api = None \/ work[c].cut) /\ UNCHANGED faults
    \/ faults < MaxFaults /\ faults' = faults + 1

\* pin: the live clusterId is read.
pin(c) ==
    /\ work[c].at = "pin"
    /\ \/ /\ Answers(c)
          /\ work' = [work EXCEPT ![c].at = "pinTo", ![c].live = api]
          /\ UNCHANGED <<inFlight, faults, answer>>
       \/ Fails(c) /\ Return(c, "failed")
    /\ UNCHANGED <<world, pinned, tokens, refills, admitted, alive>>


\* pinTo, under pinMu, and the comparison that follows.
pinTo(c) ==
    LET live == work[c].live
        held == IF pinned = None /\ live \in Allowed THEN live ELSE pinned
    IN /\ work[c].at = "pinTo"
       /\ pinned' = held
       /\ \/ held = live /\ work' = [work EXCEPT ![c].at = "args"] /\ UNCHANGED <<inFlight, answer>>
          \/ held = None /\ Return(c, "notAllowed")
          \/ held \notin {None, live} /\ Return(c, "clusterChanged")
       /\ UNCHANGED <<world, tokens, refills, admitted, faults, alive>>

\* The handler's arguments are checked before it reads; a tool without reads answers here.
handler(c) ==
    /\ work[c].at = "args"
    /\ \/ Return(c, "invalid")
       \/ work[c].tool = <<>> /\ Return(c, "ok")
       \/ /\ work[c].tool # <<>>
          /\ work' = [work EXCEPT ![c].at = "read", ![c].todo = Reads(Head(work[c].tool))]
          /\ UNCHANGED <<inFlight, answer>>
    /\ UNCHANGED <<world, pinned, tokens, refills, admitted, faults, alive>>

\* Reads with the same standing are interchangeable: the next of each.
Standing(s, r) == <<r \in s.must, r \in s.named>>
NextReads(c) ==
    LET s == Head(work[c].tool)
    IN {CHOOSE r \in work[c].todo : Standing(s, r) = k : k \in {Standing(s, r) : r \in work[c].todo}}

\* Whose the data is once r has answered too.
Source(c, r) ==
    IF api = pinned THEN work[c].from
    ELSE IF r \in Head(work[c].tool).named THEN "named"
    ELSE IF work[c].from = "pin" THEN "other" ELSE work[c].from

\* One read answers: the data is of the cluster behind the URL now.
ReadAnswers(c) ==
    /\ work[c].at = "read"
    /\ Answers(c)
    /\ \E r \in NextReads(c) :
          work' = [work EXCEPT ![c].todo = @ \ {r}, ![c].got = Head(work[c].tool).some,
                               ![c].from = Source(c, r)]
    /\ UNCHANGED <<world, pinned, limits, faults, alive, answer>>

\* Mutant: a read does not see that its context is over.
ReadFailsUncut(c) ==
    /\ work[c].at = "read" /\ ~work[c].cut
    /\ Fails(c)
    /\ \E r \in NextReads(c) :
          \/ r \in Head(work[c].tool).must /\ Return(c, "failed")
          \/ /\ r \notin Head(work[c].tool).must
             /\ work' = [work EXCEPT ![c].todo = @ \ {r}]
             /\ UNCHANGED <<inFlight, answer>>
    /\ UNCHANGED <<world, pinned, tokens, refills, admitted, alive>>


\* One read fails: the call fails with it, or does without it.
ReadFails(c) ==
    /\ work[c].at = "read"
    /\ Fails(c)
    /\ \E r \in NextReads(c) :
          \/ r \in Head(work[c].tool).must /\ Return(c, "failed")
          \/ /\ r \notin Head(work[c].tool).must
             /\ work' = [work EXCEPT ![c].todo = @ \ {r}]
             /\ UNCHANGED <<inFlight, answer>>
    /\ UNCHANGED <<world, pinned, tokens, refills, admitted, alive>>

\* Mutant: what the answer names is not compared.
CheckClusterNever(c) == TRUE


\* CheckCluster, in the tools that ask it of an answer.
CheckCluster(c) == work[c].from # "named"

\* The stage is over (g.Wait): the check, the next stage, or the answer.
StageDone(c) ==
    LET s == Head(work[c].tool) IN
    /\ work[c].at = "read" /\ work[c].todo = {}
    /\ \/ ~CheckCluster(c) /\ Return(c, "clusterChanged")
       \/ CheckCluster(c) /\ s.some /\ ~work[c].got /\ Return(c, "failed")
       \/ /\ CheckCluster(c) /\ (s.some => work[c].got) /\ Len(work[c].tool) = 1
          /\ Return(c, "ok")
       \/ /\ CheckCluster(c) /\ (s.some => work[c].got) /\ Len(work[c].tool) > 1
          /\ work' = [work EXCEPT ![c].tool = Tail(@), ![c].got = FALSE,
                                  ![c].todo = Reads(Head(Tail(work[c].tool)))]
          /\ UNCHANGED <<inFlight, answer>>
    /\ UNCHANGED <<world, pinned, tokens, refills, admitted, faults, alive>>

\* A panic in the handler or in a read is recovered: the slot comes back, the caller is told.
panicked(c) ==
    /\ Working(c)
    /\ faults < MaxFaults
    /\ faults' = faults + 1
    /\ Return(c, "failed")
    /\ UNCHANGED <<world, pinned, tokens, refills, admitted, alive>>

-----------------------------------------------------------------------------

\* The guard gives up on the call: its deadline passed, or the server stops.  The goroutine goes on
\* with a context that is over and keeps its slot.
GiveUp(c, a) ==
    /\ Working(c) /\ answer[c] = "none"
    /\ Answered(c, a)
    /\ work' = [work EXCEPT ![c].cut = TRUE]
    /\ UNCHANGED limits

Deadline(c) == GiveUp(c, "unavailable") /\ UNCHANGED <<world, pinned, faults, alive>>
Cancelled(c) == ~alive /\ GiveUp(c, "cancelled") /\ UNCHANGED <<world, pinned, faults, alive>>

\* SIGINT, SIGTERM or the end of stdin.
Stop ==
    /\ alive
    /\ alive' = FALSE
    /\ UNCHANGED <<world, pinned, limits, faults, work, answer>>

\* The limiter's bucket fills up at its rate.
Refill ==
    /\ tokens < Burst /\ refills < MaxRefills
    /\ tokens' = tokens + 1
    /\ refills' = refills + 1
    /\ UNCHANGED <<world, pinned, inFlight, admitted, faults, alive, work, answer>>

\* The port-forward ends, or is pointed elsewhere.
Switch ==
    /\ switches < MaxSwitches
    /\ api' \in (Clusters \union {None}) \ {api}
    /\ switches' = switches + 1
    /\ work' = [c \in Calls |-> [work[c] EXCEPT !.moved = Working(c) \/ @]]
    /\ UNCHANGED <<pinned, limits, faults, alive, answer>>

Goroutine(c) ==
    pin(c) \/ pinTo(c) \/ handler(c) \/ ReadAnswers(c) \/ ReadFails(c) \/ StageDone(c) \/ panicked(c)

Next ==
    \/ \E c \in Calls : invoke(c)
    \/ \E c \in Calls : readResource(c)
    \/ \E c \in Calls : Goroutine(c)
    \/ \E c \in Calls : Deadline(c)
    \/ \E c \in Calls : Cancelled(c)
    \/ Stop
    \/ Refill
    \/ Switch

\* A request whose context is over returns, so a goroutine always gets on; timers fire.
Fairness == \A c \in Calls : WF_vars(Goroutine(c)) /\ WF_vars(Deadline(c))

Spec == Init /\ [][Next]_vars /\ Fairness

-----------------------------------------------------------------------------
\* Types of the state of the guard.
TypeOK ==
    /\ api \in Clusters \union {None} /\ pinned \in Allowed \union {None}
    /\ inFlight \in 0..MaxInFlight /\ tokens \in 0..Burst
    /\ alive \in BOOLEAN
    /\ \A c \in Calls : work[c].at \in Steps /\ answer[c] \in Errors \union {"none", "ok"}

\* The cap counts real work: slots are held by exactly the handlers that have not returned, the ones
\* the guard gave up on included, and by no refused call (invoke, admit).
SlotsAreWork == inFlight = Cardinality(AtWork) /\ Cardinality(AtWork) <= MaxInFlight

\* No call passes the rate limit: what was let through is the burst and what came back since (admit:
\* "a refused call consumes neither").
RateIsKept == admitted + tokens = Burst + refills

\* What the guard lets through is what it counts, of slots and of tokens.
AdmissionIsExact == SlotsAreWork /\ RateIsKept

\* An answer that carries data was checked against the pin, and what in it names a cluster names the
\* pinned one: with a URL that did not move during the call, all of it comes from there (pin, CheckCluster).
AnswersAreOfThePin ==
    \A c \in Calls : answer[c] = "ok" =>
        /\ pinned # None /\ work[c].live = pinned
        /\ work[c].from # "named"
        /\ ~work[c].moved => work[c].from = "pin"

\* Every call made is answered and every slot comes back, hung reads, deadlines and the end of the
\* server included (a client makes finitely many calls here).
EveryCallIsAnswered ==
    <>[](inFlight = 0 /\ \A c \in Calls : work[c].at # "new" => answer[c] # "none")
=============================================================================
