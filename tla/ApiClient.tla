------------------------------- MODULE ApiClient -------------------------------
(***************************************************************************)
(* One call of a method of the command line's API client, from its start   *)
(* to what it returns: the attempts of doRequestWith with their backoff,   *)
(* and the wait for a disruption (awaitDisruptionFrom) with the polls,     *)
(* each of them a request with attempts of its own.  Any request may be    *)
(* lost on its way or on its way back, the API may refuse it or fail, and  *)
(* the caller may be interrupted.                                          *)
(***************************************************************************)
EXTENDS ApiEndpoints, Naturals

CONSTANTS
    MaxRetries,                 \* attempts at a request that may be repeated
    maxConsecutivePollFailures, \* failed polls in a row before giving up
    MaxPolls                    \* polls that fit into disruptionPollBudget

ASSUME ClientAssumption ==
    /\ MaxRetries \in Nat \ {0} /\ MaxPolls \in Nat \ {0}
    /\ maxConsecutivePollFailures \in Nat \ {0}

Waits == {"RunDisruption", "PlaybookRun"}
Methods == DOMAIN Endpoints \cup Waits

VARIABLES
    method,    \* the method called
    fit,       \* are the names and ids it was given fit for a path
    setupErr,  \* does the client stand in for settings that are wrong
    wait,      \* "none"; or the wait's request: its "first" read or a "poll"
    stage,     \* where the request is
    attempt,   \* the attempts at it, this one included
    ctx,       \* the caller's context
    got,       \* what the request came to
    failures,  \* consecutiveFailures
    polls,     \* polls made
    result,    \* what the method returned
    done,      \* times the API carried the call's own request out
    api,       \* the disruption, as the API has it
    read,      \* the status the client last read of it
    lost       \* history: polls in a row, up to now, that brought no status

request == <<stage, attempt, got>>
waiting == <<wait, failures, polls, read, lost>>
world == <<ctx, done, api>>
call == <<method, fit, setupErr>>
vars == <<call, request, waiting, result, world>>

Ended == {"COMPLETED", "PARTIAL", "FAILED", "REJECTED", "INTERRUPTED"}
Statuses == {"none", "RUNNING"} \cup Ended

Init ==
    /\ method \in Methods /\ fit \in BOOLEAN /\ setupErr \in BOOLEAN
    /\ wait = "none" /\ stage = "build" /\ attempt = 0 /\ got = "none"
    /\ failures = 0 /\ polls = 0 /\ lost = 0 /\ read = "none"
    /\ ctx = "live" /\ result = "none" /\ done = 0 /\ api = "none"

\* The request in hand: the method's own, or the wait's reading.
RunDisruption == StartDisruption
PlaybookRun == StartPlaybook

OwnRequest ==
    CASE method = "RunDisruption" -> RunDisruption
      [] method = "PlaybookRun" -> PlaybookRun
      [] OTHER -> Endpoints[method]

InHand == IF wait = "none" THEN OwnRequest ELSE DisruptionStatus

(***************************************************************************)
(* The request.                                                            *)
(***************************************************************************)
\* A name that escaping cannot make safe is refused before anything is sent.
pathf(n) == n => fit

Build ==
    /\ stage = "build"
    /\ IF pathf(InHand.named)
       THEN IF setupErr THEN stage' = "answered" /\ got' = "setup"
                        ELSE stage' = "send" /\ got' = got
       ELSE stage' = "answered" /\ got' = "invalid"
    /\ attempt' = 0
    /\ UNCHANGED <<call, waiting, result, world>>

\* What the API does with a request that reaches it.
CarriedOut ==
    IF wait = "none" /\ InHand.does # "nothing"
    THEN /\ done' = done + 1
         /\ api' = IF method \in Waits /\ api = "none" THEN "RUNNING" ELSE api
    ELSE UNCHANGED <<done, api>>

\* An attempt.  It may be lost before it reaches the API, or its answer may
\* be: the connection breaks, or the limit on the request cuts it off.  A 5xx
\* says nothing of whether the API carried it out; a 4xx says it did not.
Send ==
    /\ stage = "send"
    /\ attempt' = attempt + 1
    /\ \E answer \in {"lost", "5xx", "429", "4xx", "ok"} :
          /\ ctx = "cancelled" => answer = "lost"
          /\ got' = answer
          /\ \/ answer = "ok" /\ CarriedOut
             \/ answer \in {"lost", "5xx"} /\ CarriedOut
             \/ answer # "ok" /\ UNCHANGED <<done, api>>
    /\ stage' = "sent"
    /\ UNCHANGED <<call, waiting, result, ctx>>

\* doRequestWith: only what may be repeated is, and not after a 4xx.
attemptsForAll == MaxRetries

attempts == IF InHand.retryable THEN MaxRetries ELSE 1

Again ==
    /\ stage = "sent" /\ got \in {"lost", "5xx"} /\ attempt < attempts
    /\ stage' = "backoff"
    /\ UNCHANGED <<call, attempt, got, waiting, result, world>>

Answered ==
    /\ stage = "sent" /\ ~(got \in {"lost", "5xx"} /\ attempt < attempts)
    /\ stage' = "answered"
    /\ UNCHANGED <<call, attempt, got, waiting, result, world>>

\* The pause before the next attempt ends early with the caller's context.
Backoff ==
    /\ stage = "backoff"
    /\ IF ctx = "cancelled"
       THEN stage' = "answered" /\ got' = "cancelled"
       ELSE stage' = "send" /\ got' = got
    /\ UNCHANGED <<call, attempt, waiting, result, world>>

(***************************************************************************)
(* What becomes of the answer.                                             *)
(***************************************************************************)
Return(r) ==
    /\ stage' = "returned" /\ result' = r
    /\ UNCHANGED <<call, attempt, got, wait, failures, polls, world>>

Ask(w) == wait' = w /\ stage' = "build" /\ attempt' = 0 /\ got' = "none"

Permanent == got = "4xx"

isTerminalDisruptionStatus(s) == s \in Ended

Deliver ==
    /\ stage = "answered" /\ wait = "none"
    /\ ~(got = "ok" /\ method \in Waits)
    /\ Return(got)
    /\ UNCHANGED <<read, lost>>

\* The plan is accepted, with the status it has by now.
StartWait ==
    /\ stage = "answered" /\ wait = "none"
    /\ got = "ok" /\ method \in Waits
    /\ \E accepted \in {"RUNNING", api} :
          Ask(IF isTerminalDisruptionStatus(accepted) THEN "first" ELSE "poll")
    /\ UNCHANGED <<call, failures, polls, read, lost, result, world>>

FirstRead ==
    /\ stage = "answered" /\ wait = "first"
    /\ read' = IF got = "ok" THEN api ELSE read
    /\ lost' = lost
    /\ Return(IF got = "ok" THEN "report" ELSE got)

\* The counter of failures starts again with every answer.
consecutiveFailuresEver(n) == failures + n

consecutiveFailures(n) == IF n = 0 THEN 0 ELSE failures + n

WithinBudget == polls < MaxPolls

Poll ==
    /\ stage = "answered" /\ wait = "poll"
    /\ read' = IF got = "ok" THEN api ELSE read
    /\ lost' = IF got = "ok" THEN 0 ELSE lost + 1
    /\ LET n == consecutiveFailures(IF got = "ok" THEN 0 ELSE 1)
       IN  \/ /\ got = "ok" /\ isTerminalDisruptionStatus(api)
              /\ Return("report")
           \/ Permanent /\ Return("4xx")
           \/ /\ got # "ok" /\ ~Permanent /\ n >= maxConsecutivePollFailures
              /\ Return("gave up")
           \/ /\ \/ got = "ok" /\ ~isTerminalDisruptionStatus(api)
                 \/ got # "ok" /\ ~Permanent /\ n < maxConsecutivePollFailures
              /\ \/ Return("timed out")
                 \/ /\ WithinBudget
                    /\ failures' = n
                    /\ polls' = IF polls < MaxPolls THEN polls + 1 ELSE polls
                    /\ stage' = "pause"
                    /\ UNCHANGED <<call, attempt, got, wait, result, world>>

Pause ==
    /\ stage = "pause"
    /\ IF ctx = "cancelled"
       THEN Return("cancelled") /\ UNCHANGED <<read, lost>>
       ELSE /\ Ask("poll")
            /\ UNCHANGED <<call, failures, polls, read, lost, result, world>>

(***************************************************************************)
(* The caller, and the API.                                                *)
(***************************************************************************)
Interrupt ==
    /\ ctx = "live" /\ stage # "returned"
    /\ ctx' = "cancelled"
    /\ UNCHANGED <<call, request, waiting, result, done, api>>

\* The disruption ends, or loses the lease, or its replica dies.
DisruptionEnds ==
    /\ api = "RUNNING"
    /\ \E s \in Ended : api' = s
    /\ UNCHANGED <<call, request, waiting, result, ctx, done>>

Requesting == Build \/ Send \/ Again \/ Answered \/ Backoff
Deciding == Deliver \/ StartWait \/ FirstRead \/ Poll \/ Pause
Next == Requesting \/ Deciding \/ Interrupt \/ DisruptionEnds

Spec == Init /\ [][Next]_vars

(***************************************************************************)
(* Properties.                                                             *)
(***************************************************************************)
\* A call that changes something is carried out at most once, whatever is
\* lost on the way; what it returns as done was done, and what it returns as
\* refused was not: a DELETE sent again after its answer was lost would be
\* told 404 of what it removed itself (doRequestWith, PruneTests).
ChangedAtMostOnce ==
    /\ done <= 1
    /\ result \in {"ok", "report"} /\ OwnRequest.does # "nothing" => done = 1
    /\ result \in {"4xx", "429", "invalid", "setup"} /\ wait = "none" => done = 0

\* What a wait says of the disruption is so: a report is of one that has
\* ended, one that may still be running was never read as ended, and the
\* wait gives up on the API only when so many polls in a row brought nothing
\* (awaitDisruptionFrom).
WaitTellsTheTruth ==
    /\ result = "report" => read \in Ended /\ read = api
    /\ result \in {"timed out", "gave up", "cancelled"} => read \notin Ended
    /\ result = "gave up" => lost >= maxConsecutivePollFailures
================================================================================
