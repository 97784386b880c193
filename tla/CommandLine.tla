----------------------------- MODULE CommandLine -----------------------------
(***************************************************************************)
(* One command of the command line from its start to its exit: the steps   *)
(* of its program (CommandSteps) in order, with any of the calls it makes  *)
(* failing and the user interrupting it.  The programs are the functions   *)
(* of cli/cmd that the Cmd* modules translate.                             *)
(***************************************************************************)
EXTENDS CommandSteps, Naturals, FiniteSets

CONSTANTS
    Programs,    \* the commands: [name |-> steps]
    MaxFaults,   \* bound on the calls that fail
    MaxRounds    \* bound on the rounds of loops

ASSUME CommandAssumption == MaxFaults \in Nat /\ MaxRounds \in Nat

VARIABLES
    cmd,     \* the command
    todo,    \* the steps it has left
    given,   \* the flags decided so far: pairs of a flag and whether it is set
    st,      \* what it has done so far, see Fresh
    exit,    \* "none" while it runs; "ok", "failed", "declined", "killed"
    faults,  \* failures so far
    rounds   \* rounds of loops so far

vars == <<cmd, todo, given, st, exit, faults, rounds>>

Fresh == [consent |-> FALSE,  \* the user agreed, or gave the flag that says so
          wrote |-> FALSE,    \* it changed something outside of the process
          rash |-> FALSE,     \* it destroyed something before it had consent
          open |-> {},        \* temporary things that exist, where, and whether their making was answered
          running |-> {},     \* runs it started that it has not seen end, cancelled or spoken of
          unheard |-> FALSE,  \* it started a run that it has not been told of
          noted |-> FALSE,    \* a failure it has to tell of
          guarded |-> FALSE,  \* it has a context that a signal cancels
          stopped |-> FALSE]  \* the user interrupted it

Init ==
    /\ cmd \in DOMAIN Programs
    /\ todo = Programs[cmd]
    /\ given = {} /\ st = Fresh /\ exit = "none" /\ faults = 0 /\ rounds = 0

Kind == todo[1][1]
Name == todo[1][2]
Rest == Tail(todo)
At(k) == exit = "none" /\ todo # <<>> /\ Kind = k
Fault == faults < MaxFaults /\ faults' = faults + 1

\* A call fails by itself, or because the context it was given is cancelled.
CallFails == IF st.stopped THEN faults' = faults ELSE Fault
CallWorks == ~st.stopped /\ faults' = faults

Go(left, s) ==
    /\ todo' = left /\ st' = s
    /\ UNCHANGED <<cmd, given, exit, rounds>>
Leave(s, how) ==
    /\ todo' = <<>> /\ st' = s /\ exit' = how
    /\ UNCHANGED <<cmd, given, rounds>>

\* What a function that is left at once still does: the defers up to the end of it (ends), or of the
\* command when there is none.
Ends(ends) == {i \in 1..Len(todo) : todo[i][1] \in ends}
Nearest(ends) == CHOOSE i \in Ends(ends) : \A j \in Ends(ends) : i <= j
DeferredUpTo(n) == {todo[i][2] : i \in {j \in 1..n : todo[j][1] = "deferred"}}
Closed(s, names) == [s EXCEPT !.open = {x \in @ : x[1] \notin names}]
CloseAll(s, n) == Closed(s, DeferredUpTo(n))

Fails(s) ==
    IF Ends({"caught"}) = {} THEN Leave(CloseAll(s, Len(todo)), "failed")
    ELSE LET n == Nearest({"caught"}) IN Go(todo[n][3] \o SubSeq(todo, n + 1, Len(todo)), CloseAll(s, n))

-----------------------------------------------------------------------------
(***************************************************************************)
(* The steps.                                                              *)
(***************************************************************************)
Read ==
    \/ At("need") /\ CallWorks /\ Go(Rest, st)
    \/ At("need") /\ CallFails /\ Fails(st)
    \/ At("probe") /\ CallWorks /\ Go(Rest, st)
    \/ At("probe") /\ CallFails /\ Go(Rest, [st EXCEPT !.noted = TRUE])
    \/ At("look") /\ faults' = faults /\ Go(Rest, st)

Changed == [st EXCEPT !.wrote = TRUE,
                      !.rash = @ \/ (Len(todo[1]) = 3 /\ ~st.consent)]

Change ==
    \/ At("do") /\ CallWorks /\ Go(Rest, Changed)
    \/ At("do") /\ CallFails /\ \E s \in {st, Changed} : Fails(s)
    \/ At("try") /\ CallWorks /\ Go(Rest, Changed)
    \/ At("try") /\ CallFails /\ \E s \in {st, Changed} : Go(Rest, [s EXCEPT !.noted = TRUE])
    \/ At("save") /\ faults' = faults /\ Go(Rest, Changed)
    \/ At("save") /\ Fault /\ \E s \in {st, Changed} : Fails(s)
    \/ At("best") /\ faults' = faults /\ \E s \in {st, Changed} : Go(Rest, s)

Speak ==
    \/ At("note") /\ faults' = faults /\ Go(Rest, [st EXCEPT !.noted = TRUE])
    \/ At("tell") /\ faults' = faults /\ IF st.noted THEN Fails(st) ELSE Go(Rest, st)
    \/ At("fail") /\ faults' = faults /\ Fails(st)
    \/ At("stop") /\ faults' = faults /\ Leave(CloseAll(st, Len(todo)), "ok")
    \/ exit = "none" /\ todo = <<>> /\ faults' = faults /\ Leave(st, "ok")

\* A return skips to the end of the function, and does its defers.
Jump ==
    \/ /\ At("return") /\ faults' = faults
       /\ LET n == Nearest({"end"}) IN Go(SubSeq(todo, n + 1, Len(todo)), CloseAll(st, n))
    \/ At("under") /\ faults' = faults /\ Go(todo[1][3] \o Rest, st)
    \/ At("end") /\ faults' = faults /\ Go(Rest, st)
    \/ At("caught") /\ faults' = faults /\ Go(Rest, st)

\* A flag is decided when it is first asked for.
Decide(flag, on) ==
    /\ <<flag, ~on>> \notin given
    /\ given' = given \union {<<flag, on>>}

Confirm ==
    /\ At("ask") /\ faults' = faults
    /\ \/ /\ Decide(Name, TRUE)
          /\ todo' = Rest /\ st' = [st EXCEPT !.consent = TRUE] /\ UNCHANGED <<cmd, exit, rounds>>
       \/ /\ Decide(Name, FALSE)
          /\ todo' = Rest /\ st' = [st EXCEPT !.consent = TRUE] /\ UNCHANGED <<cmd, exit, rounds>>
       \/ /\ Decide(Name, FALSE)
          /\ todo' = <<>> /\ st' = CloseAll(st, Len(todo)) /\ exit' = "declined"
          /\ UNCHANGED <<cmd, rounds>>

Branch ==
    \/ At("either") /\ faults' = faults /\ \E p \in {todo[1][3], todo[1][4]} : Go(p \o Rest, st)
    \/ /\ At("if") /\ faults' = faults
       /\ \E on \in BOOLEAN :
              /\ Decide(Name, on)
              /\ todo' = (IF on THEN todo[1][3] ELSE todo[1][4]) \o Rest
              /\ UNCHANGED <<cmd, st, exit, rounds>>
    \/ At("each") /\ faults' = faults /\ Go(Rest, st)
    \/ /\ At("each") /\ faults' = faults /\ rounds < MaxRounds
       /\ todo' = todo[1][3] \o todo
       /\ rounds' = rounds + 1
       /\ UNCHANGED <<cmd, given, st, exit>>

\* What is made on the cluster may be there although kubectl failed or was cut off; a file that could
\* not be made is not there.
Opened(answer) == [st EXCEPT !.open = @ \union {<<Name, todo[1][3], answer>>},
                             !.wrote = @ \/ todo[1][3] = "cluster"]

Hold ==
    \/ At("open") /\ CallWorks /\ Go(Rest, Opened("answered"))
    \/ At("open") /\ CallFails /\ Fails(st)
    \/ At("open") /\ CallFails /\ todo[1][3] = "cluster" /\ Fails(Opened("unanswered"))
    \/ At("close") /\ faults' = faults /\ Go(Rest, Closed(st, {Name}))
    \/ At("deferred") /\ faults' = faults /\ Go(Rest, Closed(st, {Name}))

Following == At("follow") \/ At("screen")

\* A POST that failed may have been carried out all the same: the run goes on, under an id that the
\* command was not given.
OnApi ==
    \/ At("begin") /\ CallWorks /\ Go(Rest, [st EXCEPT !.wrote = TRUE, !.running = @ \union {Name}])
    \/ At("begin") /\ CallFails /\ \E s \in {st, [st EXCEPT !.wrote = TRUE, !.unheard = TRUE]} : Fails(s)
    \/ Following /\ CallWorks /\ Go(Rest, [st EXCEPT !.running = @ \ {Name}])
    \/ Following /\ ~st.stopped /\ Fault /\ Go(todo[1][3] \o Rest, st)
    \/ /\ Following /\ (st.stopped \/ Kind = "screen")
       /\ faults' = faults /\ Go(todo[1][4] \o Rest, st)
    \/ At("cancel") /\ faults' = faults /\ Go(Rest, [st EXCEPT !.running = @ \ {Name}])
    \/ At("leave") /\ faults' = faults /\ Go(Rest, [st EXCEPT !.running = @ \ {Name}])

\* The first signal cancels the context of an interruptible command and restores the default, which
\* ends the process where it is: for the second signal, and for every other command.
Signals ==
    \/ At("stopped") /\ faults' = faults /\ Go((IF st.stopped THEN todo[1][3] ELSE <<>>) \o Rest, st)
    \/ At("interruptible") /\ faults' = faults /\ Go(Rest, [st EXCEPT !.guarded = TRUE])
    \/ /\ exit = "none" /\ st.guarded /\ ~st.stopped
       /\ st' = [st EXCEPT !.stopped = TRUE]
       /\ UNCHANGED <<cmd, todo, given, exit, faults, rounds>>
    \/ /\ exit = "none" /\ (st.guarded => st.stopped)
       /\ Leave(st, "killed") /\ faults' = faults

Step == Read \/ Change \/ Speak \/ Jump \/ Confirm \/ Branch \/ Hold \/ OnApi
Next == Step \/ Signals

Spec == Init /\ [][Next]_vars

-----------------------------------------------------------------------------
(***************************************************************************)
(* What the commands promise.  The sets name the commands whose code does  *)
(* otherwise; the README says at which line each of them does.             *)
(***************************************************************************)
CONSTANTS
    QuietFailures,   \* exit 0 after saying that something asked for failed
    LeavesBehind,    \* pairs of a command and a temporary thing that it may leave
    LeavesUnheard,   \* the same, of a thing whose making failed or was cut off after it was carried out
    LeavesItsRun,    \* may end without a word on the run it started
    ChangesFirst,    \* changes something before it asks
    Unasked          \* removes what it is told to remove, and asks nothing

\* The state of a command is what the comments of the variables say, and the flags are consistent:
\* a command that has left has nothing left to do, and no flag is read both as set and as unset.
TypeOK ==
    /\ cmd \in DOMAIN Programs
    /\ exit \in {"none", "ok", "failed", "declined", "killed"}
    /\ exit # "none" => todo = <<>>
    /\ faults \in 0..MaxFaults /\ rounds \in 0..MaxRounds
    /\ \A f \in given : f[2] \in BOOLEAN /\ <<f[1], ~f[2]>> \notin given
    /\ \A x \in st.open : x[2] \in {"here", "cluster"} /\ x[3] \in {"answered", "unanswered"}

\* A command given --dry-run changes nothing outside of its own process, on any path: whatever fails,
\* and wherever in the command the flag is looked at (dryrun.go).
DryRunChangesNothing == <<"dry-run", TRUE>> \in given => ~st.wrote

\* A command that asks removes nothing the user has before the user has agreed, or gave the flag that
\* answers the question (confirm.go).  The commands that remove and never ask are Unasked.
AskedBeforeDestroying == cmd \notin Unasked => ~st.rash

\* And a user who says no has a system in which nothing was changed.
DeclinedChangesNothing == exit = "declined" /\ cmd \notin ChangesFirst => ~st.wrote

\* Nothing is done to the user's system without the user's consent.
ConsentIsKept == DryRunChangesNothing /\ AskedBeforeDestroying /\ DeclinedChangesNothing

\* A command that ends, at any point and for any reason, has removed every temporary thing it made;
\* one that is killed leaves at most files of this machine behind (interrupt.go: "nothing is left
\* behind"), unless the user would not wait for its clean-up.  That holds of a thing whose making was
\* cut off after the cluster had carried it out, too.
NothingLeftOpen ==
    \A x \in st.open :
        LET known == <<cmd, x[1]>> \in (IF x[3] = "answered" THEN LeavesBehind ELSE LeavesUnheard)
        IN /\ exit \in {"ok", "failed", "declined"} => known
           /\ exit = "killed" /\ ~st.stopped /\ x[2] = "cluster" => known

\* A failure that a command goes on after is not forgotten: the exit code of the command says so.
FailureIsTold == exit = "ok" /\ cmd \notin QuietFailures => ~st.noted

\* A run or a plan that a command starts is never lost to the user: when the command ends it has
\* ended, was cancelled, or the command has said that it goes on (interrupt.go).  A run that may have
\* been started without the command being told of it cannot be named; but the command does not end
\* as if all it was asked for had been done.
RunsAreAccountedFor ==
    /\ exit # "none" /\ (exit = "killed" => ~st.stopped) /\ cmd \notin LeavesItsRun => st.running = {}
    /\ exit = "ok" /\ cmd \notin QuietFailures => ~st.unheard
=============================================================================
