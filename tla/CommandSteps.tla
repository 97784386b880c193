---------------------------- MODULE CommandSteps ----------------------------
(***************************************************************************)
(* The vocabulary in which the commands of the command line are written.   *)
(* A command, and each function it calls, is the sequence of what it does  *)
(* to the world: reads and checks, questions, changes, things it opens and *)
(* has to close.  A step is <<kind, name, ...>>; names are for the reader  *)
(* and for what is opened, started and changed.  What a failure of a step  *)
(* does is the kind:                                                       *)
(*                                                                         *)
(*   Need   a read, a check or a wait; if it fails the function fails      *)
(*   Look   a read that is done without if it fails                        *)
(*   Do     a change; if it fails the function fails                       *)
(*   Try    a change; a failure is noted and the function goes on          *)
(*   Probe  a read; a failure is noted and the function goes on            *)
(*   Best   a change; a failure is a warning or nothing                    *)
(*   Save   a Do that no context cuts short (a file)                       *)
(*   Note   a failure is noted; Tell: the function fails if one was        *)
(*                                                                         *)
(* A function that fails makes its caller fail, up to the command, unless  *)
(* the call is an Attempt.                                                 *)
(***************************************************************************)
EXTENDS Sequences

Need(x) == <<<<"need", x>>>>
Look(x) == <<<<"look", x>>>>
Do(x) == <<<<"do", x>>>>
Try(x) == <<<<"try", x>>>>
Probe(x) == <<<<"probe", x>>>>
Best(x) == <<<<"best", x>>>>
Save(x) == <<<<"save", x>>>>
Note == <<<<"note", "">>>>
Tell == <<<<"tell", "">>>>

\* A change that removes something the user has, asked for or not.
Destroying(change) == <<Append(change[1], "destroys")>>
Destroy(x) == Destroying(Do(x))
TryDestroy(x) == Destroying(Try(x))

\* The confirmation: granted by the flag, else by the prompt; refused without a terminal.
Ask(flag) == <<<<"ask", flag>>>>

\* Something temporary, of this machine or of the cluster.  What runs under Deferred(x, p) is followed
\* by the closing of x whether p ends well, returns early or fails (a defer, from where it is reached
\* on); Close closes it where it stands.
Open(x) == <<<<"open", x, "here">>>>
OpenOnCluster(x) == <<<<"open", x, "cluster">>>>
Close(x) == <<<<"close", x>>>>
Deferred(x, p) == <<<<"under", x, p \o <<<<"deferred", x>>>>>>>>
Within(x, p) == Open(x) \o Deferred(x, p)
WithinOnCluster(x, p) == OpenOnCluster(x) \o Deferred(x, p)

\* The command asked for a context that the first signal cancels (interruptible).
Interruptible == <<<<"interruptible", "">>>>
\* p, when the context is over.
IfStopped(p) == <<<<"stopped", "", p>>>>
\* A run or a plan the command starts on the API, and the wait for its end: it ends, cannot be
\* followed any more (q), or the user stops waiting (r): by a signal, or on a screen by quitting it.
Begin(x) == <<<<"begin", x>>>>
Follow(x, q, r) == <<<<"follow", x, q, r>>>>
FollowOnScreen(x, q, r) == <<<<"screen", x, q, r>>>>
\* Its cancellation, on a context of its own: a failure is said and lived with; and what is said of
\* a run that is left going.
Cancel(x) == <<<<"cancel", x>>>>
LeaveRunning(x) == <<<<"leave", x>>>>

\* The end of the function, well or not, and of the command.
Return == <<<<"return", "">>>>
Fail == <<<<"fail", "">>>>
Stop == <<<<"stop", "">>>>
Call(p) == p \o <<<<"end", "">>>>
\* p, and if it fails, q.
Attempt(p, q) == p \o <<<<"caught", "", q>>>>

\* A branch on what was read or given, one on a flag, and a loop.
Either(p, q) == <<<<"either", "", p, q>>>>
Maybe(p) == Either(p, <<>>)
If(flag, p, q) == <<<<"if", flag, p, q>>>>
When(flag, p) == If(flag, p, <<>>)
Unless(flag, p) == If(flag, <<>>, p)
Each(p) == <<<<"each", "", p>>>>
=============================================================================
