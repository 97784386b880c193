-------------------------- MODULE LocalProcessesProofs --------------------------
(***************************************************************************)
(* For any processes, commands, contexts, charts, keys the APIs accept and *)
(* faults: what kates processes that run at once do to the files and the   *)
(* port they share.                                                        *)
(***************************************************************************)
EXTENDS LocalProcesses, FiniteSetTheorems, TLAPS

-----------------------------------------------------------------------------
(* The inductive invariant *)

Ctxs == [url : Urls \union {""}, key : Keys \union {NoKey}, src : Keys \union {NoKey}]
Currents == Names \union {""}
Configs == [ctxs : [Names -> Ctxs], cur : Currents]

Steps ==
  {"", "stop others", "stop forwards", "taken", "start forward", "before", "secret",
   "lock", "write", "repair", "repair start", "look", "verify chart", "unmark", "aside",
   "swap", "mark", "check"} \union Ended

Records ==
  [cmd : Commands \union {"none"}, at : Steps, ctx : Names, before : Ctxs, want : Ctxs,
   snap : Configs, url : Urls \union {""}, taken : BOOLEAN,
   key : {"unread", "user", "kept", "secret", "unverified", "accepted", "rejected"},
   digest : Digests \union {"none"}, cached : BOOLEAN, signed : BOOLEAN, provenance : BOOLEAN,
   missed : BOOLEAN, raced : BOOLEAN, answered : {"nobody", "kates", "other"}]

CacheType ==
  [chart : Digests \union {"none"}, marker : Digests \union {"none"}, attested : BOOLEAN,
   crossed : BOOLEAN, serves : Digests]

TypeInv ==
  /\ cfg \in Configs
  /\ lock \in Procs \union {"none"}
  /\ secret \in {"s1", "s2"}
  /\ mine \in SUBSET Names
  /\ port \in {"free", "other", "kates"}
  /\ cache \in CacheType
  /\ pr \in [Procs -> Records]

\* Which command is where.
CommandOf(r) ==
  /\ r.at \in {"stop others", "stop forwards", "taken", "start forward", "before"}
       => r.cmd \in Forwarding
  /\ r.at = "secret" => r.cmd = "deploy"
  /\ r.at \in {"lock", "write"} => r.cmd \in OnContext \union Syncing

CommandInv == \A p \in Procs : CommandOf(pr[p])

\* One process at a time is between the read and the write, and nobody else
\* writes meanwhile.
LockInv == \A p \in Procs : pr[p].at = "write" => lock = p /\ pr[p].snap = cfg

\* kates may not replace a key the user set.
MineInv == \A c \in mine : ~keyReplaceable(cfg.ctxs[c])

\* What was decided before the lock was taken.
Decided(r) ==
  r.at \in {"lock", "write"} =>
    /\ r.cmd \in Forwarding =>
         /\ r.ctx = "ports"
         /\ ~keyReplaceable(r.before) => sameKey(r.want, r.before)
    /\ r.cmd = "deploy" /\ r.key = "accepted" => r.want.key \in Accepts[r.url]

DecidedInv == \A p \in Procs : Decided(pr[p])

\* Of the kates ports that overlooked none, one is past the stopping; and what each found at the port.
OneInv ==
  \A p, q \in Procs :
    Ports(p) /\ Ports(q) /\ ~pr[p].missed /\ ~pr[q].missed => p = q

Forward(r, at) ==
  /\ r.at = "start forward" /\ ~r.taken /\ at = "other" => r.raced
  /\ r.answered = "other" => r.raced

ForwardInv == \A p \in Procs : Forward(pr[p], port)

\* What a pull knows of its chart: one it takes for signed is.
Checked(r) ==
  /\ r.at = "verify chart" => r.digest # "none"
  /\ r.at \in {"unmark", "aside", "swap", "mark"} /\ r.signed => r.digest \in Signed
  /\ r.at = "mark" => r.signed

Putting(r) == r.at \in {"aside", "swap", "mark"}

\* Beside a pull that puts an unchecked chart in there is no marker; beside one that puts a checked
\* chart in, and moved the old one aside, there is no unsigned chart.
Beside(r, c) ==
  Putting(r) =>
    /\ ~r.signed => c.marker = "none"
    /\ r.signed /\ r.at # "aside" => c.chart \in Signed \union {"none"}

\* Until pulls cross, the charts put in at once are all checked or all unchecked.
ChartInv ==
  /\ cache.marker \in Signed \union {"none"}
  /\ \A p \in Procs : Checked(pr[p])
  /\ ~cache.crossed =>
       /\ cache.marker # "none" /\ cache.chart # "none" => cache.chart \in Signed
       /\ \A p \in Procs : Beside(pr[p], cache)
       /\ \A p, q \in Procs : Putting(pr[p]) /\ Putting(pr[q]) => pr[p].signed = pr[q].signed

IInv ==
  /\ TypeInv /\ CommandInv /\ LockInv /\ MineInv
  /\ DecidedInv /\ OneInv /\ ForwardInv /\ ChartInv

-----------------------------------------------------------------------------
(* A step of one process *)

\* A process goes on with its command, and keeps what it met at the port.
Same(r, s) == r.cmd = s.cmd /\ (r.at \notin Ended => r.missed = s.missed)
Keeps(r, s) == Same(r, s) /\ r.raced = s.raced /\ r.answered = s.answered

\* p takes a step, and what the others keep in their records stays.
Moves(p) == pr' \in [Procs -> Records] /\ \A q \in Procs \ {p} : pr'[q] = pr[q]

LEMMA IdleType == Idle \in Records
BY DEF Currents, Idle, Records, Names, NoContext, Ctxs, Configs, NoKey, Steps

\* A record stays one when a step changes it.
LEMMA EditTypes ==
  ASSUME NEW s \in Records, NEW at \in Steps, NEW b \in BOOLEAN, NEW v \in BOOLEAN
  PROVE  /\ [s EXCEPT !.at = at, !.taken = b] \in Records
         /\ \A a \in {"nobody", "kates", "other"} : [s EXCEPT !.answered = a, !.at = at] \in Records
         /\ [s EXCEPT !.at = at, !.missed = b] \in Records
         /\ \A d \in Digests : [s EXCEPT !.cached = b, !.digest = d, !.at = at] \in Records
         /\ [s EXCEPT !.signed = b, !.provenance = v, !.at = at] \in Records
         /\ [s EXCEPT !.raced = b] \in Records
         /\ \A c \in Configs : [s EXCEPT !.snap = c, !.at = at] \in Records
         /\ \A before, want \in Ctxs, key \in {"user", "kept", "secret"}, n \in Names :
              [s EXCEPT !.before = before, !.want = want, !.key = key, !.at = at, !.ctx = n] \in Records
<1>1. [s EXCEPT !.at = at, !.taken = b] \in Records
  BY DEF Records
<1>2. \A a \in {"nobody", "kates", "other"} : [s EXCEPT !.answered = a, !.at = at] \in Records
  BY DEF Records
<1>3. [s EXCEPT !.at = at, !.missed = b] \in Records
  BY DEF Records
<1>4. \A d \in Digests : [s EXCEPT !.cached = b, !.digest = d, !.at = at] \in Records
  BY DEF Records
<1>5. [s EXCEPT !.signed = b, !.provenance = v, !.at = at] \in Records
  BY DEF Records
<1>6. [s EXCEPT !.raced = b] \in Records
  BY DEF Records
<1>7. \A c \in Configs : [s EXCEPT !.snap = c, !.at = at] \in Records
  BY DEF Records
<1>8. \A before, want \in Ctxs, key \in {"user", "kept", "secret"}, n \in Names :
        [s EXCEPT !.before = before, !.want = want, !.key = key, !.at = at, !.ctx = n] \in Records
  BY DEF Records
<1> QED BY <1>1, <1>2, <1>3, <1>4, <1>5, <1>6, <1>7, <1>8

LEMMA StepNames ==
  {"start forward", "before", "stop forwards", "verify chart", "unmark", "lock", "write"} \subseteq Steps
BY DEF Steps

LEMMA Strings ==
  /\ "ports" \in Names /\ "ports" \in Currents /\ "" \in Currents
  /\ NoContext \in Ctxs /\ Contexts \subseteq Names /\ Names \subseteq Currents
BY DEF Names, Currents, NoContext, Ctxs, NoKey

LEMMA ToMoves ==
  ASSUME TypeInv, NEW p \in Procs, NEW at \in Steps, To(p, at)
  PROVE  /\ Moves(p)
         /\ pr'[p].at = at /\ Keeps(pr'[p], pr[p])
         /\ at \notin Ended => /\ pr'[p].taken = pr[p].taken /\ pr'[p].digest = pr[p].digest
                              /\ pr'[p].signed = pr[p].signed
<1>1. pr \in [Procs -> Records] /\ pr[p] \in Records
  BY DEF TypeInv
<1>2. CASE at \in Ended
  <2> DEFINE r == [Idle EXCEPT !.cmd = pr[p].cmd, !.at = at,
                              !.raced = pr[p].raced, !.answered = pr[p].answered]
  <2>1. /\ r \in Records /\ r.at = at /\ Keeps(r, pr[p])
    BY <1>1, <1>2, IdleType DEF Keeps, Same, Records, Keeps, Same
  <2>2. pr' = [pr EXCEPT ![p] = r]
    BY <1>2 DEF To
  <2> HIDE DEF r
  <2> QED BY <1>1, <1>2, <2>1, <2>2 DEF Moves
<1>3. CASE at \notin Ended
  <2> DEFINE r == [pr[p] EXCEPT !.at = at]
  <2>1. /\ r \in Records /\ r.at = at /\ Keeps(r, pr[p])
        /\ r.taken = pr[p].taken /\ r.digest = pr[p].digest /\ r.signed = pr[p].signed
    BY <1>1 DEF Keeps, Same, Records, Keeps, Same
  <2>2. pr' = [pr EXCEPT ![p] = r]
    BY <1>3 DEF To
  <2> HIDE DEF r
  <2> QED BY <1>1, <2>1, <2>2 DEF Moves
<1> QED BY <1>2, <1>3

LEMMA SetMoves ==
  ASSUME TypeInv, NEW p \in Procs, NEW r \in Records, Set(p, r)
  PROVE  Moves(p) /\ pr'[p] = r
BY DEF TypeInv, Set, Moves

\* What a step of p has to see to, for each part of the invariant.
LEMMA OneMoves ==
  ASSUME IInv, NEW p \in Procs, Moves(p)
  PROVE  /\ CommandOf(pr'[p]) => CommandInv'
         /\ /\ cfg' = cfg /\ (lock' = lock \/ lock = p)
            /\ pr'[p].at = "write" => lock' = p /\ pr'[p].snap = cfg
            => LockInv'
         /\ Decided(pr'[p]) => DecidedInv'
         /\ (Ports(p)' => Ports(p) /\ pr'[p].missed = pr[p].missed) => OneInv'
         /\ (port' = port \/ port' # "other") /\ Forward(pr'[p], port') => ForwardInv'
         /\ cache' = cache /\ Checked(pr'[p]) /\ ~Putting(pr'[p]) => ChartInv'
<1>1. \A q \in Procs : q # p => pr'[q] = pr[q]
  BY DEF Moves
<1>2. CommandOf(pr'[p]) => CommandInv'
  BY <1>1 DEF IInv, CommandInv
<1>3. ASSUME cfg' = cfg, lock' = lock \/ lock = p,
             pr'[p].at = "write" => lock' = p /\ pr'[p].snap = cfg
      PROVE  LockInv'
  BY <1>1, <1>3 DEF IInv, LockInv
<1>4. Decided(pr'[p]) => DecidedInv'
  BY <1>1 DEF IInv, DecidedInv
<1>5. (Ports(p)' => Ports(p) /\ pr'[p].missed = pr[p].missed) => OneInv'
  BY <1>1 DEF IInv, OneInv, Ports, Alive
<1>6. ASSUME port' = port \/ port' # "other", Forward(pr'[p], port')
      PROVE  ForwardInv'
  <2>1. \A q \in Procs : Forward(pr[q], port) => Forward(pr[q], port')
    BY <1>6 DEF Forward
  <2> QED BY <1>1, <1>6, <2>1 DEF IInv, ForwardInv
<1>7. ASSUME cache' = cache, Checked(pr'[p]), ~Putting(pr'[p])
      PROVE  ChartInv'
  BY <1>1, <1>7 DEF IInv, ChartInv, Beside
<1> QED BY <1>2, <1>3, <1>4, <1>5, <1>6, <1>7

\* The steps that write no config.
LEMMA OneWorks ==
  ASSUME IInv, NEW p \in Procs, Moves(p),
         pr[p].at \notin Ended \union {"stop others"}, Same(pr'[p], pr[p]),
         cfg' = cfg, secret' = secret, mine' = mine,
         lock' = lock \/ (lock = p /\ lock' = "none"),
         pr'[p].at # "write", CommandOf(pr'[p]), Decided(pr'[p]),
         port' \in {"free", "kates", port}, Forward(pr'[p], port'),
         cache' \in CacheType,
         ChartInv' \/ (cache' = cache /\ Checked(pr'[p]) /\ ~Putting(pr'[p]))
  PROVE  IInv'
<1>1. TypeInv'
  BY DEF IInv, TypeInv, Moves
<1>2. MineInv'
  BY DEF IInv, MineInv
<1>3. Ports(p)' => Ports(p) /\ pr'[p].missed = pr[p].missed
  BY DEF Ports, Alive, Same
<1>4. CommandInv' /\ LockInv' /\ DecidedInv' /\ OneInv' /\ ForwardInv' /\ ChartInv'
  BY <1>3, OneMoves
<1> QED BY <1>1, <1>2, <1>4 DEF IInv

\* What is known of a process that takes a step.
LEMMA Known ==
  ASSUME IInv, NEW p \in Procs
  PROVE  /\ TypeInv /\ pr[p] \in Records /\ cache \in CacheType
         /\ CommandOf(pr[p]) /\ Decided(pr[p]) /\ Forward(pr[p], port)
         /\ Checked(pr[p]) /\ cache.marker \in Signed \union {"none"}
BY DEF IInv, TypeInv, CommandInv, DecidedInv, ForwardInv, ChartInv

-----------------------------------------------------------------------------
(* The forward of the local port *)

LEMMA StopForwardsStep ==
  ASSUME IInv, NEW p \in Procs, stopOwnPortForwards(p)
  PROVE  IInv'
<1>1. /\ pr[p].at = "stop forwards" /\ To(p, "taken") /\ "taken" \in Steps
      /\ port' \in {port, "free"} /\ UNCHANGED <<cfg, lock, secret, mine, cache>>
  BY DEF stopOwnPortForwards, At, Steps
<1>2. /\ Moves(p) /\ pr'[p].at = "taken" /\ Keeps(pr'[p], pr[p])
  BY <1>1, Known, ToMoves
<1>3. CommandOf(pr'[p]) /\ Decided(pr'[p]) /\ Forward(pr'[p], port') /\ Checked(pr'[p]) /\ ~Putting(pr'[p])
  BY <1>1, <1>2, Known DEF CommandOf, Decided, Forward, Checked, Putting, Keeps, Same
<1> QED BY <1>1, <1>2, <1>3, Known, OneWorks DEF Ended, Keeps

LEMMA TakenStep ==
  ASSUME IInv, NEW p \in Procs, takenLocalPorts(p)
  PROVE  IInv'
<1>1. pr[p].at = "taken" /\ UNCHANGED <<cfg, lock, secret, mine, port, cache>>
  BY DEF takenLocalPorts, At
<1>2. CASE To(p, "ok")
  <2>1. /\ Moves(p) /\ pr'[p].at = "ok" /\ Keeps(pr'[p], pr[p])
    BY <1>2, Known, ToMoves DEF Steps, Ended
  <2>2. CommandOf(pr'[p]) /\ Decided(pr'[p]) /\ Forward(pr'[p], port') /\ Checked(pr'[p]) /\ ~Putting(pr'[p])
    BY <1>1, <2>1, Known DEF CommandOf, Decided, Forward, Checked, Putting, Keeps, Same
  <2> QED BY <1>1, <2>1, <2>2, Known, OneWorks DEF Ended, Keeps
<1>3. CASE Set(p, [pr[p] EXCEPT !.at = "start forward", !.taken = (port # "free")])
  <2>a. PICK b \in BOOLEAN :
          /\ b = (port # "free")
          /\ Set(p, [pr[p] EXCEPT !.at = "start forward", !.taken = b])
    BY <1>3
  <2> DEFINE r == [pr[p] EXCEPT !.at = "start forward", !.taken = b]
  <2>b. pr[p] \in Records /\ r \in Records
    BY Known, StepNames, EditTypes
  <2>1. /\ r \in Records /\ r.at = "start forward" /\ Keeps(r, pr[p]) /\ (~r.taken => port = "free")
    BY <2>a, <2>b DEF Keeps, Same, Records
  <2> HIDE DEF r
  <2>2. Moves(p) /\ pr'[p] = r
    BY <2>a, <2>1, Known, SetMoves DEF r
  <2>3. CommandOf(r) /\ Decided(r) /\ Forward(r, port') /\ Checked(r) /\ ~Putting(r)
    BY <1>1, <2>1, Known DEF CommandOf, Decided, Forward, Checked, Putting, Keeps, Same
  <2> QED BY <1>1, <2>1, <2>2, <2>3, Known, OneWorks DEF Ended, Keeps
<1> QED BY <1>2, <1>3 DEF takenLocalPorts

LEMMA VerifyForwardsStep ==
  ASSUME IInv, NEW p \in Procs, verifyPortForwards(p)
  PROVE  IInv'
<1>1. /\ pr[p].at = "start forward" /\ UNCHANGED <<cfg, lock, secret, mine, cache>>
      /\ port' \in {"free", "kates", port}
      /\ pr[p].taken \/ port # "free" => port' = port
  BY DEF verifyPortForwards, At
<1>2. CASE To(p, "failed")
  <2>1. /\ Moves(p) /\ pr'[p].at = "failed" /\ Keeps(pr'[p], pr[p])
    BY <1>2, Known, ToMoves DEF Steps, Ended
  <2>2. CommandOf(pr'[p]) /\ Decided(pr'[p]) /\ Forward(pr'[p], port') /\ Checked(pr'[p]) /\ ~Putting(pr'[p])
    BY <1>1, <2>1, Known DEF CommandOf, Decided, Forward, Checked, Putting, Keeps, Same
  <2> QED BY <1>1, <2>1, <2>2, Known, OneWorks DEF Ended, Keeps
<1>3. CASE /\ ~pr[p].taken /\ port' # "free"
           /\ Set(p, [pr[p] EXCEPT !.answered = port', !.at = "before"])
  <2>1. PICK a \in {"nobody", "kates", "other"} :
          a = port' /\ Set(p, [pr[p] EXCEPT !.answered = a, !.at = "before"])
    BY <1>1, <1>3 DEF IInv, TypeInv
  <2> DEFINE r == [pr[p] EXCEPT !.answered = a, !.at = "before"]
  <2>a. pr[p] \in Records /\ r \in Records
    BY Known, StepNames, EditTypes
  <2>2. /\ r \in Records /\ r.at = "before" /\ r.cmd = pr[p].cmd /\ r.missed = pr[p].missed
        /\ r.raced = pr[p].raced /\ r.answered = port'
    BY <2>1, <2>a DEF Records
  <2> HIDE DEF r
  <2>3. Moves(p) /\ pr'[p] = r
    BY <2>1, <2>2, Known, SetMoves DEF r
  <2>4. port' = "other" => r.raced
    BY <1>1, <1>3, <2>2, Known DEF Forward
  <2>5. /\ CommandOf(r) /\ Decided(r) /\ Forward(r, port') /\ Checked(r) /\ ~Putting(r)
        /\ Same(r, pr[p])
    BY <1>1, <2>2, <2>4, Known DEF CommandOf, Decided, Forward, Checked, Putting, Same
  <2> QED BY <1>1, <2>2, <2>3, <2>5, Known, OneWorks DEF Ended
<1> QED BY <1>2, <1>3 DEF verifyPortForwards

\* What a kates ports that gets past it finds: no other one that it did not overlook.
LEMMA StopOthersStep ==
  ASSUME IInv, NEW p \in Procs, stopOtherPortsCommands(p)
  PROVE  IInv'
<1>1. PICK missed \in SUBSET {q \in Procs \ {p} : Ports(q)} :
        LET others == {q \in Procs \ {p} : Ports(q)} \ missed IN
        /\ pr' = [q \in Procs |-> IF q \in others THEN [Idle EXCEPT !.cmd = "ports", !.at = "killed"]
                                  ELSE IF q = p THEN [pr[p] EXCEPT !.at = "stop forwards", !.missed = (missed # {})]
                                  ELSE pr[q]]
        /\ lock' = IF lock \in others THEN "none" ELSE lock
  BY DEF stopOtherPortsCommands
<1> DEFINE others == {q \in Procs \ {p} : Ports(q)} \ missed
           killed == [Idle EXCEPT !.cmd = "ports", !.at = "killed"]
           some == missed # {}
           r == [pr[p] EXCEPT !.at = "stop forwards", !.missed = some]
<1>2. pr[p].at = "stop others" /\ UNCHANGED <<cfg, secret, mine, port, cache>>
  BY DEF stopOtherPortsCommands, At
<1>3. /\ killed \in Records /\ killed.at = "killed" /\ killed.cmd = "ports"
      /\ killed.answered = "nobody"
  BY IdleType DEF Records, Steps, Ended, Commands, Forwarding, Syncing, Idle
<1>4. /\ r \in Records /\ r.at = "stop forwards" /\ r.cmd = pr[p].cmd /\ r.cmd \in Forwarding
      /\ r.answered = pr[p].answered /\ r.raced = pr[p].raced /\ r.missed = (missed # {})
  <2>1. PICK b \in BOOLEAN : b = some
    OBVIOUS
  <2>2. pr[p] \in Records /\ pr[p].cmd \in Forwarding
    BY <1>2, Known DEF CommandOf
  <2> DEFINE t == [pr[p] EXCEPT !.at = "stop forwards", !.missed = b]
  <2>3. t \in Records
    BY <2>2, StepNames, EditTypes
  <2>4. /\ t.at = "stop forwards" /\ t.cmd = pr[p].cmd
        /\ t.answered = pr[p].answered /\ t.raced = pr[p].raced /\ t.missed = b
    BY <2>2 DEF Records
  <2>5. r = t
    BY <2>1
  <2> QED BY <2>1, <2>2, <2>3, <2>4, <2>5
<1>5. pr' = [q \in Procs |-> IF q \in others THEN killed ELSE IF q = p THEN r ELSE pr[q]]
  BY <1>1
<1>6. lock' = IF lock \in others THEN "none" ELSE lock
  BY <1>1
<1>7. /\ others \subseteq Procs /\ p \notin others
      /\ \A q \in Procs \ {p} : q \notin others /\ Ports(q) => q \in missed
  OBVIOUS
<1> HIDE DEF killed, r, others, some
<1>8. /\ pr' \in [Procs -> Records]
      /\ \A q \in others : pr'[q] = killed
      /\ pr'[p] = r
      /\ \A q \in Procs \ {p} : q \notin others => pr'[q] = pr[q]
  BY <1>3, <1>4, <1>5, <1>7 DEF IInv, TypeInv
<1>9. TypeInv'
  BY <1>2, <1>6, <1>8 DEF IInv, TypeInv
<1>10. CommandInv' /\ DecidedInv' /\ ForwardInv' /\ ChartInv'
  <2>1. /\ CommandOf(killed) /\ Decided(killed) /\ Forward(killed, port) /\ Checked(killed)
        /\ ~Putting(killed)
    BY <1>3 DEF CommandOf, Decided, Forward, Checked, Putting
  <2>2. CommandOf(r) /\ Decided(r) /\ Forward(r, port) /\ Checked(r) /\ ~Putting(r)
    BY <1>4, Known DEF CommandOf, Decided, Forward, Checked, Putting
  <2>3. \A q \in Procs : pr'[q] \in {killed, r, pr[q]}
    BY <1>8
  <2>4. CommandInv' /\ DecidedInv' /\ ForwardInv'
    BY <1>2, <2>1, <2>2, <2>3 DEF IInv, CommandInv, DecidedInv, ForwardInv
  <2>5. \A q \in Procs : Checked(pr'[q]) /\ (Putting(pr'[q]) => pr'[q] = pr[q])
    BY <2>1, <2>2, <2>3 DEF IInv, ChartInv
  <2>6. ChartInv'
    BY <1>2, <2>5 DEF IInv, ChartInv, Beside
  <2> QED BY <2>4, <2>6
<1>11. LockInv'
  BY <1>2, <1>3, <1>4, <1>6, <1>8 DEF IInv, LockInv
<1>12. OneInv'
  <2> SUFFICES ASSUME NEW a \in Procs, NEW b \in Procs, Ports(a)', Ports(b)',
                      ~pr'[a].missed, ~pr'[b].missed
               PROVE  a = b
    BY DEF OneInv
  <2>1. a \notin others /\ b \notin others
    BY <1>3, <1>8 DEF Ports, Alive, Ended
  <2>2. \A q \in Procs \ {p} : q \notin others /\ Ports(q)' => q \in missed
    BY <1>7, <1>8 DEF Ports, Alive
  <2>3. CASE a = p \/ b = p
    BY <1>4, <1>8, <2>1, <2>2, <2>3
  <2>4. CASE a # p /\ b # p
    <3>1. pr'[a] = pr[a] /\ pr'[b] = pr[b]
      BY <1>8, <2>1, <2>4
    <3> QED BY <3>1 DEF IInv, OneInv, Ports, Alive
  <2> QED BY <2>3, <2>4
<1>13. MineInv'
  BY <1>2 DEF IInv, MineInv
<1> QED BY <1>9, <1>10, <1>11, <1>12, <1>13 DEF IInv

-----------------------------------------------------------------------------
(* The forward that a watch repairs, the chart cache, and kills *)

\* A process goes on, or ends, and changes at most the port.
LEMMA GoesOn ==
  ASSUME IInv, NEW p \in Procs, NEW at \in Steps, To(p, at),
         pr[p].at \notin Ended \union {"stop others"},
         at \in Ended \union {"repair start", "check"},
         cfg' = cfg, secret' = secret, mine' = mine,
         lock' = lock \/ (lock = p /\ lock' = "none"),
         port' \in {"free", "kates", port}, cache' = cache
  PROVE  IInv'
<1>1. Moves(p) /\ pr'[p].at = at /\ Keeps(pr'[p], pr[p])
  BY Known, ToMoves
<1>2. /\ CommandOf(pr'[p]) /\ Decided(pr'[p]) /\ Forward(pr'[p], port')
      /\ Checked(pr'[p]) /\ ~Putting(pr'[p])
  BY <1>1, Known DEF CommandOf, Decided, Forward, Checked, Putting, Keeps, Same, Ended
<1> QED BY <1>1, <1>2, Known, OneWorks DEF Ended, Keeps

LEMMA RepairStep ==
  ASSUME IInv, NEW p \in Procs, repairLocalAPIPortForward(p)
  PROVE  IInv'
<1>1. /\ \E at \in {"ok", "repair start"} : To(p, at)
      /\ pr[p].at \in {"repair", "repair start"}
      /\ port' \in {"free", "kates", port}
      /\ UNCHANGED <<cfg, lock, secret, mine, cache>>
  BY DEF repairLocalAPIPortForward, At
<1> QED BY <1>1, Known, GoesOn DEF Steps, Ended

LEMMA PullStep ==
  ASSUME IInv, NEW p \in Procs, pullPublishedChart(p)
  PROVE  IInv'
<1>1. pr[p].at = "look" /\ UNCHANGED <<cfg, lock, secret, mine, port, cache>>
  BY DEF pullPublishedChart, At
<1>2. CASE \E at \in {"check", "failed"} : To(p, at)
  BY <1>1, <1>2, Known, GoesOn DEF Steps, Ended
<1>3. CASE Set(p, [pr[p] EXCEPT !.cached = (cache.chart # "none"),
                                !.digest = cache.serves, !.at = "verify chart"])
  <2>b. PICK cached \in BOOLEAN, d \in Digests :
          Set(p, [pr[p] EXCEPT !.cached = cached, !.digest = d, !.at = "verify chart"])
    <3>1. cache.serves \in Digests /\ (cache.chart # "none") \in BOOLEAN
      BY Known DEF CacheType
    <3> QED BY <1>3, <3>1
  <2> DEFINE r == [pr[p] EXCEPT !.cached = cached, !.digest = d, !.at = "verify chart"]
  <2>c. pr[p] \in Records /\ r \in Records
    BY Known, StepNames, EditTypes
  <2>1. /\ r \in Records /\ r.at = "verify chart" /\ Keeps(r, pr[p])
    BY <2>c DEF Keeps, Same, Records
  <2>a. r.digest # "none"
    BY <2>c, LocalAssumption DEF Records
  <2> HIDE DEF r
  <2>2. Moves(p) /\ pr'[p] = r
    BY <2>b, <2>1, Known, SetMoves DEF r
  <2>3. CommandOf(r) /\ Decided(r) /\ Forward(r, port') /\ Checked(r) /\ ~Putting(r)
    BY <1>1, <2>1, <2>a, Known DEF CommandOf, Decided, Forward, Checked, Putting, Keeps, Same
  <2> QED BY <1>1, <2>1, <2>2, <2>3, Known, OneWorks DEF Ended, Keeps
<1> QED BY <1>2, <1>3 DEF pullPublishedChart

\* A digest the marker names was checked before.
LEMMA VerifyChartStep ==
  ASSUME IInv, NEW p \in Procs, verifyChart(p)
  PROVE  IInv'
<1>1. pr[p].at = "verify chart" /\ UNCHANGED <<cfg, lock, secret, mine, port, cache>>
  BY DEF verifyChart, At
<1>2. CASE \E at \in {"failed", "check"} : To(p, at)
  BY <1>1, <1>2, Known, GoesOn DEF Steps, Ended
<1>3. ASSUME NEW b \in BOOLEAN, NEW v \in BOOLEAN,
             \/ Set(p, [pr[p] EXCEPT !.signed = b, !.at = "unmark"]) /\ v = pr[p].provenance
             \/ Set(p, [pr[p] EXCEPT !.signed = b, !.provenance = v, !.at = "unmark"]),
             b => pr[p].digest \in Signed \/ cache.marker = pr[p].digest
      PROVE  IInv'
  <2> DEFINE r == [pr[p] EXCEPT !.signed = b, !.provenance = v, !.at = "unmark"]
  <2>1. /\ r \in Records /\ r.at = "unmark" /\ Keeps(r, pr[p]) /\ r.digest = pr[p].digest
        /\ r.signed = b
    <3>1. pr[p] \in Records /\ r \in Records
      BY Known, StepNames, EditTypes
    <3> QED BY <3>1 DEF Records, Keeps, Same
  <2>2. Set(p, r)
    <3>1. CASE Set(p, [pr[p] EXCEPT !.signed = b, !.at = "unmark"]) /\ v = pr[p].provenance
      <4>1. [pr[p] EXCEPT !.signed = b, !.at = "unmark"] = r
        BY <3>1, Known DEF Records
      <4> QED BY <3>1, <4>1
    <3> QED BY <1>3, <3>1
  <2> HIDE DEF r
  <2>3. Moves(p) /\ pr'[p] = r
    BY <2>1, <2>2, Known, SetMoves
  <2>4. CommandOf(r) /\ Decided(r) /\ Forward(r, port') /\ ~Putting(r)
    BY <1>1, <2>1, Known DEF CommandOf, Decided, Forward, Putting, Keeps, Same
  <2>5. Checked(r)
    BY <1>1, <1>3, <2>1, Known DEF Checked
  <2> QED BY <1>1, <2>1, <2>3, <2>4, <2>5, Known, OneWorks DEF Ended, Keeps
<1>4. pr[p].provenance \in BOOLEAN /\ pr[p].signed \in BOOLEAN
  BY Known DEF Records
<1>5. ASSUME verifyProvenance(p), pr[p].digest \in Signed \/ cache.marker = pr[p].digest
      PROVE  IInv'
  BY <1>2, <1>3, <1>4, <1>5 DEF verifyProvenance
<1> QED BY <1>2, <1>3, <1>4, <1>5 DEF verifyChart

\* A pull that puts its chart in, where the others do too.
LEMMA FetchStep ==
  ASSUME IInv, NEW p \in Procs, fetchPublishedChart(p)
  PROVE  IInv'
<1>1. UNCHANGED <<cfg, lock, secret, mine, port>>
  BY DEF fetchPublishedChart
<1>2. /\ pr[p].digest \in Digests \union {"none"} /\ pr[p].signed \in BOOLEAN
      /\ pr[p].provenance \in BOOLEAN
  BY Known DEF Records
<1>3. \A q \in PuttingIn(p) : q \in Procs /\ q # p /\ Putting(pr[q])
  BY DEF PuttingIn, Putting
<1>4. \A q \in Procs \ {p} : Putting(pr[q]) => q \in PuttingIn(p)
  BY DEF PuttingIn, Putting
\* What each step has to see to.
<1>5. ASSUME NEW at \in {"aside", "swap", "mark", "check"}, To(p, at),
             pr[p].at \in {"unmark", "aside", "swap", "mark"}, cache' \in CacheType,
             cache'.marker \in Signed \union {"none"},
             at = "mark" => pr[p].signed,
             ~cache'.crossed =>
               /\ cache'.marker # "none" /\ cache'.chart # "none" => cache'.chart \in Signed
               /\ \A q \in Procs \ {p} : Beside(pr[q], cache')
               /\ at # "check" => /\ ~pr[p].signed => cache'.marker = "none"
                                  /\ pr[p].signed /\ at # "aside" => cache'.chart \in Signed \union {"none"}
               /\ at # "check" => \A q \in PuttingIn(p) : pr[q].signed = pr[p].signed
               /\ \A q, w \in PuttingIn(p) : pr[q].signed = pr[w].signed
      PROVE  IInv'
  <2>1. /\ Moves(p) /\ pr'[p].at = at /\ Keeps(pr'[p], pr[p])
        /\ pr'[p].digest = pr[p].digest /\ pr'[p].signed = pr[p].signed
    BY <1>5, Known, ToMoves DEF Steps, Ended
  <2>2. \A q \in Procs \ {p} : pr'[q] = pr[q]
    BY <2>1 DEF Moves
  <2>3. CommandOf(pr'[p]) /\ Decided(pr'[p]) /\ Forward(pr'[p], port') /\ Checked(pr'[p])
    BY <1>1, <1>5, <2>1, Known DEF CommandOf, Decided, Forward, Checked, Keeps, Same
  <2>4. \A q \in Procs : Checked(pr'[q])
    BY <2>2, <2>3 DEF IInv, ChartInv
  <2>5. ASSUME ~cache'.crossed
        PROVE  /\ \A q \in Procs : Beside(pr'[q], cache')
               /\ \A q, w \in Procs : Putting(pr'[q]) /\ Putting(pr'[w]) => pr'[q].signed = pr'[w].signed
    <3>1. Beside(pr'[p], cache') /\ (Putting(pr'[p]) => at # "check")
      BY <1>5, <2>1, <2>5 DEF Beside, Putting
    <3>2. \A q \in Procs \ {p} : Beside(pr'[q], cache')
      BY <1>5, <2>2, <2>5
    <3>3. \A q \in Procs \ {p} : Putting(pr'[q]) => q \in PuttingIn(p) /\ pr'[q] = pr[q]
      BY <1>4, <2>2
    <3>4. ASSUME NEW q \in Procs, NEW w \in Procs, Putting(pr'[q]), Putting(pr'[w])
          PROVE  pr'[q].signed = pr'[w].signed
      <4>1. CASE q # p /\ w # p
        BY <1>5, <2>5, <3>3, <3>4, <4>1
      <4>2. CASE q = p \/ w = p
        BY <1>5, <2>1, <2>5, <3>1, <3>3, <3>4, <4>2
      <4> QED BY <4>1, <4>2
    <3> QED BY <3>1, <3>2, <3>4
  <2>6. ChartInv'
    BY <1>5, <2>4, <2>5 DEF ChartInv
  <2> QED BY <1>1, <1>5, <2>1, <2>3, <2>6, Known, OneWorks DEF Ended, Keeps
\* What the others keep while the marker and the chart are theirs.
<1>6. ~cache.crossed =>
        /\ cache.marker # "none" /\ cache.chart # "none" => cache.chart \in Signed
        /\ \A q \in Procs : Beside(pr[q], cache)
        /\ \A q, w \in PuttingIn(p) : pr[q].signed = pr[w].signed
        /\ Putting(pr[p]) => \A q \in PuttingIn(p) : pr[q].signed = pr[p].signed
  BY <1>3 DEF IInv, ChartInv
<1>7. CASE /\ pr[p].at = "unmark" /\ To(p, "aside")
           /\ cache' = [unmarked(p) EXCEPT !.crossed = Crosses(p) \/ (@ /\ (pr[p].signed \/ PuttingIn(p) # {}))]
  <2>1. /\ cache' \in CacheType /\ cache'.chart = cache.chart
        /\ cache'.marker = IF pr[p].signed THEN cache.marker ELSE "none"
        /\ ~cache'.crossed => /\ ~Crosses(p)
                              /\ ~cache.crossed \/ (~pr[p].signed /\ PuttingIn(p) = {})
    BY <1>2, <1>7, Known DEF CacheType, unmarked, Crosses
  <2>2. ~cache'.crossed => \A q \in PuttingIn(p) : pr[q].signed = pr[p].signed
    BY <2>1 DEF Crosses
  <2>3. ASSUME ~cache'.crossed, NEW q \in Procs \ {p} PROVE Beside(pr[q], cache')
    BY <1>4, <1>6, <2>1, <2>2, <2>3 DEF Beside
  <2> QED BY <1>2, <1>5, <1>6, <1>7, <2>1, <2>2, <2>3, Known
<1>8. CASE /\ pr[p].at = "aside" /\ To(p, "swap")
           /\ cache' = [cache EXCEPT !.chart = "none", !.crossed = @ /\ (~pr[p].signed \/ PuttingIn(p) # {})]
  <2>1. /\ cache' \in CacheType /\ cache'.chart = "none" /\ cache'.marker = cache.marker
        /\ ~cache'.crossed => ~cache.crossed \/ (pr[p].signed /\ PuttingIn(p) = {})
    BY <1>2, <1>8, Known DEF CacheType
  <2>2. Putting(pr[p])
    BY <1>8 DEF Putting
  <2>3. ASSUME ~cache'.crossed, NEW q \in Procs \ {p} PROVE Beside(pr[q], cache')
    BY <1>4, <1>6, <2>1, <2>3 DEF Beside
  <2>4. ~cache'.crossed /\ ~pr[p].signed => cache'.marker = "none"
    BY <1>6, <2>1, <2>2 DEF Beside
  <2> QED BY <1>2, <1>5, <1>6, <1>8, <2>1, <2>2, <2>3, <2>4, Known
<1>9. CASE /\ pr[p].at = "swap" /\ cache.chart = "none"
           /\ cache' = [cache EXCEPT !.chart = pr[p].digest]
           /\ To(p, IF pr[p].signed THEN "mark" ELSE "check")
  <2>1. /\ cache' \in CacheType /\ cache'.chart = pr[p].digest /\ cache'.marker = cache.marker
        /\ cache'.crossed = cache.crossed
    BY <1>2, <1>9, Known DEF CacheType
  <2>2. Putting(pr[p]) /\ (pr[p].signed => pr[p].digest \in Signed)
    BY <1>9, Known DEF Putting, Checked
  <2>3. ~cache.crossed /\ ~pr[p].signed => cache.marker = "none"
    BY <1>6, <2>2 DEF Beside
  <2>4. ASSUME ~cache'.crossed, NEW q \in Procs \ {p} PROVE Beside(pr[q], cache')
    BY <1>4, <1>6, <2>1, <2>2, <2>4 DEF Beside
  <2> QED BY <1>2, <1>5, <1>6, <1>9, <2>1, <2>2, <2>3, <2>4, Known
<1>10. CASE pr[p].at = "swap" /\ UNCHANGED cache /\ To(p, "check")
  BY <1>2, <1>5, <1>6, <1>10, Known
<1>11. CASE /\ pr[p].at = "mark" /\ To(p, "check")
            /\ cache' = [cache EXCEPT !.marker = pr[p].digest, !.attested = pr[p].provenance]
  <2>1. /\ cache' \in CacheType /\ cache'.chart = cache.chart /\ cache'.marker = pr[p].digest
        /\ cache'.crossed = cache.crossed
    BY <1>2, <1>11, Known DEF CacheType
  <2>2. Putting(pr[p]) /\ pr[p].signed /\ pr[p].digest \in Signed
    BY <1>11, Known DEF Putting, Checked
  <2>3. ~cache.crossed => cache.chart \in Signed \union {"none"}
    BY <1>6, <1>11, <2>2 DEF Beside
  <2>4. ASSUME ~cache'.crossed, NEW q \in Procs \ {p} PROVE Beside(pr[q], cache')
    BY <1>4, <1>6, <2>1, <2>2, <2>4 DEF Beside
  <2> QED BY <1>2, <1>5, <1>6, <1>11, <2>1, <2>2, <2>3, <2>4, Known
<1> QED BY <1>7, <1>8, <1>9, <1>10, <1>11 DEF fetchPublishedChart, At

LEMMA CheckStep ==
  ASSUME IInv, NEW p \in Procs, checkChartSignatures(p)
  PROVE  IInv'
<1>1. /\ pr[p].at = "check" /\ \E at \in {"failed", "ok"} : To(p, at)
      /\ UNCHANGED <<cfg, lock, secret, mine, port, cache>>
  BY DEF checkChartSignatures, At
<1> QED BY <1>1, Known, GoesOn DEF Steps, Ended

LEMMA KilledStep ==
  ASSUME IInv, NEW p \in Procs, Killed(p)
  PROVE  IInv'
<1>1. /\ pr[p].at \notin Ended /\ To(p, "killed")
      /\ lock' = lock \/ (lock = p /\ lock' = "none")
      /\ UNCHANGED <<cfg, secret, mine, port, cache>>
  BY DEF Killed, Alive
<1>2. CASE pr[p].at # "stop others"
  BY <1>1, <1>2, Known, GoesOn DEF Steps, Ended
<1>3. CASE pr[p].at = "stop others"
  <2>1. /\ Moves(p) /\ pr'[p].at = "killed" /\ Keeps(pr'[p], pr[p])
    BY <1>1, Known, ToMoves DEF Steps, Ended
  <2>2. CommandOf(pr'[p]) /\ Decided(pr'[p]) /\ Forward(pr'[p], port') /\ Checked(pr'[p]) /\ ~Putting(pr'[p])
    BY <1>1, <2>1, Known DEF CommandOf, Decided, Forward, Checked, Putting, Keeps, Same
  <2>3. ~Ports(p)'
    BY <2>1 DEF Ports, Alive, Ended
  <2>4. CommandInv' /\ LockInv' /\ DecidedInv' /\ OneInv' /\ ForwardInv' /\ ChartInv'
    BY <1>1, <2>1, <2>2, <2>3, Known, OneMoves
  <2>5. TypeInv' /\ MineInv'
    BY <1>1, <2>1 DEF IInv, TypeInv, MineInv, Moves
  <2> QED BY <2>4, <2>5 DEF IInv
<1> QED BY <1>2, <1>3

\* Another program takes the port.
LEMMA RacedMoves ==
  ASSUME IInv, NEW q \in Procs,
         pr' = [p \in Procs |-> [pr[p] EXCEPT !.raced = @ \/ At(p, "start forward")]]
  PROVE  /\ pr'[q] \in Records
         /\ pr'[q].raced = (pr[q].raced \/ pr[q].at = "start forward")
         /\ pr'[q].cmd = pr[q].cmd /\ pr'[q].at = pr[q].at /\ pr'[q].ctx = pr[q].ctx
         /\ pr'[q].before = pr[q].before /\ pr'[q].want = pr[q].want /\ pr'[q].snap = pr[q].snap
         /\ pr'[q].key = pr[q].key /\ pr'[q].url = pr[q].url /\ pr'[q].digest = pr[q].digest
         /\ pr'[q].signed = pr[q].signed /\ pr'[q].missed = pr[q].missed
         /\ pr'[q].answered = pr[q].answered /\ pr'[q].taken = pr[q].taken
<1>1. pr[q] \in Records
  BY Known
<1>2. PICK b \in BOOLEAN : b = (pr[q].raced \/ pr[q].at = "start forward")
  OBVIOUS
<1>3. pr'[q] = [pr[q] EXCEPT !.raced = b]
  BY <1>2 DEF At
<1>4. pr[q].at \in Steps
  BY <1>1 DEF Records
<1>5. [pr[q] EXCEPT !.raced = b] \in Records
  BY <1>1, <1>4, EditTypes
<1> HIDE DEF At
<1> QED BY <1>1, <1>2, <1>3, <1>5 DEF Records

LEMMA WorldStep == IInv /\ World => IInv'
<1> SUFFICES ASSUME IInv, World PROVE IInv'
  OBVIOUS
<1>1. CASE UNCHANGED pr
  <2>1. /\ UNCHANGED <<cfg, lock, mine, pr>>
        /\ secret' \in {secret, "s2"} /\ port' \in {port, "free", "other"}
        /\ port' = port \/ port' = "free" \/ port = "free"
        /\ cache' = cache \/ \E d \in Digests : cache' = [cache EXCEPT !.serves = d]
    BY <1>1 DEF World
  <2>2. /\ cache' \in CacheType /\ cache'.chart = cache.chart /\ cache'.marker = cache.marker
        /\ cache'.crossed = cache.crossed
    BY <2>1, Known DEF CacheType, IInv, TypeInv
  <2>a. TypeInv'
    BY <2>1, <2>2 DEF IInv, TypeInv
  <2>3. CommandInv' /\ LockInv' /\ MineInv' /\ DecidedInv' /\ OneInv' /\ ChartInv'
    BY <2>1, <2>2 DEF IInv, CommandInv, LockInv, MineInv, DecidedInv, OneInv, Ports, Alive, ChartInv, Beside
  <2>4. ForwardInv'
    <3>1. CASE port' # "other" \/ port' = port
      BY <2>1, <3>1 DEF IInv, ForwardInv, Forward
    <3>2. CASE port' = "other" /\ port' # port
      <4>1. pr' = [q \in Procs |-> [pr[q] EXCEPT !.raced = @ \/ At(q, "start forward")]]
        BY <3>2 DEF World
      <4>2. \A q \in Procs : At(q, "start forward") => pr'[q].raced
        BY <4>1, RacedMoves DEF At
      <4> QED BY <2>1, <4>2 DEF IInv, ForwardInv, Forward, At
    <3> QED BY <3>1, <3>2
  <2> QED BY <2>a, <2>3, <2>4 DEF IInv
<1>2. CASE /\ port' = "other" /\ UNCHANGED <<cfg, lock, secret, mine, cache>>
           /\ pr' = [p \in Procs |-> [pr[p] EXCEPT !.raced = @ \/ At(p, "start forward")]]
  <2>1. \A p \in Procs :
          /\ pr'[p] \in Records
          /\ pr'[p].raced = (pr[p].raced \/ pr[p].at = "start forward")
          /\ pr'[p].cmd = pr[p].cmd /\ pr'[p].at = pr[p].at /\ pr'[p].ctx = pr[p].ctx
          /\ pr'[p].before = pr[p].before /\ pr'[p].want = pr[p].want /\ pr'[p].snap = pr[p].snap
          /\ pr'[p].key = pr[p].key /\ pr'[p].url = pr[p].url /\ pr'[p].digest = pr[p].digest
          /\ pr'[p].signed = pr[p].signed /\ pr'[p].missed = pr[p].missed
          /\ pr'[p].answered = pr[p].answered /\ pr'[p].taken = pr[p].taken
    BY <1>2, RacedMoves
  <2>2. TypeInv'
    BY <1>2, <2>1 DEF IInv, TypeInv
  <2>3. CommandInv'
    <3>1. \A p \in Procs : CommandOf(pr[p]) => CommandOf(pr'[p])
      BY <2>1 DEF CommandOf
    <3> QED BY <3>1 DEF IInv, CommandInv
  <2>7. LockInv' /\ MineInv'
    BY <1>2, <2>1 DEF IInv, LockInv, MineInv
  <2>4. DecidedInv'
    BY <2>1 DEF IInv, DecidedInv, Decided
  <2>5. OneInv'
    <3>1. \A p \in Procs : (Ports(p)' <=> Ports(p)) /\ pr'[p].missed = pr[p].missed
      BY <2>1 DEF Ports, Alive
    <3> QED BY <3>1 DEF IInv, OneInv
  <2>8. ForwardInv'
    <3>1. \A p \in Procs : Forward(pr[p], port) => Forward(pr'[p], port')
      BY <2>1 DEF Forward
    <3> QED BY <3>1 DEF IInv, ForwardInv
  <2>6. ChartInv'
    <3>1. \A p \in Procs : /\ Checked(pr'[p]) <=> Checked(pr[p])
                           /\ Putting(pr'[p]) <=> Putting(pr[p])
                           /\ Beside(pr'[p], cache) <=> Beside(pr[p], cache)
                           /\ pr'[p].signed = pr[p].signed
      BY <2>1 DEF Checked, Putting, Beside
    <3> QED BY <1>2, <3>1 DEF IInv, ChartInv
  <2> QED BY <2>2, <2>3, <2>4, <2>5, <2>6, <2>7, <2>8 DEF IInv
<1> QED BY <1>1, <1>2 DEF World

-----------------------------------------------------------------------------
(* Saving *)

\* What kates ports and kates deploy decide before they take the lock.
LEMMA SyncStep ==
  ASSUME IInv, NEW p \in Procs, syncPortsContext(p)
  PROVE  IInv'
<1> DEFINE before == cfg.ctxs["ports"]
<1>1. pr[p].at = "before" /\ UNCHANGED <<cfg, lock, secret, mine, port, cache>>
  BY DEF syncPortsContext, At
<1>2. before \in Ctxs /\ secret \in Keys
  BY Strings DEF IInv, TypeInv, Configs, Keys
<1>3. \A k \in Keys : storeSecretKey(before, k) \in Ctxs
  BY <1>2 DEF storeSecretKey, Ctxs
<1>4. PICK want \in Ctxs, key \in {"user", "kept", "secret"} :
        /\ Set(p, [pr[p] EXCEPT !.before = before, !.want = want, !.key = key,
                                !.at = "lock", !.ctx = "ports"])
        /\ ~keyReplaceable(before) => want = before
  <2> HIDE DEF before
  <2>1. CASE ~keyReplaceable(before)
    <3>1. Set(p, [pr[p] EXCEPT !.before = before, !.want = before, !.key = "user",
                               !.at = "lock", !.ctx = "ports"])
      BY <2>1 DEF syncPortsContext, before
    <3> QED BY <1>2, <3>1
  <2>2. CASE keyReplaceable(before)
    <3>1. PICK k \in fetchKatesAPIKey, verdict \in {"unverified", "accepted", "rejected"} :
            Set(p, [pr[p] EXCEPT !.before = before, !.at = "lock", !.ctx = "ports",
                     !.key = IF k = "unread" \/ verdict = "rejected" THEN "kept" ELSE "secret",
                     !.want = IF k = "unread" \/ verdict = "rejected" THEN before
                              ELSE storeSecretKey(before, k)])
      BY <2>2 DEF syncPortsContext, before, checkAPIKey
    <3> DEFINE want == IF k = "unread" \/ verdict = "rejected" THEN before
                       ELSE storeSecretKey(before, k)
               key == IF k = "unread" \/ verdict = "rejected" THEN "kept" ELSE "secret"
    <3>2. k \in Keys \union {"unread"}
      BY <1>2 DEF fetchKatesAPIKey
    <3>3. want \in Ctxs /\ key \in {"user", "kept", "secret"}
      BY <1>2, <1>3, <3>2
    <3>4. Set(p, [pr[p] EXCEPT !.before = before, !.want = want, !.key = key,
                               !.at = "lock", !.ctx = "ports"])
      BY <3>1 DEF Set
    <3> HIDE DEF want, key
    <3> QED BY <2>2, <3>3, <3>4
  <2> QED BY <2>1, <2>2
<1> HIDE DEF before
<1> DEFINE r == [pr[p] EXCEPT !.before = before, !.want = want, !.key = key,
                              !.at = "lock", !.ctx = "ports"]
<1>5. /\ r \in Records /\ r.at = "lock" /\ Keeps(r, pr[p])
      /\ r.ctx = "ports" /\ r.before = before /\ r.want = want
      /\ r.key \in {"user", "kept", "secret"}
  <2>1. pr[p] \in Records /\ r \in Records
    BY <1>2, Known, Strings, StepNames, EditTypes
  <2> QED BY <2>1 DEF Keeps, Same, Records
<1> HIDE DEF r
<1>6. Moves(p) /\ pr'[p] = r
  BY <1>4, <1>5, Known, SetMoves DEF r
<1>7. CommandOf(r) /\ Forward(r, port') /\ Checked(r) /\ ~Putting(r)
  BY <1>1, <1>5, Known DEF CommandOf, Forward, Checked, Putting, Keeps, Same, Syncing
<1>8. Decided(r)
  BY <1>4, <1>5 DEF Decided, sameKey
<1> QED BY <1>1, <1>5, <1>6, <1>7, <1>8, Known, OneWorks DEF Ended, Keeps

\* What a process that found a key sets, in one.
LEMMA FoundType ==
  ASSUME NEW s \in Records, NEW n \in Names, NEW w \in Ctxs, NEW u \in Urls \union {""},
         NEW k \in {"unverified", "accepted", "rejected"}
  PROVE  [s EXCEPT !.ctx = n, !.want = w, !.at = "lock", !.url = u, !.key = k] \in Records
BY DEF Records, Steps

LEMMA ActiveStep ==
  ASSUME IInv, NEW p \in Procs, syncActiveContextKey(p)
  PROVE  IInv'
<1> DEFINE before == cfg.ctxs[cfg.cur]
<1>1. pr[p].at = "secret" /\ UNCHANGED <<cfg, lock, secret, mine, port, cache>>
  BY DEF syncActiveContextKey, At
<1>2. CASE To(p, "ok")
  BY <1>1, <1>2, Known, GoesOn DEF Steps, Ended
<1>3. CASE ~To(p, "ok")
  <2>0. /\ secret \in Keys /\ cfg.ctxs \in [Names -> Ctxs] /\ cfg.cur \in Currents
    BY DEF IInv, TypeInv, Configs, Keys
  <2>1. PICK k \in fetchKatesAPIKey, ask \in BOOLEAN,
             verdict \in {"unverified", "accepted", "rejected"} :
          /\ k # "unread" /\ cfg.cur # ""
          /\ Set(p, [pr[p] EXCEPT !.ctx = cfg.cur, !.want = storeSecretKey(before, k),
                                  !.at = "lock", !.url = IF ask THEN before.url ELSE "",
                                  !.key = verdict])
          /\ verdict = "accepted" => ask /\ k \in Accepts[before.url]
    BY <1>3 DEF syncActiveContextKey, checkAPIKey
  <2> DEFINE want == storeSecretKey(before, k)
             url == IF ask THEN before.url ELSE ""
  <2>2. cfg.cur \in Names /\ before \in Ctxs /\ k \in Keys
    BY <2>0, <2>1 DEF fetchKatesAPIKey, Currents
  <2>3. /\ storeSecretKey(before, k) \in Ctxs /\ storeSecretKey(before, k).key = k
        /\ before.url \in Urls \union {""}
    BY <2>2 DEF storeSecretKey, Ctxs
  <2>a. want \in Ctxs /\ want.key = k /\ url \in Urls \union {""} /\ (ask => url = before.url)
    BY <2>3
  <2> DEFINE cur == cfg.cur
             r == [pr[p] EXCEPT !.ctx = cur, !.want = want, !.at = "lock",
                                !.url = url, !.key = verdict]
  <2>b. cur \in Names
    BY <2>2
  <2> HIDE DEF before, want, url, cur
  <2>c. pr[p] \in Records
    BY Known
  <2>d. r \in Records
    BY <2>a, <2>b, <2>c, FoundType
  <2>4. /\ r \in Records /\ r.at = "lock" /\ Keeps(r, pr[p])
        /\ r.want = want /\ r.key = verdict /\ r.url = url
    BY <2>c, <2>d DEF Keeps, Same, Records
  <2> HIDE DEF r
  <2>5. Moves(p) /\ pr'[p] = r
    BY <2>1, <2>4, Known, SetMoves DEF r, want, url, cur
  <2>6. r.cmd = "deploy" /\ CommandOf(r) /\ Forward(r, port') /\ Checked(r) /\ ~Putting(r)
    BY <1>1, <2>4, Known DEF CommandOf, Forward, Checked, Putting, Keeps, Same, Syncing
  <2>7. Decided(r)
    BY <2>1, <2>a, <2>4, <2>6 DEF Decided, Forwarding
  <2> QED BY <1>1, <2>4, <2>5, <2>6, <2>7, Known, OneWorks DEF Ended, Keeps
<1> QED BY <1>2, <1>3

LEMMA ReadConfigStep ==
  ASSUME IInv, NEW p \in Procs, readConfig(p)
  PROVE  IInv'
<1>1. pr[p].at = "lock" /\ UNCHANGED <<cfg, secret, mine, port, cache>>
  BY DEF readConfig, At
<1>2. CASE To(p, "failed") /\ lock' = lock
  BY <1>1, <1>2, Known, GoesOn DEF Steps, Ended
<1>3. CASE lock = "none" /\ lock' = p /\ Set(p, [pr[p] EXCEPT !.snap = cfg, !.at = "write"])
  <2> DEFINE r == [pr[p] EXCEPT !.snap = cfg, !.at = "write"]
  <2>0. cfg \in Configs
    BY DEF IInv, TypeInv
  <2>1. /\ r \in Records /\ r.at = "write" /\ r.snap = cfg /\ Keeps(r, pr[p])
        /\ r.ctx = pr[p].ctx /\ r.before = pr[p].before
        /\ r.want = pr[p].want /\ r.key = pr[p].key /\ r.url = pr[p].url
    <3>1. pr[p] \in Records /\ r \in Records
      BY <2>0, Known, StepNames, EditTypes
    <3> QED BY <3>1 DEF Keeps, Same, Records
  <2> HIDE DEF r
  <2>2. Moves(p) /\ pr'[p] = r
    BY <1>3, <2>1, Known, SetMoves DEF r
  <2>3. CommandOf(r) /\ Decided(r) /\ Forward(r, port') /\ Checked(r) /\ ~Putting(r)
    BY <1>1, <2>1, Known DEF CommandOf, Decided, Forward, Checked, Putting, Keeps, Same
  <2>4. Ports(p)' => Ports(p) /\ pr'[p].missed = pr[p].missed
    BY <1>1, <2>1, <2>2 DEF Ports, Alive, Ended, Keeps, Same
  <2>5. CommandInv' /\ DecidedInv' /\ OneInv' /\ ForwardInv' /\ ChartInv'
    BY <1>1, <2>2, <2>3, <2>4, Known, OneMoves
  <2>6. LockInv'
    <3>1. \A q \in Procs : pr[q].at # "write"
      BY <1>3, LocalAssumption DEF IInv, LockInv
    <3> QED BY <1>1, <1>3, <2>1, <2>2, <3>1 DEF LockInv, Moves
  <2>7. TypeInv' /\ MineInv'
    BY <1>1, <1>3, <2>2 DEF IInv, TypeInv, MineInv, Moves
  <2> QED BY <2>5, <2>6, <2>7 DEF IInv
<1> QED BY <1>2, <1>3 DEF readConfig, lockConfig
\* What a save may do: it changes the context the command is about, whose key it keeps, drops,
\* or makes the user's; ports and deploy keep one they may not replace.
Lawful(p, old, new) ==
  /\ new \in Configs
  /\ \A c \in Names \ {pr[p].ctx} : new.ctxs[c] = old.ctxs[c]
  /\ pr[p].cmd \in Syncing =>
       \A c \in Names : ~keyReplaceable(old.ctxs[c]) => sameKey(new.ctxs[c], old.ctxs[c])
  /\ pr[p].cmd \in OnContext =>
       \A c \in Names : \/ sameKey(new.ctxs[c], old.ctxs[c])
                        \/ new.ctxs[c].key = NoKey \/ new.ctxs[c].src = NoKey
  /\ pr[p].cmd = "deploy" =>
       \A c \in Names : new.ctxs[c] # old.ctxs[c] => new.ctxs[c].key \in Accepts[new.ctxs[c].url]

\* A config with another context, and another current one.
Edited(old, n, x, cur) == [ctxs |-> [old.ctxs EXCEPT ![n] = x], cur |-> cur]

LEMMA OneContext ==
  ASSUME NEW old \in Configs, NEW n \in Names, NEW x \in Ctxs, NEW cur \in Currents
  PROVE  /\ Edited(old, n, x, cur) \in Configs
         /\ Edited(old, n, x, cur).ctxs[n] = x
         /\ \A c \in Names \ {n} : Edited(old, n, x, cur).ctxs[c] = old.ctxs[c]
BY DEF Configs, Edited

LEMMA ExceptIsEdited ==
  ASSUME NEW old \in Configs, NEW n \in Names
  PROVE  /\ old = Edited(old, n, old.ctxs[n], old.cur)
         /\ \A x : [old EXCEPT !.ctxs[n] = x] = Edited(old, n, x, old.cur)
         /\ \A k : [old EXCEPT !.ctxs[n] = storeSecretKey(@, k)]
                   = Edited(old, n, storeSecretKey(old.ctxs[n], k), old.cur)
         /\ [old EXCEPT !.ctxs[n].url = "local"]
              = Edited(old, n, [old.ctxs[n] EXCEPT !.url = "local"], old.cur)
         /\ \A cur : [old EXCEPT !.cur = cur] = Edited(old, n, old.ctxs[n], cur)
<1>0. old.ctxs \in [Names -> Ctxs] /\ old = [ctxs |-> old.ctxs, cur |-> old.cur]
  BY DEF Configs
<1>1. old = Edited(old, n, old.ctxs[n], old.cur)
  BY <1>0 DEF Edited
<1>2. \A x : [old EXCEPT !.ctxs[n] = x] = Edited(old, n, x, old.cur)
  BY <1>0 DEF Edited
<1>3. \A k : [old EXCEPT !.ctxs[n] = storeSecretKey(@, k)]
              = Edited(old, n, storeSecretKey(old.ctxs[n], k), old.cur)
  BY <1>0 DEF Edited
<1>4. [old EXCEPT !.ctxs[n].url = "local"]
        = Edited(old, n, [old.ctxs[n] EXCEPT !.url = "local"], old.cur)
  BY <1>0 DEF Edited
<1>5. \A cur : [old EXCEPT !.cur = cur] = Edited(old, n, old.ctxs[n], cur)
  BY <1>0 DEF Edited
<1> QED BY <1>1, <1>2, <1>3, <1>4, <1>5

LEMMA PortsChange ==
  ASSUME IInv, NEW p \in Procs, pr[p].cmd \in Forwarding, pr[p].at = "write",
         NEW old \in Configs
  PROVE  Lawful(p, old, portsChange(p, old))
<1> DEFINE pc == old.ctxs["ports"]
           replace == \/ sameKey(pc, pr[p].before) \/ sameKey(pc, pr[p].want)
                      \/ pr[p].key = "secret" /\ keyReplaceable(pc)
           key == IF replace THEN [pc EXCEPT !.key = pr[p].want.key, !.src = pr[p].want.src]
                  ELSE pc
           x == [key EXCEPT !.url = "local"]
<1>1. pc \in Ctxs /\ pr[p].before \in Ctxs /\ pr[p].want \in Ctxs
  BY Known, Strings DEF Configs, Records
<1>2. /\ pr[p].ctx = "ports"
      /\ ~keyReplaceable(pr[p].before) => sameKey(pr[p].want, pr[p].before)
  BY Known DEF Decided
<1>3. /\ x \in Ctxs
      /\ IF replace THEN x.key = pr[p].want.key /\ x.src = pr[p].want.src
         ELSE x.key = pc.key /\ x.src = pc.src
  BY <1>1 DEF Ctxs, Urls
<1>4. ~keyReplaceable(pc) => sameKey(x, pc)
  <2> HIDE DEF pc, x, key
  <2>1. \A a, b : sameKey(a, b) => (keyReplaceable(a) <=> keyReplaceable(b))
    BY DEF sameKey, keyReplaceable, keySourceMatches
  <2>2. ~keyReplaceable(pc) /\ replace => sameKey(pr[p].want, pc)
    BY <1>2, <2>1 DEF sameKey
  <2> QED BY <1>3, <2>2 DEF sameKey
<1>5. portsChange(p, old) = Edited(old, "ports", x, "ports")
  BY DEF portsChange, Edited
<1> DEFINE new == portsChange(p, old)
<1> HIDE DEF new, x, pc
<1>6. /\ new \in Configs /\ new.ctxs["ports"] = x
      /\ \A c \in Names \ {"ports"} : new.ctxs[c] = old.ctxs[c]
  <2>1. /\ Edited(old, "ports", x, "ports") \in Configs
        /\ Edited(old, "ports", x, "ports").ctxs["ports"] = x
        /\ \A c \in Names \ {"ports"} : Edited(old, "ports", x, "ports").ctxs[c] = old.ctxs[c]
    <3>1. PICK n : n = "ports"
      OBVIOUS
    <3>2. n \in Names /\ n \in Currents
      BY <3>1, Strings
    <3>3. /\ Edited(old, n, x, n) \in Configs /\ Edited(old, n, x, n).ctxs[n] = x
          /\ \A c \in Names \ {n} : Edited(old, n, x, n).ctxs[c] = old.ctxs[c]
      BY <1>3, <3>2, OneContext
    <3> QED BY <3>1, <3>3
  <2> QED BY <1>5, <2>1 DEF new
<1>7. \A c \in Names : ~keyReplaceable(old.ctxs[c]) => sameKey(new.ctxs[c], old.ctxs[c])
  BY <1>4, <1>6 DEF pc, sameKey
<1> QED BY <1>2, <1>6, <1>7 DEF Lawful, new, OnContext, Forwarding, Syncing

LEMMA DeployChange ==
  ASSUME IInv, NEW p \in Procs, pr[p].cmd = "deploy", pr[p].at = "write",
         NEW old \in Configs
  PROVE  Lawful(p, old, deployChange(p, old))
<1> DEFINE n == pr[p].ctx
           now == old.ctxs[n]
           x == storeSecretKey(now, pr[p].want.key)
           new == deployChange(p, old)
<1>1. n \in Names /\ now \in Ctxs /\ pr[p].want \in Ctxs
  BY Known DEF Configs, Records
<1>2. CASE ~deployStores(p, old)
  <2>1. new = old
    BY <1>2 DEF deployChange
  <2> HIDE DEF new
  <2>2. Lawful(p, old, new)
    BY <2>1 DEF Lawful, sameKey, OnContext
  <2> QED BY <2>2 DEF new
<1>3. CASE deployStores(p, old)
  <2>1. /\ keyReplaceable(now) /\ pr[p].key = "accepted" /\ now.url = pr[p].url
    BY <1>3 DEF deployStores
  <2>2. x \in Ctxs /\ x.key = pr[p].want.key /\ x.url = now.url
    BY <1>1 DEF storeSecretKey, Ctxs
  <2>3. x.key \in Accepts[x.url]
    BY <2>1, <2>2, Known DEF Decided
  <2>4. new = Edited(old, n, x, old.cur)
    <3>1. new = [old EXCEPT !.ctxs[n] = storeSecretKey(@, pr[p].want.key)]
      BY <1>3 DEF deployChange
    <3>2. old.ctxs \in [Names -> Ctxs] /\ old = [ctxs |-> old.ctxs, cur |-> old.cur]
      BY DEF Configs
    <3>3. [old EXCEPT !.ctxs[n] = storeSecretKey(@, pr[p].want.key)] = Edited(old, n, x, old.cur)
      BY <3>2 DEF Edited
    <3> QED BY <3>1, <3>3
  <2>5. old.cur \in Currents
    BY DEF Configs
  <2> HIDE DEF new, x, n
  <2>6. /\ new \in Configs /\ new.ctxs[n] = x
        /\ \A c \in Names \ {n} : new.ctxs[c] = old.ctxs[c]
    BY <1>1, <2>2, <2>4, <2>5, OneContext
  <2>7. \A c \in Names : ~keyReplaceable(old.ctxs[c]) => sameKey(new.ctxs[c], old.ctxs[c])
    BY <2>1, <2>6 DEF sameKey
  <2>8. \A c \in Names : new.ctxs[c] # old.ctxs[c] => new.ctxs[c].key \in Accepts[new.ctxs[c].url]
    BY <2>3, <2>6
  <2> QED BY <2>6, <2>7, <2>8 DEF Lawful, new, n, OnContext, Forwarding, Syncing
<1> QED BY <1>2, <1>3

\* kates ctx, whose change is of one context and the current one.
LEMMA ContextChange ==
  ASSUME IInv, NEW p \in Procs, pr[p].cmd \in OnContext,
         NEW old \in Configs, NEW new \in Changes(p, old)
  PROVE  Lawful(p, old, new)
<1> DEFINE n == pr[p].ctx
           now == old.ctxs[n]
<1>1. n \in Names /\ now \in Ctxs /\ old.cur \in Currents
  BY Known DEF Configs, Records
<1>2. PICK x \in Ctxs, cur \in Currents :
        new = Edited(old, n, x, cur) /\ (sameKey(x, now) \/ x.key = NoKey \/ x.src = NoKey)
  <2>1. now.url \in Urls \union {""} /\ now.key \in Keys \union {NoKey}
        /\ now.src \in Keys \union {NoKey}
    BY <1>1 DEF Ctxs
  <2>2. CASE pr[p].cmd = "ctx set"
    <3> DEFINE a == [url |-> IF now.url = "" THEN "remote" ELSE now.url, key |-> "u", src |-> NoKey]
               b == [now EXCEPT !.url = "local"]
               d == [url |-> "local", key |-> NoKey, src |-> NoKey]
    <3>1. new \in ctxSetCmd(old, n)
      BY <2>2 DEF Changes, Forwarding
    <3>2. /\ a \in Ctxs /\ a.src = NoKey /\ b \in Ctxs /\ b.key = now.key /\ b.src = now.src
          /\ d \in Ctxs /\ d.key = NoKey
      BY <1>1, <2>1 DEF Ctxs, Keys, Urls, NoKey
    <3>3. PICK edited \in {[old EXCEPT !.ctxs[n] = a], [old EXCEPT !.ctxs[n].url = "local"],
                           [old EXCEPT !.ctxs[n] = d]} :
            new = edited \/ new = [edited EXCEPT !.cur = n]
      <4>1. [old EXCEPT !.ctxs[n] = [url |-> IF @.url = "" THEN "remote" ELSE @.url,
                                     key |-> "u", src |-> NoKey]] = [old EXCEPT !.ctxs[n] = a]
        OBVIOUS
      <4> QED BY <3>1, <4>1 DEF ctxSetCmd
    <3> HIDE DEF a, d
    <3>4. PICK x \in {a, b, d} : edited = Edited(old, n, x, old.cur)
      BY <1>1, <3>3, ExceptIsEdited
    <3> HIDE DEF b
    <3>5. [edited EXCEPT !.cur = n] = Edited(old, n, x, n)
      BY <3>4 DEF Edited
    <3>6. \E cur \in Currents : new = Edited(old, n, x, cur)
      BY <1>1, <3>3, <3>4, <3>5, Strings
    <3> QED BY <3>2, <3>4, <3>6 DEF sameKey
  <2>3. CASE pr[p].cmd = "ctx use"
    <3>1. new \in ctxUseCmd(old, n)
      BY <2>3 DEF Changes, Forwarding
    <3>2. \E cur \in Currents : new = Edited(old, n, now, cur)
      <4>1. CASE now.url = ""
        BY <1>1, <3>1, <4>1, ExceptIsEdited DEF ctxUseCmd
      <4>2. CASE now.url # ""
        <5>1. new = [old EXCEPT !.cur = n]
          BY <3>1, <4>2 DEF ctxUseCmd
        <5>2. old.ctxs \in [Names -> Ctxs] /\ old = [ctxs |-> old.ctxs, cur |-> old.cur]
          BY DEF Configs
        <5>3. new = Edited(old, n, now, n)
          BY <1>1, <5>1, <5>2 DEF Edited
        <5> QED BY <1>1, <5>3, Strings
      <4> QED BY <4>1, <4>2
    <3> QED BY <1>1, <3>2 DEF sameKey
  <2>4. CASE pr[p].cmd = "ctx delete"
    <3>1. new \in ctxDeleteCmd(old, n)
      BY <2>4 DEF Changes, Forwarding
    <3>2. CASE now.url = ""
      BY <1>1, <3>1, <3>2, ExceptIsEdited DEF ctxDeleteCmd, sameKey
    <3>3. CASE now.url # ""
      <4> DEFINE cur == IF old.cur # n THEN old.cur
                        ELSE IF \E m \in Names \ {n} : old.ctxs[m].url # ""
                             THEN CHOOSE m \in Names \ {n} : old.ctxs[m].url # "" ELSE ""
      <4>1. new = Edited(old, n, NoContext, cur)
        BY <3>1, <3>3 DEF ctxDeleteCmd, Edited
      <4>2. cur \in Currents
        <5>1. (\E m \in Names \ {n} : old.ctxs[m].url # "") =>
                (CHOOSE m \in Names \ {n} : old.ctxs[m].url # "") \in Names
          OBVIOUS
        <5> QED BY <1>1, <5>1, Strings
      <4> HIDE DEF cur
      <4> QED BY <4>1, <4>2, Strings DEF NoContext
    <3> QED BY <3>2, <3>3
  <2>5. CASE pr[p].cmd = "ctx import"
    <3> DEFINE kept(u) == [url |-> u, key |-> IF u = now.url THEN now.key ELSE NoKey,
                           src |-> IF u = now.url THEN now.src ELSE NoKey]
               given == [url |-> "remote", key |-> "u", src |-> NoKey]
    <3>1. new \in importContext(old, n)
      BY <2>5 DEF Changes, Forwarding
    <3>2. /\ \A u \in Urls : kept(u) \in Ctxs /\ (sameKey(kept(u), now) \/ kept(u).key = NoKey)
          /\ given \in Ctxs /\ given.src = NoKey
      BY <2>1 DEF Ctxs, Keys, Urls, NoKey, sameKey
    <3>3. \/ \E u \in Urls : new = [old EXCEPT !.ctxs[n] = kept(u)]
          \/ new = [old EXCEPT !.ctxs[n] = given]
      <4>1. \A u : [old EXCEPT !.ctxs[n] =
                      [url |-> u, key |-> IF u = @.url THEN @.key ELSE NoKey,
                       src |-> IF u = @.url THEN @.src ELSE NoKey]] = [old EXCEPT !.ctxs[n] = kept(u)]
        OBVIOUS
      <4> QED BY <3>1, <4>1 DEF importContext
    <3> HIDE DEF kept, given
    <3>4. CASE new = [old EXCEPT !.ctxs[n] = given]
      <4>1. new = Edited(old, n, given, old.cur)
        BY <1>1, <3>4, ExceptIsEdited
      <4> QED BY <1>1, <3>2, <4>1
    <3>5. ASSUME NEW u \in Urls, new = [old EXCEPT !.ctxs[n] = kept(u)]
          PROVE  \E x \in Ctxs, cur \in Currents :
                   new = Edited(old, n, x, cur) /\ (sameKey(x, now) \/ x.key = NoKey \/ x.src = NoKey)
      <4>1. PICK x : x = kept(u)
        OBVIOUS
      <4>2. new = Edited(old, n, x, old.cur)
        BY <1>1, <3>5, <4>1, ExceptIsEdited
      <4> QED BY <1>1, <3>2, <4>1, <4>2
    <3> QED BY <3>3, <3>4, <3>5
  <2> QED BY <2>2, <2>3, <2>4, <2>5 DEF OnContext
<1> HIDE DEF n
<1>3. /\ new \in Configs /\ new.ctxs[n] = x
      /\ \A c \in Names \ {n} : new.ctxs[c] = old.ctxs[c]
  BY <1>1, <1>2, OneContext
<1>4. \A c \in Names : \/ sameKey(new.ctxs[c], old.ctxs[c])
                       \/ new.ctxs[c].key = NoKey \/ new.ctxs[c].src = NoKey
  BY <1>2, <1>3 DEF sameKey
<1> QED BY <1>3, <1>4 DEF Lawful, OnContext, Forwarding, Syncing, n

\* Whatever a process saves is lawful, against the file as it is.
LEMMA SaveIsLawful ==
  ASSUME IInv, NEW p \in Procs, pr[p].at = "write", NEW new \in Changes(p, pr[p].snap)
  PROVE  Lawful(p, cfg, new)
<1>1. pr[p].snap = cfg /\ cfg \in Configs
  BY DEF IInv, LockInv, TypeInv
<1>2. pr[p].cmd \in OnContext \union Syncing
  BY Known DEF CommandOf
<1>3. CASE pr[p].cmd \in Forwarding
  <2>1. new = portsChange(p, cfg)
    BY <1>1, <1>3 DEF Changes, Forwarding
  <2> QED BY <1>1, <1>3, <2>1, PortsChange
<1>4. CASE pr[p].cmd = "deploy"
  <2>1. new = deployChange(p, cfg)
    BY <1>1, <1>4 DEF Changes, Forwarding
  <2> QED BY <1>1, <1>4, <2>1, DeployChange
<1>5. CASE pr[p].cmd \in OnContext
  BY <1>1, <1>5, ContextChange
<1> QED BY <1>2, <1>3, <1>4, <1>5 DEF Syncing

LEMMA WriteConfigStep ==
  ASSUME IInv, NEW p \in Procs, writeConfigFile(p)
  PROVE  IInv'
<1>1. /\ pr[p].at = "write" /\ UNCHANGED <<secret, port, cache>>
      /\ lock' = "none" /\ lock = p
  BY DEF writeConfigFile, At, IInv, LockInv
<1>2. CASE To(p, "failed") /\ UNCHANGED Files
  BY <1>1, <1>2, Known, GoesOn DEF Steps, Ended, Files
<1>3. ASSUME NEW new \in Changes(p, pr[p].snap),
             cfg' = new, mine' = Owned(p, new), To(p, "ok")
      PROVE  IInv'
  <2>1. Lawful(p, cfg, new)
    BY <1>1, SaveIsLawful
  <2>2. /\ Moves(p) /\ pr'[p].at = "ok" /\ Keeps(pr'[p], pr[p])
    BY <1>3, Known, ToMoves DEF Steps, Ended
  <2>3. CommandOf(pr'[p]) /\ Decided(pr'[p]) /\ Forward(pr'[p], port') /\ Checked(pr'[p]) /\ ~Putting(pr'[p])
    BY <1>1, <2>2, Known DEF CommandOf, Decided, Forward, Checked, Putting, Keeps, Same
  <2>4. ~Ports(p)'
    BY <2>2 DEF Ports, Alive, Ended
  <2>5. CommandInv' /\ DecidedInv' /\ OneInv' /\ ForwardInv' /\ ChartInv'
    BY <1>1, <2>2, <2>3, <2>4, Known, OneMoves
  <2>6. LockInv'
    <3>1. \A q \in Procs : pr'[q].at # "write"
      BY <1>1, <2>2 DEF Moves, IInv, LockInv
    <3> QED BY <3>1 DEF LockInv
  <2>7. MineInv'
    <3>1. CASE pr[p].cmd \in Syncing
      <4>1. mine' \subseteq mine /\ mine \subseteq Names
        BY <1>3, <3>1 DEF Owned, IInv, TypeInv
      <4>2. \A c \in mine : sameKey(new.ctxs[c], cfg.ctxs[c])
        BY <2>1, <3>1, <4>1 DEF Lawful, IInv, MineInv
      <4> QED BY <1>3, <4>1, <4>2
              DEF IInv, MineInv, sameKey, keyReplaceable, keySourceMatches
    <3>2. CASE pr[p].cmd \in OnContext
      <4>1. mine' = {c \in Names : /\ new.ctxs[c].key # NoKey
                                   /\ c \in mine \/ ~sameKey(new.ctxs[c], cfg.ctxs[c])}
        BY <1>3, <3>2 DEF Owned, OnContext, Syncing, Forwarding
      <4>2. \A c \in Names : \/ sameKey(new.ctxs[c], cfg.ctxs[c])
                             \/ new.ctxs[c].key = NoKey \/ new.ctxs[c].src = NoKey
        BY <2>1, <3>2 DEF Lawful
      <4> QED BY <1>3, <4>1, <4>2
              DEF IInv, MineInv, sameKey, keyReplaceable, keySourceMatches
    <3>3. pr[p].cmd \in OnContext \union Syncing
      BY <1>1, Known DEF CommandOf
    <3> QED BY <3>1, <3>2, <3>3
  <2>8. TypeInv'
    <3>1. mine' \subseteq Names
      BY <1>3 DEF Owned, IInv, TypeInv
    <3> QED BY <1>1, <1>3, <2>1, <2>2, <3>1 DEF IInv, TypeInv, Moves, Lawful
  <2> QED BY <2>5, <2>6, <2>7, <2>8 DEF IInv
<1> QED BY <1>2, <1>3 DEF writeConfigFile

-----------------------------------------------------------------------------
(* The invariant *)

LEMMA InitInv == Init => IInv
<1> SUFFICES ASSUME Init PROVE IInv
  OBVIOUS
<1>1. PICK key \in {NoKey, "s1", "u"}, own \in BOOLEAN :
        /\ cfg = [ctxs |-> [c \in Names |-> IF c = "ports" THEN NoContext
                            ELSE [url |-> "remote", key |-> key, src |-> IF own THEN key ELSE NoKey]],
                  cur |-> CHOOSE c \in Contexts : TRUE]
        /\ own <=> key = "s1"
        /\ mine = IF key # NoKey /\ ~own THEN Contexts ELSE {}
  BY DEF Init
<1>2. PICK f \in [Procs -> Commands \X Names] :
        pr = [p \in Procs |-> [Idle EXCEPT !.cmd = f[p][1], !.ctx = f[p][2], !.at = First(f[p][1])]]
  BY DEF Init
<1>3. /\ lock = "none" /\ secret = "s1" /\ port \in {"free", "other", "kates"}
      /\ cache = [chart |-> "none", marker |-> "none", attested |-> FALSE, crossed |-> FALSE,
                serves |-> CHOOSE d \in Signed : TRUE]
  BY DEF Init
<1>4. \A p \in Procs :
        /\ pr[p] \in Records
        /\ pr[p].at \in {"stop others", "secret", "repair", "look", "lock"}
        /\ pr[p].answered = "nobody"
        /\ pr[p].at = "stop others" <=> pr[p].cmd \in Forwarding
        /\ pr[p].at = "secret" => pr[p].cmd = "deploy"
        /\ pr[p].at = "lock" => pr[p].cmd \in OnContext
  <2> SUFFICES ASSUME NEW p \in Procs
               PROVE  /\ pr[p] \in Records
                      /\ pr[p].at \in {"stop others", "secret", "repair", "look", "lock"}
                      /\ pr[p].answered = "nobody"
                      /\ pr[p].at = "stop others" <=> pr[p].cmd \in Forwarding
                      /\ pr[p].at = "secret" => pr[p].cmd = "deploy"
                      /\ pr[p].at = "lock" => pr[p].cmd \in OnContext
    OBVIOUS
  <2>1. PICK cmd, n, at :
          /\ cmd \in Commands
          /\ n \in Names
          /\ at = First(cmd)
          /\ pr[p] = [Idle EXCEPT !.cmd = cmd, !.ctx = n, !.at = at]
    BY <1>2
  <2>2. /\ at \in {"stop others", "secret", "repair", "look", "lock"}
        /\ at = "stop others" <=> cmd \in Forwarding
        /\ at = "secret" => cmd = "deploy"
        /\ at = "lock" => cmd \in OnContext
    BY <2>1 DEF First, Commands, OnContext, Forwarding, Syncing
  <2>3. at \in Steps
    BY <2>2 DEF Steps
  <2>4. pr[p] \in Records
    BY <2>1, <2>3, IdleType DEF Records
  <2>5. pr[p].at = at /\ pr[p].cmd = cmd /\ pr[p].answered = "nobody"
    BY <2>1 DEF Idle
  <2> QED BY <2>2, <2>4, <2>5
<1>5. cfg \in Configs /\ mine \subseteq Names /\ MineInv
  <2>1. (CHOOSE c \in Contexts : TRUE) \in Contexts
    BY LocalAssumption
  <2>2. key \in Keys \union {NoKey}
    BY DEF Keys
  <2>3. cfg.ctxs \in [Names -> Ctxs] /\ cfg.cur \in Currents
    BY <1>1, <2>1, <2>2, Strings DEF Ctxs, Urls
  <2>4. cfg \in Configs
    BY <1>1, <2>3 DEF Configs
  <2>5. \A c \in mine : key = "u" /\ ~own /\ c \in Contexts /\ c \in Names
    BY <1>1, Strings
  <2>6. MineInv
    <3> SUFFICES ASSUME NEW c \in mine PROVE ~keyReplaceable(cfg.ctxs[c])
      BY DEF MineInv
    <3>1. c # "ports"
      BY <2>5, LocalAssumption
    <3> QED BY <1>1, <2>5, <3>1 DEF keyReplaceable, keySourceMatches, NoKey
  <2> QED BY <1>1, <2>4, <2>6, Strings
<1>6. TypeInv
  <2>1. cache \in CacheType
    BY <1>3, LocalAssumption DEF CacheType
  <2>2. pr \in [Procs -> Records]
    BY <1>2, <1>4
  <2> QED BY <1>3, <1>5, <2>1, <2>2 DEF TypeInv
<1>7. CommandInv /\ LockInv /\ DecidedInv /\ OneInv /\ ForwardInv
  <2>1. \A p \in Procs : CommandOf(pr[p]) /\ ~Ports(p) /\ Forward(pr[p], port)
    BY <1>4 DEF CommandOf, Ports, Forward, Forwarding
  <2>2. \A p \in Procs : Decided(pr[p])
    BY <1>4 DEF Decided, OnContext, Forwarding
  <2> QED BY <1>4, <2>1, <2>2 DEF CommandInv, LockInv, DecidedInv, OneInv, ForwardInv
<1>8. ChartInv
  BY <1>3, <1>4 DEF ChartInv, Checked, Beside, Putting
<1> QED BY <1>5, <1>6, <1>7, <1>8 DEF IInv

LEMMA StepInv == IInv /\ [Next]_vars => IInv'
<1> SUFFICES ASSUME IInv, [Next]_vars PROVE IInv'
  OBVIOUS
<1>1. CASE UNCHANGED vars
  BY <1>1 DEF vars, IInv, TypeInv, CommandInv, LockInv, MineInv, DecidedInv, OneInv, Ports, Alive,
              ForwardInv, ChartInv
<1>2. ASSUME NEW p \in Procs, Works(p) PROVE IInv'
  BY <1>2, StopOthersStep, StopForwardsStep, TakenStep, VerifyForwardsStep, SyncStep, ActiveStep,
     ReadConfigStep, WriteConfigStep, RepairStep, PullStep, VerifyChartStep, FetchStep, CheckStep
     DEF Works
<1> QED BY <1>1, <1>2, KilledStep, WorldStep DEF Next

\* The inductive invariant: who holds the lock, what each process has read of the config, of the
\* cluster and of the cache, and what of it still holds (updateConfig, stopOtherPortsCommands, verifyChart).
THEOREM LocalInvariant == Spec => []IInv
<1>1. Init => IInv
  BY InitInv
<1>2. IInv /\ [Next]_vars => IInv'
  BY StepInv
<1> QED BY <1>1, <1>2, PTL DEF Spec

-----------------------------------------------------------------------------
(* What the invariant says of the runs' properties *)

\* Of the kates ports commands that overlook no other, one at a time goes on; and the program that is
\* taken for the API is kates' own forward, or one that took the port after kates had looked
\* (stopOtherPortsCommands, takenLocalPorts, verifyPortForwards).
THEOREM PortsStayItsOwn == ASSUME IsFiniteSet(Procs) PROVE Spec => []PortsAreItsOwn
<1>1. IInv => PortsAreItsOwn
  <2> SUFFICES ASSUME IInv PROVE PortsAreItsOwn
    OBVIOUS
  <2>1. OnePortsAtATime
    <3> DEFINE S == {p \in Procs : Ports(p) /\ ~pr[p].missed}
    <3>1. CASE S = {}
      BY <3>1, FS_EmptySet DEF OnePortsAtATime
    <3>2. ASSUME NEW p \in S PROVE OnePortsAtATime
      <4>1. S = {p}
        BY <3>2 DEF IInv, OneInv
      <4> HIDE DEF S
      <4>2. Cardinality(S) = 1
        BY <4>1, FS_Singleton
      <4> QED BY <4>2 DEF S, OnePortsAtATime
    <3> QED BY <3>1, <3>2
  <2>2. EndpointIsNotAnothers
    BY DEF IInv, ForwardInv, Forward, EndpointIsNotAnothers
  <2> QED BY <2>1, <2>2 DEF PortsAreItsOwn
<1> QED BY <1>1, LocalInvariant, PTL

\* A chart beside a marker is one whose signature was checked, however pulls interleave, die and meet a
\* republished version, with cosign and without, until a checked and an unchecked pull put their charts
\* in at once (verifyChart, fetchPublishedChart).
THEOREM MarkedChartsAreSigned == Spec => []MarkedChartIsSigned
<1>1. IInv => MarkedChartIsSigned
  BY DEF IInv, ChartInv, MarkedChartIsSigned
<1> QED BY <1>1, LocalInvariant, PTL

\* A process at the write is moved by its own write, or by a kill.
LEMMA WriterIsAlone ==
  ASSUME IInv, NEW p \in Procs, NEW q \in Procs, Works(q) \/ Killed(q), pr[p].at = "write"
  PROVE  /\ p = q => writeConfigFile(p) \/ Killed(p)
         /\ p # q => pr'[p].at # "ok"
<1>1. pr \in [Procs -> Records]
  BY DEF IInv, TypeInv
<1>2. p = q => writeConfigFile(p) \/ Killed(p)
  BY DEF Works, At, stopOtherPortsCommands, stopOwnPortForwards, takenLocalPorts,
         verifyPortForwards, syncPortsContext, syncActiveContextKey, readConfig,
         repairLocalAPIPortForward, pullPublishedChart, verifyChart, fetchPublishedChart,
         checkChartSignatures
<1>3. ASSUME p # q PROVE pr'[p].at # "ok"
  <2>1. \A at : To(q, at) => pr'[p] = pr[p]
    BY <1>1, <1>3 DEF To
  <2>2. \A r : Set(q, r) => pr'[p] = pr[p]
    BY <1>1, <1>3 DEF Set
  <2>3. CASE stopOtherPortsCommands(q)
    <3>1. pr'[p] = pr[p] \/ pr'[p] = [Idle EXCEPT !.cmd = "ports", !.at = "killed"]
      BY <1>3, <2>3 DEF stopOtherPortsCommands
    <3>2. [Idle EXCEPT !.cmd = "ports", !.at = "killed"].at = "killed"
      BY DEF Idle
    <3> QED BY <3>1, <3>2
  <2>4. CASE syncPortsContext(q) \/ syncActiveContextKey(q) \/ pullPublishedChart(q) \/ verifyChart(q)
    BY <2>1, <2>2, <2>4 DEF syncPortsContext, syncActiveContextKey, pullPublishedChart, verifyChart,
                            verifyProvenance
  <2>5. CASE \/ stopOwnPortForwards(q) \/ takenLocalPorts(q) \/ verifyPortForwards(q)
             \/ readConfig(q) \/ writeConfigFile(q)
    BY <2>1, <2>2, <2>5 DEF stopOwnPortForwards, takenLocalPorts, verifyPortForwards, readConfig,
                            writeConfigFile
  <2>6. CASE repairLocalAPIPortForward(q) \/ fetchPublishedChart(q) \/ checkChartSignatures(q) \/ Killed(q)
    BY <2>1, <2>6 DEF repairLocalAPIPortForward, fetchPublishedChart, checkChartSignatures, Killed
  <2> QED BY <2>3, <2>4, <2>5, <2>6 DEF Works
<1> QED BY <1>2, <1>3

\* What a step in which a process saves does to the file.
LEMMA Saved ==
  ASSUME IInv, [Next]_vars, NEW p \in Procs, Saves(p)
  PROVE  Lawful(p, cfg, cfg')
<1>1. pr[p].at = "write" /\ pr'[p].at = "ok"
  BY DEF Saves
<1>2. PICK q \in Procs : Works(q) \/ Killed(q)
  <2>1. UNCHANGED pr => FALSE
    BY <1>1
  <2>2. \A q \in Procs : pr[q] \in Records
    BY Known
  <2>3. ~World
    <3>1. [pr[p] EXCEPT !.raced = @ \/ At(p, "start forward")].at = pr[p].at
      BY <2>2 DEF Records
    <3> QED BY <1>1, <2>1, <3>1 DEF World
  <2>4. ~(UNCHANGED vars)
    BY <2>1 DEF vars
  <2> QED BY <2>3, <2>4 DEF Next
<1>3. writeConfigFile(p) \/ Killed(p)
  BY <1>1, <1>2, WriterIsAlone
<1>4. ~To(p, "failed") /\ ~To(p, "killed")
  <2>1. \A at \in Steps : To(p, at) => at = "ok"
    BY <1>1, Known, ToMoves
  <2> QED BY <2>1 DEF Steps, Ended
<1>5. PICK new \in Changes(p, pr[p].snap) : cfg' = new
  BY <1>3, <1>4 DEF writeConfigFile, Killed
<1> QED BY <1>1, <1>5, SaveIsLawful

\* A key the user set is never replaced by the cluster's, and a save changes the context its command
\* is about and no other, whatever is saved meanwhile (updateConfig, syncPortsContext).
THEOREM ConfigStaysTheUsers == Spec => ConfigIsTheUsers
<1>1. ASSUME IInv, [Next]_vars, NEW p \in Procs, Saves(p)
      PROVE  /\ pr[p].cmd \in Syncing =>
                  \A c \in mine : cfg'.ctxs[c].key = cfg.ctxs[c].key
             /\ \A c \in Names \ {pr[p].ctx} : cfg'.ctxs[c] = cfg.ctxs[c]
  <2>1. Lawful(p, cfg, cfg')
    BY <1>1, Saved
  <2>2. mine \subseteq Names /\ \A c \in mine : ~keyReplaceable(cfg.ctxs[c])
    BY <1>1 DEF IInv, TypeInv, MineInv
  <2> QED BY <2>1, <2>2 DEF Lawful, sameKey
<1>2. IInv /\ [Next]_vars =>
        [\A c \in mine : \A p \in Procs :
           (pr[p].cmd \in Syncing /\ Saves(p)) => cfg'.ctxs[c].key = cfg.ctxs[c].key]_vars
  BY <1>1
<1>3. IInv /\ [Next]_vars =>
        [\A p \in Procs : Saves(p) => \A c \in Names \ {pr[p].ctx} : cfg'.ctxs[c] = cfg.ctxs[c]]_vars
  BY <1>1
<1> QED BY <1>2, <1>3, LocalInvariant, PTL DEF Spec, ConfigIsTheUsers, UserKeyIsKept, SavesTouchTheirOwn

\* A key that deploy stores is one the API at the context's URL accepts, though it was asked before
\* the lock was taken (syncActiveContextKey).
THEOREM StoredKeysWork == Spec => DeployedKeyWorks
<1>1. IInv /\ [Next]_vars =>
        [\A p \in Procs : (pr[p].cmd = "deploy" /\ Saves(p)) =>
           \A c \in Names : cfg'.ctxs[c] # cfg.ctxs[c] =>
                              cfg'.ctxs[c].key \in Accepts[cfg'.ctxs[c].url]]_vars
  BY Saved DEF Lawful
<1> QED BY <1>1, LocalInvariant, PTL DEF Spec, DeployedKeyWorks
=============================================================================
