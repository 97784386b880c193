--------------------------- MODULE MigrateLabProofs ---------------------------
(***************************************************************************)
(* For any labs, commands on them, topics the target had before, failing   *)
(* calls, signals and kills: what the migration commands never take from   *)
(* others, and what they leave behind.                                     *)
(***************************************************************************)
EXTENDS MigrateLab, SequenceTheorems, TLAPS

\* Each lab mirrors a topic of its own.  Of two labs on one topic, the second passes its checks when the
\* mirrors cannot be listed and the topic is not there yet; once the first mirror is gone, a `run` of the
\* second takes the topic for its own and deletes what both have written.
TopicsAreTheirOwn == \A l, m \in Labs : TopicOf[l] = TopicOf[m] => l = m

Alone(l) == \A m \in Labs : TopicOf[m] = TopicOf[l] => m = l
SharedTopics == {TopicOf[l] : l \in {m \in Labs : ~Alone(m)}}

-----------------------------------------------------------------------------
(* The inductive invariant *)

Procs == [cmd : CommandNames \cup {"none"}, todo : Seq(Steps), stage : {"phases", "cleanup"},
          opts : SUBSET {"keep", "keep-topics", "delete-data"}, clients : BOOLEAN,
          made : SUBSET {"namespace"}, ns0 : {"none", "owned", "foreign"}, shared : BOOLEAN,
          consent : BOOLEAN, mirrors : SUBSET Labs, bad : BOOLEAN, dirty : BOOLEAN, frozen : BOOLEAN]

Worlds == [ns : {"none", "owned", "foreign"}, src : BOOLEAN, secret : BOOLEAN, rel : BOOLEAN, cr : BOOLEAN,
           want : {"RUNNING", "STOPPED"}, conn : States, status : States, seen : BOOLEAN, observed : BOOLEAN,
           pods : BOOLEAN, left : BOOLEAN, files : BOOLEAN, produced : BOOLEAN]

Owners == Labs \cup {"none", "user"}

Outcomes == [cmd : CommandNames \cup {"none", "killed"}, ok : BOOLEAN, ns0 : {"none", "owned", "foreign"},
             clean : BOOLEAN]

TypeInv ==
  /\ pr \in [Labs -> Procs] /\ world \in [Labs -> Worlds]
  /\ topic \in [Topics -> [by : Owners, data : BOOLEAN]]
  /\ held \in [Labs -> SUBSET Topics] /\ last \in [Labs -> Outcomes]
  /\ ckpt \in BOOLEAN /\ cut \in BOOLEAN

Bounded ==
  /\ ran \in 0..MaxCommands /\ faults \in 0..MaxFaults /\ lost \subseteq Topics
  /\ \A l \in Labs : pr[l].cmd \in Commands[l] \cup {"none"}

\* The records a command found are still there; a topic with records was made by somebody.
RecordsInv ==
  /\ \A t \in Topics : topic[t].data => topic[t].by # "none"
  /\ \A l \in Labs : \A t \in held[l] : topic[t].data

Ahead(p) == ToSet(p.todo)

\* What no step may have after it.
NotAfter(s) ==
  {"prerequisites"} \cup (IF s = "delete topics" THEN {"list mirrors", "delete CR"} ELSE {})
                    \cup (IF s = "source stopped" THEN {"mirror", "cutover", "rollback"} ELSE {})

Ordered(todo) == \A i, j \in 1..Len(todo) : i < j => todo[j] \notin NotAfter(todo[i])

\* The steps a command has ahead of it.
Program1(p) ==
  /\ Ordered(p.todo)
  /\ p.cmd = "none" => p.todo = <<>> /\ ~p.clients /\ ~p.frozen
  /\ p.stage = "cleanup" => Ahead(p) \subseteq Teardown
  /\ p.cmd = "down" => "mirror" \notin Ahead(p)
  /\ "delete topics" \in Ahead(p) => p.cmd \in {"down", "run"}
  /\ "clients" \in Ahead(p) => p.cmd \in {"run", "verify", "cutover"}
  /\ p.cmd = "run" => "keep-topics" \notin p.opts

\* The client pods: registered before they are made, and the clean-up has them to delete.
Clients(p, w) ==
  /\ w.pods => p.clients \/ w.left
  /\ p.clients => p.cmd \in {"run", "verify", "cutover"}
  /\ "prerequisites" \in Ahead(p) => ~p.clients
  /\ p.stage = "cleanup" /\ p.clients /\ w.pods /\ ~w.left =>
       "deleteClients" \in Ahead(p) \/ "keep" \in p.opts

\* What is left of a run's lab while its teardown goes through.
Tidy(l, p, w, by) ==
  /\ p.cmd = "run" /\ p.stage = "phases" /\ p.ns0 = "none" /\ ~p.dirty => w.ns = "none" \/ "namespace" \in p.made
  /\ p.cmd = "run" /\ p.stage = "cleanup" /\ ~p.dirty /\ "keep" \notin p.opts =>
       /\ "uninstall mirror" \in Ahead(p) \/ ~w.rel
       /\ "delete CR" \in Ahead(p) \/ ~w.cr
       /\ "uninstall source" \in Ahead(p) \/ ~w.src
       /\ "delete topics" \in Ahead(p) \/ (~w.cr /\ by # l)
       /\ "delete secrets" \in Ahead(p) \/ ~w.secret
       /\ p.ns0 = "none" => "delete namespace" \in Ahead(p) \/ w.ns = "none"
       /\ "delete files" \in Ahead(p) \/ ~w.files

\* What an ended run has left.
Rested(l, p, w, by, e) ==
  p.cmd = "none" /\ e.cmd = "run" /\ e.clean =>
    /\ ~w.src /\ ~w.secret /\ ~w.rel /\ ~w.cr /\ ~w.files
    /\ by # l
    /\ e.ns0 = "none" => w.ns = "none"

\* What the operator says of a mirror is of the generation it says it is.
Reported(w) ==
  /\ ~w.cr => w.conn = "none" /\ w.status = "none" /\ ~w.seen /\ ~w.observed
  /\ w.seen => w.conn = w.want
  /\ w.observed => w.seen /\ w.status = w.conn

Frozen(p, w) ==
  p.frozen => /\ w.want = "STOPPED" /\ w.conn # "RUNNING"
              /\ Ahead(p) \cap {"mirror", "cutover", "rollback"} = {}

\* A teardown that keeps nothing for others has seen no other mirror.
Listed(p) ==
  "delete topics" \in Ahead(p) /\ "list mirrors" \notin Ahead(p) /\ ~p.shared => p.mirrors = {}

\* A lab that is alone on its topic, with a mirror or past the check that lets it have one, owns it.
Owner(l, p, w, by) ==
  Alone(l) /\ (w.cr \/ ("mirror" \in Ahead(p) /\ "prerequisites" \notin Ahead(p))) => by \in {"none", l}

\* down: past its guard there is a consent, or nothing to lose; at its end there is no mirror.
DownSpares(l, p, w, h) ==
  p.cmd = "down" =>
    /\ "delete topics" \in Ahead(p) /\ "keep-topics" \notin p.opts /\ ~p.consent /\ TopicOf[l] \in h =>
         Head(p.todo) = "guard"
    /\ ~p.bad /\ "delete CR" \notin Ahead(p) => ~w.cr

\* run: past its prerequisites the topic holds nothing that was not its lab's.
RunSpares(l, p, by, h) ==
  p.cmd = "run" =>
    /\ TopicOf[l] \in h => by \notin {"none", l}
    /\ Alone(l) /\ ("delete topics" \in Ahead(p) \/ (p.stage = "phases" /\ "prerequisites" \notin Ahead(p))) =>
         TopicOf[l] \notin h

\* Of one lab, its command p, its world w, the owner of its topic, what its command found, how the last ended.
LabInv(l, p, w, by, h, e) ==
  /\ Program1(p) /\ Clients(p, w) /\ Reported(w) /\ Frozen(p, w) /\ Listed(p)
  /\ Tidy(l, p, w, by) /\ Rested(l, p, w, by, e)
  /\ Owner(l, p, w, by) /\ DownSpares(l, p, w, h) /\ RunSpares(l, p, by, h)

LabsInv == \A l \in Labs : LabInv(l, pr[l], world[l], Mine(l).by, held[l], last[l])

IInv == TypeInv /\ RecordsInv /\ LabsInv /\ ~cut /\ lost \subseteq SharedTopics

-----------------------------------------------------------------------------
(* Sequences of steps *)

LEMMA TailSteps ==
  ASSUME NEW S, NEW s \in Seq(S), s # <<>>
  PROVE  /\ Tail(s) \in Seq(S) /\ Head(s) \in S
         /\ ToSet(s) = {Head(s)} \cup ToSet(Tail(s))
<1>1. Len(s) \in Nat \ {0} /\ DOMAIN s = 1..Len(s)
  OBVIOUS
<1>2. /\ Tail(s) \in Seq(S) /\ Len(Tail(s)) = Len(s) - 1 /\ Head(s) = s[1]
      /\ \A i \in 1..Len(s) - 1 : Tail(s)[i] = s[i + 1]
  OBVIOUS
<1>3. DOMAIN Tail(s) = 1..Len(s) - 1
  BY <1>1, <1>2
<1>4. ToSet(s) \subseteq {Head(s)} \cup ToSet(Tail(s))
  <2> SUFFICES ASSUME NEW i \in 1..Len(s), i # 1 PROVE s[i] \in ToSet(Tail(s))
    BY <1>1, <1>2 DEF ToSet
  <2>1. i - 1 \in 1..Len(s) - 1 /\ Tail(s)[i - 1] = s[i]
    BY <1>1, <1>2
  <2> QED BY <1>3, <2>1 DEF ToSet
<1>5. Head(s) \in ToSet(s) /\ ToSet(Tail(s)) \subseteq ToSet(s)
  <2>1. 1 \in 1..Len(s) /\ \A i \in 1..Len(s) - 1 : i + 1 \in 1..Len(s)
    BY <1>1
  <2> QED BY <1>1, <1>2, <1>3, <2>1 DEF ToSet
<1> QED BY <1>1, <1>2, <1>4, <1>5

LEMMA TailOrdered ==
  ASSUME NEW s \in Seq(Steps), s # <<>>, Ordered(s)
  PROVE  Ordered(Tail(s)) /\ ToSet(Tail(s)) \cap NotAfter(Head(s)) = {}
<1>1. Len(s) \in Nat \ {0} /\ Len(Tail(s)) = Len(s) - 1 /\ Head(s) = s[1] /\ DOMAIN Tail(s) = 1..Len(s) - 1
  OBVIOUS
<1>2. \A i \in 1..Len(s) - 1 : i + 1 \in 1..Len(s) /\ Tail(s)[i] = s[i + 1]
  BY <1>1
<1>3. Ordered(Tail(s))
  BY <1>1, <1>2 DEF Ordered
<1>4. \A i \in 1..Len(s) - 1 : Tail(s)[i] \notin NotAfter(Head(s))
  BY <1>1, <1>2 DEF Ordered
<1> QED BY <1>1, <1>3, <1>4 DEF ToSet

\* s is a program whose steps are S.
Holds(s, S) == s \in Seq(Steps) /\ Ordered(s) /\ ToSet(s) = S

LEMMA NoStep == Holds(<<>>, {})
BY DEF Holds, Ordered, ToSet

LEMMA OneStep ==
  ASSUME NEW x \in Steps
  PROVE  Holds(<<x>>, {x})
<1> DEFINE s == <<x>>
<1>1. s \in Seq(Steps) /\ DOMAIN s = 1..1 /\ Len(s) = 1 /\ s[1] = x
  OBVIOUS
<1> HIDE DEF s
<1>2. 1..1 = {1}
  OBVIOUS
<1>3. ToSet(s) = {x}
  BY <1>1, <1>2 DEF ToSet
<1>4. Ordered(s)
  BY <1>1 DEF Ordered
<1> QED BY <1>1, <1>3, <1>4 DEF Holds, s

LEMMA Joined ==
  ASSUME NEW s, NEW t, NEW S, NEW T, Holds(s, S), Holds(t, T), \A x \in S, y \in T : y \notin NotAfter(x)
  PROVE  Holds(s \o t, S \cup T)
<1> DEFINE u == s \o t
<1>1. /\ s \in Seq(Steps) /\ t \in Seq(Steps)
      /\ u \in Seq(Steps) /\ Len(u) = Len(s) + Len(t) /\ Len(s) \in Nat /\ Len(t) \in Nat
      /\ DOMAIN s = 1..Len(s) /\ DOMAIN t = 1..Len(t) /\ DOMAIN u = 1..Len(u)
  BY DEF Holds
<1>2. \A i \in 1..Len(u) : u[i] = IF i <= Len(s) THEN s[i] ELSE t[i - Len(s)]
  BY <1>1
<1>3. \A i \in 1..Len(u) : \/ i \in 1..Len(s) /\ u[i] = s[i]
                           \/ i > Len(s) /\ i - Len(s) \in 1..Len(t) /\ u[i] = t[i - Len(s)]
  BY <1>1, <1>2
<1> HIDE DEF u
<1>4. ASSUME NEW i \in 1..Len(u), NEW j \in 1..Len(u), i < j PROVE u[j] \notin NotAfter(u[i])
  <2>1. CASE i \in 1..Len(s) /\ j \in 1..Len(s) /\ u[i] = s[i] /\ u[j] = s[j]
    BY <1>4, <2>1 DEF Ordered, Holds
  <2>2. CASE i > Len(s) /\ j > Len(s) /\ i - Len(s) \in 1..Len(t) /\ j - Len(s) \in 1..Len(t)
             /\ u[i] = t[i - Len(s)] /\ u[j] = t[j - Len(s)]
    <3>1. i - Len(s) < j - Len(s)
      BY <1>1, <1>4
    <3> QED BY <2>2, <3>1 DEF Ordered, Holds
  <2>3. CASE i \in 1..Len(s) /\ u[i] = s[i] /\ j - Len(s) \in 1..Len(t) /\ u[j] = t[j - Len(s)]
    BY <1>1, <2>3 DEF ToSet, Holds
  <2> QED BY <1>1, <1>3, <1>4, <2>1, <2>2, <2>3
<1>5. Ordered(u)
  BY <1>4 DEF Ordered
<1>6. ToSet(u) \subseteq ToSet(s) \cup ToSet(t)
  BY <1>1, <1>3 DEF ToSet
<1>7. \A i \in 1..Len(s) : i \in 1..Len(u) /\ u[i] = s[i]
  BY <1>1, <1>2
<1>8. \A i \in 1..Len(t) : i + Len(s) \in 1..Len(u) /\ u[i + Len(s)] = t[i]
  <2> SUFFICES ASSUME NEW i \in 1..Len(t) PROVE i + Len(s) \in 1..Len(u) /\ u[i + Len(s)] = t[i]
    OBVIOUS
  <2>1. i + Len(s) \in 1..Len(u) /\ ~(i + Len(s) <= Len(s)) /\ i + Len(s) - Len(s) = i
    BY <1>1
  <2> QED BY <1>2, <2>1
<1>9. ToSet(s) \cup ToSet(t) \subseteq ToSet(u)
  BY <1>1, <1>7, <1>8 DEF ToSet
<1> QED BY <1>1, <1>5, <1>6, <1>9 DEF u, Holds

LEMMA JoinTwo ==
  ASSUME NEW S, NEW x \in S, NEW y \in S
  PROVE  <<x>> \o <<y>> = <<x, y>>
<1> DEFINE s == <<x>> \o <<y>>
           t == <<x, y>>
<1>1. s \in Seq(S) /\ t \in Seq(S) /\ Len(s) = 2 /\ Len(t) = 2
  OBVIOUS
<1>2. t[1] = x /\ t[2] = y
  OBVIOUS
<1>3. s[1] = x /\ s[2] = y
  OBVIOUS
<1> HIDE DEF s, t
<1>4. \A i \in 1..2 : s[i] = t[i]
  BY <1>2, <1>3
<1> QED BY <1>1, <1>4, SeqEqual DEF s, t

LEMMA JoinThree ==
  ASSUME NEW S, NEW x \in S, NEW y \in S, NEW z \in S
  PROVE  <<x>> \o <<y, z>> = <<x, y, z>>
<1> DEFINE s == <<x>> \o <<y, z>>
           t == <<x, y, z>>
<1>1. s \in Seq(S) /\ t \in Seq(S) /\ Len(s) = 3 /\ Len(t) = 3
  OBVIOUS
<1>2. t[1] = x /\ t[2] = y /\ t[3] = z
  OBVIOUS
<1>3. s[1] = x /\ s[2] = y /\ s[3] = z
  OBVIOUS
<1> HIDE DEF s, t
<1>4. \A i \in 1..3 : s[i] = t[i]
  BY <1>2, <1>3
<1> QED BY <1>1, <1>4, SeqEqual DEF s, t

LEMMA JoinFour ==
  ASSUME NEW S, NEW x \in S, NEW y \in S, NEW z \in S, NEW v \in S
  PROVE  <<x>> \o <<y, z, v>> = <<x, y, z, v>>
<1> DEFINE s == <<x>> \o <<y, z, v>>
           t == <<x, y, z, v>>
<1>1. s \in Seq(S) /\ t \in Seq(S) /\ Len(s) = 4 /\ Len(t) = 4
  OBVIOUS
<1>2. t[1] = x /\ t[2] = y /\ t[3] = z /\ t[4] = v
  OBVIOUS
<1>3. s[1] = x /\ s[2] = y /\ s[3] = z /\ s[4] = v
  OBVIOUS
<1> HIDE DEF s, t
<1>4. \A i \in 1..4 : s[i] = t[i]
  BY <1>2, <1>3
<1> QED BY <1>1, <1>4, SeqEqual DEF s, t

LEMMA FourAndThree ==
  ASSUME NEW S, NEW s \in Seq(S), NEW t \in Seq(S), NEW u \in Seq(S), Len(s) = 4, Len(t) = 3, Len(u) = 7,
         u[1] = s[1], u[2] = s[2], u[3] = s[3], u[4] = s[4], u[5] = t[1], u[6] = t[2], u[7] = t[3]
  PROVE  s \o t = u
<1> DEFINE v == s \o t
<1>0. /\ v \in Seq(S) /\ Len(v) = Len(s) + Len(t)
      /\ \A i \in 1..Len(s) + Len(t) : v[i] = IF i <= Len(s) THEN s[i] ELSE t[i - Len(s)]
  BY ConcatProperties, Zenon
<1> HIDE DEF v
<1>1. v \in Seq(S) /\ Len(v) = 7
  BY <1>0
<1>2. v[1] = s[1] /\ v[2] = s[2] /\ v[3] = s[3] /\ v[4] = s[4] /\ v[5] = t[1] /\ v[6] = t[2] /\ v[7] = t[3]
  BY <1>0, <1>1
<1>3. \A i \in 1..7 : v[i] = u[i]
  BY <1>2
<1> QED BY <1>1, <1>3, SeqEqual DEF v

LEMMA TwoSteps ==
  ASSUME NEW x \in Steps, NEW y \in Steps, y \notin NotAfter(x)
  PROVE  Holds(<<x, y>>, {x, y})
<1>1. Holds(<<x>>, {x}) /\ Holds(<<y>>, {y})
  BY OneStep
<1>2. Holds(<<x>> \o <<y>>, {x} \cup {y})
  BY <1>1, Joined
<1>3. <<x>> \o <<y>> = <<x, y>>
  BY JoinTwo
<1>4. {x} \cup {y} = {x, y}
  OBVIOUS
<1> QED BY <1>2, <1>3, <1>4

LEMMA ThreeSteps ==
  ASSUME NEW x \in Steps, NEW y \in Steps, NEW z \in Steps, {y, z} \cap NotAfter(x) = {}, z \notin NotAfter(y)
  PROVE  Holds(<<x, y, z>>, {x, y, z})
<1>1. Holds(<<x>>, {x}) /\ Holds(<<y, z>>, {y, z})
  BY OneStep, TwoSteps
<1>2. Holds(<<x>> \o <<y, z>>, {x} \cup {y, z})
  BY <1>1, Joined
<1>3. <<x>> \o <<y, z>> = <<x, y, z>>
  BY JoinThree
<1>4. {x} \cup {y, z} = {x, y, z}
  OBVIOUS
<1> QED BY <1>2, <1>3, <1>4

LEMMA FourSteps ==
  ASSUME NEW x \in Steps, NEW y \in Steps, NEW z \in Steps, NEW v \in Steps, {y, z, v} \cap NotAfter(x) = {},
         {z, v} \cap NotAfter(y) = {}, v \notin NotAfter(z)
  PROVE  Holds(<<x, y, z, v>>, {x, y, z, v})
<1>1. Holds(<<x>>, {x}) /\ Holds(<<y, z, v>>, {y, z, v})
  BY OneStep, ThreeSteps
<1>2. Holds(<<x>> \o <<y, z, v>>, {x} \cup {y, z, v})
  BY <1>1, Joined
<1>3. <<x>> \o <<y, z, v>> = <<x, y, z, v>>
  BY JoinFour
<1>4. {x} \cup {y, z, v} = {x, y, z, v}
  OBVIOUS
<1> QED BY <1>2, <1>3, <1>4

-----------------------------------------------------------------------------
(* The programs, and what is in them *)

LEMMA MirrorSteps == Holds(phaseMirror, {"mirror", "connectors running"})
BY TwoSteps DEF Steps, Teardown, Reading, NotAfter, phaseMirror

LEMMA SourceSteps == Holds(runMigrateSourceDeploy, {"image", "source", "credential"})
BY ThreeSteps DEF Steps, Teardown, Reading, NotAfter, runMigrateSourceDeploy

LEMMA RehearsalSteps == Holds(phaseCutoverRehearsal, {"cutover", "source stopped", "frozen"})
BY ThreeSteps DEF Steps, Teardown, Reading, NotAfter, phaseCutoverRehearsal

LEMMA RollbackSteps == Holds(runMigrateRollback, {"rollback", "source running"})
BY TwoSteps DEF Steps, Teardown, Reading, NotAfter, runMigrateRollback

LEMMA RemoveMirrorSteps == Holds(runMigrateMirrorRemove, {"uninstall mirror!", "delete CR!"})
BY TwoSteps DEF Steps, Teardown, Reading, NotAfter, runMigrateMirrorRemove

LEMMA UpSteps ==
  Holds(upPhases, {"prerequisites", "image", "source", "credential", "mirror", "connectors running"})
<1>1. Holds(<<"prerequisites", "image", "source", "credential">>, {"prerequisites", "image", "source", "credential"})
  BY FourSteps DEF Steps, Teardown, Reading, NotAfter
<1>2. Holds(upPhases, {"prerequisites", "image", "source", "credential"} \cup {"mirror", "connectors running"})
  BY <1>1, MirrorSteps, Joined DEF NotAfter, upPhases
<1>3. {"prerequisites", "image", "source", "credential"} \cup {"mirror", "connectors running"}
      = {"prerequisites", "image", "source", "credential", "mirror", "connectors running"}
  OBVIOUS
<1> QED BY <1>2, <1>3

LEMMA MirrorDeploySteps == Holds(runMigrateMirrorDeploy, {"prerequisites", "mirror", "connectors running"})
<1>1. Holds(<<"prerequisites">>, {"prerequisites"})
  BY OneStep DEF Steps
<1>2. Holds(runMigrateMirrorDeploy, {"prerequisites"} \cup {"mirror", "connectors running"})
  BY <1>1, MirrorSteps, Joined DEF NotAfter, runMigrateMirrorDeploy
<1>3. {"prerequisites"} \cup {"mirror", "connectors running"} = {"prerequisites", "mirror", "connectors running"}
  OBVIOUS
<1> QED BY <1>2, <1>3

Checks == {"clients", "seed", "source end offsets", "source consumer group", "replicated topic",
           "read back", "offset translation"}

LEMMA VerifySteps ==
  /\ Holds(verifyPhases(FALSE), Checks)
  /\ Holds(verifyPhases(TRUE), Checks \cup {"cutover", "source stopped", "frozen"})
<1> DEFINE s == <<"clients", "seed", "source end offsets", "source consumer group">>
           t == <<"replicated topic", "read back", "offset translation">>
           u == <<"clients", "seed", "source end offsets", "source consumer group", "replicated topic",
                  "read back", "offset translation">>
<1>1. s \o t = u
  <2>1. Len(s) = 4 /\ Len(t) = 3 /\ Len(u) = 7
    OBVIOUS
  <2>2. /\ u[1] = s[1] /\ u[2] = s[2] /\ u[3] = s[3] /\ u[4] = s[4]
        /\ u[5] = t[1] /\ u[6] = t[2] /\ u[7] = t[3]
    OBVIOUS
  <2>3. s \in Seq(Checks) /\ t \in Seq(Checks) /\ u \in Seq(Checks)
    BY DEF Checks
  <2> HIDE DEF s, t, u
  <2> QED BY <2>1, <2>2, <2>3, FourAndThree
<1>2. /\ Holds(s, {"clients", "seed", "source end offsets", "source consumer group"})
      /\ Holds(t, {"replicated topic", "read back", "offset translation"})
  BY FourSteps, ThreeSteps DEF Steps, Teardown, Reading, NotAfter
<1> HIDE DEF s, t, u
<1>3. Holds(u, {"clients", "seed", "source end offsets", "source consumer group"}
               \cup {"replicated topic", "read back", "offset translation"})
  BY <1>1, <1>2, Joined DEF NotAfter
<1>4. Holds(u, Checks)
  <2>1. {"clients", "seed", "source end offsets", "source consumer group"}
        \cup {"replicated topic", "read back", "offset translation"} = Checks
    BY DEF Checks
  <2> QED BY <1>3, <2>1
<1>5. verifyPhases(FALSE) = u \o <<>> /\ verifyPhases(TRUE) = u \o phaseCutoverRehearsal
  BY DEF verifyPhases, u
<1>6. u \o <<>> = u
  BY <1>4 DEF Holds
<1>7. Holds(u \o phaseCutoverRehearsal, Checks \cup {"cutover", "source stopped", "frozen"})
  BY <1>4, RehearsalSteps, Joined DEF NotAfter, Checks
<1> QED BY <1>4, <1>5, <1>6, <1>7

LEMMA RunSteps ==
  Holds(runMigrateRun, {"prerequisites", "image", "source", "credential", "mirror", "connectors running"}
                       \cup (Checks \cup {"cutover", "source stopped", "frozen"}))
BY UpSteps, VerifySteps, Joined DEF NotAfter, Checks, runMigrateRun

LEMMA CutoverSteps ==
  /\ Holds(runMigrateCutover, {"clients"} \cup {"cutover", "source stopped", "frozen"})
  /\ Holds(runMigrateMirrorCutover(FALSE), {"cutover", "source stopped"})
<1>1. Holds(<<"clients">>, {"clients"})
  BY OneStep DEF Steps
<1>2. Holds(runMigrateCutover, {"clients"} \cup {"cutover", "source stopped", "frozen"})
  BY <1>1, RehearsalSteps, Joined DEF NotAfter, runMigrateCutover
<1> QED BY <1>2, TwoSteps DEF Steps, NotAfter, runMigrateMirrorCutover

\* What labDown removes of what is known.
Removed(known) ==
  {"delete pods", "delete files"}
  \cup (IF "mirror" \in known THEN {"uninstall mirror", "delete CR", "list mirrors", "delete topics", "delete secrets"}
        ELSE {})
  \cup (IF "source" \in known THEN {"uninstall source"} ELSE {})
  \cup (IF "namespace" \in known THEN {"delete namespace"} ELSE {})

LEMMA DownSteps ==
  ASSUME NEW known
  PROVE  Holds(labDown(known), Removed(known))
<1> DEFINE s2 == IF "mirror" \in known THEN <<"uninstall mirror", "delete CR">> ELSE <<>>
           s3 == IF "source" \in known THEN <<"uninstall source">> ELSE <<>>
           s4 == IF "mirror" \in known THEN <<"list mirrors", "delete topics", "delete secrets">> ELSE <<>>
           s5 == IF "namespace" \in known THEN <<"delete namespace">> ELSE <<>>
           S2 == IF "mirror" \in known THEN {"uninstall mirror", "delete CR"} ELSE {}
           S3 == IF "source" \in known THEN {"uninstall source"} ELSE {}
           S4 == IF "mirror" \in known THEN {"list mirrors", "delete topics", "delete secrets"} ELSE {}
           S5 == IF "namespace" \in known THEN {"delete namespace"} ELSE {}
<1>1. Holds(<<"delete pods">>, {"delete pods"}) /\ Holds(<<"delete files">>, {"delete files"})
  BY OneStep DEF Steps, Teardown
<1>2. Holds(s2, S2)
  BY TwoSteps, NoStep DEF Steps, Teardown, NotAfter
<1>3. Holds(s3, S3)
  BY OneStep, NoStep DEF Steps, Teardown
<1>4. Holds(s4, S4)
  BY ThreeSteps, NoStep DEF Steps, Teardown, NotAfter
<1>5. Holds(s5, S5)
  BY OneStep, NoStep DEF Steps, Teardown
<1>6. /\ S2 \subseteq {"uninstall mirror", "delete CR"} /\ S3 \subseteq {"uninstall source"}
      /\ S4 \subseteq {"list mirrors", "delete topics", "delete secrets"} /\ S5 \subseteq {"delete namespace"}
  OBVIOUS
<1>7. labDown(known) = <<"delete pods">> \o s2 \o s3 \o s4 \o s5 \o <<"delete files">>
  BY DEF labDown
<1>8. Removed(known) = {"delete pods"} \cup S2 \cup S3 \cup S4 \cup S5 \cup {"delete files"}
  BY DEF Removed
<1> HIDE DEF s2, s3, s4, s5, S2, S3, S4, S5
<1>9. Holds(<<"delete pods">> \o s2, {"delete pods"} \cup S2)
  <2>1. \A x \in {"delete pods"}, y \in S2 : y \notin NotAfter(x)
    BY <1>6 DEF NotAfter
  <2> QED BY <1>1, <1>2, <2>1, Joined
<1>10. Holds(<<"delete pods">> \o s2 \o s3, {"delete pods"} \cup S2 \cup S3)
  <2>1. \A x \in {"delete pods"} \cup S2, y \in S3 : y \notin NotAfter(x)
    BY <1>6 DEF NotAfter
  <2> QED BY <1>9, <1>3, <2>1, Joined
<1>11. Holds(<<"delete pods">> \o s2 \o s3 \o s4, {"delete pods"} \cup S2 \cup S3 \cup S4)
  <2>1. \A x \in {"delete pods"} \cup S2 \cup S3, y \in S4 : y \notin NotAfter(x)
    BY <1>6 DEF NotAfter
  <2> QED BY <1>10, <1>4, <2>1, Joined
<1>12. Holds(<<"delete pods">> \o s2 \o s3 \o s4 \o s5, {"delete pods"} \cup S2 \cup S3 \cup S4 \cup S5)
  <2>1. \A x \in {"delete pods"} \cup S2 \cup S3 \cup S4, y \in S5 : y \notin NotAfter(x)
    BY <1>6 DEF NotAfter
  <2> QED BY <1>11, <1>5, <2>1, Joined
<1>13. Holds(<<"delete pods">> \o s2 \o s3 \o s4 \o s5 \o <<"delete files">>,
             {"delete pods"} \cup S2 \cup S3 \cup S4 \cup S5 \cup {"delete files"})
  <2>1. \A x \in {"delete pods"} \cup S2 \cup S3 \cup S4 \cup S5, y \in {"delete files"} : y \notin NotAfter(x)
    BY <1>6 DEF NotAfter
  <2> QED BY <1>12, <1>1, <2>1, Joined
<1> QED BY <1>7, <1>8, <1>13

LEMMA SourceRemoveSteps ==
  ASSUME NEW known
  PROVE  \E S \in SUBSET {"delete pods", "uninstall source", "delete namespace", "delete files", "delete secrets"} :
             Holds(runMigrateSourceRemove(known), S)
<1> DEFINE s2 == IF "namespace" \in known THEN <<"delete namespace">> ELSE <<>>
           S2 == IF "namespace" \in known THEN {"delete namespace"} ELSE {}
<1>1. /\ Holds(<<"delete pods", "uninstall source">>, {"delete pods", "uninstall source"})
      /\ Holds(<<"delete files", "delete secrets">>, {"delete files", "delete secrets"})
  BY TwoSteps DEF Steps, Teardown, NotAfter
<1>2. Holds(s2, S2) /\ S2 \subseteq {"delete namespace"}
  BY OneStep, NoStep DEF Steps, Teardown
<1>3. runMigrateSourceRemove(known)
        = <<"delete pods", "uninstall source">> \o s2 \o <<"delete files", "delete secrets">>
  BY DEF runMigrateSourceRemove
<1> HIDE DEF s2, S2
<1>4. Holds(<<"delete pods", "uninstall source">> \o s2, {"delete pods", "uninstall source"} \cup S2)
  <2>1. \A x \in {"delete pods", "uninstall source"}, y \in S2 : y \notin NotAfter(x)
    BY <1>2 DEF NotAfter
  <2> QED BY <1>1, <1>2, <2>1, Joined
<1>5. Holds(<<"delete pods", "uninstall source">> \o s2 \o <<"delete files", "delete secrets">>,
            {"delete pods", "uninstall source"} \cup S2 \cup {"delete files", "delete secrets"})
  <2>1. \A x \in {"delete pods", "uninstall source"} \cup S2, y \in {"delete files", "delete secrets"} :
            y \notin NotAfter(x)
    BY <1>2 DEF NotAfter
  <2> QED BY <1>1, <1>4, <2>1, Joined
<1> QED BY <1>2, <1>3, <1>5

\* What the start of a command relies on: S is the steps of its program s.
Fits(l, cmd, opts, s, S) ==
  /\ Holds(s, S)
  /\ "mirror" \in S => "prerequisites" \in S /\ cmd # "down"
  /\ cmd = "run" => "prerequisites" \in S
  /\ "delete topics" \in S => /\ cmd = "down" /\ "list mirrors" \in S
                              /\ "keep-topics" \notin opts => Head(s) = "guard"
  /\ "clients" \in S => cmd \in {"run", "verify", "cutover"}
  /\ cmd = "down" /\ "delete CR" \notin S => ~world[l].cr

LEMMA ProgramSteps ==
  ASSUME NEW l, NEW cmd \in CommandNames, NEW opts
  PROVE  Fits(l, cmd, opts, Program(l, cmd, opts), ToSet(Program(l, cmd, opts)))
<1> DEFINE program == Program(l, cmd, opts)
           Ups == {"prerequisites", "image", "source", "credential", "mirror", "connectors running"}
           Rehearsal == {"cutover", "source stopped", "frozen"}
<1>0. \A S : Fits(l, cmd, opts, program, S) => Fits(l, cmd, opts, program, ToSet(program))
  BY DEF Fits, Holds
<1> SUFFICES \E S : Fits(l, cmd, opts, program, S)
  BY <1>0
<1> HIDE DEF program
<1>1. CASE cmd = "up"
  <2>1. Holds(program, Ups)
    BY <1>1, UpSteps DEF program, Program, runMigrateUp
  <2>2. Fits(l, cmd, opts, program, Ups)
    BY <1>1, <2>1 DEF Fits
  <2> QED BY <2>2
<1>2. CASE cmd = "run"
  <2>1. Holds(program, Ups \cup (Checks \cup Rehearsal))
    BY <1>2, RunSteps DEF program, Program
  <2>2. Fits(l, cmd, opts, program, Ups \cup (Checks \cup Rehearsal))
    BY <1>2, <2>1 DEF Fits, Checks
  <2> QED BY <2>2
<1>3. CASE cmd = "verify"
  <2>1. Holds(program, Checks)
    BY <1>3, VerifySteps DEF program, Program, runMigrateVerify
  <2>2. Fits(l, cmd, opts, program, Checks)
    BY <1>3, <2>1 DEF Fits, Checks
  <2> QED BY <2>2
<1>4. CASE cmd = "cutover"
  <2>1. Holds(program, {"clients"} \cup Rehearsal)
    BY <1>4, CutoverSteps DEF program, Program
  <2>2. Fits(l, cmd, opts, program, {"clients"} \cup Rehearsal)
    BY <1>4, <2>1 DEF Fits
  <2> QED BY <2>2
<1>5. CASE cmd \in {"rollback", "mirror rollback"}
  <2>1. Holds(program, {"rollback", "source running"})
    BY <1>5, RollbackSteps DEF program, Program, runMigrateMirrorCutover
  <2>2. Fits(l, cmd, opts, program, {"rollback", "source running"})
    BY <1>5, <2>1 DEF Fits
  <2> QED BY <2>2
<1>6. CASE cmd = "mirror deploy"
  <2>1. Holds(program, {"prerequisites", "mirror", "connectors running"})
    BY <1>6, MirrorDeploySteps DEF program, Program
  <2>2. Fits(l, cmd, opts, program, {"prerequisites", "mirror", "connectors running"})
    BY <1>6, <2>1 DEF Fits
  <2> QED BY <2>2
<1>7. CASE cmd = "mirror cutover"
  <2>1. Holds(program, {"cutover", "source stopped"})
    BY <1>7, CutoverSteps DEF program, Program
  <2>2. Fits(l, cmd, opts, program, {"cutover", "source stopped"})
    BY <1>7, <2>1 DEF Fits
  <2> QED BY <2>2
<1>8. CASE cmd = "mirror remove"
  <2>1. Holds(program, {"uninstall mirror!", "delete CR!"})
    BY <1>8, RemoveMirrorSteps DEF program, Program
  <2>2. Fits(l, cmd, opts, program, {"uninstall mirror!", "delete CR!"})
    BY <1>8, <2>1 DEF Fits
  <2> QED BY <2>2
<1>9. CASE cmd = "source deploy"
  <2>1. Holds(program, {"image", "source", "credential"})
    BY <1>9, SourceSteps DEF program, Program
  <2>2. Fits(l, cmd, opts, program, {"image", "source", "credential"})
    BY <1>9, <2>1 DEF Fits
  <2> QED BY <2>2
<1>10. CASE cmd = "source remove"
  <2>1. program = runMigrateSourceRemove(discoverLab(l))
    BY <1>10 DEF program, Program
  <2>2. PICK S \in SUBSET {"delete pods", "uninstall source", "delete namespace", "delete files", "delete secrets"} :
            Holds(runMigrateSourceRemove(discoverLab(l)), S)
    BY SourceRemoveSteps
  <2> QED BY <1>10, <2>1, <2>2 DEF Fits
<1>11. CASE cmd = "down"
  <2> DEFINE known == discoverLab(l)
             s == labDown(known)
  <2>1. program = (IF "mirror" \in known /\ "keep-topics" \notin opts THEN <<"guard">> ELSE <<>>) \o s
    BY <1>11 DEF program, Program, runMigrateDown
  <2>2. Holds(s, Removed(known)) /\ ("mirror" \in known <=> world[l].cr)
    BY DownSteps DEF discoverLab
  <2> HIDE DEF known, s
  <2>3. CASE "mirror" \in known /\ "keep-topics" \notin opts
    <3>1. Holds(<<"guard">>, {"guard"})
      BY OneStep DEF Steps
    <3>2. \A x \in {"guard"}, y \in Removed(known) : y \notin NotAfter(x)
      BY DEF NotAfter, Removed
    <3>3. Holds(<<"guard">> \o s, {"guard"} \cup Removed(known))
      BY <2>2, <3>1, <3>2, Joined
    <3>4. Head(<<"guard">> \o s) = "guard"
      BY <2>2 DEF Holds
    <3>5. Fits(l, cmd, opts, program, {"guard"} \cup Removed(known))
      BY <1>11, <2>1, <2>2, <2>3, <3>3, <3>4 DEF Fits, Removed
    <3> QED BY <3>5
  <2>4. CASE ~("mirror" \in known /\ "keep-topics" \notin opts)
    <3>1. <<>> \o s = s
      BY <2>2 DEF Holds
    <3>2. Fits(l, cmd, opts, program, Removed(known))
      BY <1>11, <2>1, <2>2, <2>4, <3>1 DEF Fits, Removed
    <3> QED BY <3>2
  <2> QED BY <2>3, <2>4
<1> QED BY <1>1, <1>2, <1>3, <1>4, <1>5, <1>6, <1>7, <1>8, <1>9, <1>10, <1>11 DEF CommandNames

\* What a clean-up has to do: S is the steps of the one that follows the failure of step s.
Cleans(p, s, S) ==
  /\ Holds(CleanUp(p, s), S) /\ S \subseteq Teardown
  /\ "delete topics" \in S => p.cmd = "run" /\ s # "prerequisites" /\ "list mirrors" \in S
  /\ p.cmd \in {"run", "verify", "cutover"} /\ (p.cmd = "run" => s # "prerequisites") =>
       "deleteClients" \in S \/ "keep" \in p.opts
  /\ p.cmd = "run" /\ s # "prerequisites" /\ "keep" \notin p.opts =>
       /\ {"uninstall mirror", "delete CR", "uninstall source", "delete topics", "delete secrets", "delete files"}
            \subseteq S
       /\ "namespace" \in p.made => "delete namespace" \in S

LEMMA CleanUpSteps ==
  ASSUME NEW p, NEW s
  PROVE  Cleans(p, s, ToSet(CleanUp(p, s)))
<1>0. \A S : Cleans(p, s, S) => Cleans(p, s, ToSet(CleanUp(p, s)))
  BY DEF Cleans, Holds
<1> SUFFICES \E S : Cleans(p, s, S)
  BY <1>0
<1>1. Holds(<<>>, {}) /\ Holds(<<"deleteClients">>, {"deleteClients"})
  BY NoStep, OneStep DEF Steps, Teardown
<1>2. CASE p.cmd = "run" /\ s # "prerequisites" /\ "keep" \notin p.opts
  <2> DEFINE known == discoveryFromLab(p)
  <2>1. CleanUp(p, s) = <<"deleteClients">> \o labDown(known)
    BY <1>2 DEF CleanUp
  <2>2. "mirror" \in known /\ "source" \in known /\ ("namespace" \in p.made => "namespace" \in known)
    BY DEF discoveryFromLab
  <2> HIDE DEF known
  <2>3. \A x \in {"deleteClients"}, y \in Removed(known) : y \notin NotAfter(x)
    BY DEF NotAfter, Removed
  <2>4. Holds(CleanUp(p, s), {"deleteClients"} \cup Removed(known))
    BY <1>1, <2>1, <2>3, DownSteps, Joined
  <2>5. Cleans(p, s, {"deleteClients"} \cup Removed(known))
    BY <1>2, <2>2, <2>4 DEF Cleans, Removed, Teardown
  <2> QED BY <2>5
<1>3. CASE p.cmd = "run" /\ (s = "prerequisites" \/ "keep" \in p.opts)
  <2>1. CleanUp(p, s) = IF s = "prerequisites" THEN <<>> ELSE <<"deleteClients">>
    BY <1>3 DEF CleanUp
  <2> QED BY <1>1, <1>3, <2>1 DEF Cleans, Teardown
<1>4. CASE p.cmd # "run"
  <2>1. CleanUp(p, s) = IF (p.cmd = "verify" /\ "keep" \notin p.opts) \/ p.cmd = "cutover"
                        THEN <<"deleteClients">> ELSE <<>>
    BY <1>4 DEF CleanUp
  <2> QED BY <1>1, <1>4, <2>1 DEF Cleans, Teardown
<1> QED BY <1>2, <1>3, <1>4

-----------------------------------------------------------------------------
(* How a command moves on: q is p after a step, or after its phases *)

Fields(p, q) ==
  /\ q.cmd = p.cmd /\ q.opts = p.opts /\ q.clients = p.clients /\ q.made = p.made /\ q.ns0 = p.ns0
  /\ q.shared = p.shared /\ q.consent = p.consent /\ q.mirrors = p.mirrors /\ q.frozen = p.frozen
  /\ p.bad => q.bad
  /\ p.dirty => q.dirty

\* The step at the head of p is done with, and what it was for is done, or is remembered not to be.
Popped(p, q) == Fields(p, q) /\ p.todo # <<>> /\ q.todo = Tail(p.todo) /\ q.stage = p.stage

Undone(l, s, w, by) ==
  \/ s = "uninstall mirror" /\ w.rel
  \/ s = "delete CR" /\ w.cr
  \/ s = "uninstall source" /\ w.src
  \/ s = "delete topics" /\ by = l
  \/ s = "delete secrets" /\ w.secret
  \/ s = "delete namespace" /\ w.ns # "none"
  \/ s = "delete files" /\ w.files

MayPass(l, p, q, w, by, h, s) ==
  /\ s = "prerequisites" /\ Alone(l) => by \in {"none", l}
  /\ s = "guard" => p.consent \/ TopicOf[l] \notin h
  /\ s = "list mirrors" => p.shared \/ p.mirrors = {}
  /\ s = "deleteClients" => ~w.pods \/ w.left
  /\ s = "delete CR" /\ w.cr => q.bad
  /\ p.cmd = "run" /\ Undone(l, s, w, by) => q.dirty

LEMMA AheadOf ==
  ASSUME NEW p \in Procs, NEW q \in Procs, Popped(p, q), Program1(p)
  PROVE  /\ Head(p.todo) \in Ahead(p) /\ Ahead(p) = {Head(p.todo)} \cup Ahead(q)
         /\ Ordered(q.todo) /\ "prerequisites" \notin Ahead(q)
         /\ Head(p.todo) = "delete topics" => "list mirrors" \notin Ahead(q) /\ "delete CR" \notin Ahead(q)
         /\ Head(p.todo) = "source stopped" => Ahead(q) \cap {"mirror", "cutover", "rollback"} = {}
<1>1. p.todo \in Seq(Steps) /\ p.todo # <<>> /\ q.todo = Tail(p.todo) /\ Ordered(p.todo)
  BY DEF Procs, Popped, Program1
<1>2. ToSet(p.todo) = {Head(p.todo)} \cup ToSet(q.todo)
  BY <1>1, TailSteps
<1>3. Ordered(q.todo) /\ ToSet(q.todo) \cap NotAfter(Head(p.todo)) = {}
  BY <1>1, TailOrdered
<1> QED BY <1>2, <1>3 DEF Ahead, NotAfter

LEMMA Move ==
  ASSUME NEW l \in Labs, NEW p \in Procs, NEW q \in Procs, NEW w \in Worlds, NEW by \in Owners, NEW h, NEW e,
         LabInv(l, p, w, by, h, e), Popped(p, q), MayPass(l, p, q, w, by, h, Head(p.todo))
  PROVE  LabInv(l, q, w, by, h, e)
<1> DEFINE s == Head(p.todo)
<1>1. /\ s \in Ahead(p) /\ Ahead(p) = {s} \cup Ahead(q) /\ Ordered(q.todo) /\ "prerequisites" \notin Ahead(q)
      /\ s = "delete topics" => "list mirrors" \notin Ahead(q) /\ "delete CR" \notin Ahead(q)
      /\ s = "source stopped" => Ahead(q) \cap {"mirror", "cutover", "rollback"} = {}
  BY AheadOf DEF LabInv
<1>2. Fields(p, q) /\ q.stage = p.stage /\ MayPass(l, p, q, w, by, h, s) /\ p.cmd # "none"
  BY DEF Popped, LabInv, Program1
<1>3. s = Head(p.todo)
  OBVIOUS
<1> HIDE DEF s
<1>4. Program1(q)
  BY <1>1, <1>2 DEF LabInv, Program1, Fields
<1>5. Clients(q, w)
  BY <1>1, <1>2 DEF LabInv, Clients, Fields, MayPass
<1>6. Reported(w) /\ Frozen(q, w)
  BY <1>1, <1>2 DEF LabInv, Frozen, Fields
<1>7. Listed(q)
  BY <1>1, <1>2 DEF LabInv, Listed, Fields, MayPass
<1>8. Tidy(l, q, w, by)
  BY <1>1, <1>2 DEF LabInv, Tidy, Fields, MayPass, Undone, Program1, Worlds
<1>9. Rested(l, q, w, by, e)
  BY <1>2 DEF Rested, Fields
<1>10. Owner(l, q, w, by)
  BY <1>1, <1>2 DEF LabInv, Owner, Fields, MayPass
<1>11. DownSpares(l, q, w, h)
  BY <1>1, <1>2, <1>3 DEF LabInv, DownSpares, Fields, MayPass, Program1
<1>12. RunSpares(l, q, by, h)
  BY <1>1, <1>2 DEF LabInv, RunSpares, Fields, MayPass
<1> QED BY <1>4, <1>5, <1>6, <1>7, <1>8, <1>9, <1>10, <1>11, <1>12 DEF LabInv

\* The phases are over, by the failure of step s or well, and the clean-up begins.
Cleaned(p, q, s) == Fields(p, q) /\ p.stage = "phases" /\ q.stage = "cleanup" /\ q.todo = CleanUp(p, s)

LEMMA EmptyAhead ==
  ASSUME NEW p, p.todo = <<>>
  PROVE  Ahead(p) = {}
BY NoStep DEF Ahead, Holds

LEMMA Break ==
  ASSUME NEW l \in Labs, NEW p \in Procs, NEW q \in Procs, NEW w \in Worlds, NEW by \in Owners, NEW h, NEW e, NEW s,
         LabInv(l, p, w, by, h, e), p.cmd # "none", Cleaned(p, q, s),
         IF s = "prerequisites" THEN q.dirty /\ s \in Ahead(p) ELSE "prerequisites" \notin Ahead(p),
         p.cmd = "down" => q.bad \/ p.todo = <<>>
  PROVE  LabInv(l, q, w, by, h, e)
<1>1. Cleans(p, s, Ahead(q))
  BY CleanUpSteps DEF Cleaned, Ahead
<1>2. Ordered(q.todo) /\ Fields(p, q) /\ p.stage = "phases" /\ q.stage = "cleanup"
  BY <1>1 DEF Cleaned, Cleans, Holds
<1>3. /\ "mirror" \notin Ahead(q) /\ "clients" \notin Ahead(q) /\ "prerequisites" \notin Ahead(q)
      /\ "cutover" \notin Ahead(q) /\ "rollback" \notin Ahead(q) /\ Ahead(q) \subseteq Teardown
  BY <1>1 DEF Cleans, Teardown
<1>4. Program1(q)
  BY <1>1, <1>2, <1>3 DEF LabInv, Program1, Fields, Cleans
<1>5. Clients(q, w)
  BY <1>1, <1>2, <1>3 DEF LabInv, Clients, Fields, Cleans
<1>6. Reported(w) /\ Frozen(q, w)
  BY <1>2, <1>3 DEF LabInv, Frozen, Fields
<1>7. Listed(q)
  BY <1>1, <1>2 DEF Listed, Cleans
<1>8. Tidy(l, q, w, by)
  BY <1>1, <1>2 DEF LabInv, Tidy, Fields, Cleans, Worlds
<1>9. Rested(l, q, w, by, e)
  BY <1>2 DEF Rested, Fields
<1>10. Owner(l, q, w, by)
  BY <1>1, <1>2, <1>3 DEF LabInv, Owner, Fields
<1>11. DownSpares(l, q, w, h)
  BY <1>1, <1>2, EmptyAhead DEF LabInv, DownSpares, Fields, Cleans
<1>12. RunSpares(l, q, by, h)
  BY <1>1, <1>2 DEF LabInv, RunSpares, Fields, Cleans
<1> QED BY <1>4, <1>5, <1>6, <1>7, <1>8, <1>9, <1>10, <1>11, <1>12 DEF LabInv

-----------------------------------------------------------------------------
(* From one lab's invariant to the system's *)

\* A step of lab l that leaves the topics alone.
LEMMA LocalStep ==
  ASSUME IInv, NEW l \in Labs, NEW q \in Procs, NEW w \in Worlds, NEW h \in SUBSET Topics, NEW e \in Outcomes,
         pr' = [pr EXCEPT ![l] = q], world' = [world EXCEPT ![l] = w], held' = [held EXCEPT ![l] = h],
         last' = [last EXCEPT ![l] = e], UNCHANGED <<topic, ckpt, cut, lost>>,
         \A t \in h : topic[t].data, LabInv(l, q, w, Mine(l).by, h, e)
  PROVE  IInv'
<1>1. TypeInv'
  BY DEF IInv, TypeInv
<1>2. RecordsInv'
  BY DEF IInv, TypeInv, RecordsInv
<1>3. ASSUME NEW m \in Labs PROVE LabInv(m, pr[m], world[m], Mine(m).by, held[m], last[m])'
  <2>1. CASE m = l
    <3>1. pr'[m] = q /\ world'[m] = w /\ held'[m] = h /\ last'[m] = e /\ Mine(m)' = Mine(l)
      BY <2>1 DEF IInv, TypeInv, Mine
    <3> QED BY <2>1, <3>1
  <2>2. CASE m # l
    <3>1. pr'[m] = pr[m] /\ world'[m] = world[m] /\ held'[m] = held[m] /\ last'[m] = last[m] /\ Mine(m)' = Mine(m)
      BY <2>2 DEF IInv, TypeInv, Mine
    <3>2. LabInv(m, pr[m], world[m], Mine(m).by, held[m], last[m])
      BY DEF IInv, LabsInv
    <3> QED BY <3>1, <3>2
  <2> QED BY <2>1, <2>2
<1> QED BY <1>1, <1>2, <1>3 DEF IInv, LabsInv

Idles == UNCHANGED <<topic, held, last, ckpt, cut, lost>>

LEMMA IdlesIs ==
  ASSUME IInv, NEW l \in Labs, Idles
  PROVE  /\ held' = [held EXCEPT ![l] = held[l]] /\ last' = [last EXCEPT ![l] = last[l]]
         /\ held[l] \in SUBSET Topics /\ last[l] \in Outcomes /\ Mine(l).by \in Owners
         /\ pr[l] \in Procs /\ world[l] \in Worlds
         /\ \A t \in held[l] : topic[t].data
         /\ LabInv(l, pr[l], world[l], Mine(l).by, held[l], last[l])
<1>1. TypeInv /\ RecordsInv /\ LabsInv
  BY DEF IInv
<1>2. held' = held /\ last' = last
  BY DEF Idles
<1>3. TopicOf[l] \in Topics
  BY LabAssumption
<1> QED BY <1>1, <1>2, <1>3 DEF TypeInv, RecordsInv, LabsInv, Mine

\* What lab l knows and has before its step s is done with: p and w.
Ready(l, p, w, s) ==
  /\ p \in Procs /\ w \in Worlds /\ p.todo # <<>> /\ Head(p.todo) = s
  /\ LabInv(l, p, w, Mine(l).by, held[l], last[l])
  /\ world' = [world EXCEPT ![l] = w] /\ Idles

LEMMA StepPasses ==
  ASSUME IInv, NEW l \in Labs, NEW p, NEW w, NEW s, Ready(l, p, w, s), Advance(l, p),
         MayPass(l, p, p, w, Mine(l).by, held[l], s)
  PROVE  IInv'
<1> DEFINE q == [p EXCEPT !.todo = Tail(@)]
<1>1. p.todo \in Seq(Steps) /\ Tail(p.todo) \in Seq(Steps)
  BY TailSteps DEF Ready, Procs
<1>2. q \in Procs /\ Popped(p, q) /\ q.bad = p.bad /\ q.dirty = p.dirty
  BY <1>1 DEF Ready, Procs, Popped, Fields
<1>3. pr' = [pr EXCEPT ![l] = q]
  BY DEF Advance
<1> HIDE DEF q
<1>4. MayPass(l, p, q, w, Mine(l).by, held[l], s)
  BY <1>2 DEF MayPass
<1>5. LabInv(l, q, w, Mine(l).by, held[l], last[l])
  BY <1>2, <1>4, Move, IdlesIs DEF Ready
<1>6. /\ held' = [held EXCEPT ![l] = held[l]] /\ last' = [last EXCEPT ![l] = last[l]]
      /\ held[l] \in SUBSET Topics /\ last[l] \in Outcomes /\ \A t \in held[l] : topic[t].data
      /\ w \in Worlds /\ world' = [world EXCEPT ![l] = w] /\ UNCHANGED <<topic, ckpt, cut, lost>>
  BY IdlesIs DEF Ready, Idles
<1> QED BY <1>2, <1>3, <1>5, <1>6, LocalStep

LEMMA StepFails ==
  ASSUME IInv, NEW l \in Labs, NEW p, NEW w, NEW s, Ready(l, p, w, s), Failed(l, s, p),
         s # "deleteClients", s = "list mirrors" => p.shared
  PROVE  IInv'
<1>1. p.todo \in Seq(Steps) /\ Tail(p.todo) \in Seq(Steps)
  BY TailSteps DEF Ready, Procs
<1>2. Program1(p) /\ p.cmd # "none"
  BY DEF Ready, LabInv, Program1
<1>3. CASE s \in Optional \cup Teardown
  <2> DEFINE q == [[p EXCEPT !.bad = TRUE, !.dirty = @ \/ s \in Teardown] EXCEPT !.todo = Tail(@)]
  <2>1. pr' = [pr EXCEPT ![l] = q]
    BY <1>3 DEF Failed, Advance
  <2>2. q \in Procs /\ Popped(p, q) /\ q.bad /\ (s \in Teardown => q.dirty)
    BY <1>1 DEF Ready, Procs, Popped, Fields
  <2> HIDE DEF q
  <2>3. MayPass(l, p, q, w, Mine(l).by, held[l], s)
    BY <1>3, <2>2 DEF MayPass, Undone, Teardown, Optional
  <2>4. LabInv(l, q, w, Mine(l).by, held[l], last[l])
    BY <2>2, <2>3, Move, IdlesIs DEF Ready
  <2> QED BY <2>1, <2>2, <2>4, LocalStep, IdlesIs DEF Ready, Idles
<1>4. CASE s \notin Optional \cup Teardown
  <2> DEFINE q == [p EXCEPT !.bad = TRUE, !.dirty = @ \/ s = "prerequisites",
                            !.stage = "cleanup", !.todo = CleanUp(p, s)]
             r == [p EXCEPT !.todo = Tail(@)]
  <2>1. pr' = [pr EXCEPT ![l] = q]
    BY <1>4 DEF Failed
  <2>2. CleanUp(p, s) \in Seq(Steps)
    BY CleanUpSteps DEF Cleans, Holds
  <2>3. r \in Procs /\ Popped(p, r)
    BY <1>1 DEF Ready, Procs, Popped, Fields
  <2> HIDE DEF r
  <2>4. s \in Ahead(p) /\ (s # "prerequisites" => "prerequisites" \notin Ahead(p))
    BY <1>2, <2>3, AheadOf DEF Ready
  <2>5. p.stage = "phases"
    BY <1>2, <1>4, <2>4 DEF Program1, Ready, Procs
  <2>6. q \in Procs /\ Cleaned(p, q, s) /\ q.bad /\ (s = "prerequisites" => q.dirty)
    BY <2>2, <2>5 DEF Ready, Procs, Cleaned, Fields
  <2> HIDE DEF q
  <2>7. LabInv(l, q, w, Mine(l).by, held[l], last[l])
    BY <1>2, <2>4, <2>6, Break, IdlesIs DEF Ready
  <2> QED BY <2>1, <2>6, <2>7, LocalStep, IdlesIs DEF Ready, Idles
<1> QED BY <1>3, <1>4

-----------------------------------------------------------------------------
(* What a step changes before it is done with: q and v are what p and w become *)

Edited(p, q) ==
  /\ q.cmd = p.cmd /\ q.todo = p.todo /\ q.stage = p.stage /\ q.opts = p.opts /\ q.ns0 = p.ns0
  /\ p.bad => q.bad
  /\ p.dirty => q.dirty

\* A phase makes something.
Builds(p, q, w, v) ==
  /\ Edited(p, q) /\ p.stage = "phases" /\ p.cmd # "none"
  /\ q.shared = p.shared /\ q.consent = p.consent /\ q.mirrors = p.mirrors /\ q.frozen = p.frozen
  /\ q.clients => p.clients \/ ("clients" \in Ahead(p) /\ "prerequisites" \notin Ahead(p))
  /\ v.pods => q.clients \/ v.left
  /\ ~q.dirty => v.ns = "none" \/ "namespace" \in q.made \/ (v.ns = w.ns /\ q.made = p.made)
  /\ Reported(v)
  /\ p.frozen => v.want = w.want /\ v.conn = w.conn
  /\ v.cr => w.cr \/ ("mirror" \in Ahead(p) /\ "prerequisites" \notin Ahead(p))

LEMMA Build ==
  ASSUME NEW l \in Labs, NEW p \in Procs, NEW q \in Procs, NEW w \in Worlds, NEW v \in Worlds, NEW by, NEW h, NEW e,
         LabInv(l, p, w, by, h, e), Builds(p, q, w, v)
  PROVE  LabInv(l, q, v, by, h, e)
<1>1. Ahead(q) = Ahead(p) /\ Edited(p, q)
  BY DEF Builds, Edited, Ahead
<1>2. Program1(q)
  BY <1>1 DEF LabInv, Program1, Builds, Edited
<1>3. Clients(q, v)
  BY <1>1 DEF LabInv, Clients, Builds, Edited, Program1
<1>4. Reported(v) /\ Frozen(q, v)
  BY <1>1 DEF LabInv, Frozen, Builds
<1>5. Listed(q)
  BY <1>1 DEF LabInv, Listed, Builds
<1>6. Tidy(l, q, v, by) /\ Rested(l, q, v, by, e)
  BY <1>1 DEF LabInv, Tidy, Rested, Builds, Edited
<1>7. Owner(l, q, v, by)
  BY <1>1 DEF LabInv, Owner, Builds
<1>8. DownSpares(l, q, v, h)
  BY <1>1 DEF LabInv, DownSpares, Builds, Edited, Program1
<1>9. RunSpares(l, q, by, h)
  BY <1>1 DEF LabInv, RunSpares, Edited
<1> QED BY <1>2, <1>3, <1>4, <1>5, <1>6, <1>7, <1>8, <1>9 DEF LabInv

\* A teardown takes something away.
Takes(p, w, v) ==
  /\ v.rel => w.rel
  /\ v.cr => w.cr
  /\ v.src => w.src
  /\ v.secret => w.secret
  /\ v.files => w.files
  /\ v.ns \in {w.ns, "none"}
  /\ v.pods => w.pods
  /\ w.left => v.left
  /\ Reported(v)
  /\ v.want = w.want /\ v.conn \in {w.conn, "none"}

LEMMA Take ==
  ASSUME NEW l \in Labs, NEW p \in Procs, NEW w \in Worlds, NEW v \in Worlds, NEW by, NEW h, NEW e,
         LabInv(l, p, w, by, h, e), Takes(p, w, v)
  PROVE  LabInv(l, p, v, by, h, e)
<1>1. Clients(p, v)
  BY DEF LabInv, Clients, Takes
<1>2. Reported(v) /\ Frozen(p, v)
  BY DEF LabInv, Frozen, Takes
<1>3. Tidy(l, p, v, by) /\ Rested(l, p, v, by, e)
  BY DEF LabInv, Tidy, Rested, Takes
<1>4. Owner(l, p, v, by)
  BY DEF LabInv, Owner, Takes
<1>5. DownSpares(l, p, v, h)
  BY DEF LabInv, DownSpares, Takes
<1> QED BY <1>1, <1>2, <1>3, <1>4, <1>5 DEF LabInv

\* A command learns something, which changes nothing outside of it.
Learns(p, q, w) ==
  /\ Edited(p, q) /\ q.clients = p.clients /\ q.made = p.made
  /\ p.consent => q.consent
  /\ "list mirrors" \in Ahead(p) \/ (q.shared = p.shared /\ q.mirrors = p.mirrors)
  /\ q.frozen => p.frozen \/ (/\ w.want = "STOPPED" /\ w.conn # "RUNNING" /\ p.cmd # "none"
                              /\ Ahead(p) \cap {"mirror", "cutover", "rollback"} = {})

LEMMA Learn ==
  ASSUME NEW l \in Labs, NEW p \in Procs, NEW q \in Procs, NEW w \in Worlds, NEW by, NEW h, NEW e,
         LabInv(l, p, w, by, h, e), Learns(p, q, w)
  PROVE  LabInv(l, q, w, by, h, e)
<1>1. Ahead(q) = Ahead(p) /\ Edited(p, q)
  BY DEF Learns, Edited, Ahead
<1>2. Program1(q)
  BY <1>1 DEF LabInv, Program1, Learns, Edited
<1>3. Clients(q, w)
  BY <1>1 DEF LabInv, Clients, Learns, Edited
<1>4. Reported(w) /\ Frozen(q, w)
  BY <1>1 DEF LabInv, Frozen, Learns
<1>5. Listed(q)
  BY <1>1 DEF LabInv, Listed, Learns
<1>6. Tidy(l, q, w, by) /\ Rested(l, q, w, by, e)
  BY <1>1 DEF LabInv, Tidy, Rested, Learns, Edited
<1>7. Owner(l, q, w, by)
  BY <1>1 DEF LabInv, Owner
<1>8. DownSpares(l, q, w, h)
  BY <1>1 DEF LabInv, DownSpares, Learns, Edited
<1>9. RunSpares(l, q, by, h)
  BY <1>1 DEF LabInv, RunSpares, Edited
<1> QED BY <1>2, <1>3, <1>4, <1>5, <1>6, <1>7, <1>8, <1>9 DEF LabInv

\* A topic has a new owner, or none, and what was found in it may be gone.
LEMMA NewOwner ==
  ASSUME NEW m \in Labs, NEW p, NEW w, NEW by, NEW h, NEW e, LabInv(m, p, w, by, h, e),
         NEW by2, NEW h2, by2 # m, h2 \subseteq h, TopicOf[m] \in h2 => by2 # "none", Alone(m) => by2 = "none"
  PROVE  LabInv(m, p, w, by2, h2, e)
<1>1. Tidy(m, p, w, by2) /\ Rested(m, p, w, by2, e)
  BY DEF LabInv, Tidy, Rested
<1>2. Owner(m, p, w, by2) /\ DownSpares(m, p, w, h2) /\ RunSpares(m, p, by2, h2)
  BY DEF LabInv, Owner, DownSpares, RunSpares
<1> QED BY <1>1, <1>2 DEF LabInv

LEMMA FewerHeld ==
  ASSUME NEW m \in Labs, NEW p, NEW w, NEW by, NEW h, NEW e, LabInv(m, p, w, by, h, e), NEW h2, h2 \subseteq h
  PROVE  LabInv(m, p, w, by, h2, e)
BY DEF LabInv, DownSpares, RunSpares

\* A step of lab l that may change its topic, and what other labs remember of it.
LEMMA TopicStep ==
  ASSUME IInv, NEW l \in Labs, NEW q \in Procs, NEW w \in Worlds, NEW r \in [by : Owners, data : BOOLEAN],
         NEW e \in Outcomes,
         pr' = [pr EXCEPT ![l] = q], world' = [world EXCEPT ![l] = w], last' = [last EXCEPT ![l] = e],
         topic' = [topic EXCEPT ![TopicOf[l]] = r], held' \in [Labs -> SUBSET Topics],
         \A m \in Labs \ {l} : held'[m] \subseteq held[m],
         ckpt' \in BOOLEAN, cut' = FALSE, lost' \subseteq SharedTopics, RecordsInv',
         LabInv(l, q, w, r.by, held'[l], e),
         \/ r.by = Mine(l).by
         \/ \A m \in Labs \ {l} : TopicOf[m] = TopicOf[l] =>
                r.by # m /\ (TopicOf[m] \in held'[m] => r.by # "none")
  PROVE  IInv'
<1>0. TopicOf \in [Labs -> Topics]
  BY LabAssumption
<1>1. TypeInv'
  BY <1>0 DEF IInv, TypeInv
<1>2. ASSUME NEW m \in Labs PROVE LabInv(m, pr'[m], world'[m], topic'[TopicOf[m]].by, held'[m], last'[m])
  <2>1. CASE m = l
    <3>1. pr'[m] = q /\ world'[m] = w /\ last'[m] = e /\ topic'[TopicOf[m]] = r
      BY <1>0, <2>1 DEF IInv, TypeInv
    <3> QED BY <2>1, <3>1
  <2>2. CASE m # l
    <3>1. pr'[m] = pr[m] /\ world'[m] = world[m] /\ last'[m] = last[m] /\ held'[m] \subseteq held[m]
      BY <2>2 DEF IInv, TypeInv
    <3>2. LabInv(m, pr[m], world[m], Mine(m).by, held[m], last[m])
      BY DEF IInv, LabsInv
    <3>3. CASE TopicOf[m] # TopicOf[l] \/ r.by = Mine(l).by
      <4>1. topic'[TopicOf[m]].by = Mine(m).by
        BY <1>0, <3>3 DEF IInv, TypeInv, Mine
      <4>2. LabInv(m, pr[m], world[m], Mine(m).by, held'[m], last[m])
        BY <3>1, <3>2, FewerHeld
      <4> QED BY <3>1, <4>1, <4>2
    <3>4. CASE TopicOf[m] = TopicOf[l] /\ r.by # Mine(l).by
      <4>1. topic'[TopicOf[m]] = r /\ r.by # m /\ (TopicOf[m] \in held'[m] => r.by # "none") /\ ~Alone(m)
        BY <1>0, <2>2, <3>4 DEF IInv, TypeInv, Alone
      <4>2. LabInv(m, pr[m], world[m], r.by, held'[m], last[m])
        BY <3>1, <3>2, <4>1, NewOwner
      <4> QED BY <3>1, <4>1, <4>2
    <3> QED BY <3>3, <3>4
  <2> QED BY <2>1, <2>2
<1>3. LabsInv'
  BY <1>2 DEF LabsInv, Mine
<1> QED BY <1>1, <1>3 DEF IInv
-----------------------------------------------------------------------------
(* The phases *)

LEMMA Now ==
  ASSUME IInv, NEW l \in Labs, NEW s, Next1(l, s)
  PROVE  /\ pr[l] \in Procs /\ world[l] \in Worlds /\ pr[l].todo # <<>> /\ Head(pr[l].todo) = s
         /\ Mine(l).by \in Owners /\ held[l] \in SUBSET Topics
         /\ LabInv(l, pr[l], world[l], Mine(l).by, held[l], last[l])
         /\ pr[l].cmd # "none" /\ s \in Ahead(pr[l])
         /\ s \notin Teardown => pr[l].stage = "phases"
         /\ s # "prerequisites" => "prerequisites" \notin Ahead(pr[l])
         /\ s = "source stopped" => Ahead(pr[l]) \cap {"mirror", "cutover", "rollback"} = {}
         /\ s = "delete topics" => "list mirrors" \notin Ahead(pr[l])
<1> DEFINE p == pr[l]
           r == [p EXCEPT !.todo = Tail(@)]
<1>1. TypeInv /\ LabsInv /\ TopicOf[l] \in Topics
  BY LabAssumption DEF IInv
<1>2. p \in Procs /\ world[l] \in Worlds /\ LabInv(l, p, world[l], Mine(l).by, held[l], last[l])
  BY <1>1 DEF TypeInv, LabsInv
<1>3. Mine(l).by \in Owners /\ held[l] \in SUBSET Topics
  BY <1>1 DEF TypeInv, Mine
<1>4. p.todo # <<>> /\ Head(p.todo) = s
  BY DEF Next1
<1> HIDE DEF p
<1>5. p.todo \in Seq(Steps) /\ Tail(p.todo) \in Seq(Steps)
  BY <1>2, <1>4, TailSteps DEF Procs
<1>6. r \in Procs /\ Popped(p, r)
  BY <1>2, <1>4, <1>5 DEF Procs, Popped, Fields
<1> HIDE DEF r
<1>7. p.cmd # "none" /\ Program1(p)
  BY <1>2, <1>4 DEF LabInv, Program1
<1>8. /\ s \in Ahead(p) /\ (s # "prerequisites" => "prerequisites" \notin Ahead(p))
      /\ s = "source stopped" => Ahead(p) \cap {"mirror", "cutover", "rollback"} = {}
      /\ s = "delete topics" => "list mirrors" \notin Ahead(p)
  <2>1. /\ s \in Ahead(p) /\ Ahead(p) = {s} \cup Ahead(r) /\ "prerequisites" \notin Ahead(r)
        /\ s = "delete topics" => "list mirrors" \notin Ahead(r)
        /\ s = "source stopped" => Ahead(r) \cap {"mirror", "cutover", "rollback"} = {}
    BY <1>2, <1>4, <1>6, <1>7, AheadOf
  <2> QED BY <2>1
<1>9. s \notin Teardown => p.stage = "phases"
  BY <1>2, <1>7, <1>8 DEF Program1, Procs
<1> QED BY <1>2, <1>3, <1>4, <1>7, <1>8, <1>9 DEF p

\* A phase that only looks.
LEMMA LooksStep ==
  ASSUME IInv, NEW l \in Labs, NEW s, Next1(l, s), Idles, UNCHANGED world,
         s \notin {"prerequisites", "guard"} \cup Teardown, Passed(l) \/ Failed(l, s, pr[l])
  PROVE  IInv'
<1>1. Ready(l, pr[l], world[l], s)
  BY Now DEF Ready, IInv, TypeInv
<1>2. MayPass(l, pr[l], pr[l], world[l], Mine(l).by, held[l], s)
  BY DEF MayPass, Undone, Teardown
<1>3. CASE Passed(l)
  BY <1>1, <1>2, <1>3, StepPasses DEF Passed
<1>4. CASE Failed(l, s, pr[l])
  BY <1>1, <1>4, StepFails DEF Teardown
<1> QED BY <1>3, <1>4

LEMMA PrerequisitesStep ==
  ASSUME IInv, NEW l \in Labs, phasePrerequisites(l)
  PROVE  IInv'
<1> DEFINE s == "prerequisites"
<1>1. Next1(l, s) /\ Idles /\ UNCHANGED world
  BY DEF phasePrerequisites, Same, Idles
<1>2. Ready(l, pr[l], world[l], s)
  BY <1>1, Now DEF Ready, IInv, TypeInv
<1>3. CASE Failed(l, s, pr[l])
  BY <1>2, <1>3, StepFails
<1>4. CASE Passed(l) /\ (Mine(l).by = "none" \/ world[l].cr)
  <2>1. Alone(l) => Mine(l).by \in {"none", l}
    BY <1>1, <1>4, Now DEF LabInv, Owner
  <2>2. MayPass(l, pr[l], pr[l], world[l], Mine(l).by, held[l], s)
    BY <2>1 DEF MayPass, Undone
  <2> QED BY <1>2, <1>4, <2>2, StepPasses DEF Passed
<1> QED BY <1>3, <1>4 DEF phasePrerequisites, refuseExistingTopics

\* A phase that makes something, of which a failure leaves a part.
LEMMA BuildsStep ==
  ASSUME IInv, NEW l \in Labs, NEW s, Next1(l, s), Idles, s \notin {"prerequisites", "guard"} \cup Teardown,
         NEW q \in Procs, NEW v \in Worlds, Builds(pr[l], q, world[l], v), World(l, v),
         Advance(l, q) \/ Failed(l, s, q)
  PROVE  IInv'
<1>1. LabInv(l, q, v, Mine(l).by, held[l], last[l])
  BY Now, Build
<1>2. q.todo = pr[l].todo
  BY DEF Builds, Edited
<1>3. Ready(l, q, v, s)
  BY <1>1, <1>2, Now DEF Ready, World
<1>4. MayPass(l, q, q, v, Mine(l).by, held[l], s)
  BY DEF MayPass, Undone, Teardown
<1>5. CASE Advance(l, q)
  BY <1>3, <1>4, <1>5, StepPasses
<1>6. CASE Failed(l, s, q)
  BY <1>3, <1>6, StepFails DEF Teardown
<1> QED BY <1>5, <1>6

\* A phase that only makes something the invariant does not ask about.
LEMMA SameBuilds ==
  ASSUME IInv, NEW l \in Labs, NEW s, Next1(l, s), s \notin Teardown, NEW v,
         v.pods = world[l].pods, v.left = world[l].left, v.ns = world[l].ns, v.cr = world[l].cr,
         v.want = world[l].want, v.conn = world[l].conn, v.status = world[l].status,
         v.seen = world[l].seen, v.observed = world[l].observed
  PROVE  Builds(pr[l], pr[l], world[l], v)
BY Now DEF Builds, Edited, LabInv, Clients, Reported

LEMMA CredentialStep ==
  ASSUME IInv, NEW l \in Labs, phaseCredential(l)
  PROVE  IInv'
<1> DEFINE v == [world[l] EXCEPT !.secret = TRUE]
<1>1. Next1(l, "credential") /\ Idles
  BY DEF phaseCredential, Same, Idles
<1>2. v \in Worlds /\ Builds(pr[l], pr[l], world[l], v) /\ pr[l] \in Procs
  BY <1>1, Now, SameBuilds DEF Worlds, Teardown
<1>3. CASE World(l, v) /\ Passed(l)
  BY <1>1, <1>2, <1>3, BuildsStep DEF Passed, Teardown
<1>4. CASE Failed(l, "credential", pr[l]) /\ UNCHANGED world
  BY <1>1, <1>4, LooksStep DEF Teardown
<1> QED BY <1>3, <1>4 DEF phaseCredential

LEMMA SeedStep ==
  ASSUME IInv, NEW l \in Labs, phaseSeed(l)
  PROVE  IInv'
<1> DEFINE v == [world[l] EXCEPT !.produced = TRUE]
<1>1. Next1(l, "seed") /\ Idles
  BY DEF phaseSeed, Same, Idles
<1>2. v \in Worlds /\ Builds(pr[l], pr[l], world[l], v) /\ pr[l] \in Procs
  BY <1>1, Now, SameBuilds DEF Worlds, Teardown
<1>3. CASE World(l, v) /\ Passed(l)
  BY <1>1, <1>2, <1>3, BuildsStep DEF Passed, Teardown
<1>4. CASE Failed(l, "seed", pr[l]) /\ UNCHANGED world
  BY <1>1, <1>4, LooksStep DEF Teardown
<1> QED BY <1>3, <1>4 DEF phaseSeed

LEMMA SourceStep ==
  ASSUME IInv, NEW l \in Labs, phaseSource(l)
  PROVE  IInv'
<1> DEFINE p == pr[l]
           w == world[l]
           made == [p EXCEPT !.made = @ \cup MadeNamespace(l)]
           unsure == [p EXCEPT !.dirty = TRUE]
           v == ensureLabNamespace(l)
<1>1. Next1(l, "source") /\ Idles
  BY DEF phaseSource, Same, Idles
<1>2. /\ p \in Procs /\ w \in Worlds /\ p.stage = "phases" /\ p.cmd # "none"
      /\ LabInv(l, p, w, Mine(l).by, held[l], last[l])
  <2>1. "source" \notin Teardown
    BY DEF Teardown
  <2> HIDE DEF made, unsure, v
  <2> QED BY <1>1, <2>1, Now
<1>3. /\ made \in Procs /\ Edited(p, made) /\ made.clients = p.clients /\ made.shared = p.shared
      /\ made.consent = p.consent /\ made.mirrors = p.mirrors /\ made.frozen = p.frozen
      /\ made.made = p.made \cup MadeNamespace(l)
  BY <1>2 DEF Procs, Edited, MadeNamespace
<1>4. /\ unsure \in Procs /\ Edited(p, unsure) /\ unsure.clients = p.clients /\ unsure.shared = p.shared
      /\ unsure.consent = p.consent /\ unsure.mirrors = p.mirrors /\ unsure.frozen = p.frozen /\ unsure.dirty
  BY <1>2 DEF Procs, Edited
<1>5. ASSUME NEW files \in BOOLEAN, NEW src \in BOOLEAN
      PROVE  LET u == [v EXCEPT !.files = files, !.src = src]
             IN  /\ u \in Worlds /\ Builds(p, made, w, u) /\ Builds(p, unsure, w, u)
  <2> DEFINE u == [v EXCEPT !.files = files, !.src = src]
  <2>1. /\ u \in Worlds /\ u.pods = w.pods /\ u.left = w.left /\ u.cr = w.cr /\ u.want = w.want /\ u.conn = w.conn
        /\ u.status = w.status /\ u.seen = w.seen /\ u.observed = w.observed
        /\ u.ns = IF w.ns = "none" THEN "owned" ELSE w.ns
    BY <1>2 DEF ensureLabNamespace, Worlds
  <2>2. "namespace" \in made.made \/ (u.ns = w.ns /\ made.made = p.made)
    BY <1>3, <2>1 DEF MadeNamespace
  <2>3. Reported(u) /\ (u.pods => p.clients \/ u.left)
    BY <1>2, <2>1 DEF LabInv, Reported, Clients
  <2> HIDE DEF made, unsure, u, v
  <2> QED BY <1>2, <1>3, <1>4, <2>1, <2>2, <2>3 DEF Builds, u
<1>6. v \in Worlds /\ v = [v EXCEPT !.files = v.files, !.src = v.src] /\ v.files \in BOOLEAN /\ v.src \in BOOLEAN
  BY <1>2 DEF ensureLabNamespace, Worlds
<1>7. Builds(p, unsure, w, v)
  BY <1>5, <1>6
<1>8. CASE UNCHANGED world /\ Failed(l, "source", p)
  BY <1>1, <1>8, LooksStep DEF Teardown
<1>9. CASE World(l, [v EXCEPT !.files = TRUE, !.src = TRUE]) /\ Advance(l, made)
  <2>1. PICK u \in Worlds : Builds(p, made, w, u) /\ World(l, u)
    BY <1>5, <1>9
  <2> QED BY <1>1, <1>3, <1>9, <2>1, BuildsStep DEF Teardown
<1>10. CASE World(l, v) /\ Failed(l, "source", unsure)
  BY <1>1, <1>4, <1>6, <1>7, <1>10, BuildsStep DEF Teardown
<1>11. CASE /\ \E files, src \in BOOLEAN :
                  (src => files) /\ World(l, [v EXCEPT !.files = @ \/ files, !.src = @ \/ src])
            /\ Failed(l, "source", made)
  <2>1. PICK files \in BOOLEAN : \E src \in BOOLEAN : World(l, [v EXCEPT !.files = @ \/ files, !.src = @ \/ src])
    BY <1>11
  <2>2. PICK src \in BOOLEAN : World(l, [v EXCEPT !.files = @ \/ files, !.src = @ \/ src])
    BY <2>1
  <2>3. (v.files \/ files) \in BOOLEAN /\ (v.src \/ src) \in BOOLEAN
    BY <1>6
  <2>4. PICK u \in Worlds : Builds(p, made, w, u) /\ World(l, u)
    <3> DEFINE u == [v EXCEPT !.files = v.files \/ files, !.src = v.src \/ src]
    <3>1. World(l, u)
      BY <2>2
    <3>2. u \in Worlds /\ Builds(p, made, w, u)
      BY <1>5, <2>3
    <3> QED BY <3>1, <3>2
  <2> QED BY <1>1, <1>3, <1>11, <2>4, BuildsStep DEF Teardown
<1> QED BY <1>8, <1>9, <1>10, <1>11 DEF phaseSource


LEMMA ReadStep ==
  ASSUME IInv, NEW l \in Labs, ReadPhase(l)
  PROVE  IInv'
<1>1. PICK s \in Reading : Next1(l, s) /\ ((UNCHANGED faults /\ Passed(l)) \/ (Fault /\ Failed(l, s, pr[l])))
  BY DEF ReadPhase
<1>2. UNCHANGED world /\ Idles
  BY DEF ReadPhase, Same, Idles
<1>3. s \notin {"prerequisites", "guard"} \cup Teardown
  BY DEF Reading, Teardown
<1> QED BY <1>1, <1>2, <1>3, LooksStep

LEMMA WaitStep ==
  ASSUME IInv, NEW l \in Labs,
         \/ waitConnectorsRunning(l)
         \/ RollbackApplied(l)
  PROVE  IInv'
<1>1. PICK s \in {"connectors running", "source running"} : \E reached \in BOOLEAN : Wait(l, s, reached)
  BY DEF waitConnectorsRunning, RollbackApplied, waitConnectorStates
<1>2. Next1(l, s) /\ UNCHANGED world /\ Idles /\ (Passed(l) \/ Failed(l, s, pr[l]))
  BY <1>1 DEF Wait, Same, Idles
<1>3. s \notin {"prerequisites", "guard"} \cup Teardown
  BY DEF Teardown
<1> QED BY <1>2, <1>3, LooksStep

LEMMA ReplicatedTopicStep ==
  ASSUME IInv, NEW l \in Labs, phaseReplicatedTopic(l)
  PROVE  IInv'
<1>1. /\ Next1(l, "replicated topic") /\ UNCHANGED world /\ Idles
      /\ Passed(l) \/ Failed(l, "replicated topic", pr[l])
  BY DEF phaseReplicatedTopic, Same, Idles
<1> QED BY <1>1, LooksStep DEF Teardown

\* A new spec: what was reported is of an older generation, unless the spec is what it was.
LEMMA NewSpec ==
  ASSUME NEW w \in Worlds, Reported(w), NEW want \in {"RUNNING", "STOPPED"}
  PROVE  /\ Spec1(w, want) \in Worlds /\ Reported(Spec1(w, want))
         /\ Spec1(w, want).conn = w.conn /\ Spec1(w, want).cr = w.cr /\ Spec1(w, want).ns = w.ns
         /\ Spec1(w, want).pods = w.pods /\ Spec1(w, want).left = w.left
<1> DEFINE v == Spec1(w, want)
           seen == w.seen /\ w.want = want
           observed == w.observed /\ w.want = want
<1>0. v = [w EXCEPT !.want = want, !.seen = seen, !.observed = observed] /\ seen \in BOOLEAN /\ observed \in BOOLEAN
  BY DEF Spec1
<1>1. /\ v \in Worlds /\ v.conn = w.conn /\ v.cr = w.cr /\ v.ns = w.ns /\ v.pods = w.pods /\ v.left = w.left
      /\ v.want = want /\ v.status = w.status
      /\ v.seen = seen /\ v.observed = observed
  <2> HIDE DEF v, seen, observed
  <2> QED BY <1>0 DEF Worlds
<1> HIDE DEF v
<1>2. Reported(v)
  BY <1>1 DEF Reported, Worlds
<1> QED BY <1>1, <1>2 DEF v

LEMMA InstallMirrorStep ==
  ASSUME IInv, NEW l \in Labs, InstallMirror(l)
  PROVE  IInv'
<1> DEFINE p == pr[l]
           w == world[l]
           u0 == [w EXCEPT !.files = TRUE]
           u1 == [w EXCEPT !.files = TRUE, !.rel = TRUE]
           u2 == [w EXCEPT !.files = TRUE, !.rel = TRUE, !.cr = TRUE]
           v == Spec1(u2, "RUNNING")
<1>1. Next1(l, "mirror") /\ Idles
  BY DEF InstallMirror, Same, Idles
<1>2. "mirror" \notin {"prerequisites", "guard"} \cup Teardown
  BY DEF Teardown
<1>3. /\ p \in Procs /\ w \in Worlds /\ LabInv(l, p, w, Mine(l).by, held[l], last[l])
      /\ p.cmd # "none" /\ "mirror" \in Ahead(p) /\ p.stage = "phases" /\ "prerequisites" \notin Ahead(p)
  <2> HIDE DEF u0, u1, u2, v
  <2> QED BY <1>1, <1>2, Now
<1>4. /\ u0 \in Worlds /\ u1 \in Worlds /\ Builds(p, p, w, u0) /\ Builds(p, p, w, u1)
  BY <1>1, <1>2, <1>3, SameBuilds DEF Worlds
<1>5. u2 \in Worlds /\ Reported(u2) /\ u2.ns = w.ns /\ u2.pods = w.pods /\ u2.left = w.left
  BY <1>3 DEF Worlds, LabInv, Reported
<1>6. v \in Worlds /\ Reported(v) /\ v.ns = w.ns /\ v.pods = w.pods /\ v.left = w.left
  <2> HIDE DEF u2
  <2> QED BY <1>5, NewSpec
<1>7. Builds(p, p, w, v)
  <2> HIDE DEF v
  <2>1. ~p.frozen /\ (w.pods => p.clients \/ w.left)
    BY <1>3 DEF LabInv, Frozen, Clients
  <2> QED BY <1>3, <1>6, <2>1 DEF Builds, Edited
<1>8. PICK x \in Worlds : Builds(p, p, w, x) /\ World(l, x) /\ (Advance(l, p) \/ Failed(l, "mirror", p))
  <2>1. \/ World(l, v) /\ Passed(l)
        \/ Failed(l, "mirror", p) /\ \E half \in {u0, u1, v} : World(l, half)
    BY DEF InstallMirror
  <2> HIDE DEF u0, u1, v
  <2> QED BY <1>4, <1>6, <1>7, <2>1 DEF Passed
<1> HIDE DEF u0, u1, u2, v
<1> QED BY <1>1, <1>2, <1>3, <1>8, BuildsStep

LEMMA HelmStep ==
  ASSUME IInv, NEW l \in Labs, applyCutover(l) \/ applyRollback(l)
  PROVE  IInv'
<1> DEFINE p == pr[l]
           w == world[l]
<1>1. PICK s \in {"cutover", "rollback"} : \E want \in {"RUNNING", "STOPPED"} : HelmMirror(l, s, want)
  BY DEF applyCutover, applyRollback
<1>2. PICK want \in {"RUNNING", "STOPPED"} : HelmMirror(l, s, want)
  BY <1>1
<1> DEFINE u == [w EXCEPT !.files = @ \/ s = "rollback"]
           v == Spec1(u, want)
<1>3. Next1(l, s) /\ Idles /\ s \notin {"prerequisites", "guard"} \cup Teardown
  BY <1>2 DEF HelmMirror, Same, Idles, Teardown
<1>4. /\ p \in Procs /\ w \in Worlds /\ LabInv(l, p, w, Mine(l).by, held[l], last[l])
      /\ p.cmd # "none" /\ s \in Ahead(p) /\ p.stage = "phases"
  <2> HIDE DEF u, v
  <2> QED BY <1>3, Now
<1>5. u \in Worlds /\ Builds(p, p, w, u)
  BY <1>3, <1>4, SameBuilds DEF Worlds
<1>6. Reported(u) /\ u.ns = w.ns /\ u.pods = w.pods /\ u.left = w.left /\ u.cr = w.cr
  BY <1>4, <1>5 DEF Builds, Worlds
<1>7. v \in Worlds /\ Reported(v) /\ v.ns = w.ns /\ v.pods = w.pods /\ v.left = w.left /\ v.cr = w.cr
  <2> HIDE DEF u
  <2> QED BY <1>5, <1>6, NewSpec
<1>8. Builds(p, p, w, v)
  <2> HIDE DEF v
  <2>1. ~p.frozen /\ (w.pods => p.clients \/ w.left)
    BY <1>4 DEF LabInv, Frozen, Clients
  <2> QED BY <1>4, <1>7, <2>1 DEF Builds, Edited
<1>9. PICK x \in Worlds : Builds(p, p, w, x) /\ World(l, x) /\ (Advance(l, p) \/ Failed(l, s, p))
  <2>1. \/ World(l, v) /\ Passed(l)
        \/ Failed(l, s, p) /\ \E half \in {u, v} : World(l, half)
    BY <1>2 DEF HelmMirror
  <2> HIDE DEF u, v
  <2> QED BY <1>5, <1>7, <1>8, <2>1 DEF Passed
<1> HIDE DEF u, v
<1> QED BY <1>3, <1>4, <1>9, BuildsStep

LEMMA ClientsStep ==
  ASSUME IInv, NEW l \in Labs, ensureClients(l)
  PROVE  IInv'
<1> DEFINE p == pr[l]
           w == world[l]
           q == [p EXCEPT !.clients = TRUE]
<1>1. Next1(l, "clients") /\ Idles /\ "clients" \notin {"prerequisites", "guard"} \cup Teardown
  BY DEF ensureClients, Same, Idles, Teardown
<1>2. /\ p \in Procs /\ w \in Worlds /\ LabInv(l, p, w, Mine(l).by, held[l], last[l])
      /\ p.cmd # "none" /\ "clients" \in Ahead(p) /\ p.stage = "phases" /\ "prerequisites" \notin Ahead(p)
  <2> HIDE DEF q
  <2> QED BY <1>1, Now
<1>3. /\ q \in Procs /\ Edited(p, q) /\ q.clients /\ q.made = p.made /\ q.shared = p.shared
      /\ q.consent = p.consent /\ q.mirrors = p.mirrors /\ q.frozen = p.frozen
  BY <1>2 DEF Procs, Edited
<1> HIDE DEF q
<1>4. ASSUME NEW pods \in BOOLEAN
      PROVE  [w EXCEPT !.pods = pods] \in Worlds /\ Builds(p, q, w, [w EXCEPT !.pods = pods])
  <2> DEFINE v == [w EXCEPT !.pods = pods]
  <2>1. /\ v \in Worlds /\ v.left = w.left /\ v.ns = w.ns /\ v.cr = w.cr /\ v.want = w.want /\ v.conn = w.conn
        /\ v.status = w.status /\ v.seen = w.seen /\ v.observed = w.observed
    BY <1>2 DEF Worlds
  <2>2. Reported(v)
    BY <1>2, <2>1 DEF LabInv, Reported
  <2> HIDE DEF v
  <2>3. Builds(p, q, w, v)
    BY <1>2, <1>3, <2>1, <2>2 DEF Builds
  <2> QED BY <2>1, <2>3 DEF v
<1>5. /\ Advance(l, q) \/ Failed(l, "clients", q)
      /\ \E pods \in BOOLEAN : World(l, [w EXCEPT !.pods = pods])
  <2>1. CASE World(l, [w EXCEPT !.pods = TRUE]) /\ (Advance(l, q) \/ Failed(l, "clients", q))
    BY <2>1
  <2>2. CASE Failed(l, "clients", q) /\ \E pods \in BOOLEAN : World(l, [w EXCEPT !.pods = @ \/ pods])
    <3>1. PICK pods \in BOOLEAN : World(l, [w EXCEPT !.pods = @ \/ pods])
      BY <2>2
    <3>2. (w.pods \/ pods) \in BOOLEAN
      BY <1>2 DEF Worlds
    <3> QED BY <2>2, <3>1, <3>2
  <2> QED BY <2>1, <2>2 DEF ensureClients, q
<1>6. PICK pods \in BOOLEAN : World(l, [w EXCEPT !.pods = pods])
  BY <1>5
<1>7. [w EXCEPT !.pods = pods] \in Worlds /\ Builds(p, q, w, [w EXCEPT !.pods = pods])
  BY <1>4
<1> QED BY <1>1, <1>3, <1>5, <1>6, <1>7, BuildsStep

\* A command that learns something and changes nothing else.
LEMMA LearnsStep ==
  ASSUME IInv, NEW l \in Labs, NEW s, Next1(l, s), Idles, UNCHANGED world,
         NEW q \in Procs, Learns(pr[l], q, world[l]), MayPass(l, q, q, world[l], Mine(l).by, held[l], s),
         Advance(l, q)
  PROVE  IInv'
<1>1. LabInv(l, q, world[l], Mine(l).by, held[l], last[l])
  BY Now, Learn
<1>2. q.todo = pr[l].todo
  BY DEF Learns, Edited
<1>3. Ready(l, q, world[l], s)
  BY <1>1, <1>2, Now DEF Ready, IInv, TypeInv
<1> QED BY <1>3, StepPasses

LEMMA CutoverAppliedStep ==
  ASSUME IInv, NEW l \in Labs, CutoverApplied(l)
  PROVE  IInv'
<1> DEFINE p == pr[l]
           w == world[l]
           q == [p EXCEPT !.frozen = TRUE]
<1>1. /\ Next1(l, "source stopped") /\ Idles /\ UNCHANGED world
      /\ "source stopped" \notin {"prerequisites", "guard"} \cup Teardown
  BY DEF CutoverApplied, Same, Idles, Teardown
<1>2. CASE Failed(l, "source stopped", p)
  BY <1>1, <1>2, LooksStep
<1>3. CASE waitConnectorStates(l, "STOPPED") /\ Advance(l, q)
  <2>1. /\ p \in Procs /\ w \in Worlds /\ LabInv(l, p, w, Mine(l).by, held[l], last[l])
        /\ p.cmd # "none" /\ Ahead(p) \cap {"mirror", "cutover", "rollback"} = {}
    <3> HIDE DEF q
    <3> QED BY <1>1, Now
  <2>2. w.want = "STOPPED" /\ w.conn = "STOPPED"
    BY <1>3, <2>1 DEF waitConnectorStates, LabInv, Reported
  <2>3. q \in Procs /\ Learns(p, q, w)
    BY <2>1, <2>2 DEF Procs, Learns, Edited
  <2>4. MayPass(l, q, q, w, Mine(l).by, held[l], "source stopped")
    BY DEF MayPass, Undone
  <2> HIDE DEF q
  <2> QED BY <1>1, <1>3, <2>3, <2>4, LearnsStep
<1> QED BY <1>2, <1>3 DEF CutoverApplied

LEMMA FrozenStep ==
  ASSUME IInv, NEW l \in Labs, proveFrozen(l)
  PROVE  IInv'
<1> DEFINE p == pr[l]
           w == world[l]
           q == [p EXCEPT !.bad = TRUE]
<1>1. Next1(l, "frozen") /\ Idles /\ UNCHANGED world /\ "frozen" \notin {"prerequisites", "guard"} \cup Teardown
  BY DEF proveFrozen, Same, Idles, Teardown
<1>2. CASE Passed(l)
  BY <1>1, <1>2, LooksStep
<1>3. CASE Advance(l, q)
  <2>1. p \in Procs
    <3> HIDE DEF q
    <3> QED BY <1>1, Now
  <2>2. q \in Procs /\ Learns(p, q, w)
    BY <2>1 DEF Procs, Learns, Edited
  <2>3. MayPass(l, q, q, w, Mine(l).by, held[l], "frozen")
    BY DEF MayPass, Undone
  <2> HIDE DEF q
  <2> QED BY <1>1, <1>3, <2>2, <2>3, LearnsStep
<1> QED BY <1>2, <1>3 DEF proveFrozen

LEMMA PhaseStep ==
  ASSUME IInv, NEW l \in Labs, Phase(l)
  PROVE  IInv'
BY PrerequisitesStep, ReadStep, SourceStep, CredentialStep, InstallMirrorStep, WaitStep, ClientsStep, SeedStep,
   ReplicatedTopicStep, HelmStep, CutoverAppliedStep, FrozenStep DEF Phase

-----------------------------------------------------------------------------
(* The teardown *)

LEMMA GuardStep ==
  ASSUME IInv, NEW l \in Labs, confirmTopicData(l)
  PROVE  IInv'
<1> DEFINE p == pr[l]
           w == world[l]
           q == [p EXCEPT !.consent = TRUE]
           s == "guard"
<1>1. Next1(l, s) /\ Idles /\ UNCHANGED world
  BY DEF confirmTopicData, Same, Idles
<1>2. /\ p \in Procs /\ w \in Worlds /\ LabInv(l, p, w, Mine(l).by, held[l], last[l])
      /\ Ready(l, p, w, s)
  <2> HIDE DEF q
  <2> QED BY <1>1, Now DEF Ready, IInv, TypeInv
<1>3. CASE Failed(l, s, p)
  BY <1>2, <1>3, StepFails
<1>4. CASE Advance(l, q)
  <2>1. q \in Procs /\ Learns(p, q, w) /\ q.consent
    BY <1>2 DEF Procs, Learns, Edited
  <2>2. MayPass(l, q, q, w, Mine(l).by, held[l], s)
    BY <2>1 DEF MayPass, Undone
  <2> HIDE DEF q
  <2> QED BY <1>1, <1>4, <2>1, <2>2, LearnsStep
<1>5. CASE Passed(l) /\ \E readable \in BOOLEAN : ~guardLabTopics(l, readable) \/ p.consent
  <2>1. p.consent \/ Mine(l).by = "none" \/ ~Mine(l).data
    BY <1>5 DEF guardLabTopics
  <2>2. TopicOf[l] \in held[l] => Mine(l).data /\ Mine(l).by # "none"
    BY LabAssumption DEF IInv, RecordsInv, Mine
  <2>3. MayPass(l, p, p, w, Mine(l).by, held[l], s)
    BY <2>1, <2>2 DEF MayPass, Undone
  <2> QED BY <1>2, <1>5, <2>3, StepPasses DEF Passed
<1>6. \/ Failed(l, s, p) \/ Advance(l, q)
      \/ Passed(l) /\ \E readable \in BOOLEAN : ~guardLabTopics(l, readable) \/ p.consent
  BY DEF confirmTopicData
<1> QED BY <1>3, <1>4, <1>5, <1>6

Removals == {"delete pods", "uninstall mirror", "delete CR", "uninstall source", "delete secrets",
             "delete namespace", "delete files", "uninstall mirror!", "delete CR!"}

\* A removal takes away what it is for, and nothing of it is left to be done.
LEMMA RemovalTakes ==
  ASSUME NEW l, NEW p, NEW w \in Worlds, Reported(w), NEW by, NEW s \in Removals
  PROVE  /\ Removal(w, s) \in Worlds /\ Takes(p, w, Removal(w, s)) /\ ~Undone(l, s, Removal(w, s), by)
         /\ s = "delete CR" => ~Removal(w, s).cr
<1>1. CASE s \in {"delete CR", "delete CR!"}
  <2>1. Removal(w, s) = Gone(w)
    BY <1>1 DEF Removal
  <2> DEFINE v == Gone(w)
  <2>2. /\ v \in Worlds /\ ~v.cr /\ v.conn = "none" /\ v.status = "none" /\ ~v.seen /\ ~v.observed
        /\ v.rel = w.rel /\ v.src = w.src /\ v.secret = w.secret /\ v.files = w.files /\ v.ns = w.ns
        /\ v.pods = w.pods /\ v.left = w.left /\ v.want = w.want
    BY DEF Gone, Worlds, States
  <2> HIDE DEF v
  <2>3. Takes(p, w, v)
    BY <2>2 DEF Takes, Reported
  <2>4. ~Undone(l, s, v, by)
    BY <1>1, <2>2 DEF Undone
  <2> QED BY <2>1, <2>2, <2>3, <2>4 DEF v
<1>2. CASE s \notin {"delete CR", "delete CR!"}
  <2> DEFINE v == Removal(w, s)
  <2>1. /\ v \in Worlds /\ v.cr = w.cr /\ v.conn = w.conn /\ v.status = w.status /\ v.seen = w.seen
        /\ v.observed = w.observed /\ v.left = w.left /\ v.want = w.want
        /\ v.rel = (w.rel /\ s \notin {"uninstall mirror", "uninstall mirror!"})
        /\ v.src = (w.src /\ s \notin {"uninstall source", "delete namespace"})
        /\ v.secret = (w.secret /\ s # "delete secrets") /\ v.files = (w.files /\ s # "delete files")
        /\ v.ns = (IF s = "delete namespace" THEN "none" ELSE w.ns)
        /\ v.pods = (w.pods /\ s # "delete pods")
    <3>1. CASE s = "delete pods"
      BY <3>1 DEF Removal, Worlds
    <3>2. CASE s \in {"uninstall mirror", "uninstall mirror!"}
      BY <3>2 DEF Removal, Worlds
    <3>3. CASE s = "uninstall source"
      BY <3>3 DEF Removal, Worlds
    <3>4. CASE s = "delete secrets"
      BY <3>4 DEF Removal, Worlds
    <3>5. CASE s = "delete namespace"
      BY <3>5 DEF Removal, Worlds
    <3>6. CASE s = "delete files"
      BY <3>6 DEF Removal, Worlds
    <3> QED BY <1>2, <3>1, <3>2, <3>3, <3>4, <3>5, <3>6 DEF Removals
  <2> HIDE DEF v
  <2>2. Reported(v)
    BY <2>1 DEF Reported
  <2>3. Takes(p, w, v)
    BY <2>1, <2>2 DEF Takes
  <2>4. ~Undone(l, s, v, by)
    BY <1>2, <2>1 DEF Undone, Removals
  <2> QED BY <1>2, <2>1, <2>3, <2>4 DEF v
<1> QED BY <1>1, <1>2

\* A step of the teardown that takes something away, and is passed.
LEMMA TakesStep ==
  ASSUME IInv, NEW l \in Labs, NEW s, Next1(l, s), Idles, NEW v \in Worlds, Takes(pr[l], world[l], v), World(l, v),
         MayPass(l, pr[l], pr[l], v, Mine(l).by, held[l], s), Passed(l)
  PROVE  IInv'
<1>1. pr[l] \in Procs /\ world[l] \in Worlds /\ LabInv(l, pr[l], world[l], Mine(l).by, held[l], last[l])
      /\ pr[l].todo # <<>> /\ Head(pr[l].todo) = s
  BY Now
<1>2. LabInv(l, pr[l], v, Mine(l).by, held[l], last[l])
  BY <1>1, Take
<1>3. Ready(l, pr[l], v, s)
  BY <1>1, <1>2 DEF Ready, World
<1> QED BY <1>3, StepPasses DEF Passed

LEMMA RemoveStepStep ==
  ASSUME IInv, NEW l \in Labs, RemoveStep(l)
  PROVE  IInv'
<1> DEFINE p == pr[l]
           w == world[l]
<1>1. PICK s \in Removals :
          /\ Next1(l, s)
          /\ \/ World(l, Removal(w, s)) /\ Passed(l)
             \/ Failed(l, s, p) /\ UNCHANGED world
  BY DEF RemoveStep, Removals, Teardown
<1>2. Idles
  BY DEF RemoveStep, Same, Idles
<1>3. /\ p \in Procs /\ w \in Worlds /\ LabInv(l, p, w, Mine(l).by, held[l], last[l])
      /\ p.todo # <<>> /\ Head(p.todo) = s
  BY <1>1, Now
<1>4. CASE Failed(l, s, p) /\ UNCHANGED world
  <2>1. world' = [world EXCEPT ![l] = w]
    BY <1>4 DEF IInv, TypeInv
  <2>2. Ready(l, p, w, s)
    BY <1>2, <1>3, <2>1 DEF Ready
  <2> QED BY <1>4, <2>2, StepFails DEF Removals
<1>5. CASE World(l, Removal(w, s)) /\ Passed(l)
  <2> DEFINE v == Removal(w, s)
  <2>1. v \in Worlds /\ Takes(p, w, v) /\ ~Undone(l, s, v, Mine(l).by) /\ (s = "delete CR" => ~v.cr)
    BY <1>3, RemovalTakes DEF LabInv
  <2> HIDE DEF v
  <2>2. MayPass(l, p, p, v, Mine(l).by, held[l], s)
    BY <2>1 DEF MayPass, Removals
  <2> QED BY <1>1, <1>2, <1>5, <2>1, <2>2, TakesStep DEF v
<1> QED BY <1>1, <1>4, <1>5

LEMMA DeleteClientsStep ==
  ASSUME IInv, NEW l \in Labs, deleteClients(l)
  PROVE  IInv'
<1> DEFINE p == pr[l]
           w == world[l]
           gone == w.pods /\ ~p.clients
           v1 == [w EXCEPT !.pods = gone]
           v2 == [w EXCEPT !.left = TRUE]
           s == "deleteClients"
<1>1. Next1(l, s) /\ Idles /\ Passed(l)
  BY DEF deleteClients, Same, Idles
<1>2. p \in Procs /\ w \in Worlds /\ LabInv(l, p, w, Mine(l).by, held[l], last[l])
  <2> HIDE DEF v1, v2, gone
  <2> QED BY <1>1, Now
<1>3. Reported(w) /\ (w.pods => p.clients \/ w.left)
  BY <1>2 DEF LabInv, Clients
<1>4. gone \in BOOLEAN /\ (gone => w.pods /\ w.left)
  BY <1>2, <1>3 DEF Worlds, Procs
<1>5. PICK v \in {v1, v2} : World(l, v)
  BY DEF deleteClients
<1> HIDE DEF gone
<1>6. /\ v1 \in Worlds /\ v1.pods = gone /\ v1.left = w.left /\ v1.rel = w.rel /\ v1.cr = w.cr /\ v1.src = w.src
      /\ v1.secret = w.secret /\ v1.files = w.files /\ v1.ns = w.ns /\ v1.want = w.want /\ v1.conn = w.conn
      /\ v1.status = w.status /\ v1.seen = w.seen /\ v1.observed = w.observed
  BY <1>2, <1>4 DEF Worlds
<1>7. /\ v2 \in Worlds /\ v2.pods = w.pods /\ v2.left /\ v2.rel = w.rel /\ v2.cr = w.cr /\ v2.src = w.src
      /\ v2.secret = w.secret /\ v2.files = w.files /\ v2.ns = w.ns /\ v2.want = w.want /\ v2.conn = w.conn
      /\ v2.status = w.status /\ v2.seen = w.seen /\ v2.observed = w.observed
  BY <1>2 DEF Worlds
<1> HIDE DEF v1, v2
<1>8. /\ v \in Worlds /\ Takes(p, w, v) /\ (~v.pods \/ v.left)
  BY <1>3, <1>4, <1>5, <1>6, <1>7 DEF Takes, Reported
<1>9. MayPass(l, p, p, v, Mine(l).by, held[l], s)
  BY <1>8 DEF MayPass, Undone
<1> QED BY <1>1, <1>5, <1>8, <1>9, TakesStep

LEMMA ListMirrorsStep ==
  ASSUME IInv, NEW l \in Labs, ListMirrors(l)
  PROVE  IInv'
<1> DEFINE p == pr[l]
           w == world[l]
           s == "list mirrors"
           seen == sharedInternalTopics(l)
           q == [p EXCEPT !.shared = seen, !.mirrors = @ \cap Others(l)]
           r == [p EXCEPT !.shared = TRUE]
<1>1. Next1(l, s) /\ Idles /\ UNCHANGED world
  BY DEF ListMirrors, Same, Idles
<1>2. /\ p \in Procs /\ w \in Worlds /\ LabInv(l, p, w, Mine(l).by, held[l], last[l])
      /\ s \in Ahead(p) /\ p.todo # <<>> /\ Head(p.todo) = s /\ world' = [world EXCEPT ![l] = w]
  <2> HIDE DEF q, r, seen
  <2> QED BY <1>1, Now DEF IInv, TypeInv
<1>3. CASE Advance(l, q)
  <2>1. seen \in BOOLEAN /\ (~seen => p.mirrors \cap Others(l) = {}) /\ p.mirrors \cap Others(l) \in SUBSET Labs
    BY <1>2 DEF sharedInternalTopics, Procs
  <2> HIDE DEF seen
  <2>2. q \in Procs /\ Learns(p, q, w) /\ q.shared = seen /\ q.mirrors = p.mirrors \cap Others(l)
    BY <1>2, <2>1 DEF Procs, Learns, Edited
  <2> HIDE DEF q
  <2>3. MayPass(l, q, q, w, Mine(l).by, held[l], s)
    BY <2>1, <2>2 DEF MayPass, Undone
  <2> QED BY <1>1, <1>3, <2>2, <2>3, LearnsStep
<1>4. CASE Failed(l, s, r)
  <2>1. r \in Procs /\ Learns(p, r, w) /\ r.shared /\ r.todo = p.todo
    BY <1>2 DEF Procs, Learns, Edited
  <2> HIDE DEF r
  <2>2. LabInv(l, r, w, Mine(l).by, held[l], last[l])
    BY <1>2, <2>1, Learn
  <2>3. Ready(l, r, w, s)
    BY <1>1, <1>2, <2>1, <2>2 DEF Ready
  <2> QED BY <1>4, <2>1, <2>3, StepFails
<1> QED BY <1>3, <1>4 DEF ListMirrors

\* What a command that deletes its topic without a consent loses: nothing for down, and for run only records
\* of a topic another lab mirrors too.
LEMMA MayLose ==
  ASSUME IInv, NEW l \in Labs, Next1(l, "delete topics"), "keep-topics" \notin pr[l].opts, ~pr[l].consent,
         TopicOf[l] \in held[l]
  PROVE  pr[l].cmd # "down" /\ TopicOf[l] \in SharedTopics
<1> DEFINE p == pr[l]
<1>1. /\ LabInv(l, p, world[l], Mine(l).by, held[l], last[l])
      /\ p.cmd # "none" /\ "delete topics" \in Ahead(p) /\ Head(p.todo) = "delete topics"
  BY Now
<1>2. p.cmd \in {"down", "run"}
  BY <1>1 DEF LabInv, Program1
<1>3. p.cmd # "down"
  BY <1>1 DEF LabInv, DownSpares
<1>4. ~Alone(l)
  BY <1>1, <1>2, <1>3 DEF LabInv, RunSpares
<1> QED BY <1>3, <1>4 DEF SharedTopics

LEMMA DeleteTopicsStep ==
  ASSUME IInv, NEW l \in Labs, deleteLabTopics(l)
  PROVE  IInv'
<1> DEFINE p == pr[l]
           w == world[l]
           T == TopicOf[l]
           s == "delete topics"
           q == [p EXCEPT !.todo = Tail(@)]
           gone == [by |-> "none", data |-> FALSE]
<1>1. Next1(l, s) /\ UNCHANGED world /\ UNCHANGED last
  BY DEF deleteLabTopics
<1>2. /\ p \in Procs /\ w \in Worlds /\ LabInv(l, p, w, Mine(l).by, held[l], last[l])
      /\ p.todo # <<>> /\ Head(p.todo) = s /\ Mine(l).by \in Owners /\ p.cmd # "none"
      /\ s \in Ahead(p) /\ "list mirrors" \notin Ahead(p)
  <2> HIDE DEF q
  <2> QED BY <1>1, Now
<1>3. TypeInv /\ RecordsInv /\ T \in Topics /\ TopicOf \in [Labs -> Topics]
  BY LabAssumption DEF IInv
<1>4. /\ world' = [world EXCEPT ![l] = w] /\ last' = [last EXCEPT ![l] = last[l]] /\ last[l] \in Outcomes
      /\ topic[T] \in [by : Owners, data : BOOLEAN] /\ topic[T].by = Mine(l).by /\ held[l] \subseteq Topics
      /\ held \in [Labs -> SUBSET Topics]
  BY <1>1, <1>3 DEF TypeInv, Mine
<1>5. CASE Failed(l, s, p) /\ UNCHANGED <<topic, ckpt, held, lost, cut>>
  <2>1. Ready(l, p, w, s)
    BY <1>1, <1>2, <1>4, <1>5 DEF Ready, Idles
  <2> QED BY <1>5, <2>1, StepFails
<1>6. CASE /\ Passed(l)
           /\ ckpt' = (ckpt /\ p.shared)
           /\ cut' = (cut \/ (ckpt /\ ~p.shared /\ p.mirrors \cap Others(l) # {}))
  <2>1. ckpt' \in BOOLEAN
    BY <1>6
  <2>2. cut' = FALSE
    BY <1>2, <1>6 DEF LabInv, Listed, IInv, TypeInv
  <2>3. pr' = [pr EXCEPT ![l] = q]
    BY <1>6 DEF Passed, Advance
  <2>4. p.todo \in Seq(Steps) /\ Tail(p.todo) \in Seq(Steps)
    BY <1>2, TailSteps DEF Procs
  <2>5. q \in Procs /\ Popped(p, q)
    BY <1>2, <2>4 DEF Procs, Popped, Fields
  <2> HIDE DEF q
  <2>6. CASE "keep-topics" \in p.opts /\ UNCHANGED <<topic, held, lost>>
    <3>1. topic' = [topic EXCEPT ![T] = topic[T]]
      BY <1>3, <2>6 DEF TypeInv
    <3>2. p.cmd # "run"
      BY <1>2, <2>6 DEF LabInv, Program1
    <3>3. MayPass(l, p, q, w, Mine(l).by, held[l], s)
      BY <3>2 DEF MayPass
    <3>4. LabInv(l, q, w, Mine(l).by, held'[l], last[l])
      BY <1>2, <2>5, <2>6, <3>3, Move
    <3>5. RecordsInv' /\ lost' \subseteq SharedTopics
      BY <1>3, <2>6 DEF RecordsInv, IInv
    <3>6. held' \in [Labs -> SUBSET Topics] /\ \A m \in Labs \ {l} : held'[m] \subseteq held[m]
      BY <1>4, <2>6
    <3>7. LabInv(l, q, w, topic[TopicOf[l]].by, held'[l], last[l])
      BY <1>4, <3>4
    <3>8. /\ topic[TopicOf[l]] \in [by : Owners, data : BOOLEAN] /\ topic[TopicOf[l]].by = Mine(l).by
          /\ topic' = [topic EXCEPT ![TopicOf[l]] = topic[TopicOf[l]]]
      BY <1>4, <3>1
    <3>9. q \in Procs /\ pr' = [pr EXCEPT ![l] = q]
      BY <2>3, <2>5
    <3> HIDE DEF p, w, T, s
    <3> QED BY <1>2, <1>4, <2>1, <2>2, <3>9, <3>5, <3>6, <3>7, <3>8, TopicStep
  <2>7. CASE /\ "keep-topics" \notin p.opts /\ topic' = [topic EXCEPT ![T] = gone]
             /\ lost' = IF p.consent THEN lost ELSE lost \cup (held[l] \cap {T})
             /\ held' = [m \in Labs |-> held[m] \ {T}]
    <3>1. gone \in [by : Owners, data : BOOLEAN] /\ gone.by = "none" /\ ~gone.data
      BY DEF Owners
    <3>2. lost' \subseteq SharedTopics
      BY <1>1, <2>7, MayLose DEF IInv
    <3>3. held' \in [Labs -> SUBSET Topics] /\ (\A m \in Labs : held'[m] = held[m] \ {T})
      BY <1>4, <2>7
    <3>4. RecordsInv'
      BY <1>3, <2>7, <3>1, <3>3 DEF RecordsInv, TypeInv
    <3> HIDE DEF gone
    <3>5. "none" # l /\ \A m \in Labs : "none" # m
      BY LabAssumption
    <3>6. LabInv(l, p, w, "none", held'[l], last[l])
      BY <1>2, <3>3, <3>5, NewOwner
    <3>7. MayPass(l, p, q, w, "none", held'[l], s)
      BY <3>5 DEF MayPass, Undone
    <3>8. LabInv(l, q, w, "none", held'[l], last[l])
      BY <1>2, <2>5, <3>6, <3>7, Move DEF Owners
    <3>9. \A m \in Labs \ {l} : TopicOf[m] = T => gone.by # m /\ (TopicOf[m] \in held'[m] => gone.by # "none")
      BY <3>1, <3>3, <3>5
    <3>10. \A m \in Labs \ {l} : held'[m] \subseteq held[m]
      BY <3>3
    <3>11. LabInv(l, q, w, gone.by, held'[l], last[l])
      BY <3>1, <3>8
    <3>12. topic' = [topic EXCEPT ![TopicOf[l]] = gone] /\ held' \in [Labs -> SUBSET Topics]
      BY <2>7, <3>3
    <3>13. q \in Procs /\ pr' = [pr EXCEPT ![l] = q]
      BY <2>3, <2>5
    <3>14. \A m \in Labs \ {l} : TopicOf[m] = TopicOf[l] =>
               gone.by # m /\ (TopicOf[m] \in held'[m] => gone.by # "none")
      BY <3>9
    <3> HIDE DEF p, w, T, s
    <3> QED BY <1>2, <1>4, <2>1, <2>2, <3>13, <3>1, <3>2, <3>4, <3>10, <3>11, <3>12, <3>14, TopicStep
  <2> QED BY <1>5, <1>6, <2>6, <2>7 DEF deleteLabTopics
<1> QED BY <1>5, <1>6 DEF deleteLabTopics

LEMMA TearStep ==
  ASSUME IInv, NEW l \in Labs, Tear(l)
  PROVE  IInv'
BY GuardStep, RemoveStepStep, DeleteClientsStep, ListMirrorsStep, DeleteTopicsStep DEF Tear

-----------------------------------------------------------------------------
(* The start and the end of a command, and its death *)

LEMMA StartStep ==
  ASSUME IInv, NEW l \in Labs, NEW cmd \in Commands[l], NEW opts \in Options(cmd), Start(l, cmd, opts)
  PROVE  IInv'
<1> DEFINE p == pr[l]
           w == world[l]
           program == Program(l, cmd, opts)
           S == ToSet(program)
           others == Others(l)
           q == [Idle EXCEPT !.cmd = cmd, !.opts = opts, !.todo = program, !.consent = "delete-data" \in opts,
                             !.mirrors = others, !.ns0 = w.ns]
           h == Held(l, cmd)
<1>1. TypeInv /\ RecordsInv /\ LabsInv /\ cmd \in CommandNames /\ TopicOf[l] \in Topics
  BY LabAssumption DEF IInv
<1>2. /\ p \in Procs /\ w \in Worlds /\ last[l] \in Outcomes /\ Mine(l).by \in Owners
      /\ LabInv(l, p, w, Mine(l).by, held[l], last[l])
  BY <1>1 DEF TypeInv, LabsInv, Mine
<1>3. /\ pr' = [pr EXCEPT ![l] = q] /\ held' = [held EXCEPT ![l] = h]
      /\ world' = [world EXCEPT ![l] = w] /\ last' = [last EXCEPT ![l] = last[l]] /\ p.cmd = "none"
      /\ UNCHANGED <<topic, ckpt, cut, lost>>
  BY <1>1 DEF Start, TypeInv
<1>4. Fits(l, cmd, opts, program, S)
  BY <1>1, ProgramSteps
<1>5. opts \subseteq {"keep", "keep-topics", "delete-data"} /\ (cmd = "run" => "keep-topics" \notin opts)
  <2>1. CASE cmd = "down"
    BY <2>1 DEF Options
  <2>2. CASE cmd \in {"run", "verify"}
    BY <2>2 DEF Options
  <2>3. CASE cmd \notin {"down", "run", "verify"}
    <3>1. Options(cmd) = {{}}
      BY <2>3 DEF Options
    <3> QED BY <3>1
  <2> QED BY <2>1, <2>2, <2>3
<1>6. others \subseteq Labs /\ program \in Seq(Steps) /\ w.ns \in {"none", "owned", "foreign"}
  BY <1>2, <1>4 DEF Others, Fits, Holds, Worlds
<1>7. /\ h \in SUBSET Topics /\ \A t \in h : topic[t].data
      /\ cmd = "run" /\ TopicOf[l] \in h => Mine(l).by \notin {"none", l}
  BY <1>1 DEF Held, RecordsInv, Mine
<1>8. /\ q.cmd = cmd /\ q.opts = opts /\ q.todo = program /\ q.ns0 = w.ns
      /\ ~q.clients /\ ~q.frozen /\ ~q.bad /\ ~q.dirty /\ q.stage = "phases" /\ q.made = {}
      /\ q.consent = ("delete-data" \in opts) /\ q.mirrors = others /\ ~q.shared
  BY DEF Idle
<1>9. q \in Procs
  <2> DEFINE consent == "delete-data" \in opts
  <2>1. q = [Idle EXCEPT !.cmd = cmd, !.opts = opts, !.todo = program, !.consent = consent,
                         !.mirrors = others, !.ns0 = w.ns] /\ consent \in BOOLEAN
    OBVIOUS
  <2> HIDE DEF consent, q, program, others
  <2> QED BY <1>1, <1>5, <1>6, <2>1 DEF Idle, Procs
<1>10. Ahead(q) = S
  BY <1>8 DEF Ahead
<1> HIDE DEF q, h, S, program
<1>11. Program1(q)
  BY <1>1, <1>4, <1>5, <1>8, <1>10 DEF Program1, Fits, Holds, CommandNames
<1>12. Clients(q, w) /\ Reported(w) /\ Frozen(q, w)
  BY <1>2, <1>3, <1>8 DEF LabInv, Clients, Frozen, Program1
<1>13. Listed(q)
  BY <1>4, <1>10 DEF Listed, Fits
<1>14. Tidy(l, q, w, Mine(l).by) /\ Rested(l, q, w, Mine(l).by, last[l])
  BY <1>1, <1>8 DEF Tidy, Rested, CommandNames
<1>15. Owner(l, q, w, Mine(l).by)
  BY <1>2, <1>4, <1>10 DEF LabInv, Owner, Fits
<1>16. DownSpares(l, q, w, h)
  BY <1>4, <1>8, <1>10 DEF DownSpares, Fits
<1>17. RunSpares(l, q, Mine(l).by, h)
  BY <1>4, <1>7, <1>8, <1>10 DEF RunSpares, Fits
<1>18. LabInv(l, q, w, Mine(l).by, h, last[l])
  BY <1>11, <1>12, <1>13, <1>14, <1>15, <1>16, <1>17 DEF LabInv
<1> HIDE DEF p, w
<1> QED BY <1>2, <1>3, <1>7, <1>9, <1>18, LocalStep

\* The phases end, by step s or well, and nothing else changes.
LEMMA BreaksStep ==
  ASSUME IInv, NEW l \in Labs, Idles, UNCHANGED world, NEW s, NEW q \in Procs, pr' = [pr EXCEPT ![l] = q],
         pr[l].cmd # "none", Cleaned(pr[l], q, s),
         IF s = "prerequisites" THEN q.dirty /\ s \in Ahead(pr[l]) ELSE "prerequisites" \notin Ahead(pr[l]),
         pr[l].cmd = "down" => q.bad \/ pr[l].todo = <<>>
  PROVE  IInv'
<1>1. LabInv(l, q, world[l], Mine(l).by, held[l], last[l])
  BY IdlesIs, Break
<1>2. world' = [world EXCEPT ![l] = world[l]] /\ world[l] \in Worlds
  BY IdlesIs DEF IInv, TypeInv
<1>3. UNCHANGED <<topic, ckpt, cut, lost>>
  BY DEF Idles
<1> QED BY <1>1, <1>2, <1>3, IdlesIs, LocalStep

LEMMA PhasesOverStep ==
  ASSUME IInv, NEW l \in Labs, PhasesOver(l)
  PROVE  IInv'
<1> DEFINE p == pr[l]
           q == [p EXCEPT !.todo = CleanUp(p, "none"), !.stage = "cleanup"]
<1>1. Idles /\ UNCHANGED world /\ p.cmd # "none" /\ p.todo = <<>> /\ p.stage = "phases"
  BY DEF PhasesOver, Idles
<1>2. p \in Procs
  BY DEF IInv, TypeInv
<1>3. pr' = [pr EXCEPT ![l] = q]
  BY <1>2 DEF PhasesOver, IInv, TypeInv
<1>4. CleanUp(p, "none") \in Seq(Steps)
  BY CleanUpSteps DEF Cleans, Holds
<1>5. q \in Procs /\ Cleaned(p, q, "none")
  BY <1>1, <1>2, <1>4 DEF Procs, Cleaned, Fields
<1>6. "prerequisites" \notin Ahead(p)
  BY <1>1, EmptyAhead
<1> HIDE DEF q
<1> QED BY <1>1, <1>3, <1>5, <1>6, BreaksStep

LEMMA InterruptStep ==
  ASSUME IInv, NEW l \in Labs, Interrupt(l)
  PROVE  IInv'
<1> DEFINE p == pr[l]
           s == Head(p.todo)
           dirty == p.dirty \/ s = "prerequisites"
           q == [p EXCEPT !.bad = TRUE, !.stage = "cleanup", !.todo = CleanUp(p, s), !.dirty = dirty]
<1>1. Idles /\ UNCHANGED world /\ p.cmd = "run" /\ p.todo # <<>> /\ p.stage = "phases" /\ Next1(l, s)
  BY DEF Interrupt, Idles, Next1
<1>2. p \in Procs
  BY DEF IInv, TypeInv
<1>3. pr' = [pr EXCEPT ![l] = q]
  BY <1>2 DEF Interrupt, IInv, TypeInv
<1>4. CleanUp(p, s) \in Seq(Steps)
  BY CleanUpSteps DEF Cleans, Holds
<1>5. dirty \in BOOLEAN /\ (p.dirty => dirty) /\ (s = "prerequisites" => dirty)
  BY <1>2 DEF Procs
<1>6. s \in Ahead(p) /\ (s # "prerequisites" => "prerequisites" \notin Ahead(p))
  <2> HIDE DEF q, dirty, s
  <2> QED BY <1>1, Now
<1> HIDE DEF dirty, s
<1>7. q \in Procs /\ Cleaned(p, q, s) /\ q.dirty = dirty
  BY <1>1, <1>2, <1>4, <1>5 DEF Procs, Cleaned, Fields
<1> HIDE DEF q
<1> QED BY <1>1, <1>3, <1>5, <1>6, <1>7, BreaksStep

\* A command is no more: what is left of it is on the cluster.
LEMMA AtRest ==
  ASSUME NEW l \in Labs, NEW p \in Procs, NEW w \in Worlds, NEW by, NEW h, NEW e,
         NEW v \in Worlds, NEW by2, NEW h2, NEW e2,
         LabInv(l, p, w, by, h, e),
         v.ns = w.ns, v.src = w.src, v.secret = w.secret, v.rel = w.rel, v.cr = w.cr, v.want = w.want,
         v.conn = w.conn, v.status = w.status, v.seen = w.seen, v.observed = w.observed, v.pods = w.pods,
         v.files = w.files, w.left => v.left,
         w.pods => v.left, v.cr /\ Alone(l) => by2 \in {"none", l}, Rested(l, Idle, v, by2, e2)
  PROVE  LabInv(l, Idle, v, by2, h2, e2) /\ Idle \in Procs
<1>1. /\ Idle.cmd = "none" /\ Idle.todo = <<>> /\ ~Idle.clients /\ ~Idle.frozen /\ Idle.stage = "phases"
      /\ Ahead(Idle) = {} /\ Idle.todo \in Seq(Steps)
  BY EmptyAhead DEF Idle
<1>2. Idle \in Procs
  BY DEF Idle, Procs
<1>3. Ordered(Idle.todo)
  BY <1>1, NoStep DEF Holds
<1>4. Program1(Idle) /\ Frozen(Idle, v) /\ Listed(Idle) /\ Tidy(l, Idle, v, by2)
  BY <1>1, <1>3 DEF Program1, Frozen, Listed, Tidy
<1>5. Clients(Idle, v) /\ Reported(v)
  BY <1>1 DEF LabInv, Clients, Reported
<1>6. Owner(l, Idle, v, by2) /\ DownSpares(l, Idle, v, h2) /\ RunSpares(l, Idle, by2, h2)
  BY <1>1 DEF Owner, DownSpares, RunSpares
<1> QED BY <1>2, <1>4, <1>5, <1>6 DEF LabInv

LEMMA KillStep ==
  ASSUME IInv, NEW l \in Labs, Kill(l)
  PROVE  IInv'
<1> DEFINE p == pr[l]
           w == world[l]
           left == w.left \/ p.clients
           v == [w EXCEPT !.left = left]
           e == [cmd |-> "killed", ok |-> FALSE, clean |-> FALSE, ns0 |-> "none"]
<1>1. /\ p \in Procs /\ w \in Worlds /\ LabInv(l, p, w, Mine(l).by, held[l], last[l]) /\ e \in Outcomes
  BY DEF IInv, TypeInv, LabsInv, Outcomes
<1>2. /\ pr' = [pr EXCEPT ![l] = Idle] /\ world' = [world EXCEPT ![l] = v] /\ last' = [last EXCEPT ![l] = e]
      /\ held' = [held EXCEPT ![l] = {}] /\ UNCHANGED <<topic, ckpt, cut, lost>>
  BY DEF Kill, World, Same
<1>3. left \in BOOLEAN /\ (w.pods => left) /\ (w.left => left)
  BY <1>1 DEF LabInv, Clients, Worlds, Procs
<1> HIDE DEF left
<1>4. /\ v \in Worlds /\ v.left = left /\ v.ns = w.ns /\ v.src = w.src /\ v.secret = w.secret /\ v.rel = w.rel
      /\ v.cr = w.cr /\ v.want = w.want /\ v.conn = w.conn /\ v.status = w.status /\ v.seen = w.seen
      /\ v.observed = w.observed /\ v.pods = w.pods /\ v.files = w.files
  BY <1>1, <1>3 DEF Worlds
<1>5. Rested(l, Idle, v, Mine(l).by, e)
  BY DEF Rested
<1>6. v.cr /\ Alone(l) => Mine(l).by \in {"none", l}
  BY <1>1, <1>4 DEF LabInv, Owner
<1> HIDE DEF v, e
<1>7. LabInv(l, Idle, v, Mine(l).by, {}, e) /\ Idle \in Procs
  BY <1>1, <1>3, <1>4, <1>5, <1>6, AtRest
<1>8. {} \in SUBSET Topics /\ \A t \in {} : topic[t].data
  OBVIOUS
<1> HIDE DEF p, w
<1> QED BY <1>1, <1>2, <1>4, <1>7, <1>8, LocalStep

LEMMA EndStep ==
  ASSUME IInv, NEW l \in Labs, End(l)
  PROVE  IInv'
<1> DEFINE p == pr[l]
           w == world[l]
           T == TopicOf[l]
           left == w.left \/ Kept(l)
           v == [w EXCEPT !.left = left]
           ok == ~p.bad
           clean == ~p.dirty /\ "keep" \notin p.opts
           e == [cmd |-> p.cmd, ok |-> ok, ns0 |-> p.ns0, clean |-> clean]
           handed == p.cmd = "down" /\ "keep-topics" \in p.opts /\ ~p.bad /\ Mine(l).by = l
           r == IF handed THEN [topic[T] EXCEPT !.by = "user"] ELSE topic[T]
<1>1. /\ p \in Procs /\ w \in Worlds /\ LabInv(l, p, w, Mine(l).by, held[l], last[l])
      /\ TypeInv /\ RecordsInv /\ T \in Topics
  BY LabAssumption DEF IInv, TypeInv, LabsInv
<1>2. p.cmd # "none" /\ p.todo = <<>> /\ p.stage = "cleanup" /\ Ahead(p) = {}
  BY EmptyAhead DEF End
<1>3. ok \in BOOLEAN /\ clean \in BOOLEAN
  OBVIOUS
<1>4. e \in Outcomes /\ e.cmd = p.cmd /\ e.clean = clean /\ e.ns0 = p.ns0
  <2> HIDE DEF ok, clean
  <2> QED BY <1>1, <1>3 DEF Procs, Outcomes
<1>5. /\ pr' = [pr EXCEPT ![l] = Idle] /\ world' = [world EXCEPT ![l] = v] /\ last' = [last EXCEPT ![l] = e]
      /\ held' = [held EXCEPT ![l] = {}] /\ UNCHANGED <<ckpt, cut, lost>>
  BY DEF End, World
<1>6. topic' = [topic EXCEPT ![T] = r]
  BY <1>1 DEF End, TypeInv
<1>7. left \in BOOLEAN /\ (w.pods => left) /\ (w.left => left)
  BY <1>1, <1>2 DEF LabInv, Clients, Worlds, Procs, Kept
<1>8. /\ topic[T] \in [by : Owners, data : BOOLEAN] /\ Mine(l) = topic[T]
      /\ r \in [by : Owners, data : BOOLEAN] /\ r.data = topic[T].data
      /\ r.by = IF handed THEN "user" ELSE topic[T].by
  BY <1>1 DEF TypeInv, Owners, Mine
<1>9. RecordsInv'
  <2> HIDE DEF r
  <2>1. \A t \in Topics : topic'[t].data = topic[t].data /\ (topic'[t].by = topic[t].by \/ topic'[t].by = "user")
    BY <1>1, <1>6, <1>8 DEF TypeInv
  <2>2. \A m \in Labs : held'[m] \subseteq held[m] /\ held[m] \subseteq Topics
    BY <1>1, <1>5 DEF TypeInv
  <2> QED BY <1>1, <2>1, <2>2 DEF RecordsInv
<1> HIDE DEF left, r
<1>10. /\ v \in Worlds /\ v.left = left /\ v.ns = w.ns /\ v.src = w.src /\ v.secret = w.secret /\ v.rel = w.rel
       /\ v.cr = w.cr /\ v.want = w.want /\ v.conn = w.conn /\ v.status = w.status /\ v.seen = w.seen
       /\ v.observed = w.observed /\ v.pods = w.pods /\ v.files = w.files
  BY <1>1, <1>7 DEF Worlds
<1>11. v.cr /\ Alone(l) => r.by \in {"none", l}
  <2>1. handed => ~w.cr
    BY <1>1, <1>2 DEF LabInv, DownSpares
  <2> QED BY <1>1, <1>8, <1>10, <2>1 DEF LabInv, Owner
<1>12. Rested(l, Idle, v, r.by, e)
  <2> SUFFICES ASSUME e.cmd = "run", e.clean
               PROVE  /\ ~v.src /\ ~v.secret /\ ~v.rel /\ ~v.cr /\ ~v.files
                      /\ r.by # l
                      /\ e.ns0 = "none" => v.ns = "none"
    <3> HIDE DEF v, e
    <3> QED BY DEF Rested
  <2>1. p.cmd = "run" /\ ~p.dirty /\ "keep" \notin p.opts
    BY <1>4
  <2>2. r.by = Mine(l).by
    BY <1>8, <2>1
  <2>3. /\ ~w.src /\ ~w.secret /\ ~w.rel /\ ~w.cr /\ ~w.files /\ Mine(l).by # l
        /\ p.ns0 = "none" => w.ns = "none"
    BY <1>1, <1>2, <2>1 DEF LabInv, Tidy
  <2> HIDE DEF v, e
  <2> QED BY <1>4, <1>10, <2>2, <2>3
<1>13. held'[l] = {} /\ held' \in [Labs -> SUBSET Topics] /\ \A m \in Labs \ {l} : held'[m] \subseteq held[m]
  BY <1>1, <1>5 DEF TypeInv
<1> HIDE DEF v, e, T
<1>14. LabInv(l, Idle, v, r.by, held'[l], e) /\ Idle \in Procs
  BY <1>1, <1>7, <1>10, <1>11, <1>12, AtRest
<1>15. ckpt' \in BOOLEAN /\ cut' = FALSE /\ lost' \subseteq SharedTopics
  BY <1>1, <1>5 DEF TypeInv, IInv
<1>16. r.by = Mine(l).by \/ \A m \in Labs \ {l} : TopicOf[m] = TopicOf[l] =>
                                r.by # m /\ (TopicOf[m] \in held'[m] => r.by # "none")
  BY <1>8, LabAssumption
<1>17. topic' = [topic EXCEPT ![TopicOf[l]] = r]
  BY <1>6 DEF T
<1> HIDE DEF p, w
<1> QED BY <1>4, <1>5, <1>8, <1>9, <1>10, <1>13, <1>14, <1>15, <1>16, <1>17, TopicStep

-----------------------------------------------------------------------------
(* The operator and MirrorMaker *)

\* The operator changes what it says of a mirror, not what it is told.
LEMMA Told ==
  ASSUME NEW l \in Labs, NEW p, NEW w \in Worlds, NEW by, NEW h, NEW e, NEW v \in Worlds,
         LabInv(l, p, w, by, h, e), Reported(v), v.conn = w.conn \/ v.conn = w.want,
         v.ns = w.ns, v.src = w.src, v.secret = w.secret, v.rel = w.rel, v.cr = w.cr, v.want = w.want,
         v.pods = w.pods, v.files = w.files, v.left = w.left
  PROVE  LabInv(l, p, v, by, h, e)
<1>1. Clients(p, v) /\ Frozen(p, v)
  BY DEF LabInv, Clients, Frozen
<1>2. Tidy(l, p, v, by) /\ Rested(l, p, v, by, e)
  BY DEF LabInv, Tidy, Rested
<1>3. Owner(l, p, v, by) /\ DownSpares(l, p, v, h)
  BY DEF LabInv, Owner, DownSpares
<1> QED BY <1>1, <1>2, <1>3 DEF LabInv

LEMMA ToldStep ==
  ASSUME IInv, NEW l \in Labs, Idles, UNCHANGED pr, NEW v \in Worlds, World(l, v),
         LabInv(l, pr[l], v, Mine(l).by, held[l], last[l])
  PROVE  IInv'
<1>1. pr' = [pr EXCEPT ![l] = pr[l]]
  BY DEF IInv, TypeInv
<1>2. UNCHANGED <<topic, ckpt, cut, lost>>
  BY DEF Idles
<1> QED BY <1>1, <1>2, IdlesIs, LocalStep DEF World

LEMMA OperatorStep ==
  ASSUME IInv, NEW l \in Labs, Reconcile(l) \/ Report(l)
  PROVE  IInv'
<1> DEFINE w == world[l]
           v1 == [w EXCEPT !.seen = TRUE, !.conn = w.want]
           v2 == [w EXCEPT !.status = w.conn, !.observed = w.seen]
<1>1. Idles /\ UNCHANGED pr /\ w.cr
  BY DEF Reconcile, Report, Same, Idles
<1>2. w \in Worlds /\ LabInv(l, pr[l], w, Mine(l).by, held[l], last[l]) /\ Reported(w)
  BY DEF IInv, TypeInv, LabsInv, LabInv
<1>3. /\ v1 \in Worlds /\ v1.conn = w.want /\ v1.seen /\ v1.status = w.status /\ v1.observed = w.observed
      /\ v1.ns = w.ns /\ v1.src = w.src /\ v1.secret = w.secret /\ v1.rel = w.rel /\ v1.cr = w.cr
      /\ v1.want = w.want /\ v1.pods = w.pods /\ v1.files = w.files /\ v1.left = w.left
  BY <1>2 DEF Worlds, States
<1>4. /\ v2 \in Worlds /\ v2.conn = w.conn /\ v2.seen = w.seen /\ v2.status = w.conn /\ v2.observed = w.seen
      /\ v2.ns = w.ns /\ v2.src = w.src /\ v2.secret = w.secret /\ v2.rel = w.rel /\ v2.cr = w.cr
      /\ v2.want = w.want /\ v2.pods = w.pods /\ v2.files = w.files /\ v2.left = w.left
  BY <1>2 DEF Worlds
<1>5. (World(l, v1) /\ ~w.seen) \/ World(l, v2)
  BY DEF Reconcile, Report
<1> HIDE DEF v1, v2
<1>6. (~w.seen => Reported(v1)) /\ Reported(v2)
  BY <1>1, <1>2, <1>3, <1>4 DEF Reported
<1>7. CASE World(l, v1) /\ ~w.seen
  <2>1. LabInv(l, pr[l], v1, Mine(l).by, held[l], last[l])
    BY <1>2, <1>3, <1>6, <1>7, Told
  <2> QED BY <1>1, <1>3, <1>7, <2>1, ToldStep
<1>8. CASE World(l, v2)
  <2>1. LabInv(l, pr[l], v2, Mine(l).by, held[l], last[l])
    BY <1>2, <1>4, <1>6, Told
  <2> QED BY <1>1, <1>4, <1>8, <2>1, ToldStep
<1> QED BY <1>5, <1>7, <1>8

LEMMA ReplicateStep ==
  ASSUME IInv, NEW l \in Labs, Replicate(l)
  PROVE  IInv'
<1> DEFINE p == pr[l]
           w == world[l]
           T == TopicOf[l]
           by == Mine(l).by
           data == Mine(l).data \/ w.produced
           r == [by |-> IF by = "none" THEN l ELSE by, data |-> data]
<1>1. /\ p \in Procs /\ w \in Worlds /\ LabInv(l, p, w, by, held[l], last[l]) /\ last[l] \in Outcomes
      /\ TypeInv /\ RecordsInv /\ T \in Topics /\ by \in Owners /\ Mine(l) = topic[T]
      /\ topic[T] \in [by : Owners, data : BOOLEAN]
  BY LabAssumption DEF IInv, TypeInv, LabsInv, Mine
<1>2. /\ pr' = [pr EXCEPT ![l] = p] /\ world' = [world EXCEPT ![l] = w] /\ last' = [last EXCEPT ![l] = last[l]]
      /\ ckpt' = TRUE /\ UNCHANGED <<held, lost, cut>>
  BY <1>1 DEF Replicate, TypeInv
<1>3. topic' = [topic EXCEPT ![T] = r]
  BY <1>1 DEF Replicate, TypeInv
<1>4. w.cr
  BY <1>1 DEF Replicate, LabInv, Reported
<1>5. data \in BOOLEAN /\ (topic[T].data => data) /\ l \notin {"none", "user"}
  BY <1>1, LabAssumption
<1> HIDE DEF data
<1>6. r \in [by : Owners, data : BOOLEAN] /\ r.by = (IF by = "none" THEN l ELSE by) /\ r.data = data
  BY <1>1, <1>5 DEF Owners
<1> HIDE DEF r
<1>7. RecordsInv'
  BY <1>1, <1>2, <1>3, <1>5, <1>6 DEF RecordsInv, TypeInv
<1>8. LabInv(l, p, w, r.by, held[l], last[l])
  <2>1. CASE by # "none"
    BY <1>1, <1>6, <2>1
  <2>2. CASE by = "none"
    <3>1. r.by = l
      BY <1>6, <2>2
    <3>2. Tidy(l, p, w, l) /\ Rested(l, p, w, l, last[l])
      BY <1>1, <1>4 DEF LabInv, Tidy, Rested
    <3>3. Owner(l, p, w, l)
      BY DEF Owner
    <3>4. TopicOf[l] \notin held[l]
      BY <1>1, <2>2 DEF RecordsInv, TypeInv
    <3>5. RunSpares(l, p, l, held[l])
      BY <3>4 DEF RunSpares
    <3> QED BY <1>1, <3>1, <3>2, <3>3, <3>5 DEF LabInv
  <2> QED BY <2>1, <2>2
<1>9. \/ r.by = Mine(l).by
      \/ \A m \in Labs \ {l} : TopicOf[m] = TopicOf[l] =>
             r.by # m /\ (TopicOf[m] \in held'[m] => r.by # "none")
  BY <1>5, <1>6
<1>10. /\ held' \in [Labs -> SUBSET Topics] /\ \A m \in Labs \ {l} : held'[m] \subseteq held[m]
       /\ ckpt' \in BOOLEAN /\ cut' = FALSE /\ lost' \subseteq SharedTopics /\ held'[l] = held[l]
  BY <1>1, <1>2 DEF IInv, TypeInv
<1>11. topic' = [topic EXCEPT ![TopicOf[l]] = r] /\ LabInv(l, p, w, r.by, held'[l], last[l])
  BY <1>3, <1>8, <1>10
<1> HIDE DEF p, w, T, by
<1> QED BY <1>1, <1>2, <1>6, <1>7, <1>9, <1>10, <1>11, TopicStep

-----------------------------------------------------------------------------
(* The invariant holds *)

LEMMA InitInv == Init => IInv
<1> SUFFICES ASSUME Init PROVE IInv
  OBVIOUS
<1>1. /\ pr = [l \in Labs |-> Idle] /\ held = [l \in Labs |-> {}] /\ lost = {} /\ cut = FALSE
      /\ last = [l \in Labs |-> [cmd |-> "none", ok |-> TRUE, clean |-> FALSE, ns0 |-> "none"]]
  BY DEF Init
<1>2. PICK up \in SUBSET Standing :
          \E found \in SUBSET Found, taken \in SUBSET Taken :
             /\ world = [l \in Labs |-> IF l \in up THEN Up
                            ELSE [NoLab EXCEPT !.ns = IF l \in found THEN "foreign" ELSE "none"]]
             /\ topic = [t \in Topics |->
                            [by |-> IF t \in {TopicOf[l] : l \in up} THEN CHOOSE l \in up : TopicOf[l] = t
                                    ELSE IF t \in taken THEN "user" ELSE "none",
                             data |-> t \in taken \ {TopicOf[l] : l \in up}]]
             /\ ckpt = (up # {})
  BY DEF Init
<1>3. PICK found \in SUBSET Found, taken \in SUBSET Taken :
             /\ world = [l \in Labs |-> IF l \in up THEN Up
                            ELSE [NoLab EXCEPT !.ns = IF l \in found THEN "foreign" ELSE "none"]]
             /\ topic = [t \in Topics |->
                            [by |-> IF t \in {TopicOf[l] : l \in up} THEN CHOOSE l \in up : TopicOf[l] = t
                                    ELSE IF t \in taken THEN "user" ELSE "none",
                             data |-> t \in taken \ {TopicOf[l] : l \in up}]]
             /\ ckpt = (up # {})
  BY <1>2
<1> DEFINE Mirrored == {TopicOf[l] : l \in up}
           Who(t) == IF t \in Mirrored THEN CHOOSE l \in up : TopicOf[l] = t
                     ELSE IF t \in taken THEN "user" ELSE "none"
           filled(t) == t \in taken \ Mirrored
<1>4. up \subseteq Labs /\ TopicOf \in [Labs -> Topics] /\ Labs \cap {"none", "user"} = {}
  BY LabAssumption
<1>5. ASSUME NEW t \in Topics
      PROVE  /\ topic[t].by = Who(t) /\ topic[t].data = filled(t) /\ filled(t) \in BOOLEAN
             /\ topic[t] = [by |-> Who(t), data |-> filled(t)]
  <2>1. topic = [x \in Topics |-> [by |-> Who(x), data |-> filled(x)]]
    BY <1>3
  <2>2. filled(t) \in BOOLEAN
    OBVIOUS
  <2> HIDE DEF Who, filled
  <2> QED BY <2>1, <2>2
<1>6. ASSUME NEW t \in Topics
      PROVE  /\ Who(t) \in Owners
             /\ t \in Mirrored => Who(t) \in up /\ TopicOf[Who(t)] = t
             /\ filled(t) => Who(t) = "user"
  <2>1. CASE t \in Mirrored
    <3>1. \E l \in up : TopicOf[l] = t
      BY <2>1
    <3>2. (CHOOSE l \in up : TopicOf[l] = t) \in up /\ TopicOf[CHOOSE l \in up : TopicOf[l] = t] = t
      BY <3>1
    <3> QED BY <1>4, <2>1, <3>2 DEF Owners
  <2>2. CASE t \notin Mirrored
    BY <2>2 DEF Owners
  <2> QED BY <2>1, <2>2
<1> HIDE DEF Who, filled, Mirrored
<1>7. topic \in [Topics -> [by : Owners, data : BOOLEAN]]
  <2>1. topic = [x \in Topics |-> [by |-> Who(x), data |-> filled(x)]]
    BY <1>3 DEF Who, filled, Mirrored
  <2> QED BY <1>5, <1>6, <2>1
<1>8. Idle \in Procs /\ Ahead(Idle) = {} /\ Ordered(Idle.todo) /\ Idle.cmd = "none" /\ Idle.todo = <<>>
      /\ ~Idle.clients /\ ~Idle.frozen /\ Idle.stage = "phases"
  <2>1. <<>> \in Seq(Steps) /\ Idle.todo = <<>>
    BY DEF Idle
  <2> QED BY <2>1, EmptyAhead, NoStep DEF Idle, Procs, Holds
<1>9. ASSUME NEW l \in Labs
      PROVE  /\ world[l] \in Worlds /\ Reported(world[l]) /\ ~world[l].pods
             /\ world[l].cr => l \in up
  BY <1>3 DEF Up, NoLab, Worlds, States, Reported
<1>10. TypeInv
  <2>1. world \in [Labs -> Worlds]
    BY <1>3, <1>9
  <2>2. last \in [Labs -> Outcomes]
    BY <1>1 DEF Outcomes
  <2> QED BY <1>1, <1>3, <1>7, <1>8, <2>1, <2>2 DEF TypeInv
<1>11. RecordsInv
  BY <1>1, <1>5, <1>6 DEF RecordsInv
<1>12. ASSUME NEW l \in Labs PROVE LabInv(l, pr[l], world[l], Mine(l).by, held[l], last[l])
  <2>1. pr[l] = Idle /\ held[l] = {} /\ last[l].cmd = "none"
    BY <1>1
  <2>2. world[l].cr /\ Alone(l) => Mine(l).by = l
    <3> SUFFICES ASSUME world[l].cr, Alone(l) PROVE Mine(l).by = l
      OBVIOUS
    <3>1. TopicOf[l] \in Mirrored /\ TopicOf[l] \in Topics
      BY <1>4, <1>9 DEF Mirrored
    <3>2. Who(TopicOf[l]) \in Labs /\ TopicOf[Who(TopicOf[l])] = TopicOf[l]
      BY <1>4, <1>6, <3>1
    <3>3. Who(TopicOf[l]) = l
      BY <3>2 DEF Alone
    <3> QED BY <1>5, <3>1, <3>3 DEF Mine
  <2>3. Program1(Idle) /\ Clients(Idle, world[l]) /\ Reported(world[l]) /\ Frozen(Idle, world[l]) /\ Listed(Idle)
    BY <1>8, <1>9 DEF Program1, Clients, Frozen, Listed
  <2>4. Tidy(l, Idle, world[l], Mine(l).by) /\ Rested(l, Idle, world[l], Mine(l).by, last[l])
    BY <1>8, <2>1 DEF Tidy, Rested
  <2>5. Owner(l, Idle, world[l], Mine(l).by)
    BY <1>8, <2>2 DEF Owner
  <2>6. DownSpares(l, Idle, world[l], {}) /\ RunSpares(l, Idle, Mine(l).by, {})
    BY <1>8 DEF DownSpares, RunSpares
  <2> QED BY <2>1, <2>3, <2>4, <2>5, <2>6 DEF LabInv
<1> QED BY <1>1, <1>10, <1>11, <1>12 DEF IInv, LabsInv

LEMMA StepInv == IInv /\ [Next]_vars => IInv'
<1> SUFFICES ASSUME IInv, [Next]_vars PROVE IInv'
  OBVIOUS
<1>1. CASE Next
  <2>1. PICK l \in Labs :
            \/ \E cmd \in Commands[l] : \E opts \in Options(cmd) : Start(l, cmd, opts)
            \/ Phase(l) \/ Tear(l) \/ PhasesOver(l) \/ End(l) \/ Interrupt(l) \/ Kill(l)
            \/ Reconcile(l) \/ Report(l) \/ Replicate(l)
    BY <1>1 DEF Next
  <2> QED BY <2>1, StartStep, PhaseStep, TearStep, PhasesOverStep, EndStep, InterruptStep, KillStep,
             OperatorStep, ReplicateStep
<1>2. CASE UNCHANGED vars
  BY <1>2 DEF vars, IInv, TypeInv, RecordsInv, LabsInv, Mine
<1> QED BY <1>1, <1>2

\* For any labs, any commands on them and any failures: the state is of its type, the steps a command has
\* ahead of it and what each lab has agree.
THEOREM Inductive == Spec => []IInv
BY InitInv, StepInv, PTL DEF Spec

-----------------------------------------------------------------------------
(* The bounds, and the type invariant as TLC checks it *)

\* No step but a start gives a lab another command.
KeepsCommands == \A m \in Labs : pr'[m].cmd \in {pr[m].cmd, "none"}

LEMMA MovesOn ==
  ASSUME IInv, NEW l \in Labs, NEW p \in Procs, p.cmd = pr[l].cmd, NEW s, Advance(l, p) \/ Failed(l, s, p)
  PROVE  KeepsCommands
<1>0. pr \in [Labs -> Procs]
  BY DEF IInv, TypeInv
<1>1. PICK q : pr' = [pr EXCEPT ![l] = q] /\ q.cmd = p.cmd
  <2>1. CASE Advance(l, p)
    <3>1. [p EXCEPT !.todo = Tail(@)].cmd = p.cmd
      BY DEF Procs
    <3> QED BY <2>1, <3>1 DEF Advance
  <2>2. CASE Failed(l, s, p) /\ s \in Optional \cup Teardown
    <3> DEFINE q == [[p EXCEPT !.bad = TRUE, !.dirty = @ \/ s \in Teardown] EXCEPT !.todo = Tail(@)]
    <3>1. q.cmd = p.cmd
      BY DEF Procs
    <3>2. pr' = [pr EXCEPT ![l] = q]
      BY <2>2 DEF Failed, Advance
    <3> QED BY <3>1, <3>2
  <2>3. CASE Failed(l, s, p) /\ s \notin Optional \cup Teardown
    <3> DEFINE q == [p EXCEPT !.bad = TRUE, !.dirty = @ \/ s = "prerequisites",
                              !.stage = "cleanup", !.todo = CleanUp(p, s)]
    <3>1. q.cmd = p.cmd
      BY DEF Procs
    <3>2. pr' = [pr EXCEPT ![l] = q]
      BY <2>3 DEF Failed
    <3> QED BY <3>1, <3>2
  <2> QED BY <2>1, <2>2, <2>3
<1> QED BY <1>0, <1>1 DEF KeepsCommands

LEMMA PhaseMovesOn ==
  ASSUME IInv, NEW l \in Labs, Phase(l)
  PROVE  /\ KeepsCommands /\ UNCHANGED <<ran, lost>> /\ (UNCHANGED faults \/ Fault)
<1> DEFINE p == pr[l]
<1>0. p \in Procs
  BY DEF IInv, TypeInv
<1>1. PICK q \in {p, [p EXCEPT !.made = @ \cup MadeNamespace(l)], [p EXCEPT !.dirty = TRUE],
                  [p EXCEPT !.clients = TRUE], [p EXCEPT !.frozen = TRUE], [p EXCEPT !.bad = TRUE]} :
          \E s : Advance(l, q) \/ Failed(l, s, q)
  BY DEF Phase, phasePrerequisites, ReadPhase, phaseSource, phaseCredential, InstallMirror, waitConnectorsRunning,
         ensureClients, phaseSeed, phaseReplicatedTopic, applyCutover, CutoverApplied, proveFrozen, applyRollback,
         RollbackApplied, HelmMirror, Wait, Passed
<1>2. q \in Procs /\ q.cmd = p.cmd
  <2>1. CASE q = [p EXCEPT !.made = @ \cup MadeNamespace(l)]
    <3>1. p.made \cup MadeNamespace(l) \in SUBSET {"namespace"}
      BY <1>0 DEF Procs, MadeNamespace
    <3> QED BY <1>0, <2>1, <3>1 DEF Procs
  <2>2. CASE q \in {p, [p EXCEPT !.dirty = TRUE], [p EXCEPT !.clients = TRUE], [p EXCEPT !.frozen = TRUE],
                    [p EXCEPT !.bad = TRUE]}
    BY <1>0, <2>2 DEF Procs
  <2> QED BY <1>1, <2>1, <2>2
<1>3. KeepsCommands
  BY <1>1, <1>2, MovesOn
<1>4. UNCHANGED <<ran, lost>> /\ (UNCHANGED faults \/ Fault)
  BY DEF Phase, phasePrerequisites, ReadPhase, phaseSource, phaseCredential, InstallMirror, waitConnectorsRunning,
         ensureClients, phaseSeed, phaseReplicatedTopic, applyCutover, CutoverApplied, proveFrozen, applyRollback,
         RollbackApplied, HelmMirror, Wait, Same, Fault
<1> QED BY <1>3, <1>4

LEMMA TearMovesOn ==
  ASSUME IInv, NEW l \in Labs, Tear(l)
  PROVE  /\ KeepsCommands /\ ran' = ran /\ (UNCHANGED faults \/ Fault) /\ lost' \subseteq lost \cup {TopicOf[l]}
<1> DEFINE p == pr[l]
<1>0. p \in Procs
  BY DEF IInv, TypeInv
<1>1. PICK q \in {p, [p EXCEPT !.consent = TRUE], [p EXCEPT !.shared = TRUE],
                  [p EXCEPT !.shared = sharedInternalTopics(l), !.mirrors = @ \cap Others(l)]} :
          \E s : Advance(l, q) \/ Failed(l, s, q)
  BY DEF Tear, confirmTopicData, RemoveStep, deleteClients, ListMirrors, deleteLabTopics, Passed
<1>2. q \in Procs /\ q.cmd = p.cmd
  <2>1. CASE q = [p EXCEPT !.shared = sharedInternalTopics(l), !.mirrors = @ \cap Others(l)]
    <3>1. sharedInternalTopics(l) \in BOOLEAN /\ p.mirrors \cap Others(l) \in SUBSET Labs
      BY <1>0 DEF Procs, sharedInternalTopics
    <3> QED BY <1>0, <2>1, <3>1 DEF Procs
  <2>2. CASE q \in {p, [p EXCEPT !.consent = TRUE], [p EXCEPT !.shared = TRUE]}
    BY <1>0, <2>2 DEF Procs
  <2> QED BY <1>1, <2>1, <2>2
<1>3. KeepsCommands
  BY <1>1, <1>2, MovesOn
<1>4. ran' = ran /\ (UNCHANGED faults \/ Fault)
  BY DEF Tear, confirmTopicData, RemoveStep, deleteClients, ListMirrors, deleteLabTopics, Same, Fault
<1>5. lost' \subseteq lost \cup {TopicOf[l]}
  BY DEF Tear, confirmTopicData, RemoveStep, deleteClients, ListMirrors, deleteLabTopics, Same
<1> QED BY <1>3, <1>4, <1>5

LEMMA StepBounds == IInv /\ Bounded /\ [Next]_vars => Bounded'
<1> SUFFICES ASSUME IInv, Bounded, [Next]_vars PROVE Bounded'
  OBVIOUS
<1> USE BoundAssumption
<1>0. pr \in [Labs -> Procs] /\ TopicOf \in [Labs -> Topics]
  BY LabAssumption DEF IInv, TypeInv
<1>1. CASE UNCHANGED vars
  BY <1>1 DEF vars, Bounded
<1>2. ASSUME NEW l \in Labs, NEW cmd \in Commands[l], NEW opts \in Options(cmd), Start(l, cmd, opts)
      PROVE  Bounded'
  <2>1. ran' \in 0..MaxCommands /\ UNCHANGED <<faults, lost>>
    BY <1>2 DEF Start, Bounded
  <2> DEFINE q == [Idle EXCEPT !.cmd = cmd, !.opts = opts, !.todo = Program(l, cmd, opts),
                               !.consent = "delete-data" \in opts, !.mirrors = Others(l), !.ns0 = world[l].ns]
  <2>2. pr' = [pr EXCEPT ![l] = q]
    BY <1>2 DEF Start
  <2>3. q.cmd = cmd
    BY DEF Idle
  <2> HIDE DEF q
  <2>4. \A m \in Labs : pr'[m].cmd \in Commands[m] \cup {"none"}
    BY <1>0, <2>2, <2>3 DEF Bounded
  <2> QED BY <2>1, <2>4 DEF Bounded
<1>3. ASSUME KeepsCommands, ran' = ran, UNCHANGED faults \/ Fault, lost' \subseteq Topics
      PROVE  Bounded'
  <2>1. ran' \in 0..MaxCommands /\ faults' \in 0..MaxFaults
    BY <1>3 DEF Bounded, Fault
  <2>2. \A m \in Labs : pr'[m].cmd \in Commands[m] \cup {"none"}
    BY <1>3 DEF Bounded, KeepsCommands
  <2> QED BY <1>3, <2>1, <2>2 DEF Bounded
<1>4. ASSUME NEW l \in Labs, Phase(l) PROVE Bounded'
  BY <1>3, <1>4, PhaseMovesOn DEF Bounded
<1>5. ASSUME NEW l \in Labs, Tear(l) PROVE Bounded'
  BY <1>0, <1>3, <1>5, TearMovesOn DEF Bounded
<1>6. ASSUME NEW l \in Labs, PhasesOver(l) \/ End(l) \/ Interrupt(l) \/ Kill(l) PROVE Bounded'
  <2>1. UNCHANGED <<ran, lost>> /\ (UNCHANGED faults \/ Fault)
    BY <1>6 DEF PhasesOver, End, Interrupt, Kill, Fault
  <2>2. KeepsCommands
    <3> DEFINE p == pr[l]
    <3>1. p \in Procs
      BY <1>0
    <3>2. CASE PhasesOver(l)
      BY <1>0, <3>1, <3>2 DEF PhasesOver, KeepsCommands, Procs
    <3>3. CASE Interrupt(l)
      BY <1>0, <3>1, <3>3 DEF Interrupt, KeepsCommands, Procs
    <3>4. CASE End(l) \/ Kill(l)
      <4>1. pr' = [pr EXCEPT ![l] = Idle] /\ Idle.cmd = "none"
        BY <3>4 DEF End, Kill, Idle
      <4> QED BY <1>0, <4>1 DEF KeepsCommands
    <3> QED BY <1>6, <3>2, <3>3, <3>4
  <2> QED BY <1>3, <2>1, <2>2 DEF Bounded
<1>7. ASSUME NEW l \in Labs, Reconcile(l) \/ Report(l) \/ Replicate(l) PROVE Bounded'
  BY <1>3, <1>7 DEF Bounded, KeepsCommands, Reconcile, Report, Replicate, Same
<1> QED BY <1>1, <1>2, <1>4, <1>5, <1>6, <1>7 DEF Next

LEMMA InitBounds == Init => Bounded
BY BoundAssumption DEF Init, Bounded, Idle

\* Every component's state is of its type, and the operator reports on no CR that is not there.
THEOREM TypeCorrect == Spec => []TypeOK
<1>1. IInv /\ Bounded => TypeOK
  <2> SUFFICES ASSUME IInv, Bounded PROVE TypeOK
    OBVIOUS
  <2>1. ASSUME NEW l \in Labs
        PROVE  /\ pr[l].cmd \in Commands[l] \cup {"none"} /\ ToSet(pr[l].todo) \subseteq Steps
               /\ world[l].ns \in {"none", "owned", "foreign"} /\ world[l].want \in {"RUNNING", "STOPPED"}
               /\ world[l].conn \in States /\ world[l].status \in States
               /\ world[l].status # "none" => world[l].cr
    <3>1. pr[l] \in Procs /\ world[l] \in Worlds /\ Reported(world[l])
      BY DEF IInv, TypeInv, LabsInv, LabInv
    <3>2. ToSet(pr[l].todo) \subseteq Steps
      BY <3>1 DEF Procs, ToSet
    <3> QED BY <3>1, <3>2 DEF Bounded, Worlds, Reported
  <2>2. \A t \in Topics : topic[t].by \in Labs \cup {"none", "user"} /\ (topic[t].data => topic[t].by # "none")
    BY DEF IInv, TypeInv, RecordsInv, Owners
  <2>3. ckpt \in BOOLEAN /\ cut \in BOOLEAN
    BY DEF IInv, TypeInv
  <2> QED BY <2>1, <2>2, <2>3 DEF TypeOK, Bounded
<1> QED BY <1>1, InitInv, StepInv, InitBounds, StepBounds, PTL DEF Spec

-----------------------------------------------------------------------------
(* What the commands take from nobody, and leave to nobody *)

\* Every command cleans up after itself, however it ends unless it was killed, told --keep, or the call that
\* deletes its pods failed, and a run whose teardown met no failure leaves nothing of its lab (ensureClients,
\* deleteClients, runMigrateRun, labDown).
THEOREM CleansUp == Spec => []NothingIsLeftBehind
<1>1. IInv => NothingIsLeftBehind
  <2> SUFFICES ASSUME IInv, NEW l \in Labs
               PROVE  /\ world[l].pods => pr[l].clients \/ world[l].left
                      /\ pr[l].cmd = "none" /\ last[l].cmd = "run" /\ last[l].clean =>
                           /\ ~world[l].src /\ ~world[l].secret /\ ~world[l].rel /\ ~world[l].cr /\ ~world[l].files
                           /\ world[l].pods => world[l].left
                           /\ Mine(l).by # l
                           /\ last[l].ns0 = "none" => world[l].ns = "none"
    BY DEF NothingIsLeftBehind, ClientsRemoved, RunLeavesNothing
  <2>1. LabInv(l, pr[l], world[l], Mine(l).by, held[l], last[l])
    BY DEF IInv, LabsInv
  <2> QED BY <2>1 DEF LabInv, Clients, Rested, Program1
<1> QED BY <1>1, Inductive, PTL

\* A cutover that says the source connector is stopped is right, whatever was reported of an earlier one
\* (waitConnectorStates, ParseMirrorStatus).
THEOREM StoppedIsStopped == Spec => []StoppedMeansStopped
<1>1. IInv => StoppedMeansStopped
  BY DEF IInv, LabsInv, LabInv, Frozen, StoppedMeansStopped
<1> QED BY <1>1, Inductive, PTL

\* A teardown leaves the checkpoints topic to the other mirrors, and no command loses, without a consent,
\* records it found in a topic no other lab mirrors (sharedInternalTopics, guardLabTopics,
\* refuseExistingTopics).
THEOREM OnlySharedTopicsAreLost == Spec => [](CheckpointsKept /\ lost \subseteq SharedTopics)
<1>1. IInv => CheckpointsKept /\ lost \subseteq SharedTopics
  BY DEF IInv, CheckpointsKept
<1> QED BY <1>1, Inductive, PTL

\* When each lab mirrors a topic of its own, no command takes from the user, or from another mirror, what is
\* not its lab's (phasePrerequisites, confirmTopicData, deleteLabTopics).
THEOREM NobodyElseLoses ==
  ASSUME TopicsAreTheirOwn
  PROVE  Spec => []OthersAreSpared
<1>1. SharedTopics = {}
  BY DEF SharedTopics, Alone, TopicsAreTheirOwn
<1>2. IInv => OthersAreSpared
  BY <1>1 DEF IInv, OthersAreSpared, NoDataLost, CheckpointsKept
<1> QED BY <1>2, Inductive, PTL

\* Whoever shares the topic, no `down` deletes records it found there without a second consent
\* (runMigrateDown, guardLabTopics).
DownLosesNothing ==
  [][\A l \in Labs : pr[l].cmd = "down" /\ deleteLabTopics(l) => lost' = lost]_vars

THEOREM DownAsksFirst == Spec => DownLosesNothing
<1>1. IInv /\ [Next]_vars => [\A l \in Labs : pr[l].cmd = "down" /\ deleteLabTopics(l) => lost' = lost]_vars
  <2> SUFFICES ASSUME IInv, NEW l \in Labs, pr[l].cmd = "down", deleteLabTopics(l)
               PROVE  lost' = lost
    OBVIOUS
  <2>1. Next1(l, "delete topics")
    BY DEF deleteLabTopics
  <2>2. "keep-topics" \in pr[l].opts \/ pr[l].consent \/ TopicOf[l] \notin held[l]
    BY <2>1, MayLose
  <2> QED BY <2>2 DEF deleteLabTopics
<1> QED BY <1>1, Inductive, PTL DEF Spec, DownLosesNothing
=============================================================================
