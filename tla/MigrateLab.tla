----------------------------- MODULE MigrateLab -----------------------------
(***************************************************************************)
(* The migration labs of `kates migrate` (cli/cmd/migrate*.go and          *)
(* cli/pkg/migrate): a legacy Kafka source, a MirrorMaker 2 that copies    *)
(* its topic onto the target, and the commands that create, verify, cut    *)
(* over, roll back and remove them.                                        *)
(*                                                                         *)
(* A command is a sequence of steps, the phases of migrate.RunPhases       *)
(* followed by its clean-up; each step is one action, and so is the death  *)
(* of the process between two steps.  A command keeps nothing in memory    *)
(* for the next one: down, verify and cutover find the lab again by label. *)
(* Each lab has one source and one topic, the SASL credential of its       *)
(* source, and at most one command at a time.                              *)
(***************************************************************************)
EXTENDS Naturals, Sequences, FiniteSets, SequencesExt

CONSTANTS
    Labs,         \* lab names
    Topics,       \* mirrored topic names on the target
    TopicOf,      \* the topic each lab mirrors: [Labs -> Topics]
    Taken,        \* topics the user may have had on the target before any lab
    Standing,     \* labs an earlier `up` may have created
    Found,        \* labs whose source namespace may have been there before
    Commands,     \* the commands the user runs on each lab: [Labs -> SUBSET of the names]
    MaxCommands,  \* bound on commands, over all labs
    MaxFaults     \* bound on failing calls, signals and kills

CommandNames == {"up", "run", "verify", "cutover", "rollback", "down", "mirror deploy", "mirror cutover",
                 "mirror rollback", "mirror remove", "source deploy", "source remove"}

ASSUME LabAssumption == /\ TopicOf \in [Labs -> Topics] /\ Taken \subseteq Topics
                        /\ Commands \in [Labs -> SUBSET CommandNames]
                        /\ Standing \subseteq Labs /\ Labs \cap {"none", "user"} = {}
ASSUME BoundAssumption == MaxCommands \in Nat /\ MaxFaults \in Nat

VARIABLES
    ran,     \* commands started
    faults,  \* failures so far
    pr,      \* per lab: the command at work on it
    world,   \* per lab: what it has in the cluster and on disk
    topic,   \* per topic: who made it, and whether it holds records
    ckpt,    \* source.checkpoints.internal exists on the target
    held,    \* history, per lab: topics with records that its command found and must not lose
    lost,    \* history: topics deleted with records nobody agreed to lose
    cut,     \* history: a teardown took the checkpoints another mirror was using
    last     \* per lab: the last command and how it ended

vars == <<ran, faults, pr, world, topic, ckpt, held, lost, cut, last>>

\* phaseMirror installs the release, then waits for the connectors; the cutover rehearsal
\* applies the cutover, waits for the connectors and proves the target frozen.
phaseMirror == <<"mirror", "connectors running">>
phaseCutoverRehearsal == <<"cutover", "source stopped", "frozen">>

upPhases == <<"prerequisites", "image", "source", "credential">> \o phaseMirror

verifyPhases(cutover) ==
    <<"clients", "seed", "source end offsets", "source consumer group", "replicated topic",
      "read back", "offset translation">>
    \o (IF cutover THEN phaseCutoverRehearsal ELSE <<>>)

\* The phases whose failure is a failed row and not the end of the phases.  The rehearsal is
\* optional too, and comes last.
Optional == {"source end offsets", "source consumer group", "read back", "offset translation"}

(***************************************************************************)
(* What a command knows of a lab it has found (labDiscovery): the mirror,  *)
(* its namespace, the target and the topics are read off the custom        *)
(* resource; the release, namespace and owner of the source off the        *)
(* StatefulSet.  discoverLab finds nothing when neither carries the label. *)
(***************************************************************************)
discoverLab(l) ==
    (IF world[l].cr THEN {"mirror"} ELSE {}) \cup
    (IF world[l].src THEN {"source"} ELSE {}) \cup
    (IF world[l].src /\ world[l].ns = "owned" THEN {"namespace"} ELSE {})

\* run knows its own lab without asking the cluster; it owns the namespace it created.
discoveryFromLab(p) == {"mirror", "source"} \cup p.made

(***************************************************************************)
(* labDown: what is removed, in order.  Every step goes on after an error. *)
(***************************************************************************)
labDown(known) ==
    <<"delete pods">>
    \o (IF "mirror" \in known THEN <<"uninstall mirror", "delete CR">> ELSE <<>>)
    \o (IF "source" \in known THEN <<"uninstall source">> ELSE <<>>)
    \o (IF "mirror" \in known THEN <<"list mirrors", "delete topics", "delete secrets">> ELSE <<>>)
    \o (IF "namespace" \in known THEN <<"delete namespace">> ELSE <<>>)
    \o <<"delete files">>

runMigrateSourceRemove(known) ==
    <<"delete pods", "uninstall source">>
    \o (IF "namespace" \in known THEN <<"delete namespace">> ELSE <<>>)
    \o <<"delete files", "delete secrets">>

runMigrateMirrorRemove == <<"uninstall mirror!", "delete CR!">>

Teardown == {"delete pods", "uninstall mirror", "delete CR", "uninstall source", "list mirrors",
             "delete topics", "delete secrets", "delete namespace", "delete files", "deleteClients"}

-----------------------------------------------------------------------------
Idle == [cmd |-> "none", todo |-> <<>>, stage |-> "phases", opts |-> {}, clients |-> FALSE,
         made |-> {}, ns0 |-> "none", shared |-> FALSE, consent |-> FALSE, mirrors |-> {},
         bad |-> FALSE, dirty |-> FALSE, frozen |-> FALSE]

NoLab == [ns |-> "none", src |-> FALSE, secret |-> FALSE, rel |-> FALSE, cr |-> FALSE,
          want |-> "RUNNING", conn |-> "none", status |-> "none", seen |-> FALSE, observed |-> FALSE,
          pods |-> FALSE, left |-> FALSE, files |-> FALSE, produced |-> FALSE]

Up == [NoLab EXCEPT !.ns = "owned", !.src = TRUE, !.secret = TRUE, !.rel = TRUE, !.cr = TRUE,
                    !.conn = "RUNNING", !.status = "RUNNING", !.seen = TRUE, !.observed = TRUE, !.files = TRUE]

Init ==
    /\ ran = 0 /\ faults = 0 /\ lost = {} /\ cut = FALSE
    /\ pr = [l \in Labs |-> Idle] /\ held = [l \in Labs |-> {}]
    /\ \E up \in SUBSET Standing, found \in SUBSET Found, taken \in SUBSET Taken :
           /\ world = [l \in Labs |-> IF l \in up THEN Up
                          ELSE [NoLab EXCEPT !.ns = IF l \in found THEN "foreign" ELSE "none"]]
           /\ topic = [t \in Topics |->
                          [by |-> IF t \in {TopicOf[l] : l \in up} THEN CHOOSE l \in up : TopicOf[l] = t
                                  ELSE IF t \in taken THEN "user" ELSE "none",
                           data |-> t \in taken \ {TopicOf[l] : l \in up}]]
           /\ ckpt = (up # {})
    /\ last = [l \in Labs |-> [cmd |-> "none", ok |-> TRUE, clean |-> FALSE, ns0 |-> "none"]]

Mine(l) == topic[TopicOf[l]]
Fault == faults < MaxFaults /\ faults' = faults + 1
Same == UNCHANGED <<ran, topic, ckpt, held, lost, cut>>
World(l, w) == world' = [world EXCEPT ![l] = w]
Others(l) == {m \in Labs \ {l} : world[m].cr}

(***************************************************************************)
(* Starting a command: what it must find first, and its steps.             *)
(***************************************************************************)
\* The checks a cutover must pass, read off the status the operator last reported.
cutoverPreChecks(l) == world[l].cr /\ world[l].src /\ world[l].status = "RUNNING"

CanStart(l, cmd) ==
    CASE cmd \in {"up", "run", "source deploy"} -> TRUE
      \* openLabRun needs the source's version, which is on its StatefulSet.
      [] cmd \in {"verify", "rollback", "mirror deploy", "source remove"} -> world[l].src
      [] cmd = "cutover" -> cutoverPreChecks(l)
      [] cmd \in {"mirror cutover", "mirror rollback", "mirror remove"} -> world[l].cr
      [] cmd = "down" -> discoverLab(l) # {}

runMigrateUp == upPhases
runMigrateVerify == verifyPhases(FALSE)
runMigrateCutover == <<"clients">> \o phaseCutoverRehearsal
runMigrateRollback == <<"rollback", "source running">>
runMigrateRun == upPhases \o verifyPhases(TRUE)
runMigrateMirrorDeploy == <<"prerequisites">> \o phaseMirror
runMigrateMirrorCutover(rollback) == IF rollback THEN runMigrateRollback ELSE <<"cutover", "source stopped">>
runMigrateSourceDeploy == <<"image", "source", "credential">>

\* Without --keep-topics, and with a mirror to say which topics, the records are looked at first.
runMigrateDown(known, opts) ==
    (IF "mirror" \in known /\ "keep-topics" \notin opts THEN <<"guard">> ELSE <<>>) \o labDown(known)

Program(l, cmd, opts) ==
    CASE cmd = "up" -> runMigrateUp
      [] cmd = "run" -> runMigrateRun
      [] cmd = "verify" -> runMigrateVerify
      [] cmd = "cutover" -> runMigrateCutover
      [] cmd = "rollback" -> runMigrateRollback
      [] cmd = "mirror deploy" -> runMigrateMirrorDeploy
      [] cmd = "mirror cutover" -> runMigrateMirrorCutover(FALSE)
      [] cmd = "mirror rollback" -> runMigrateMirrorCutover(TRUE)
      [] cmd = "mirror remove" -> runMigrateMirrorRemove
      [] cmd = "source deploy" -> runMigrateSourceDeploy
      [] cmd = "source remove" -> runMigrateSourceRemove(discoverLab(l))
      [] cmd = "down" -> runMigrateDown(discoverLab(l), opts)

Options(cmd) ==
    CASE cmd = "down" -> {{}, {"keep-topics"}, {"delete-data"}}
      [] cmd \in {"run", "verify"} -> {{}, {"keep"}}
      [] OTHER -> {{}}

\* What a command must not lose: the user's topics, and for down every topic with records.
Held(l, cmd) ==
    {t \in Topics : topic[t].data /\ (cmd = "down" \/ topic[t].by # l)}

Start(l, cmd, opts) ==
    /\ pr[l].cmd = "none" /\ ran < MaxCommands /\ ran' = ran + 1
    /\ CanStart(l, cmd)
    /\ pr' = [pr EXCEPT ![l] = [Idle EXCEPT
                 !.cmd = cmd, !.opts = opts, !.todo = Program(l, cmd, opts),
                 !.consent = "delete-data" \in opts,
                 !.mirrors = Others(l), !.ns0 = world[l].ns]]
    /\ held' = [held EXCEPT ![l] = Held(l, cmd)]
    /\ UNCHANGED <<faults, world, topic, ckpt, lost, cut, last>>

-----------------------------------------------------------------------------
(***************************************************************************)
(* RunPhases.  A phase that succeeds is followed by the next; a failure    *)
(* that is not optional ends the phases, and the command's clean-up runs.  *)
(***************************************************************************)
Next1(l, s) == pr[l].todo # <<>> /\ Head(pr[l].todo) = s

Advance(l, p) == pr' = [pr EXCEPT ![l] = [p EXCEPT !.todo = Tail(@)]]
Passed(l) == Advance(l, pr[l])

\* The clean-up after the phases: it runs on a context of its own.
CleanUp(p, failedAt) ==
    CASE p.cmd = "run" /\ failedAt = "prerequisites" -> <<>>
      [] p.cmd = "run" /\ failedAt # "prerequisites" /\ "keep" \in p.opts -> <<"deleteClients">>
      [] p.cmd = "run" /\ failedAt # "prerequisites" /\ "keep" \notin p.opts ->
             <<"deleteClients">> \o labDown(discoveryFromLab(p))
      [] p.cmd = "verify" /\ "keep" \notin p.opts -> <<"deleteClients">>
      [] p.cmd = "cutover" -> <<"deleteClients">>
      [] OTHER -> <<>>

Failed(l, s, p) ==
    IF s \in Optional \cup Teardown
    THEN Advance(l, [p EXCEPT !.bad = TRUE, !.dirty = @ \/ s \in Teardown])
    ELSE pr' = [pr EXCEPT ![l] = [p EXCEPT
             !.bad = TRUE, !.dirty = @ \/ s = "prerequisites",
             !.stage = "cleanup", !.todo = CleanUp(p, s)]]

\* The phases are over: the clean-up, and then the command ends.
PhasesOver(l) ==
    /\ pr[l].cmd # "none" /\ pr[l].todo = <<>> /\ pr[l].stage = "phases"
    /\ pr' = [pr EXCEPT ![l].todo = CleanUp(pr[l], "none"), ![l].stage = "cleanup"]
    /\ UNCHANGED <<ran, faults, world, topic, ckpt, held, lost, cut, last>>

Kept(l) == "keep" \in pr[l].opts /\ pr[l].clients

End(l) ==
    /\ pr[l].cmd # "none" /\ pr[l].todo = <<>> /\ pr[l].stage = "cleanup"
    /\ last' = [last EXCEPT ![l] = [cmd |-> pr[l].cmd, ok |-> ~pr[l].bad, ns0 |-> pr[l].ns0,
                   clean |-> ~pr[l].dirty /\ "keep" \notin pr[l].opts]]
    \* --keep-topics hands the mirrored topic over to the user.
    /\ topic' = IF pr[l].cmd = "down" /\ "keep-topics" \in pr[l].opts /\ ~pr[l].bad /\ Mine(l).by = l
                THEN [topic EXCEPT ![TopicOf[l]].by = "user"] ELSE topic
    /\ World(l, [world[l] EXCEPT !.left = @ \/ Kept(l)])
    /\ pr' = [pr EXCEPT ![l] = Idle] /\ held' = [held EXCEPT ![l] = {}]
    /\ UNCHANGED <<ran, faults, ckpt, lost, cut>>

\* Ctrl-C: run stops before its next phase and still cleans up.  It ends any other command.
Interrupt(l) ==
    /\ pr[l].cmd = "run" /\ pr[l].stage = "phases" /\ pr[l].todo # <<>> /\ Fault
    /\ pr' = [pr EXCEPT ![l].bad = TRUE, ![l].stage = "cleanup", ![l].todo = CleanUp(pr[l], Head(@)),
                 ![l].dirty = @ \/ Head(pr[l].todo) = "prerequisites"]
    /\ UNCHANGED <<ran, world, topic, ckpt, held, lost, cut, last>>

Kill(l) ==
    /\ pr[l].cmd # "none" /\ Fault
    /\ last' = [last EXCEPT ![l] = [cmd |-> "killed", ok |-> FALSE, clean |-> FALSE, ns0 |-> "none"]]
    /\ World(l, [world[l] EXCEPT !.left = @ \/ pr[l].clients])
    /\ pr' = [pr EXCEPT ![l] = Idle] /\ held' = [held EXCEPT ![l] = {}]
    /\ UNCHANGED <<ran, topic, ckpt, lost, cut>>

-----------------------------------------------------------------------------
(***************************************************************************)
(* The phases.                                                             *)
(***************************************************************************)
\* Another lab's mirror writes this topic name onto the target.
Overlaps(l) == \E m \in Others(l) : TopicOf[m] = TopicOf[l]

\* As a bug could have it: only another lab's topic is refused.
refuseLabTopicsOnly(l, written) == Mine(l).by \in Labs /\ ~written

\* The target has a topic of that name, and it is not this lab's own mirror's.
refuseExistingTopics(l, written) == Mine(l).by # "none" /\ ~written

phasePrerequisites(l) ==
    /\ Next1(l, "prerequisites")
    /\ \/ /\ faults' = faults
          /\ IF Overlaps(l) \/ refuseExistingTopics(l, world[l].cr)
             THEN Failed(l, "prerequisites", pr[l]) ELSE Passed(l)
       \* The mirrors cannot be listed: no lab is seen, its own included.
       \/ /\ Fault
          /\ IF refuseExistingTopics(l, FALSE) THEN Failed(l, "prerequisites", pr[l]) ELSE Passed(l)
       \/ Fault /\ Failed(l, "prerequisites", pr[l])
    /\ UNCHANGED <<world, last>> /\ Same

\* A phase that changes nothing of the lab: it passes, or a call of it fails.
Reading == {"image", "source end offsets", "source consumer group", "read back", "offset translation"}

ReadPhase(l) ==
    /\ \E s \in Reading : Next1(l, s) /\ ((UNCHANGED faults /\ Passed(l)) \/ (Fault /\ Failed(l, s, pr[l])))
    /\ UNCHANGED <<world, last>> /\ Same

\* The namespace is the lab's own when this command created it.
ensureLabNamespace(l) == [world[l] EXCEPT !.ns = IF @ = "none" THEN "owned" ELSE @]

MadeNamespace(l) == IF world[l].ns = "none" THEN {"namespace"} ELSE {}

phaseSource(l) ==
    /\ Next1(l, "source")
    /\ LET made == [pr[l] EXCEPT !.made = @ \cup MadeNamespace(l)]
       IN  \/ /\ World(l, [ensureLabNamespace(l) EXCEPT !.files = TRUE, !.src = TRUE])
              /\ Advance(l, made) /\ UNCHANGED faults
           \* Nothing was done; or the namespace, the values file, the release, and then a failure.
           \/ Fault /\ UNCHANGED world /\ Failed(l, "source", pr[l])
           \* The namespace was created and the answer lost: nobody knows that it is the lab's.
           \/ /\ Fault /\ World(l, ensureLabNamespace(l))
              /\ Failed(l, "source", [pr[l] EXCEPT !.dirty = TRUE])
           \/ /\ Fault
              /\ \E files, src \in BOOLEAN :
                     (src => files) /\ World(l, [ensureLabNamespace(l) EXCEPT !.files = @ \/ files, !.src = @ \/ src])
              /\ Failed(l, "source", made)
    /\ UNCHANGED last /\ Same

phaseCredential(l) ==
    /\ Next1(l, "credential")
    /\ \/ World(l, [world[l] EXCEPT !.secret = TRUE]) /\ Passed(l) /\ UNCHANGED faults
       \/ Fault /\ Failed(l, "credential", pr[l]) /\ UNCHANGED world
    /\ UNCHANGED last /\ Same

\* A new spec is a new generation, which the operator has yet to see.
Spec1(w, want) == [w EXCEPT !.want = want, !.seen = @ /\ w.want = want, !.observed = @ /\ w.want = want]

InstallMirror(l) ==
    /\ Next1(l, "mirror")
    /\ LET w == Spec1([world[l] EXCEPT !.files = TRUE, !.rel = TRUE, !.cr = TRUE], "RUNNING")
       IN  \/ World(l, w) /\ Passed(l) /\ UNCHANGED faults
           \* Before helm; in the chart's preflight, with a release and no CR; after the CR.
           \/ /\ Fault /\ Failed(l, "mirror", pr[l])
              /\ \E half \in {[world[l] EXCEPT !.files = TRUE],
                              [world[l] EXCEPT !.files = TRUE, !.rel = TRUE], w} : World(l, half)
    /\ UNCHANGED last /\ Same

\* A wait for the connectors, bounded by the command's timeout.
Wait(l, s, reached) ==
    /\ Next1(l, s)
    /\ \/ reached /\ UNCHANGED faults /\ Passed(l)
       \/ Fault /\ Failed(l, s, pr[l])
    /\ UNCHANGED <<world, last>> /\ Same

waitConnectorsRunning(l) == Wait(l, "connectors running", world[l].status = "RUNNING")

\* As a bug could have it: whatever generation the status is of.
waitConnectorStatesAnyGeneration(l, state) == world[l].status = state

waitConnectorStates(l, state) == world[l].status = state /\ world[l].observed

\* As a bug could have it: the pods are registered for deletion once they are ready.
ensureClientsThenRegister(l) ==
    /\ Next1(l, "clients")
    /\ \/ /\ world[l].secret /\ UNCHANGED faults
          /\ World(l, [world[l] EXCEPT !.pods = TRUE]) /\ Advance(l, [pr[l] EXCEPT !.clients = TRUE])
       \/ /\ ~world[l].secret /\ UNCHANGED faults
          /\ World(l, [world[l] EXCEPT !.pods = TRUE]) /\ Failed(l, "clients", pr[l])
    /\ UNCHANGED last /\ Same

ensureClients(l) ==
    /\ Next1(l, "clients")
    /\ LET p == [pr[l] EXCEPT !.clients = TRUE]
       IN  \/ /\ world[l].secret /\ UNCHANGED faults
              /\ World(l, [world[l] EXCEPT !.pods = TRUE]) /\ Advance(l, p)
           \* The credential is gone: the pods are there by then.
           \/ /\ ~world[l].secret /\ UNCHANGED faults
              /\ World(l, [world[l] EXCEPT !.pods = TRUE]) /\ Failed(l, "clients", p)
           \/ /\ Fault /\ Failed(l, "clients", p)
              /\ \E pods \in BOOLEAN : World(l, [world[l] EXCEPT !.pods = @ \/ pods])
    /\ UNCHANGED last /\ Same

phaseSeed(l) ==
    /\ Next1(l, "seed")
    /\ \/ World(l, [world[l] EXCEPT !.produced = TRUE]) /\ Passed(l) /\ UNCHANGED faults
       \/ Fault /\ Failed(l, "seed", pr[l]) /\ UNCHANGED world
    /\ UNCHANGED last /\ Same

phaseReplicatedTopic(l) ==
    /\ Next1(l, "replicated topic")
    /\ \/ Mine(l).by # "none" /\ Passed(l) /\ UNCHANGED faults
       \/ /\ Mine(l).by = "none" /\ (world[l].cr => faults < MaxFaults)
          /\ faults' = IF world[l].cr THEN faults + 1 ELSE faults
          /\ Failed(l, "replicated topic", pr[l])
    /\ UNCHANGED <<world, last>> /\ Same

\* helm upgrade of the mirror's release, with the cutover's overlay or the rollback's.
HelmMirror(l, s, want) ==
    /\ Next1(l, s)
    /\ LET w == [world[l] EXCEPT !.files = @ \/ s = "rollback"]
       IN  \/ world[l].rel /\ World(l, Spec1(w, want)) /\ Passed(l) /\ UNCHANGED faults
           \/ ~world[l].rel /\ World(l, w) /\ Failed(l, s, pr[l]) /\ UNCHANGED faults
           \/ /\ world[l].rel /\ Fault /\ Failed(l, s, pr[l])
              /\ \E half \in {w, Spec1(w, want)} : World(l, half)
    /\ UNCHANGED last /\ Same

applyCutover(l) == HelmMirror(l, "cutover", "STOPPED")
applyRollback(l) == HelmMirror(l, "rollback", "RUNNING")

CutoverApplied(l) ==
    /\ Next1(l, "source stopped")
    /\ \/ /\ waitConnectorStates(l, "STOPPED") /\ UNCHANGED faults
          /\ Advance(l, [pr[l] EXCEPT !.frozen = TRUE])
       \/ Fault /\ Failed(l, "source stopped", pr[l])
    /\ UNCHANGED <<world, last>> /\ Same

RollbackApplied(l) == Wait(l, "source running", waitConnectorStates(l, "RUNNING"))

\* The target's end offsets before and after more records to the source.  A mirror that still
\* runs moves them, unless it is slow; a baseline below the corpus proves nothing.
proveFrozen(l) ==
    /\ Next1(l, "frozen") /\ UNCHANGED faults
    /\ \/ world[l].produced /\ Mine(l).data /\ Passed(l)
       \/ (~Mine(l).data \/ world[l].conn = "RUNNING") /\ Advance(l, [pr[l] EXCEPT !.bad = TRUE])
    /\ UNCHANGED <<world, last>> /\ Same

-----------------------------------------------------------------------------
(***************************************************************************)
(* The teardown.                                                           *)
(***************************************************************************)
\* The topics a second consent is asked for; a target that cannot be read counts them all.
guardLabTopics(l, readable) == readable => Mine(l).by # "none" /\ Mine(l).data

confirmTopicData(l) ==
    /\ Next1(l, "guard")
    /\ \E readable \in BOOLEAN :
           /\ IF readable THEN UNCHANGED faults ELSE Fault
           /\ \/ (~guardLabTopics(l, readable) \/ pr[l].consent) /\ Passed(l)
              \* The prompt: yes, or no and nothing is removed.
              \/ /\ guardLabTopics(l, readable) /\ ~pr[l].consent
                 /\ \/ Advance(l, [pr[l] EXCEPT !.consent = TRUE])
                    \/ Failed(l, "guard", pr[l])
    /\ UNCHANGED <<world, last>> /\ Same

Gone(w) == [w EXCEPT !.cr = FALSE, !.conn = "none", !.status = "none", !.seen = FALSE, !.observed = FALSE]

Removal(w, s) ==
    CASE s = "delete pods" -> [w EXCEPT !.pods = FALSE]
      [] s \in {"uninstall mirror", "uninstall mirror!"} -> [w EXCEPT !.rel = FALSE]
      [] s \in {"delete CR", "delete CR!"} -> Gone(w)
      [] s = "uninstall source" -> [w EXCEPT !.src = FALSE]
      [] s = "delete secrets" -> [w EXCEPT !.secret = FALSE]
      [] s = "delete namespace" -> [w EXCEPT !.ns = "none", !.src = FALSE]
      [] s = "delete files" -> [w EXCEPT !.files = FALSE]

RemoveStep(l) ==
    /\ \E s \in (Teardown \ {"list mirrors", "delete topics", "deleteClients"})
                \cup {"uninstall mirror!", "delete CR!"} :
           /\ Next1(l, s)
           /\ \/ World(l, Removal(world[l], s)) /\ Passed(l) /\ UNCHANGED faults
              \/ s # "delete files" /\ Fault /\ Failed(l, s, pr[l]) /\ UNCHANGED world
    /\ UNCHANGED last /\ Same

deleteClients(l) ==
    /\ Next1(l, "deleteClients")
    /\ \/ World(l, [world[l] EXCEPT !.pods = @ /\ ~pr[l].clients]) /\ UNCHANGED faults
       \/ Fault /\ World(l, [world[l] EXCEPT !.left = TRUE])
    /\ Passed(l) /\ UNCHANGED last /\ Same

\* The mirror's own topics another mirror also writes are kept; all are when it cannot tell.
sharedInternalTopics(l) == Others(l) # {}

\* Of the mirrors that were there when the teardown began it answers for those it can still see.
ListMirrors(l) ==
    /\ Next1(l, "list mirrors")
    /\ \/ /\ Advance(l, [pr[l] EXCEPT !.shared = sharedInternalTopics(l), !.mirrors = @ \cap Others(l)])
          /\ UNCHANGED faults
       \/ Fault /\ Failed(l, "list mirrors", [pr[l] EXCEPT !.shared = TRUE])
    /\ UNCHANGED <<world, last>> /\ Same

\* The records of a topic that is deleted are gone for every command: what is written to it later is not
\* what they found.
deleteLabTopics(l) ==
    /\ Next1(l, "delete topics")
    /\ \/ /\ UNCHANGED faults /\ Passed(l)
          /\ IF "keep-topics" \in pr[l].opts THEN UNCHANGED <<topic, held, lost>>
             ELSE /\ topic' = [topic EXCEPT ![TopicOf[l]] = [by |-> "none", data |-> FALSE]]
                  /\ lost' = IF pr[l].consent THEN lost ELSE lost \cup (held[l] \cap {TopicOf[l]})
                  /\ held' = [m \in Labs |-> held[m] \ {TopicOf[l]}]
          /\ ckpt' = (ckpt /\ pr[l].shared)
          /\ cut' = (cut \/ (ckpt /\ ~pr[l].shared /\ pr[l].mirrors \cap Others(l) # {}))
       \/ Fault /\ Failed(l, "delete topics", pr[l]) /\ UNCHANGED <<topic, ckpt, held, lost, cut>>
    /\ UNCHANGED <<ran, world, last>>

-----------------------------------------------------------------------------
(***************************************************************************)
(* The Strimzi operator and MirrorMaker, external: a reconciliation brings *)
(* the connectors to the spec it read, and ends by reporting what it saw   *)
(* under the generation it read.                                           *)
(***************************************************************************)
Reconcile(l) ==
    /\ world[l].cr /\ ~world[l].seen
    /\ World(l, [world[l] EXCEPT !.seen = TRUE, !.conn = world[l].want])
    /\ UNCHANGED <<faults, pr, last>> /\ Same

Report(l) ==
    /\ world[l].cr /\ world[l].conn # "none"
    /\ <<world[l].status, world[l].observed>> # <<world[l].conn, world[l].seen>>
    /\ World(l, [world[l] EXCEPT !.status = world[l].conn, !.observed = world[l].seen])
    /\ UNCHANGED <<faults, pr, last>> /\ Same

Replicate(l) ==
    /\ world[l].conn = "RUNNING" /\ world[l].src
    /\ ~ckpt \/ Mine(l).by = "none" \/ (world[l].produced /\ ~Mine(l).data)
    /\ ckpt' = TRUE
    /\ topic' = [topic EXCEPT ![TopicOf[l]] = [by |-> IF @.by = "none" THEN l ELSE @.by,
                                               data |-> @.data \/ world[l].produced]]
    /\ UNCHANGED <<ran, faults, pr, world, held, lost, cut, last>>

Phase(l) ==
    \/ phasePrerequisites(l) \/ ReadPhase(l) \/ phaseSource(l) \/ phaseCredential(l)
    \/ InstallMirror(l) \/ waitConnectorsRunning(l) \/ ensureClients(l) \/ phaseSeed(l)
    \/ phaseReplicatedTopic(l) \/ applyCutover(l) \/ CutoverApplied(l) \/ proveFrozen(l)
    \/ applyRollback(l) \/ RollbackApplied(l)

Tear(l) == confirmTopicData(l) \/ RemoveStep(l) \/ deleteClients(l) \/ ListMirrors(l) \/ deleteLabTopics(l)

Next ==
    \E l \in Labs :
        \/ \E cmd \in Commands[l] : \E opts \in Options(cmd) : Start(l, cmd, opts)
        \/ Phase(l) \/ Tear(l) \/ PhasesOver(l) \/ End(l) \/ Interrupt(l) \/ Kill(l)
        \/ Reconcile(l) \/ Report(l) \/ Replicate(l)

Spec == Init /\ [][Next]_vars

-----------------------------------------------------------------------------
States == {"none", "RUNNING", "STOPPED"}
Steps == Teardown \cup Reading \cup {"prerequisites", "source", "credential", "mirror", "connectors running",
             "clients", "seed", "replicated topic", "cutover", "source stopped", "frozen", "rollback",
             "source running", "guard", "uninstall mirror!", "delete CR!"}

\* Every component's state is of its type; the operator reports on no CR that is not there.
TypeOK ==
    /\ ran \in 0..MaxCommands /\ faults \in 0..MaxFaults /\ ckpt \in BOOLEAN /\ cut \in BOOLEAN
    /\ lost \subseteq Topics
    /\ \A l \in Labs :
           /\ pr[l].cmd \in Commands[l] \cup {"none"} /\ ToSet(pr[l].todo) \subseteq Steps
           /\ world[l].ns \in {"none", "owned", "foreign"} /\ world[l].want \in {"RUNNING", "STOPPED"}
           /\ world[l].conn \in States /\ world[l].status \in States
           /\ world[l].status # "none" => world[l].cr
    /\ \A t \in Topics : topic[t].by \in Labs \cup {"none", "user"} /\ (topic[t].data => topic[t].by # "none")

\* No command deletes records that were there and not its own lab's when it began, and down none at
\* all, without a second consent: not a topic the user had before the lab, not one an earlier
\* `down --keep-topics` left behind, whatever call fails and wherever a run is interrupted
\* (refuseExistingTopics, guardLabTopics, runMigrateRun's clean-up).
NoDataLost == lost = {}

\* A teardown leaves the checkpoints topic to every other mirror that was there when it began and
\* when it looked (sharedInternalTopics).
CheckpointsKept == ~cut

\* The client pods of verify, cutover and run do not outlive the command, however it ends, unless
\* it was killed, was told --keep, or the call that deletes them failed (ensureClients,
\* deleteClients).
ClientsRemoved == \A l \in Labs : world[l].pods => pr[l].clients \/ world[l].left

\* A run that got past its prerequisites and whose teardown met no failing call leaves nothing
\* of its lab: not the values files, which may hold a password, and not the namespace when it
\* was not there before (runMigrateRun, discoveryFromLab, labDown).
RunLeavesNothing ==
    \A l \in Labs : (pr[l].cmd = "none" /\ last[l].cmd = "run" /\ last[l].clean) =>
        /\ ~world[l].src /\ ~world[l].secret /\ ~world[l].rel /\ ~world[l].cr /\ ~world[l].files
        /\ world[l].pods => world[l].left
        /\ Mine(l).by # l
        /\ last[l].ns0 = "none" => world[l].ns = "none"

\* No command takes from the user, or from another mirror, what is not its lab's.
OthersAreSpared == NoDataLost /\ CheckpointsKept

\* Every command cleans up after itself, and `run` after its lab.
NothingIsLeftBehind == ClientsRemoved /\ RunLeavesNothing

\* A cutover that says the source connector is stopped is right: the status it read is of the
\* generation it wrote, not of an earlier cutover (waitConnectorStates, ParseMirrorStatus).
StoppedMeansStopped == \A l \in Labs : pr[l].frozen => world[l].conn # "RUNNING"

=============================================================================
