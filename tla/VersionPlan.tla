------------------------------ MODULE VersionPlan ------------------------------
(***************************************************************************)
(* Which Strimzi operator and which Kafka `kates deploy` installs: the     *)
(* version plan of cli/cmd/deploy_versions.go, over the life of a cluster  *)
(* in which platform releases move the pin, operators of other owners come *)
(* and go, and the readings the plan is made from may fail.                *)
(*                                                                         *)
(* An operator version is a number; a Kafka version is 10 * line + patch,  *)
(* where a line is what the code calls major.minor.  A deploy is planned,  *)
(* applies the operator's CRDs, installs it, then the primary Kafka.       *)
(* Nobody else changes the cluster between those steps.                    *)
(***************************************************************************)
EXTENDS Integers, FiniteSetsExt

CONSTANTS
    Operators,      \* the published operator versions
    V1,             \* the first that serves only v1 of the CRDs
    Window,         \* the Kafka versions each operator runs
    Floor,          \* the platform's Kafka floor
    Selections,     \* is the Strimzi component part of the deploy
    OperatorReads,  \* what the listing of the operators may say
    KafkaReads      \* what the listing of the Kafka resources may say

None == 0
Kafkas == UNION {Window[v] : v \in Operators}
Line(k) == k \div 10
Newest(w) == Max(w)

\* What Strimzi publishes, of which the code checks nothing: a window is a
\* list, its oldest line moves up with the operator, and a line is dropped
\* only with the older ones.
ASSUME WindowAssumption ==
    /\ Operators \subseteq Nat \ {0}
    /\ V1 \in Nat \ {0} /\ Floor \in Nat
    /\ \A v \in Operators :
          /\ Window[v] \subseteq Nat \ {0}
          /\ Window[v] # {}
          /\ \A some \in SUBSET Window[v] :
                some # {} => \E k \in some : \A x \in some : k >= x
    /\ \A v, w \in Operators :
          v < w => \A y \in Window[w] :
                      /\ \E x \in Window[v] : Line(x) <= Line(y)
                      /\ \A x \in Window[v] : Line(y) <= Line(x) =>
                            \E z \in Window[w] : Line(z) = Line(x)
    /\ Selections \subseteq BOOLEAN
    /\ OperatorReads \subseteq {"ok", "notfound", "forbidden", "error"}
    /\ KafkaReads \subseteq {"ok", "error"}

VARIABLES
    pin,        \* the platform's operator version
    own,        \* the operator that watches the primary's namespace
    other,      \* a namespaced operator elsewhere: its version
    leaving,    \* is the other one's Deployment gone, its pod still there
    kafka,      \* the primary Kafka: its version and metadata version
    stored,     \* the API versions the CRDs have objects in; none without CRDs
    plan,       \* the deploy in progress
    unseen      \* did a deploy go ahead without seeing what is there

planVars == <<pin, own, other, leaving, kafka, stored, plan, unseen>>

NoOperator == [version |-> None, scope |-> "none"]
NoKafka == [version |-> None, metadata |-> None]
NoPlan == [stage |-> "none"]

PlanInit ==
    /\ pin \in Operators
    /\ own = NoOperator /\ other = None /\ leaving = FALSE
    /\ kafka = NoKafka /\ stored = {}
    /\ plan = NoPlan /\ unseen = FALSE

\* The flags: --strimzi-version, --kafka-version, --operator-scope, --yes,
\* --adminless and --with-strimzi.
DeployFlags ==
    [strimzi : Operators \cup {None}, kafka : Kafkas \cup {None},
     scope : {"cluster", "namespaces"}, yes : BOOLEAN,
     follow : BOOLEAN, withStrimzi : BOOLEAN]

\* The admin-less profile installs no operator.
applyAdminlessProfile(f) ==
    IF f.follow THEN ~f.withStrimzi ELSE f.withStrimzi \in Selections

(***************************************************************************)
(* What is installed.                                                      *)
(***************************************************************************)
Mixed == own.scope = "cluster" /\ other # None /\ ~leaving

\* The listing resolves every operator pod to its Deployment and fails as a
\* whole: one Deployment that is gone makes all of them not found.
InstalledOperators(r) ==
    CASE r = "notfound" -> leaving
      [] r = "ok" -> ~leaving
      [] OTHER -> TRUE

\* Readings that pass for "no operator installed".
installedUnreadable(f, r) ==
    \/ r = "notfound"
    \/ r = "forbidden" /\ f.follow
    \/ r = "error" /\ f.yes

primaryOperator(r) == IF r = "ok" THEN own ELSE NoOperator

readInstalled(f, r) ==
    /\ InstalledOperators(r)
    /\ r = "ok" \/ installedUnreadable(f, r)
    /\ r = "ok" => ~Mixed

\* Without cluster admin the operator must be there, watching the primary; an
\* account that sees none goes ahead on the CRDs alone.
checkAdminlessStrimzi(f, r) ==
    f.follow =>
        /\ stored # {}
        /\ r = "ok" => own # NoOperator \/ other = None

(***************************************************************************)
(* The operator: asked for, adopted, followed or pinned.                   *)
(***************************************************************************)
followInstalledOperator(f, op) == f.follow /\ op # NoOperator

Adopted(f, op) ==
    ~f.follow /\ f.strimzi = None /\ op.version > pin

chooseOperatorVersion(f, op) ==
    IF followInstalledOperator(f, op) THEN op.version
    ELSE IF Adopted(f, op) THEN op.version
    ELSE IF f.strimzi # None THEN f.strimzi
    ELSE pin

resolveScope(f, op) ==
    IF followInstalledOperator(f, op) THEN op.scope ELSE f.scope

\* The chart must have a Kafka the platform can run.
checkOperatorFloor(v) == \E k \in Window[v] : k >= Floor

(***************************************************************************)
(* The primary's Kafka, and its metadata version.                          *)
(***************************************************************************)
runningKafkaVersions(op, kr) ==
    IF op = NoOperator \/ kr = "error" THEN {} ELSE {kafka.version} \ {None}

runningPrimaryKafka(op, kr) ==
    LET running == runningKafkaVersions(op, kr)
    IN  IF running = {} THEN None ELSE Newest(running)

chooseKafkaVersionNewest(f, v, running) ==
    IF f.kafka # None THEN f.kafka ELSE Newest(Window[v])

chooseKafkaVersion(f, v, running) ==
    IF f.kafka # None THEN f.kafka
    ELSE IF running \in Window[v] THEN running
    ELSE Newest(Window[v])

KafkaAllowed(f, v) ==
    f.kafka # None => f.kafka \in Window[v] /\ f.kafka >= Floor

MetadataForOwnLine(k, w) == Line(k)

\* One line behind, so that a Kafka rollback remains possible.
MetadataFor(k, w) ==
    LET older == {Line(x) : x \in {y \in w : Line(y) < Line(k)}}
    IN  IF older = {} THEN Line(k) ELSE Max(older)

(***************************************************************************)
(* The plan against what is installed.                                     *)
(***************************************************************************)
UpgradeKind(op, v) ==
    IF op.version = v THEN "same"
    ELSE IF op.version < v THEN "upgrade" ELSE "downgrade"

scopeChange(op, scope) == op # NoOperator /\ op.scope # scope

compareInstalledVersionsOnly(op, v, scope, kr) ==
    op # NoOperator =>
        /\ scopeChange(op, scope) /\ scope = "cluster" => other = None
        /\ UpgradeKind(op, v) # "downgrade"

\* No downgrade; no cluster-wide operator beside another; and no upgrade that
\* leaves a Kafka it will find outside its window.
compareInstalled(op, v, scope, kr) ==
    op # NoOperator =>
        /\ scopeChange(op, scope) /\ scope = "cluster" => other = None
        /\ UpgradeKind(op, v) # "downgrade"
        /\ UpgradeKind(op, v) = "upgrade" =>
              runningKafkaVersions(op, kr) \subseteq Window[v]

\* What an operator's CRDs store, and what they serve.
Storage(v) == IF v >= V1 THEN "v1" ELSE "v1beta2"
Served(v) == IF v >= V1 THEN {"v1"} ELSE {"v1beta2", "v1"}

\* nonV1StoredCRDs: some object was ever stored as something else than v1.
ReplaceEmptyPreV1CRDs(f, op, v) ==
    /\ ~f.follow /\ v >= V1
    /\ op = NoOperator \/ op.version < V1
    /\ stored \notin {{}, {"v1"}}

checkStrimziCRDStorageFresh(f, op, v) ==
    op = NoOperator => (ReplaceEmptyPreV1CRDs(f, op, v) => kafka = NoKafka)

checkStrimziCRDStorage(f, op, v) ==
    ReplaceEmptyPreV1CRDs(f, op, v) => kafka = NoKafka

(***************************************************************************)
(* A deploy.                                                               *)
(***************************************************************************)
\* resolveVersionPlan: every refusal ends the deploy before it changes
\* anything; so does an operator upgrade nobody confirms.  The running Kafka is
\* looked for through the primary's operator alone: one whose operator is gone
\* is not seen.
resolveVersionPlan ==
    /\ plan = NoPlan
    /\ \E f \in {g \in DeployFlags : applyAdminlessProfile(g)}, r \in OperatorReads, kr \in KafkaReads :
          LET op == primaryOperator(r)
              v == chooseOperatorVersion(f, op)
              scope == resolveScope(f, op)
              k == chooseKafkaVersion(f, v, runningPrimaryKafka(op, kr))
          IN  /\ checkAdminlessStrimzi(f, r)
              /\ readInstalled(f, r)
              /\ checkOperatorFloor(v)
              /\ KafkaAllowed(f, v)
              /\ compareInstalled(op, v, scope, kr)
              /\ checkStrimziCRDStorage(f, op, v)
              /\ plan' = [stage |-> IF ~f.withStrimzi THEN "kafka"
                                    ELSE IF ReplaceEmptyPreV1CRDs(f, op, v)
                                    THEN "replace" ELSE "crds",
                          operator |-> v, scope |-> scope,
                          kafka |-> k,
                          metadata |-> MetadataFor(k, Window[v]),
                          asked |-> f.kafka # None,
                          replaces |-> op # NoOperator,
                          saw |-> r = "ok" /\ kr = "ok"
                                  /\ (f.follow \/ kafka # NoKafka => op # NoOperator)]
    /\ UNCHANGED <<pin, own, other, leaving, kafka, stored, unseen>>

\* The release of the old operator goes, then the CRDs and all that is in
\* them.
prepareEmptyPreV1StrimziReplacement ==
    /\ plan.stage = "replace"
    /\ IF plan.replaces /\ own # NoOperator
       THEN own' = NoOperator /\ UNCHANGED <<stored, kafka, plan>>
       ELSE /\ stored' = {} /\ kafka' = NoKafka
            /\ plan' = [plan EXCEPT !.stage = "crds"]
            /\ UNCHANGED own
    /\ unseen' = (unseen \/ ~plan.saw)
    /\ UNCHANGED <<pin, other, leaving>>

\* The chart's CRDs, over those that are there; the API server refuses CRDs that
\* no longer serve a version objects are stored in, which ends the deploy.
applyLocalStrimziCRDs ==
    /\ plan.stage = "crds"
    /\ stored \subseteq Served(plan.operator)
    /\ stored' = stored \cup {Storage(plan.operator)}
    /\ plan' = [plan EXCEPT !.stage = "operator"]
    /\ unseen' = (unseen \/ ~plan.saw)
    /\ UNCHANGED <<pin, own, other, leaving, kafka>>

\* helm upgrade --install of the operator's chart, at the plan's version,
\* without its CRDs.
installOperator ==
    /\ plan.stage = "operator"
    /\ own' = [version |-> plan.operator, scope |-> plan.scope]
    /\ plan' = [plan EXCEPT !.stage = "kafka"]
    /\ unseen' = (unseen \/ ~plan.saw)
    /\ UNCHANGED <<pin, other, leaving, kafka, stored>>

\* The primary's chart; a Kafka resource needs the operator's CRDs.
installKafka ==
    /\ plan.stage = "kafka" /\ stored # {}
    /\ kafka' = [version |-> plan.kafka, metadata |-> plan.metadata]
    /\ plan' = NoPlan
    /\ unseen' = (unseen \/ ~plan.saw)
    /\ UNCHANGED <<pin, own, other, leaving, stored>>

\* The deploy ends early: not confirmed, interrupted, or failed.
Stop ==
    /\ plan # NoPlan
    /\ plan' = NoPlan
    /\ UNCHANGED <<pin, own, other, leaving, kafka, stored, unseen>>

(***************************************************************************)
(* The rest of the world, between deploys.                                 *)
(***************************************************************************)
\* The checkout moves to another release of the platform, either way.
OtherRelease ==
    /\ plan = NoPlan
    /\ \E v \in Operators \ {pin} : pin' = v
    /\ UNCHANGED <<own, other, leaving, kafka, stored, plan, unseen>>

\* An additional, namespaced operator is installed where no cluster-wide one
\* is, no newer than the primary's and of its CRD generation.
EligibleAdditional(v) ==
    /\ own.scope # "cluster"
    /\ own # NoOperator => v <= own.version /\ (v >= V1 <=> own.version >= V1)

OtherOperator ==
    /\ plan = NoPlan /\ other = None
    /\ \E v \in Operators :
          /\ EligibleAdditional(v)
          /\ other' = v
          /\ stored' = IF stored # {} THEN stored ELSE {Storage(v)}
    /\ UNCHANGED <<pin, own, leaving, kafka, plan, unseen>>

\* It goes: its Deployment first, then its pod.
OtherLeaves ==
    /\ plan = NoPlan /\ other # None
    /\ IF leaving THEN leaving' = FALSE /\ other' = None
       ELSE leaving' = TRUE /\ UNCHANGED other
    /\ UNCHANGED <<pin, own, kafka, stored, plan, unseen>>

\* Strimzi's API conversion procedure, run by an admin.
ConvertAPI ==
    /\ plan = NoPlan /\ stored \notin {{}, {"v1"}}
    /\ stored' = {"v1"}
    /\ UNCHANGED <<pin, own, other, leaving, kafka, plan, unseen>>

\* kates clean: the primary goes, then its operator and the CRDs, unless
\* something outside of the stack uses them.  Each step may fail and the next
\* ones run nevertheless; the CRDs take the Kafka with them.
Clean ==
    /\ plan = NoPlan /\ <<own, kafka>> # <<NoOperator, NoKafka>>
    /\ kafka' \in {kafka, NoKafka}
    /\ \/ own' \in {own, NoOperator} /\ stored' \in {stored, {}}
       \/ other # None /\ UNCHANGED <<own, stored>>
    /\ stored' = {} => kafka' = NoKafka
    /\ unseen' = (unseen /\ <<own', kafka'>> # <<NoOperator, NoKafka>>)
    /\ UNCHANGED <<pin, other, leaving, plan>>

PlanNext ==
    \/ resolveVersionPlan
    \/ prepareEmptyPreV1StrimziReplacement \/ applyLocalStrimziCRDs
    \/ installOperator \/ installKafka \/ Stop
    \/ OtherRelease \/ OtherOperator \/ OtherLeaves \/ ConvertAPI \/ Clean

PlanSpec == PlanInit /\ [][PlanNext]_planVars

(***************************************************************************)
(* Properties.                                                             *)
(***************************************************************************)
\* The cluster's records keep their shape, and a metadata version is a line
\* some operator's window has.
PlanTypeOK ==
    /\ pin \in Operators
    /\ own \in [version : Operators, scope : {"cluster", "namespaces"}]
              \cup {NoOperator}
    /\ other \in Operators \cup {None}
    /\ leaving \in BOOLEAN /\ (leaving => other # None)
    /\ kafka = NoKafka \/ /\ kafka.version \in Kafkas
                          /\ kafka.metadata \in {Line(k) : k \in Kafkas}
    /\ stored \subseteq {"v1beta2", "v1"}
    /\ plan.stage \in {"none", "replace", "crds", "operator", "kafka"}
    /\ unseen \in BOOLEAN

\* The deploys so far saw the operators and the Kafka there is.
Seen == ~unseen /\ ~unseen'

\* The primary's Kafka is one its operator runs, after every deploy and
\* between its steps: an upgrade moves to an operator whose window still has
\* the running version (compareInstalled, chooseKafkaVersion).
KafkaInWindow ==
    ~unseen /\ kafka # NoKafka /\ own # NoOperator =>
        kafka.version \in Window[own.version]

\* An operator that has dropped v1beta2 never finds a Kafka stored as that,
\* which it could not read, though every deploy applies its own CRDs and an
\* older operator's store v1beta2 again (applyLocalStrimziCRDs,
\* ReplaceEmptyPreV1CRDs, checkStrimziCRDStorage).
NoDataInADroppedVersion ==
    ~unseen /\ own.version >= V1 /\ kafka # NoKafka => stored = {"v1"}

\* A deploy deletes CRDs, and never the Kafka in them: not after any sequence
\* of upgrades, interrupted deploys and cleanups (checkStrimziCRDStorage).
ReplacementLosesNoKafka ==
    [][plan # NoPlan /\ kafka # NoKafka => kafka' # NoKafka]_planVars

\* No Kafka resource is lost to a change of the CRDs.
NoKafkaIsLost == []NoDataInADroppedVersion /\ ReplacementLosesNoKafka

\* A deploy that could read the cluster moves the running Kafka only when it
\* was asked for a version: a newer platform release alone rolls no broker
\* (chooseKafkaVersion).
KafkaKeptUnlessAsked ==
    [][Seen /\ NoKafka \notin {kafka, kafka'} /\ kafka'.version # kafka.version
          => plan.asked]_planVars

\* A rollback that was asked for, to an older line that is not the oldest of
\* the operator's window: it leaves metadata of the line before that one.
ThreeLines(w) == \E x, y, z \in w : Line(x) < Line(y) /\ Line(y) < Line(z)
RolledBack ==
    /\ plan.asked /\ Line(kafka'.version) < Line(kafka.version)
    /\ ThreeLines(Window[plan.operator])

\* The metadata version of a running cluster never goes back, whichever
\* Kafka versions are asked for in whichever order: "a Kafka rollback remains
\* possible", and KRaft metadata cannot be rolled back.  It does when a line is
\* asked for that is older than the running one, in a window of three or more
\* (MetadataFor).
MetadataNeverGoesBack ==
    [][Seen /\ NoKafka \notin {kafka, kafka'}
          => kafka'.metadata >= kafka.metadata \/ RolledBack]_planVars

\* The operator never goes back: a newer one that is installed is kept, and
\* an older one that is asked for is refused ("Strimzi does not support
\* downgrading the operator").
OperatorNeverGoesBack ==
    [][Seen /\ NoOperator \notin {own, own'}
          => own'.version >= own.version]_planVars

\* What cannot be rolled back is not, but in a window of three lines.
NothingGoesBack == MetadataNeverGoesBack /\ OperatorNeverGoesBack
================================================================================
