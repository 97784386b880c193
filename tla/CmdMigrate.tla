------------------------------ MODULE CmdMigrate ------------------------------
(***************************************************************************)
(* The migrate commands as programs: what they read before they plan, how  *)
(* a pair of versions is resolved, and the commands that only look at a    *)
(* lab or put client pods beside it.  What up, cutover, rollback and down  *)
(* do to a lab phase by phase is MigrateLab.                               *)
(***************************************************************************)
EXTENDS CmdReports

\* No current context, no pin: a command that needs a cluster says so itself.
pinMigrateKubeContext == Look("current context")

(***************************************************************************)
(* The environment.  plan and pairs create nothing: without an operator,   *)
(* or without the target, they go by the pinned chart's window.            *)
(***************************************************************************)
migrateChartsAndPins == resolveChartRoot \o Need("charts and pins")
planAgainstPin == Need("vendored chart") \o ReadChart
pickPrimaryOperator == Need("installation is not mixed") \o Need("one operator watches the namespace")
brokerCountFromPools == Look("node pools")
readTarget ==
    Need("kafka") \o Maybe(Need("version of the kafka") \o brokerCountFromPools \o Need("secret of the mirror"))
migrateDetectKind == Look("kindnet")

plannedEnv ==
    migrateChartsAndPins
    \o Attempt(InstalledOperators \o Maybe(Fail) \o pickPrimaryOperator, Either(planAgainstPin, Fail))
    \o Attempt(readTarget, <<>>) \o migrateDetectKind
discoverMigrateEnv ==
    migrateChartsAndPins \o InstalledOperators \o Need("an operator") \o pickPrimaryOperator
    \o readTarget \o Need("the target exists") \o migrateDetectKind

(***************************************************************************)
(* The pair: every refusal comes before anything is created.               *)
(***************************************************************************)
parseMigratePairFlags == Need("--from") \o Each(Need("version")) \o Need("flags agree")
\* A source that is asked to run under Strimzi and cannot is refused; one that could, but only by an
\* operator of its own, is described by plan and refused by up.
resolveMigrateSource == Need("version is above the floor") \o Maybe(Need("the provider can run it"))
resolveMigrateTargetVersion == Maybe(Need("--to") \o Need("version is in the window")) \o Need("target's version")
migratePairOptions == Look("image registry")

\* The lab a pair makes: its names are derived, and two sources may share neither an alias nor, under
\* the identity policy, a topic.
normaliseSources == Need("versions, providers and modes of the sources")
normaliseOptions == Need("name, policy, scope, topics and target of the lab")
refuseIdentityFanIn == Need("no topic has two sources")
deriveSources == Need("aliases and names of the sources") \o Maybe(Need("password is drawn")) \o refuseIdentityFanIn
New == Need("two versions") \o normaliseSources \o normaliseOptions \o deriveSources

resolveMigratePair ==
    parseMigratePairFlags \o Each(resolveMigrateSource) \o resolveMigrateTargetVersion
    \o migratePairOptions \o New

legacyOverlayVersion == Look("version of the overlay")
migratePickCandidates == Each(legacyOverlayVersion)
migrateInteractivePick ==
    Need("terminal") \o migratePickCandidates \o Need("pair form") \o Maybe(Need("version form"))
    \o Need("policy form")

\* A plan shows no credential: the values are rendered with a placeholder.
buildMigratePlan == Need("mirror's values") \o Each(Maybe(Need("source's values")))
runMigratePlan ==
    pinMigrateKubeContext \o plannedEnv \o Maybe(migrateInteractivePick)
    \o resolveMigratePair \o buildMigratePlan
migratePairRows == Look("window")
runMigratePairs == pinMigrateKubeContext \o plannedEnv \o migratePairRows

(***************************************************************************)
(* The lab as its label finds it, and its state.                           *)
(***************************************************************************)
legTopics == Look("recorded topics") \o Look("pattern's topics")
readMirrorSpec == Look("spec of the mirror") \o Each(legTopics)
orderLabSources == Look("legs of the mirror")
labFromLabel ==
    Need("labelled resources") \o Need("one lab") \o Maybe(readMirrorSpec) \o orderLabSources
    \o Each(Look("label of the namespace"))
readMirrorStatus == Need("mirror") \o Need("status of the mirror")

\* The lab its label finds is the one its pair made, as the cluster has it.
labOptionsFromDiscovery == Need("versions of the further sources")
labFromDiscovery == Need("version of the source") \o labOptionsFromDiscovery \o New

\* A client pod that is there is waited for, one that has ended is made again.
Validate == Need("pod can be named and addressed")
Manifest == Validate \o Need("manifest")
Delete == Need("pod is named") \o Do("delete pod")
Ensure ==
    Validate \o Need("phase of the pod")
    \o Maybe(Maybe(Delete) \o Manifest \o OpenOnCluster("client pod"))
    \o Need("pod is ready")
checkExec == Need("pod and command are named")
ExecInput == checkExec \o Do("kubectl exec -i")
WriteFile == Need("path of the file") \o ExecInput \o Need("tee echoed what was sent")
readSecretKey == Need("key of the Secret")

\* The pods of the sources and of the target, one after the other; the properties are written to
\* each.  The caller removes them, and which caller does what when one of them fails differs.
clientPods ==
    Each(Ensure) \o Ensure \o readSecretKey \o WriteFile \o Each(Maybe(readSecretKey \o WriteFile))

\* The removal is set up after all the pods are there.
readLabOffsets ==
    discoverMigrateEnv \o labFromDiscovery
    \o clientPods \o Deferred("client pod", Each(Look("end offsets")))
collectLabStatus ==
    labFromLabel \o Each(Look("statefulset")) \o Maybe(Look("kafka"))
    \o Maybe(Attempt(readMirrorStatus, <<>>))
    \o When("offsets", Unless("watch", Maybe(Attempt(Call(readLabOffsets), <<>>))))
runMigrateStatus ==
    pinMigrateKubeContext
    \o If("watch", Each(collectLabStatus), collectLabStatus)

findLegacySources == Need("services") \o Each(Look("statefulset"))
findLegacySource == findLegacySources \o Need("one source")
runMigrateSourceStatus == pinMigrateKubeContext \o findLegacySource \o Each(Look("statefulset"))

resolveMirrorRelease == Maybe(labFromLabel \o Need("lab has a mirror"))
runMigrateMirrorStatus ==
    pinMigrateKubeContext \o resolveMirrorRelease
    \o If("wait", Need("mirror is ready") \o Need("connectors run"), readMirrorStatus)

(***************************************************************************)
(* verify: records are produced at the sources and must arrive; what a     *)
(* phase finds wrong is a row of the report.                               *)
(***************************************************************************)
migrateConfirm == Ask("yes")
openLabRun == labFromLabel \o discoverMigrateEnv \o labFromDiscovery
openExternalRun ==
    Need("flags of the source") \o discoverMigrateEnv \o New \o Maybe(Need("user of the source's secret"))
phaseSeed == Each(Best("topic")) \o Each(Do("records"))
phaseSourceGroup == Each(Best("group's position") \o Probe("group"))
phaseReadBack == Each(Look("records") \o Maybe(Note))
phaseOffsetTranslation == Each(Look("group")) \o Maybe(Note)
verifyPhases ==
    clientPods \o phaseSeed \o phaseSourceGroup \o Need("replicated topic")
    \o phaseReadBack \o phaseOffsetTranslation
runMigrateVerify ==
    pinMigrateKubeContext \o Either(openExternalRun, openLabRun)
    \o Attempt(verifyPhases, Note)
    \o Unless("keep", Close("client pod")) \o Tell

(***************************************************************************)
(* cutover, whose dry run makes the checks and shows what would be done.   *)
(***************************************************************************)
sourceRunning == Probe("workload of the source")
cutoverPreChecks == Attempt(readMirrorStatus, Note) \o Maybe(Note) \o Each(sourceRunning) \o Probe("target")
planCutover == Look("overlay")
runMigrateCutover ==
    pinMigrateKubeContext \o openLabRun \o cutoverPreChecks
    \o When("dry-run", planCutover \o Tell \o Stop)
    \o Tell
    \o migrateConfirm
    \o Attempt(clientPods \o Do("cutover overlay") \o Need("connector states") \o Each(Do("records")) \o Maybe(Note),
               Note)
    \o Close("client pod") \o Tell

MigrateCommands ==
    [runMigratePlan |-> runMigratePlan, runMigratePairs |-> runMigratePairs,
     runMigrateStatus |-> runMigrateStatus, runMigrateSourceStatus |-> runMigrateSourceStatus,
     runMigrateMirrorStatus |-> runMigrateMirrorStatus, runMigrateVerify |-> runMigrateVerify,
     runMigrateCutover |-> runMigrateCutover]
=============================================================================
