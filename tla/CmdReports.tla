------------------------------ MODULE CmdReports ------------------------------
(***************************************************************************)
(* The commands that read the API's reports, keep files of their own       *)
(* (snapshots, profiles, scenarios, evidence), run a flow of steps, and    *)
(* look at charts, operators and the state of the stack.                   *)
(***************************************************************************)
EXTENDS CmdDeploy

(***************************************************************************)
(* flow: a step that fails ends the flow, or is noted and passed over.     *)
(***************************************************************************)
lintBeforeFlow == Need("lint")
StepFails == Note \o Maybe(Tell)
\* A run that outlives the deadline of its step is a failed step; it is neither cancelled nor spoken of.
runFlowTest ==
    Attempt(Begin("run"), IfStopped(Fail) \o StepFails \o Return)
    \o Unless("wait", LeaveRunning("run") \o Return)
    \o Follow("run", Either(LeaveRunning("run"), <<>>) \o StepFails \o Return, Cancel("run") \o Fail)
    \o Maybe(StepFails \o Return) \o Look("tests/report")
flowGateFailure == Maybe(StepFails)
FlowStep ==
    Either(Call(runFlowTest) \o flowGateFailure,
           Either(Need("sleep"), StepFails))
flowRunCmd ==
    Interruptible \o Need("file") \o lintBeforeFlow \o Need("flow YAML") \o Need("steps")
    \o When("dry-run", Stop)
    \o Each(FlowStep) \o Tell

tuneRunCmd == Begin("run") \o LeaveRunning("run")
tuneTypesCmd == Need("tests/types")

(***************************************************************************)
(* Evidence of a period: all of it, or no directory.                       *)
(***************************************************************************)
evidencePeriod == Need("period")
newestFirstIn == Each(Need("page"))
allPages == Each(Need("page"))
eachByID == Each(Need("item"))
auditInPeriod == Need("rows are of the period")
collectEvidence ==
    newestFirstIn \o newestFirstIn \o eachByID \o allPages \o eachByID \o allPages
    \o auditInPeriod \o Need("audit/verify")
writeEvidence == Each(Save("evidence file")) \o Save("SHA256SUMS")
signEvidence == Need("cosign") \o Do("cosign sign-blob")
evidenceExportCmd ==
    evidencePeriod \o Need("directory is new") \o collectEvidence
    \o Open("unfinished evidence") \o Attempt(writeEvidence, Close("unfinished evidence") \o Fail)
    \o Close("unfinished evidence") \o Maybe(signEvidence) \o Either(Fail, <<>>)

(***************************************************************************)
(* Snapshots, profiles, scenarios, a new workspace.                        *)
(***************************************************************************)
saveSnapshot == Need("name") \o Save("snapshot")
loadSnapshot == Need("name") \o Need("snapshot")
loadAllSnapshots == Need("snapshots") \o Each(Look("snapshot"))
snapshotCreateCmd == Need("name") \o Look("cluster") \o Look("topics") \o Look("groups") \o saveSnapshot
snapshotListCmd == loadAllSnapshots
snapshotDiffCmd == loadSnapshot \o loadSnapshot

saveProfile == Need("name") \o Save("profile")
loadProfile == Need("name") \o Need("profile")
loadAllProfiles == Need("profiles") \o Each(Look("profile"))
profileSaveCmd == Need("name") \o Need("tests/run") \o Need("run is done") \o saveProfile
profileListCmd == loadAllProfiles
profileCompareCmd == loadProfile \o loadProfile
profileAssertCmd == loadProfile \o Need("tests/run") \o Need("numbers to judge by") \o Either(Fail, <<>>)

\* A file that is there already is kept.
exportScenario == Need("template") \o Maybe(Save("scenario file"))
scaffoldShowCmd == Need("template")
scaffoldExportCmd ==
    If("all", Each(Attempt(exportScenario, Note)), Need("template's name") \o exportScenario)

initContext == Need("context is not another's") \o Save("config")
initCmd ==
    initContext
    \o Unless("no-scenarios", Either(Note, Each(Maybe(Try("scenario file")))))
    \o Unless("no-ci", Maybe(Try("kates-ci.sh")))

(***************************************************************************)
(* Reports.                                                                *)
(***************************************************************************)
writeReportExport == Maybe(Save("export file"))
reportShowCmd == Need("tests/report") \o Maybe(Look("tests/run"))
reportSummaryCmd == Need("tests/report/summary")
reportCompareCmd == Need("reports/compare")
reportExportCmd == Need("export") \o writeReportExport
reportBrokersCmd == Need("tests/report/brokers")
reportSnapshotCmd == Need("tests/report/snapshot")
reportHeatmapCmd == Need("export") \o Need("heatmap")
reportDiffCmd == Need("tests/report/summary a") \o Need("tests/report/summary b")
testExportCmd == Need("export") \o Save("export file")
runAllPhases == Need("trends/breakdown")
runBrokerTrend == Need("trends/broker")
trendCmd == Need("type flag") \o Either(runAllPhases, Either(runBrokerTrend, Need("trends")))
trendPhasesCmd == Need("type flag") \o Need("trends/phases")
badgeCmd == Need("tests done") \o Need("a run") \o Maybe(Need("tests/report"))
explainCmd == Need("tests/run")
costEstimateCmd == Need("inputs")
auditCmd == Need("audit")
changelogCmd == Need("dates") \o Need("audit")
scenarioDiffCmd == Need("file") \o Need("pickScenario") \o Need("tests/run")

\* A run or a report that is not there (yet) is said, with exit 0 unless it was to be applied.
adviseRun == Attempt(Need("tests/run") \o Need("tests/report"), Maybe(Fail))
tunedScenario == Need("a setting to change")
advisorCmd == adviseRun \o Maybe(Need("run was analysed") \o tunedScenario \o Save("scenario file"))

fetchStatus == Probe("health") \o Probe("tests")
\* Watching, a state that cannot be read is a row of the watch.
watchStatus == Each(Look("health") \o Look("tests") \o IfStopped(Stop))
statusCmd ==
    Interruptible \o Maybe(Need("interval") \o watchStatus \o Stop) \o fetchStatus \o IfStopped(Fail) \o Tell
dashboardCmd == Need("interval") \o Each(Look("health") \o Look("tests"))
versionCmd == Look("health")

webhookListCmd == Need("webhooks")
webhookAddCmd == Do("webhook")
webhookRemoveCmd == Destroy("webhook")

(***************************************************************************)
(* References: what the linter refuses is not sent, or not rewritten.      *)
(***************************************************************************)
lintBeforeCheck == Need("lint")
writeComplianceJUnit == Save("JUnit file")
runComplianceCheck ==
    Need("file") \o lintBeforeCheck \o Need("complianceJSON") \o Need("conformity check")
    \o Maybe(writeComplianceJUnit) \o Either(Fail, <<>>)
runComplianceLint == Each(Need("file") \o Maybe(Note)) \o Tell
runComplianceFmt ==
    Each(Either(Note, Need("file") \o Either(Note, Either(Maybe(Note), Maybe(Save("formatted file")))))) \o Tell
runFileLint == Each(Need("file") \o Maybe(Note)) \o Tell

(***************************************************************************)
(* The configuration, besides what LocalProcesses models.                  *)
(***************************************************************************)
profilesContext == Need("config") \o Need("context")
ctxProfilesCmd == profilesContext \o Maybe(Need("profiles"))
ctxProfilesSetCmd == profilesContext \o Either(Need("profiles"), Need("choice")) \o Maybe(Save("config"))
ctxShowCmd == Look("config")
ctxCurrentCmd == Look("config") \o Need("context")
ctxExportCmd == Look("config") \o Need("context")
ctxImportCmd == Need("file") \o Need("YAML") \o Save("config")
lookSetCmd == Need("look") \o Maybe(Save("config"))
themeSetCmd == Need("theme") \o Maybe(Save("config"))

discoverPlugins == Look("plugin directory") \o Each(Look("directory of PATH"))
pluginListCmd == discoverPlugins
pluginPreRun == Need("flags")
runPlugin == Do("plugin")
registerPlugins == discoverPlugins \o pluginPreRun \o Need("context") \o runPlugin

(***************************************************************************)
(* Versions, operators, the account's rights, the state of the stack.      *)
(***************************************************************************)
runVersions ==
    resolveChartRoot \o Need("pin")
    \o Attempt(InstalledOperators \o Maybe(resolveVersionPlan), resolveVersionPlan)
cachedCatalogue == Need("cached catalogue")
runVersionsStrimzi ==
    resolveChartRoot \o Need("pin") \o Need("floor") \o Need("cache directory")
    \o Either(cachedCatalogue, Need("catalogue"))
    \o Each(Maybe(Look("pull the chart")) \o Attempt(ReadChart, <<>>))
runVersionsKafka == resolveChartRoot \o resolveVersionPlan
runOperatorsList == InstalledOperators \o Look("pin")

reviewRules == Need("rights of the account")
printRights == Each(reviewRules)
runRights ==
    Attempt(Need("deployments"), Need("deployments of the namespace")) \o Look("current context")
    \o Either(Fail, <<>>) \o Look("namespaces") \o Each(printRights)

loadHelmReleaseIndex == Look("helm list")
\* The release as the index has it, in this namespace or elsewhere; else as helm says.
lookupHelmRelease == Look("release in the index")
getHelmStatus == Look("helm status")
getHelmStatusWithNamespace == lookupHelmRelease \o Maybe(getHelmStatus)
\* What cannot be read is Unknown: pods that run and are ready, a Ready condition, all replicas.
parsePodListHealth == Look("phase and containers of the pods")
parseKafkaHealth == Look("Ready condition")
parseWorkloadHealth == Look("ready replicas")
getHealthStatusV2 ==
    Either(Look("pods") \o Maybe(parsePodListHealth),
           Either(Look("Strimzi's object") \o Maybe(parseKafkaHealth), Look("workload") \o Maybe(parseWorkloadHealth)))
getHealthStatus == getHealthStatusV2
runJSONStatus == loadHelmReleaseIndex \o Each(getHelmStatusWithNamespace \o Maybe(getHealthStatusV2))
runInteractiveStatus == loadHelmReleaseIndex \o Each(getHelmStatusWithNamespace \o Maybe(getHealthStatusV2))
runDeployStatus ==
    loadHelmReleaseIndex
    \o Either(runJSONStatus, Either(runInteractiveStatus, Each(getHelmStatusWithNamespace \o Maybe(getHealthStatus))))

(***************************************************************************)
(* Beside a migration: the image of an old Kafka, and what the target has. *)
(***************************************************************************)
legacyDockerfile(p) == Within("Dockerfile", p)
verifyLegacyImage == Need("image runs that version")
runMigrateImageBuild ==
    Need("version") \o Need("flags") \o Need("docker") \o When("push", Need("buildx"))
    \o legacyDockerfile(
           If("push", Do("docker buildx build --push") \o Need("docker pull"), Do("docker build"))
           \o verifyLegacyImage
           \o When("load", Need("kind") \o Do("kind load docker-image")))

\* The pod is deleted by the caller, which has none to delete when the rest of the opening fails.
openTargetClient ==
    Need("pins") \o OpenOnCluster("client pod") \o Need("password") \o Do("client properties")
runMigrateTarget ==
    openTargetClient
    \o If("keep-pod", Need("tool's output"), Deferred("client pod", Need("tool's output")))

ReportCommands ==
    [flowRunCmd |-> flowRunCmd, tuneRunCmd |-> tuneRunCmd, tuneTypesCmd |-> tuneTypesCmd,
     evidenceExportCmd |-> evidenceExportCmd,
     snapshotCreateCmd |-> snapshotCreateCmd, snapshotListCmd |-> snapshotListCmd, snapshotDiffCmd |-> snapshotDiffCmd,
     profileSaveCmd |-> profileSaveCmd, profileListCmd |-> profileListCmd,
     profileCompareCmd |-> profileCompareCmd, profileAssertCmd |-> profileAssertCmd,
     scaffoldShowCmd |-> scaffoldShowCmd, scaffoldExportCmd |-> scaffoldExportCmd, initCmd |-> initCmd,
     reportShowCmd |-> reportShowCmd, reportSummaryCmd |-> reportSummaryCmd,
     reportCompareCmd |-> reportCompareCmd, reportExportCmd |-> reportExportCmd,
     reportBrokersCmd |-> reportBrokersCmd, reportSnapshotCmd |-> reportSnapshotCmd,
     reportHeatmapCmd |-> reportHeatmapCmd, reportDiffCmd |-> reportDiffCmd, testExportCmd |-> testExportCmd,
     trendCmd |-> trendCmd, trendPhasesCmd |-> trendPhasesCmd, badgeCmd |-> badgeCmd, explainCmd |-> explainCmd,
     costEstimateCmd |-> costEstimateCmd, auditCmd |-> auditCmd, changelogCmd |-> changelogCmd,
     scenarioDiffCmd |-> scenarioDiffCmd, advisorCmd |-> advisorCmd, statusCmd |-> statusCmd,
     dashboardCmd |-> dashboardCmd, versionCmd |-> versionCmd,
     webhookListCmd |-> webhookListCmd, webhookAddCmd |-> webhookAddCmd, webhookRemoveCmd |-> webhookRemoveCmd,
     runComplianceCheck |-> runComplianceCheck, runComplianceLint |-> runComplianceLint,
     runComplianceFmt |-> runComplianceFmt, runFileLint |-> runFileLint,
     ctxProfilesCmd |-> ctxProfilesCmd, ctxProfilesSetCmd |-> ctxProfilesSetCmd, ctxShowCmd |-> ctxShowCmd,
     ctxCurrentCmd |-> ctxCurrentCmd, ctxExportCmd |-> ctxExportCmd, ctxImportCmd |-> ctxImportCmd,
     lookSetCmd |-> lookSetCmd, themeSetCmd |-> themeSetCmd,
     pluginListCmd |-> pluginListCmd, registerPlugins |-> registerPlugins,
     runVersions |-> runVersions, runVersionsStrimzi |-> runVersionsStrimzi, runVersionsKafka |-> runVersionsKafka,
     runOperatorsList |-> runOperatorsList, runRights |-> runRights, runDeployStatus |-> runDeployStatus,
     runMigrateImageBuild |-> runMigrateImageBuild, runMigrateTarget |-> runMigrateTarget]
=============================================================================
