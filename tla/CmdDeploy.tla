------------------------------ MODULE CmdDeploy ------------------------------
(***************************************************************************)
(* Installing and removing the stack: deploy up to its pipeline (which is  *)
(* DeployPipeline), auto, clean, charts, kyverno, helm tests, upgrade.     *)
(* Generated values under .build and the cache of charts are scratch of    *)
(* the command, and no change in the sense of --dry-run.                   *)
(***************************************************************************)
EXTENDS CmdDetect

namespaceUserLabels == Need("labels file") \o Need("labels are valid")
currentDeployPolicies == Look("current context") \o Need("policies file")
writeDeployPolicyValues == Need("policy values")
ensureConfiguredDeployNamespace == Do("namespace")

(***************************************************************************)
(* Charts: a checkout's, a bundle's, or the published ones in the cache.   *)
(***************************************************************************)
pullPublishedChart == Need("chart is cached or pulled")
fillChartRoot == Each(pullPublishedChart) \o Need("charts' signatures")
resolveChartRoot ==
    Need("one source of charts")
    \o Either(Need("checkout has charts"), Either(fillChartRoot, Need("registry is oci") \o fillChartRoot))
thirdPartyChartRef == Maybe(Need("recorded checksum") \o Need("checksum of the file"))

pullThirdPartyCharts == Each(Save("chart archive") \o Need("checksum")) \o Save("SHA256SUMS")
harvestImages == Need("Kafka version") \o Each(Need("helm template"))
legacyKafkaImages == Each(Do("docker build"))
\* images.txt names what images.tar has to hold before the archive is made again.
saveBundleImages ==
    Need("platform") \o Destroying(Save("images.tar")) \o Save("images.txt")
    \o Each(Do("docker pull")) \o Each(Need("docker inspect")) \o Do("docker save")
runChartsPull ==
    Need("release build") \o Need("flags") \o fillChartRoot \o pullThirdPartyCharts
    \o When("images", harvestImages \o legacyKafkaImages \o saveBundleImages)

pushImage == Attempt(Do("docker push"), Maybe(Fail) \o Do("docker build") \o Do("docker push"))
runChartsPush ==
    Need("flags") \o Need("images.tar") \o Need("images.txt") \o Do("docker load")
    \o Each(Maybe(Look("docker inspect") \o Maybe(Do("docker tag") \o pushImage)))
    \o harvestImages \o Either(Fail, <<>>)

loadBundleImages == Maybe(Need("kind nodes") \o Each(Need("architecture") \o Do("import images")))

(***************************************************************************)
(* Strimzi: what a chart of it says, what is installed, and what the CRDs  *)
(* that are there still hold.                                              *)
(***************************************************************************)
readChartFiles == Need("archive of the chart") \o Need("Chart.yaml")
parseChartVersion == Need("version of the chart")
parseKafkaCRD == Need("storage version of the Kafka CRD")
ReadChart ==
    readChartFiles \o parseChartVersion \o Need("image map") \o parseKafkaCRD \o Need("values.yaml")
CheckPrimaryFloor == Need("chart serves v1 and runs the floor")

parseOperatorPodOwners == Need("owners of the operator pods")
ParseOperatorDeployment == Need("container and window of the operator")
InstalledOperators ==
    Need("operator pods") \o parseOperatorPodOwners
    \o Each(Need("Deployment of the operator") \o ParseOperatorDeployment) \o Maybe(Need("releases"))

StoredVersions == Need("Strimzi's CRDs") \o Maybe(Need("CRDs"))
ResourceInstances == Each(Need("objects of the CRD"))

\* The plan of VersionPlan, as a command meets it: operators that cannot be listed end it, unless the
\* failure says that there are none or that the account may not know.
readInstalled == Attempt(InstalledOperators, Maybe(Fail)) \o Need("installation is not mixed")
compareInstalled == Need("installed version and scope allow the plan's")
checkStrimziCRDStorage == Maybe(StoredVersions \o Maybe(ResourceInstances \o Need("no object is stored as pre-v1")))
resolveVersionPlan ==
    Need("scope") \o Need("pin") \o Maybe(readInstalled) \o Need("chart of the operator") \o ReadChart
    \o Need("floor") \o CheckPrimaryFloor \o Need("Kafka version")
    \o Maybe(compareInstalled \o checkStrimziCRDStorage) \o Need("chart's directory")

(***************************************************************************)
(* deploy: which cluster.                                                  *)
(***************************************************************************)
serviceAccountToken == Need("token is issued")
installAdminlessKindOperator == Need("chart") \o Do("helm upgrade --install")
adminlessKindAsAdmin == Do("namespaces and account") \o Each(installAdminlessKindOperator) \o serviceAccountToken
bootstrapAdminlessKind ==
    adminlessKindAsAdmin \o Do("kubectl config set-credentials") \o Do("kubectl config set-context")
    \o Need("the account is no cluster admin")
offerKind ==
    When("dry-run", Fail)
    \o Need("terminal") \o Need("proxy") \o Need("choice") \o Need("name is free")
    \o Ask("terminal")
    \o Within("kind config", Do("kind create cluster")) \o Maybe(bootstrapAdminlessKind)
confirmOnlyReachable == Unless("dry-run", Ask("terminal"))
resolveCluster ==
    Need("contexts") \o Look("reachable contexts") \o Look("docker and kind")
    \o Either(Either(<<>>, confirmOnlyReachable), Either(Need("choice of a context"), Either(offerKind, Fail)))
\* A dry run plans for the cluster kubectl points at, or not at all.
useTargetContext == Maybe(If("dry-run", Fail, Do("kubectl config use-context")))
applyUpgradeFlag == Need("--upgrade names what can be upgraded")
prepareDeployTarget ==
    applyUpgradeFlag \o Look("newer release") \o resolveChartRoot \o resolveCluster \o useTargetContext

(***************************************************************************)
(* deploy: what to install, for whom, on what.                             *)
(***************************************************************************)
isClusterAdmin == Look("may do everything")
applyAdminlessProfile == Need("no flag needs cluster admin") \o Look("context's namespace")
resolveFullProfile == isClusterAdmin \o Maybe(Need("choice of a profile"))
resolveDeployProfile ==
    Unless("adminless", resolveFullProfile) \o When("adminless", applyAdminlessProfile)
checkAdminlessStrimzi ==
    Need("Strimzi's CRDs") \o Attempt(InstalledOperators \o Maybe(Fail), <<>>) \o Either(Fail, <<>>)
checkAdminlessPrerequisites == checkAdminlessStrimzi \o Each(Look("may create")) \o Either(Fail, <<>>)
missingComplianceGrants == Each(Look("may read"))

\* The releases there are, of the whole cluster or, refused that, of the entries' own namespaces.
entryReleases == Attempt(Need("helm list -A"), Each(Look("helm list of the namespace")))
shippedChart == Look("Chart.yaml")
installedRows == Each(Maybe(Look("kafka is ready")) \o shippedChart)
installedHints == entryReleases
runComponentForm == installedHints \o Maybe(Look("prometheus operator")) \o Need("component form")
runNamespaceForm == Maybe(Need("namespace form"))
runVersionPickerForm == Maybe(Need("version form"))
runInstalledReleasesForm == entryReleases \o installedRows \o Maybe(Need("releases form"))
runDeployReviewForm == entryReleases \o installedRows \o Need("review form")
runInteractiveForms ==
    runComponentForm \o runNamespaceForm \o runVersionPickerForm \o runInstalledReleasesForm
    \o runDeployReviewForm
checkUpgradeInDeploy == Need("--upgrade names what is in the deploy")
configureDeploySelection ==
    Maybe(runInteractiveForms) \o checkUpgradeInDeploy
    \o When("adminless", checkAdminlessPrerequisites \o missingComplianceGrants)

setupKindStorageClasses == Look("zones") \o Each(Best("storage class"))
detectAdminlessPlatform == Look("cluster of the context")
installedBrokers == Look("node pools")
sizeAdminless == installedBrokers
DeployReadOnly == "dry-run"
\* Admin-less nothing is created to look; --no-write-probes is a read-only look as well.
introspectDeployCluster ==
    If("adminless", Look("nodes") \o detectAdminlessPlatform,
       PreflightContext
       \o Maybe(Unless("dry-run", setupKindStorageClasses))
       \o If("no-write-probes", Collect("no-write-probes"), Collect(DeployReadOnly)))
resolveDeployVersions == resolveVersionPlan
runDeployDryRun == entryReleases \o installedRows
writeDeployValues == Need("values file")

updateActiveContextAPIKey == Best("API key of the context")
finishDeploy == updateActiveContextAPIKey \o Maybe(Best("port forwards"))
\* From here on the signals cancel the pipeline's context.
runDeployAndReport ==
    Interruptible \o Best("webhook's policy") \o Do("pipeline") \o finishDeploy

\* An install that never finished is uninstalled and an upgrade rolled back, each after a question:
\* refused where that would be a downgrade, and with --yes while another deploy may still be at it.
recoverStuckReleases ==
    Look("pending releases")
    \o Each(Need("history of the release") \o Either(Fail, Ask("yes") \o Destroy("helm uninstall or rollback")))

runDeploy ==
    namespaceUserLabels \o prepareDeployTarget \o namespaceUserLabels \o Need("policies file")
    \o resolveDeployProfile
    \o When("adminless", introspectDeployCluster)
    \o configureDeploySelection
    \o Unless("dry-run", loadBundleImages)
    \o If("adminless", sizeAdminless, introspectDeployCluster)
    \o resolveDeployVersions \o writeDeployValues \o writeDeployPolicyValues
    \o When("dry-run", runDeployDryRun \o Stop)
    \o Maybe(Ask("yes"))
    \o recoverStuckReleases
    \o runDeployAndReport

(***************************************************************************)
(* auto: detect, and install Kafka by what was found.                      *)
(***************************************************************************)
writeAutoValues == Need("values file")
deployAutoMonitoring == Maybe(Attempt(Need("dependencies") \o If("dry-run", Need("helm"), Do("helm")), Note))
runAuto ==
    namespaceUserLabels \o currentDeployPolicies \o PreflightContext \o Collect("dry-run")
    \o writeAutoValues \o writeDeployPolicyValues \o Need("chart") \o Need("dependencies")
    \o Unless("dry-run", ensureConfiguredDeployNamespace)
    \o If("dry-run", Need("helm"), Do("helm"))
    \o Unless("skip-monitoring", deployAutoMonitoring)

(***************************************************************************)
(* clean: everything of the stack, once, after one question.               *)
(***************************************************************************)
cleanPresent == Look("list") \o Each(Look("get"))
discoverClean == Look("releases") \o Each(Look("helm status")) \o cleanPresent \o cleanPresent
keepForOthers == Each(Look("objects of the group")) \o Each(Look("owner of a cluster object"))
cleanOperatorCRs == Each(Destroying(Best("custom resources"))) \o Each(Look("what is left") \o Best("finalizers"))
cleanUninstallReleases == Each(TryDestroy("release"))
\* One that is still going after three minutes is left to Kubernetes.
cleanDeleteNamespaces == Each(Either(TryDestroy("namespace"), Destroy("namespace")))
runCleanSteps ==
    cleanOperatorCRs \o cleanUninstallReleases \o Each(TryDestroy("cluster object"))
    \o cleanDeleteNamespaces \o Maybe(TryDestroy("CRDs"))
runClean ==
    Need("context") \o discoverClean \o keepForOthers \o Maybe(Stop)
    \o Ask("force")
    \o Best("stop port forwards") \o runCleanSteps \o Tell

(***************************************************************************)
(* kyverno.                                                                *)
(***************************************************************************)
kyvernoStatusCmd == Look("kyverno's CRD") \o Look("controllers") \o Look("policies") \o Look("reports")
kyvernoViolationsCmd == Need("policy reports")
kyvernoEnforceCmd == Do("patch policy")
kyvernoAuditCmd == Do("patch policy")
kyvernoDetectCmd == Look("kyverno's CRD") \o Look("policies") \o Look("namespaces")

kyvernoReleaseNamespace == Need("one release of kates")
\* Kyverno itself is installed before the user is asked about the policies.
kyvernoApplyCmd ==
    resolveChartRoot \o kyvernoReleaseNamespace \o Look("kyverno's CRD")
    \o Maybe(Unless("dry-run",
           Best("helm repo") \o ensureConfiguredDeployNamespace \o Do("install kyverno")
           \o Look("CRD is established")))
    \o Look("namespaces") \o currentDeployPolicies
    \o Within("policy values dir",
           Need("policy values")
           \o When("dry-run", Need("helm --dry-run") \o Stop)
           \o Ask("yes")
           \o ensureConfiguredDeployNamespace \o Do("helm upgrade --install") \o Look("policies"))

\* A kind of policy that the account may not read is named, and the check does not pass without it.
listKyvernoOnce == Maybe(Need("list"))
listKyvernoKind == Attempt(listKyvernoOnce, Maybe(Fail) \o listKyvernoOnce) \o Maybe(Note)
readKyvernoPolicies == Each(listKyvernoKind)
readKyvernoExceptionScope == Look("admission controller's flags")
chartDepsMissing == Need("helm dependency list")
inNamespace == Need("rendered objects are YAML")
renderChart == chartDepsMissing \o Maybe(Need("helm dependency build")) \o Need("helm template") \o inNamespace
parseKyvernoReport == Need("kyverno's report")
runKyvernoApply == Within("kyverno check dir", Need("files") \o Look("kyverno apply") \o parseKyvernoReport)
\* A rule that failed or errored is a finding of the report.
addResults == Maybe(Note)
checkKyvernoChart == Maybe(renderChart \o runKyvernoApply \o addResults)
readValuesFile == Need("values written earlier")
writeKyvernoValues == Maybe(readValuesFile \o Save("values file"))
finishKyvernoCheck == Tell
saveDeployPolicies == Save("policies file")
kyvernoCheckCmd ==
    Need("charts and labels") \o Need("kyverno CLI") \o resolveChartRoot \o Need("policies file")
    \o namespaceUserLabels
    \o Within("policy values dir",
           readKyvernoExceptionScope
           \o Each(readKyvernoPolicies \o Need("policy values") \o checkKyvernoChart \o Maybe(writeKyvernoValues))
           \o Maybe(Need("current context") \o saveDeployPolicies)
           \o finishKyvernoCheck)

(***************************************************************************)
(* helm tests: with JSON output a failed test is in the JSON only.         *)
(***************************************************************************)
discoverHelmReleases == Look("helm list") \o Each(Look("helm status"))
selectHelmReleases == Maybe(discoverHelmReleases)
runSingleHelmTest == Try("helm test") \o Maybe(Note)
handleHelmTestExport == Save("test report")
runHelmTests ==
    Look("current context") \o selectHelmReleases \o Maybe(Stop)
    \o Each(runSingleHelmTest)
    \o When("json", Stop)
    \o Maybe(handleHelmTestExport) \o Tell

(***************************************************************************)
(* upgrade: the new binary is built first and moved over the old one.      *)
(***************************************************************************)
resolveSourceDir == Either(Need("go.mod of --source"), Look("repository of the binary") \o Look("repository here") \o Maybe(Fail))
resolveInstallDir == Look("kates on PATH")
captureInstalledVersion == Look("version of the binary")
checkPathShadow == Look("kates on PATH")
printPathShadowWarning == checkPathShadow \o Maybe(captureInstalledVersion)
needsSudoForPath == Attempt(Open("write test") \o Close("write test"), <<>>)
checkForeignSymlink == Look("link of the binary")
guardForeignSymlink == checkForeignSymlink \o Maybe(Fail)
macOSSign == Best("xattr provenance") \o Best("xattr quarantine") \o Best("codesign")
buildUpgradeBinary == Need("go build")
\* What is half written to the temporary file when the write fails stays.
installBinary ==
    Attempt(Open("kates.tmp") \o Maybe(Fail), Fail)
    \o Attempt(Do("rename over the binary"), Close("kates.tmp") \o Fail)
    \o Close("kates.tmp")
runUpgrade ==
    resolveSourceDir \o resolveInstallDir \o needsSudoForPath \o captureInstalledVersion \o Look("git state")
    \o When("dry-run", Attempt(guardForeignSymlink, <<>>) \o printPathShadowWarning \o Stop)
    \o buildUpgradeBinary \o guardForeignSymlink \o installBinary
    \o Maybe(macOSSign) \o captureInstalledVersion \o printPathShadowWarning

DeployCommands ==
    [runDeploy |-> runDeploy, runAuto |-> runAuto, runClean |-> runClean,
     runChartsPull |-> runChartsPull, runChartsPush |-> runChartsPush,
     kyvernoStatusCmd |-> kyvernoStatusCmd, kyvernoViolationsCmd |-> kyvernoViolationsCmd,
     kyvernoEnforceCmd |-> kyvernoEnforceCmd, kyvernoAuditCmd |-> kyvernoAuditCmd,
     kyvernoDetectCmd |-> kyvernoDetectCmd, kyvernoApplyCmd |-> kyvernoApplyCmd,
     kyvernoCheckCmd |-> kyvernoCheckCmd, runHelmTests |-> runHelmTests, runUpgrade |-> runUpgrade]
=============================================================================
