------------------------------ MODULE CmdDetect ------------------------------
(***************************************************************************)
(* Looking at a Kubernetes cluster before something is installed on it:    *)
(* the Collector, which detect, auto and deploy share, and the command     *)
(* detect.  The collector's probes of one stage run at once; nothing they  *)
(* do meets, so they stand one after the other here.                       *)
(***************************************************************************)
EXTENDS CommandSteps

PreflightContext == Need("kubectl is installed") \o Need("helm is installed") \o Need("cluster answers")

\* What is read and done without: a call that fails is an "unknown" or an empty list in the report.
getContext == Look("current context")
getServer == Look("server")
getK8sVersion == Look("version")
getHelmVersion == Look("helm version")
getStorageClasses == Look("storage classes")
getStorageAudit == Look("volumes") \o Look("CSI drivers")
getExistingKafkaResources == Look("Strimzi objects") \o Look("PVCs") \o Look("releases") \o Maybe(Look("Kafka CRs"))
missingStrimziCRDs == Each(Look("CRD"))
findStrimziOperator == Look("deployments")
auditStrimziOperatorPod == Look("operator pods") \o Look("operator logs")
getStrimziStatus == missingStrimziCRDs \o findStrimziOperator \o Maybe(auditStrimziOperatorPod)
getKafkaConnectStatus == Look("KafkaConnects") \o Maybe(Look("ready replicas"))
getKafkaConnectors == Look("KafkaConnectors")
getSchemaRegistryStatus == Look("deployments")
getDatabaseCDCStatus == Look("stateful sets")
getEcosystemStatus ==
    getKafkaConnectStatus \o getKafkaConnectors \o getSchemaRegistryStatus \o getDatabaseCDCStatus
getMonitoringStatus == Look("CRDs of monitoring") \o Look("grafana") \o Look("release label")
parseKyvernoPolicies == Look("cluster policies")
parseGatekeeperConstraints == Look("constraints")
getAdmissionStatus == Look("deployments") \o Maybe(parseKyvernoPolicies) \o Maybe(parseGatekeeperConstraints)
getNetworkPolicyAudit == Look("network policies")
getWorkloadPressure == Look("pods")
getSecurityAudit == Look("namespace kafka") \o Look("may create") \o Look("secrets") \o Look("roles")

\* The cluster's domain comes from the Corefile; else from a pod of the stack, else from a pod that
\* is started for it and that kubectl removes unless it is cut off.  A read-only collection does
\* without both.
getNetworkStatus(readOnly) ==
    Look("CNI") \o Look("Corefile")
    \o Maybe(If(readOnly, <<>>,
           Look("a pod of kates")
           \o Maybe(Attempt(OpenOnCluster("dns-detect pod")
                            \o Either(Close("dns-detect pod"), <<>>), <<>>))))
    \o Look("API server's flags")

\* The one read that the report cannot do without.
CollectNodes == Need("nodes")

(***************************************************************************)
(* Stage 2: what is learnt by creating it.  Each probe has a namespace of  *)
(* its own, made from a manifest in a temporary file; its removal runs on  *)
(* a context of its own (WithoutCancel), whatever the probe comes to.      *)
(***************************************************************************)
writeProbeFile(p) == Within("probe file", p)
createProbeNamespace == writeProbeFile(OpenOnCluster("probe namespace"))

\* Mutant: the namespace is deleted at the end, not by a defer.
InProbeNamespaceAtTheEnd(p) == createProbeNamespace \o p \o Close("probe namespace")

InProbeNamespace(p) == createProbeNamespace \o Deferred("probe namespace", p)

Probing(p) == Attempt(p, <<>>)

checkSecretCreation == Probing(InProbeNamespace(Best("secret of the probe")))

createZoneProbers == Do("prober pods")
waitZoneProbers == Need("prober pods are ready")
zoneProberIPs == Need("prober pods' addresses")
startLatencyProbers == createZoneProbers \o waitZoneProbers \o zoneProberIPs
pingZonePairs == Each(Look("ping"))
getAZLatency == Maybe(Probing(InProbeNamespace(startLatencyProbers \o pingZonePairs)))

runStorageBenchPod ==
    writeProbeFile(Do("PVC of the bench")) \o Do("fio pod") \o Need("fio pod is ready")
    \o Need("fio pod has succeeded") \o Need("fio log")
benchStorageClass == Attempt(runStorageBenchPod, Maybe(Fail))
runLiveStorageBench ==
    Maybe(Probing(InProbeNamespace(
        writeProbeFile(Do("ConfigMap of the bench") \o Each(benchStorageClass)))))

startBandwidthProbers == createZoneProbers \o waitZoneProbers \o Need("iperf3 is installed") \o zoneProberIPs
sweepBandwidth == Look("iperf3 server") \o Look("iperf3 client")
runAZBandwidthBench ==
    Maybe(Probing(InProbeNamespace(startBandwidthProbers \o Each(sweepBandwidth))))

startDNSProber == Do("prober pod") \o Need("prober pod is ready") \o Need("dig is installed")
digTimes == Each(Look("dig"))
runDNSResolutionProbe == Maybe(Probing(InProbeNamespace(startDNSProber \o digTimes)))

runWriteProbes ==
    checkSecretCreation \o getAZLatency
    \o When("bench-storage", runLiveStorageBench)
    \o When("bench-network", runAZBandwidthBench)
    \o When("bench-dns", runDNSResolutionProbe)

\* Cancelled, every call above has come back early: the report is hollow and is not handed on.
finishCollect(readOnly) ==
    IfStopped(Fail)
    \o If(readOnly, <<>>, runWriteProbes \o IfStopped(Fail))
    \o getSecurityAudit

Collect(readOnly) ==
    getContext \o getServer
    \o getK8sVersion \o getHelmVersion \o CollectNodes \o getStorageClasses \o getStorageAudit
    \o getExistingKafkaResources \o getStrimziStatus \o getMonitoringStatus \o getNetworkStatus(readOnly)
    \o getAdmissionStatus \o getNetworkPolicyAudit \o getWorkloadPressure \o getEcosystemStatus
    \o finishCollect(readOnly)

(***************************************************************************)
(* detect.  Without --fail-on-error a cluster that cannot be looked at is  *)
(* said, and exit 0; a report that cannot be written always is.            *)
(***************************************************************************)
CouldNotLook == If("fail-on-error", Fail, Note \o Stop)
collectReport == Attempt(Collect("never read-only"), IfStopped(Fail) \o CouldNotLook)
writeGeneratedValues ==
    Need("base values") \o If("preview", Need("render"), Save("values file"))
writeDetectReportFile == Try("report file")
runDetect ==
    Interruptible \o Need("namespace labels")
    \o Attempt(PreflightContext, CouldNotLook)
    \o Need("values file")
    \o collectReport
    \o Maybe(writeGeneratedValues \o Stop)
    \o Maybe(writeDetectReportFile)
    \o Either(Fail, <<>>)

DetectCommands == [runDetect |-> runDetect]
=============================================================================
