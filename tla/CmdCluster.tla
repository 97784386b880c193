----------------------------- MODULE CmdCluster -----------------------------
(***************************************************************************)
(* The commands that look at and change the Kafka cluster: cluster, kafka, *)
(* security, connect and doctor.  Most are one read of the API and a       *)
(* table; what is printed is left out.                                     *)
(***************************************************************************)
EXTENDS CommandSteps

(***************************************************************************)
(* cluster, and the reports on it.                                         *)
(***************************************************************************)
clusterInfoCmd == Need("cluster/info")
clusterTopologyCmd == Need("cluster/topology")
clusterTopicsCmd == Need("cluster/topics")
clusterTopicDescribeCmd == Need("cluster/topics/name")
clusterBrokerConfigsCmd == Need("broker id is a number") \o Need("cluster/brokers/configs")
clusterAlertsCmd == Need("cluster/alerts") \o Either(Fail, <<>>)
clusterCheckCmd == Need("cluster/check")
clusterDiffCmd == Need("two contexts") \o Need("topics of a") \o Need("topics of b")
clusterWatchCmd == Need("checkInterval") \o Need("first check") \o Each(Look("cluster/check"))
topCmd == Need("checkInterval") \o Each(Look("tests"))
healthCmd == Need("health")
chaosListCmd == Need("disruptions")
chaosShowCmd == Need("disruption")

(***************************************************************************)
(* kafka: topics and records.  The dry run of delete-topic asks first.     *)
(***************************************************************************)
kafkaBrokersCmd == Need("brokers")
kafkaTopicsCmd == Need("topics")
kafkaTopicCmd == Need("topic")
kafkaGroupsCmd == Need("groups")
kafkaGroupCmd == Need("group")
consumeTail == Each(Look("records"))
kafkaConsumeCmd == Need("records") \o Maybe(consumeTail)
kafkaProduceCmd == Need("value flag") \o Do("produce record")
kafkaCreateTopicCmd == When("dry-run", Stop) \o Do("create topic")
kafkaAlterTopicCmd == Need("parseConfigFlags") \o When("dry-run", Stop) \o Do("alter topic")
kafkaDeleteTopicCmd == Ask("yes") \o When("dry-run", Stop) \o Destroy("topic")

(***************************************************************************)
(* security.  An audit that answers with an error did not run; its report  *)
(* has what kubectl tells of the policies beside it.                       *)
(***************************************************************************)
injectKyvernoChecks ==
    Look("kyverno's CRD")
    \o Either(Return, Look("cluster policies") \o Look("policy reports"))
securityAuditCmd ==
    Need("security/audit") \o Call(injectKyvernoChecks)
    \o Either(Fail, <<>>) \o Maybe(Save("audit report"))
securityBaselineCmd == Need("save flag") \o Do("save baseline")
securityDriftCmd == Need("security/drift")
securityGateCmd == Need("grade flag") \o Need("security/gate") \o Either(Fail, <<>>)
securityNetpolCmd == Look("helm namespaces") \o Each(Look("network policies"))
securityTLSCmd == Need("security/tls")
securityCertsCmd == Need("security/certs")
securityCVECmd == Need("security/cve")
securityConfigDiffCmd == Need("security/config-diff")
securityAuthTestCmd == Need("security/auth-test")
securityPentestCmd == Need("security/pentest")
securityACLMapCmd == Need("security/acls")
securityComplianceCmd == Need("security/compliance")
securitySecretsCmd == Need("security/secrets")
securityTrendCmd == Need("security/trend")

(***************************************************************************)
(* connect: kubectl on the KafkaConnect and KafkaConnector resources.      *)
(***************************************************************************)
detectConnectNamespace == Look("namespace of the KafkaConnect")
connectStatusCmd == detectConnectNamespace \o Need("KafkaConnect")
connectConnectorsCmd == detectConnectNamespace \o Need("KafkaConnectors")
connectConnectorCmd == detectConnectNamespace \o Need("KafkaConnector")
connectTasksCmd == detectConnectNamespace \o Need("KafkaConnector tasks")
connectRestartCmd == detectConnectNamespace \o Do("annotate restart")
connectPauseCmd == detectConnectNamespace \o Do("patch pause")
connectResumeCmd == detectConnectNamespace \o Do("patch running")
connectPluginsCmd == detectConnectNamespace \o Need("connector plugins")
connectLogsCmd == detectConnectNamespace \o Need("logs")
connectRestartTaskCmd == detectConnectNamespace \o Do("annotate restart-task")
connectConfigCmd == detectConnectNamespace \o Need("connector config")
connectDeleteCmd == detectConnectNamespace \o Destroy("KafkaConnector")
connectScaleCmd == Need("replicas is a number") \o detectConnectNamespace \o Need("KafkaConnect") \o Do("patch replicas")

\* The integration test: the screen is left by a key, a signal ends the plain one, a status that
\* could not be read is read again for ever, and nothing is said of how it went by the exit code.
pollCdcPlain == Each(Look("test")) \o Follow("run", <<>>, <<>>) \o Maybe(Note)
cdcModelUpdate == FollowOnScreen("run", Stop, Stop) \o Maybe(Note)
connectTestCmd == Begin("run") \o Either(cdcModelUpdate, pollCdcPlain)

(***************************************************************************)
(* doctor.  The probes of the network run in pods that kubectl removes     *)
(* when it ends by itself; one that is cut off leaves its pod.             *)
(***************************************************************************)
kyvernoChecks == Look("kyverno's CRD") \o Look("admission controller") \o Look("policies")
runDoctorChecks ==
    Attempt(Need("health"), Note \o Return)
    \o Maybe(Note)
    \o Probe("cluster/info") \o Probe("cluster/check") \o Probe("topics") \o Probe("backends")
    \o Maybe(kyvernoChecks)
doctorCmd == Need("timeout flag") \o Call(runDoctorChecks) \o Tell

runEphemeralPod == OpenOnCluster("probe pod") \o Either(Close("probe pod"), Fail)
detectClusterDomain == Attempt(runEphemeralPod, <<>>)
runDNSCheck == Attempt(runEphemeralPod, Note) \o Maybe(Note)
runTCPCheck == Attempt(runEphemeralPod, Note) \o Maybe(Note)
runNetworkProbes == runDNSCheck \o runTCPCheck
runNetPolAudit == Look("network policies") \o Maybe(Note)
runDoctorNetwork == detectClusterDomain \o runNetworkProbes \o Each(runNetPolAudit)

currentDNSSearches == Look("search domains")
checkDeploymentDNS == currentDNSSearches
checkKafkaConnectDNS == currentDNSSearches
patchDeploymentDNS == Try("patch deployment")
patchKafkaConnectDNS == Try("patch KafkaConnect")
\* Right already or in Kafka's namespace; else patched if --fix was given.
auditComponentDNS(check, patch) == Maybe(check \o Maybe(When("fix", patch)))
runDoctorDns ==
    runEphemeralPod
    \o auditComponentDNS(checkDeploymentDNS, patchDeploymentDNS)
    \o auditComponentDNS(checkKafkaConnectDNS, patchKafkaConnectDNS)

ClusterCommands ==
    [clusterInfoCmd |-> clusterInfoCmd, clusterTopologyCmd |-> clusterTopologyCmd,
     clusterTopicsCmd |-> clusterTopicsCmd, clusterTopicDescribeCmd |-> clusterTopicDescribeCmd,
     clusterBrokerConfigsCmd |-> clusterBrokerConfigsCmd, clusterAlertsCmd |-> clusterAlertsCmd,
     clusterCheckCmd |-> clusterCheckCmd, clusterDiffCmd |-> clusterDiffCmd,
     clusterWatchCmd |-> clusterWatchCmd, topCmd |-> topCmd, healthCmd |-> healthCmd,
     chaosListCmd |-> chaosListCmd, chaosShowCmd |-> chaosShowCmd,
     kafkaBrokersCmd |-> kafkaBrokersCmd, kafkaTopicsCmd |-> kafkaTopicsCmd,
     kafkaTopicCmd |-> kafkaTopicCmd, kafkaGroupsCmd |-> kafkaGroupsCmd,
     kafkaGroupCmd |-> kafkaGroupCmd, kafkaConsumeCmd |-> kafkaConsumeCmd,
     kafkaProduceCmd |-> kafkaProduceCmd, kafkaCreateTopicCmd |-> kafkaCreateTopicCmd,
     kafkaAlterTopicCmd |-> kafkaAlterTopicCmd, kafkaDeleteTopicCmd |-> kafkaDeleteTopicCmd,
     securityAuditCmd |-> securityAuditCmd, securityBaselineCmd |-> securityBaselineCmd,
     securityDriftCmd |-> securityDriftCmd, securityGateCmd |-> securityGateCmd,
     securityNetpolCmd |-> securityNetpolCmd, securityTLSCmd |-> securityTLSCmd,
     securityCertsCmd |-> securityCertsCmd, securityCVECmd |-> securityCVECmd,
     securityConfigDiffCmd |-> securityConfigDiffCmd, securityAuthTestCmd |-> securityAuthTestCmd,
     securityPentestCmd |-> securityPentestCmd, securityACLMapCmd |-> securityACLMapCmd,
     securityComplianceCmd |-> securityComplianceCmd, securitySecretsCmd |-> securitySecretsCmd,
     securityTrendCmd |-> securityTrendCmd, connectStatusCmd |-> connectStatusCmd,
     connectConnectorsCmd |-> connectConnectorsCmd, connectConnectorCmd |-> connectConnectorCmd,
     connectTasksCmd |-> connectTasksCmd, connectRestartCmd |-> connectRestartCmd,
     connectPauseCmd |-> connectPauseCmd, connectResumeCmd |-> connectResumeCmd,
     connectPluginsCmd |-> connectPluginsCmd, connectLogsCmd |-> connectLogsCmd,
     connectRestartTaskCmd |-> connectRestartTaskCmd, connectConfigCmd |-> connectConfigCmd,
     connectDeleteCmd |-> connectDeleteCmd, connectScaleCmd |-> connectScaleCmd,
     connectTestCmd |-> connectTestCmd, doctorCmd |-> doctorCmd,
     runDoctorNetwork |-> runDoctorNetwork, runDoctorDns |-> runDoctorDns]
=============================================================================
