----------------------------- MODULE ApiEndpoints -----------------------------
(***************************************************************************)
(* The requests of the command line's client of the Kates API              *)
(* (cli/client/client.go): for every method the verb it sends, whether a   *)
(* name or an id of the caller's goes into its path, whether it may be     *)
(* sent again, what the API does with it, and what cuts it off: the        *)
(* client's own minute, a deadline of the call's, or only the caller.      *)
(***************************************************************************)

Request(verb, named, does) ==
    [verb |-> verb, named |-> named, does |-> does,
     retryable |-> FALSE, limit |-> "minute"]

get == [Request("GET", FALSE, "nothing") EXCEPT !.retryable = TRUE]
postJSON == Request("POST", FALSE, "creates")
put == Request("PUT", TRUE, "changes")
patch == Request("PATCH", TRUE, "changes")
delete == Request("DELETE", TRUE, "removes")

Reads == get
ReadsOne == [get EXCEPT !.named = TRUE]
Creates == postJSON
CreatesAt == [postJSON EXCEPT !.named = TRUE]
ReplacesOne == put
PatchesOne == patch
RemovesOne == delete

\* The cluster, as the API's own view of it.
Health == Reads
ClusterInfo == Reads
ClusterTopology == Reads
ClusterAlerts == Reads
Topics == Reads
TopicDetail == ReadsOne
ConsumerGroups == Reads
ConsumerGroupDetail == ReadsOne
BrokerConfigs == Reads
ClusterCheck == Reads

\* Runs.
ListTests == Reads
GetTest == ReadsOne
CreateTest == Creates
RerunTest == Creates
CreateCompareRebalanceTest == Creates
DeleteTest == RemovesOne
CancelTest == CreatesAt
TestTypes == Reads
Backends == Reads

\* Their reports, exports and trends.
Report == ReadsOne
ReportSummary == ReadsOne
Compare == Reads
ExportCSV == ReadsOne
ExportHeatmap == ReadsOne
ExportJUnit == ReadsOne
Trends == Reads
TrendPhases == Reads
TrendBreakdown == Reads
ReportBrokers == ReadsOne
ReportSnapshot == ReadsOne
BrokerTrend == Reads
ReportRegression == ReadsOne
TuningTypes == Reads
Audit == Reads

\* Schedules.
ListSchedules == Reads
GetSchedule == ReadsOne
CreateSchedule == Creates
UpdateSchedule == ReplacesOne
DeleteSchedule == RemovesOne

\* Disruptions, playbooks and resilience runs.
StartDisruption == Creates
StartPlaybook == CreatesAt
DisruptionStatus == ReadsOne
DisruptionTimelineData == ReadsOne
DisruptionTypes == Reads
DisruptionList == Reads
DisruptionKafkaMetrics == ReadsOne
PlaybookList == Reads
DisruptionScheduleList == Reads
DisruptionScheduleCreate == Creates
DisruptionScheduleDelete == RemovesOne

\* Webhooks.
ListWebhooks == Reads
RegisterWebhook == Creates
DeleteWebhook == RemovesOne

\* Kafka itself.
KafkaBrokers == Reads
KafkaTopics == Reads
KafkaTopicDetail == ReadsOne
KafkaGroups == Reads
KafkaGroupDetail == ReadsOne
KafkaConsume == ReadsOne
KafkaProduce == CreatesAt
KafkaCreateTopic == Creates
KafkaAlterTopic == PatchesOne
KafkaDeleteTopic == RemovesOne

\* Baselines.
BaselineSet == ReplacesOne
BaselineUnset == RemovesOne
BaselineGet == ReadsOne
BaselineList == Reads

\* Security reviews: only the baseline is kept.
SecurityAudit == Reads
SecurityTLS == Reads
SecurityAuthTest == Reads
SecurityPentest == Reads
SecurityCompliance == Reads
SecurityBaselineSave == Creates
SecurityDrift == Reads
SecurityGate == Reads
SecurityCerts == Reads
SecurityCVE == Reads
SecurityConfigDiff == Reads
SecurityACLMap == Reads
SecurityTrend == Reads
SecuritySecrets == Reads

\* A dry run changes nothing, so it is retried like a read.
PruneTests == Request("DELETE", FALSE, "removes")
PruneTestsDryRun == [Request("DELETE", FALSE, "nothing") EXCEPT !.retryable = TRUE]

\* A plan checked and not run: a POST, so it is sent once.
RunDryRun == Request("POST", FALSE, "nothing")

\* A resilience run outlasts the client's minute: the call has a deadline of
\* its own.
Resilience == [postJSON EXCEPT !.limit = "own"]

\* The event stream runs for as long as the disruption does, and is opened
\* once.
DisruptionStream == [ReadsOne EXCEPT !.limit = "caller", !.retryable = FALSE]

\* By name.
Endpoints ==
    [Health |-> Health, ClusterInfo |-> ClusterInfo,
     ClusterTopology |-> ClusterTopology, ClusterAlerts |-> ClusterAlerts,
     Topics |-> Topics, TopicDetail |-> TopicDetail,
     ConsumerGroups |-> ConsumerGroups,
     ConsumerGroupDetail |-> ConsumerGroupDetail,
     BrokerConfigs |-> BrokerConfigs, ClusterCheck |-> ClusterCheck,
     ListTests |-> ListTests, GetTest |-> GetTest,
     CreateTest |-> CreateTest, RerunTest |-> RerunTest,
     CreateCompareRebalanceTest |-> CreateCompareRebalanceTest,
     DeleteTest |-> DeleteTest, CancelTest |-> CancelTest,
     TestTypes |-> TestTypes, Backends |-> Backends, Report |-> Report,
     ReportSummary |-> ReportSummary, Compare |-> Compare,
     ExportCSV |-> ExportCSV, ExportHeatmap |-> ExportHeatmap,
     ExportJUnit |-> ExportJUnit, Trends |-> Trends,
     TrendPhases |-> TrendPhases, TrendBreakdown |-> TrendBreakdown,
     ReportBrokers |-> ReportBrokers, ReportSnapshot |-> ReportSnapshot,
     BrokerTrend |-> BrokerTrend, ReportRegression |-> ReportRegression,
     TuningTypes |-> TuningTypes, Audit |-> Audit,
     ListSchedules |-> ListSchedules, GetSchedule |-> GetSchedule,
     CreateSchedule |-> CreateSchedule, UpdateSchedule |-> UpdateSchedule,
     DeleteSchedule |-> DeleteSchedule,
     StartDisruption |-> StartDisruption, StartPlaybook |-> StartPlaybook,
     DisruptionStatus |-> DisruptionStatus,
     DisruptionTimelineData |-> DisruptionTimelineData,
     DisruptionTypes |-> DisruptionTypes,
     DisruptionList |-> DisruptionList,
     DisruptionKafkaMetrics |-> DisruptionKafkaMetrics,
     PlaybookList |-> PlaybookList,
     DisruptionScheduleList |-> DisruptionScheduleList,
     DisruptionScheduleCreate |-> DisruptionScheduleCreate,
     DisruptionScheduleDelete |-> DisruptionScheduleDelete,
     ListWebhooks |-> ListWebhooks, RegisterWebhook |-> RegisterWebhook,
     DeleteWebhook |-> DeleteWebhook, KafkaBrokers |-> KafkaBrokers,
     KafkaTopics |-> KafkaTopics, KafkaTopicDetail |-> KafkaTopicDetail,
     KafkaGroups |-> KafkaGroups, KafkaGroupDetail |-> KafkaGroupDetail,
     KafkaConsume |-> KafkaConsume, KafkaProduce |-> KafkaProduce,
     KafkaCreateTopic |-> KafkaCreateTopic,
     KafkaAlterTopic |-> KafkaAlterTopic,
     KafkaDeleteTopic |-> KafkaDeleteTopic, BaselineSet |-> BaselineSet,
     BaselineUnset |-> BaselineUnset, BaselineGet |-> BaselineGet,
     BaselineList |-> BaselineList, SecurityAudit |-> SecurityAudit,
     SecurityTLS |-> SecurityTLS, SecurityAuthTest |-> SecurityAuthTest,
     SecurityPentest |-> SecurityPentest,
     SecurityCompliance |-> SecurityCompliance,
     SecurityBaselineSave |-> SecurityBaselineSave,
     SecurityDrift |-> SecurityDrift, SecurityGate |-> SecurityGate,
     SecurityCerts |-> SecurityCerts, SecurityCVE |-> SecurityCVE,
     SecurityConfigDiff |-> SecurityConfigDiff,
     SecurityACLMap |-> SecurityACLMap, SecurityTrend |-> SecurityTrend,
     SecuritySecrets |-> SecuritySecrets, PruneTests |-> PruneTests,
     PruneTestsDryRun |-> PruneTestsDryRun, RunDryRun |-> RunDryRun,
     Resilience |-> Resilience, DisruptionStream |-> DisruptionStream]
================================================================================
