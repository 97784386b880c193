------------------------------ MODULE McpTools ------------------------------
(***************************************************************************)
(* What each tool and resource of `kates mcp` reads from the Kates API.    *)
(* A tool is a sequence of stages; the reads of a stage are sent at the    *)
(* same time (errgroup) and the stage is over when all have answered:      *)
(*                                                                         *)
(*   must    reads the tool cannot answer without                          *)
(*   part    reads whose failure only makes a section unavailable          *)
(*   named   the ones whose answer names its cluster, which the tool       *)
(*           compares with the pin (CheckCluster)                          *)
(*   some    the tool fails when every part of the stage failed            *)
(*                                                                         *)
(* An API path stands for every request below it; paging repeats a read.   *)
(***************************************************************************)
EXTENDS Sequences, FiniteSets

Stages == [must : SUBSET STRING, part : SUBSET STRING, named : SUBSET STRING, some : BOOLEAN]
Stage(must, part, named) == [must |-> must, part |-> part, named |-> named, some |-> FALSE]
SomeOf(part) == [must |-> {}, part |-> part, named |-> {}, some |-> TRUE]
Reads(stage) == stage.must \union stage.part

\* The health check names its cluster; the alert rules may be missing.
mcpClusterOverview == <<Stage({"cluster/check"}, {"cluster/alerts"}, {"cluster/check"})>>

\* Without a topic the topology is the answer; with one it is a section, and a topic that fails with
\* a 5xx is looked up in the list to tell "no such topic" from a failure.
mcpClusterTopology == <<Stage({"cluster/topology"}, {}, {"cluster/topology"})>>
mcpTopicLayout == <<Stage({"topics/detail"}, {"cluster/topology"}, {"cluster/topology"})>>
mcpTopicIsListed == <<Stage({}, {"topics"}, {}), Stage({"topics/detail"}, {}, {})>>

\* Lists: one or two pages of the API cover an offset and a limit.
mcpListTopics == <<Stage({"topics"}, {}, {}), Stage({"topics"}, {}, {})>>
mcpListConsumerGroups == <<Stage({"consumer-groups"}, {}, {})>>

\* The group's offsets, then the leaders of its topics, each of which may stay unknown.
mcpConsumerGroupLag == <<Stage({"consumer-groups/detail"}, {}, {}), Stage({}, {"topics/detail"}, {})>>

\* A page of runs, or a scan of them when both the type and the status filter.
mcpListRuns == <<Stage({"tests"}, {}, {}), Stage({"tests"}, {}, {})>>
mcpGetRun == <<Stage({"tests/run"}, {}, {}), Stage({}, {"tests/report/summary"}, {})>>

\* The run, the parts of its assessment, and the run it is compared with.
mcpAssessRun ==
    <<Stage({"tests/run"}, {}, {}),
      Stage({}, {"tests/report/summary", "tests/report/regression", "tests/report/brokers",
                 "advisor", "tests"}, {}),
      Stage({}, {"tests/report/compare", "tests/baseline"}, {})>>

\* Four lists, of which one is enough.
mcpKatesActivity == <<SomeOf({"tests/running", "tests", "disruptions", "audit"})>>
mcpListChaosCatalog == <<SomeOf({"disruptions/types", "disruptions/playbooks",
                                 "disruptions/templates", "disruptions/providers"})>>

\* The plan (a playbook's, or an ad hoc one whose types must be known) and its dry run, beside the topology.
mcpRunPreview ==
    <<Stage({"disruptions/playbooks"}, {"cluster/topology"}, {"cluster/topology"}),
      Stage({"disruptions?dryRun"}, {}, {})>>
mcpReadDisruption ==
    <<Stage({"disruptions/report"}, {"disruptions/impact", "disruptions/compare", "disruptions/baseline"}, {})>>
mcpReadTimeline == <<Stage({"disruptions/timeline"}, {}, {})>>
mcpReadPlaybook == <<Stage({"disruptions/playbooks"}, {}, {})>>
mcpRunReport == <<Stage({"tests/report"}, {}, {})>>

\* Eight reports, or the one section asked for.
mcpReadAllSecurity ==
    <<SomeOf({"security/audit", "security/pentest", "security/compliance", "security/tls",
              "security/certs", "security/cve", "security/drift", "security/config-diff"})>>
mcpSecurityEvidence == <<Stage({"security/audit"}, {}, {})>>

\* Checks a text and reads nothing.
mcpDraftScenario == <<>>

Tools ==
    {mcpClusterOverview, mcpClusterTopology, mcpTopicLayout, mcpTopicIsListed, mcpListTopics,
     mcpListConsumerGroups, mcpConsumerGroupLag, mcpListRuns, mcpGetRun, mcpAssessRun,
     mcpKatesActivity, mcpListChaosCatalog, mcpRunPreview, mcpReadDisruption, mcpReadAllSecurity,
     mcpSecurityEvidence, mcpDraftScenario}
\* Resource templates check their variables before the guard, tools within it.
Resources == {mcpReadTimeline, mcpReadPlaybook, mcpRunReport}
=============================================================================
