-------------------------- MODULE DeployComponents --------------------------
(***************************************************************************)
(* The component table of `kates deploy` (cli/cmd/deploy_components.go):   *)
(* for every component, what must be done or submitted before it starts,   *)
(* how it tells that it is already there, the commands its install runs in *)
(* order, and how it waits.  Values files, helm arguments and messages are *)
(* left out.  The flags the user gave are a set `fl` of component names.   *)
(*                                                                         *)
(* An install is a sequence of steps, run in order; the first one that     *)
(* fails ends it.  The steps are                                           *)
(*   "prep"    commands that change nothing a later run looks at (chart    *)
(*             dependencies, namespaces, secrets, waits for CRDs)          *)
(*   "helm"    helm upgrade --install of the component's release           *)
(*   "helm?"   the same, unless the installed release is kept as it is     *)
(*   "issuer"  the cert-manager ClusterIssuer, with its webhook bypass     *)
(*   "upgrade" helm upgrade of a release this run installed                *)
(***************************************************************************)
EXTENDS Naturals, Sequences, FiniteSets

\* How the skip check (component.installed) decides; "always" is a nil check.
Always == "always"       \* never skipped: helm upgrade --install converges
IfDeployed == "deployed" \* skipped when the release is deployed
IfKept == "kept"         \* skipped when deployed and no upgrade was asked for
IfReady == "ready"       \* skipped when deployed and its resource is Ready
IfAvailable == "available" \* skipped when deployed, or when its controllers are ready

(***************************************************************************)
(* How a readiness wait ends the component when it fails: the deploy fails *)
(* ("must"), the component is shown failed and the deploy goes on          *)
(* ("advisory", errNotReady), or the wait only warns ("warns").            *)
(***************************************************************************)
Waits == {"none", "must", "advisory", "warns"}

\* Strimzi is reconciled on every run: its CRDs must not freeze at the version first installed.
strimziComponent == [deps |-> {}, after |-> {}, skip |-> Always, secrets |-> FALSE,
                     install |-> <<"prep", "helm">>, wait |-> "must"]

certManagerComponent == [deps |-> {}, after |-> {}, skip |-> IfDeployed, secrets |-> FALSE,
                         install |-> <<"prep", "helm", "prep", "issuer">>, wait |-> "must"]

\* One already running, from any release, is left alone.
kyvernoComponent == [deps |-> {}, after |-> {}, skip |-> IfAvailable, secrets |-> FALSE,
                     install |-> <<"prep", "helm", "prep">>, wait |-> "must"]

operatorIDs == {"strimzi", "cert-manager", "kyverno"}

\* The bookkeeping step between the operators and the rest.
operatorsDoneComponent == [deps |-> operatorIDs, after |-> {}, skip |-> Always, secrets |-> FALSE,
                           install |-> <<>>, wait |-> "none"]

monitoringComponent == [deps |-> {"operators"}, after |-> {}, skip |-> IfKept, secrets |-> FALSE,
                        install |-> <<"prep", "helm">>, wait |-> "must"]

kyvernoScrapeComponent == [deps |-> {"kyverno", "monitoring"}, after |-> {}, skip |-> Always, secrets |-> FALSE,
                           install |-> <<"upgrade">>, wait |-> "none"]

postgresComponent == [deps |-> {"operators"}, after |-> {}, skip |-> IfDeployed, secrets |-> FALSE,
                      install |-> <<"prep", "helm">>, wait |-> "advisory"]

kafkaComponent == [deps |-> {"operators"}, after |-> {"monitoring"}, skip |-> IfReady, secrets |-> FALSE,
                   install |-> <<"prep", "helm">>, wait |-> "must"]

kafkaUsersComponent == [deps |-> {"kafka"}, after |-> {}, skip |-> Always, secrets |-> FALSE,
                        install |-> <<>>, wait |-> "warns"]

kafkaConnectComponent == [deps |-> {"kafka-users", "postgres"}, after |-> {}, skip |-> Always, secrets |-> TRUE,
                          install |-> <<"prep", "helm?">>, wait |-> "must"]

\* Two connectors; a refused apply only warns, so the install itself cannot fail.
kafkaConnectorComponent == [deps |-> {"kafka-connect"}, after |-> {}, skip |-> Always, secrets |-> FALSE,
                            install |-> <<>>, wait |-> "must"]

apicurioComponent == [deps |-> {"kafka-users"}, after |-> {"monitoring"}, skip |-> IfKept, secrets |-> FALSE,
                      install |-> <<"helm">>, wait |-> "none"]

\* Kates is always upgraded: a release record does not say that anything runs.
katesComponent == [deps |-> {"kafka-users", "postgres", "monitoring"}, after |-> {}, skip |-> Always,
                   secrets |-> TRUE, install |-> <<"prep", "helm">>, wait |-> "must"]

kafkaUIComponent == [deps |-> {"kafka-users"}, after |-> {}, skip |-> IfKept, secrets |-> TRUE,
                     install |-> <<"helm">>, wait |-> "none"]

mirrorMaker2Component == [deps |-> {"kafka-users"}, after |-> {"monitoring"}, skip |-> IfKept, secrets |-> TRUE,
                          install |-> <<"prep", "helm">>, wait |-> "none"]

chaosComponent == [deps |-> {"kafka"}, after |-> {"monitoring"}, skip |-> IfDeployed, secrets |-> FALSE,
                   install |-> <<"prep", "helm">>, wait |-> "must"]

\* The flag that turns a component on; the others always run.
Optional == {"strimzi", "cert-manager", "kyverno", "monitoring", "apicurio", "kates", "kafka-ui",
             "mirror-maker2", "chaos"}
CDC == {"postgres", "kafka-connect", "kafka-connector"}

(***************************************************************************)
(* deployComponents: the pipeline, and which of it the flags turn on.      *)
(***************************************************************************)
Components == Optional \cup CDC \cup {"operators", "kyverno-scrape", "kafka", "kafka-users"}

deployComponents ==
    [c \in Components |->
        CASE c = "strimzi" -> strimziComponent [] c = "cert-manager" -> certManagerComponent
          [] c = "kyverno" -> kyvernoComponent [] c = "operators" -> operatorsDoneComponent
          [] c = "monitoring" -> monitoringComponent [] c = "kyverno-scrape" -> kyvernoScrapeComponent
          [] c = "postgres" -> postgresComponent [] c = "kafka" -> kafkaComponent
          [] c = "kafka-users" -> kafkaUsersComponent [] c = "kafka-connect" -> kafkaConnectComponent
          [] c = "kafka-connector" -> kafkaConnectorComponent [] c = "apicurio" -> apicurioComponent
          [] c = "kates" -> katesComponent [] c = "kafka-ui" -> kafkaUIComponent
          [] c = "mirror-maker2" -> mirrorMaker2Component [] c = "chaos" -> chaosComponent]

Enabled(fl) ==
    {"operators", "kafka", "kafka-users"} \cup (fl \cap Optional)
        \cup (IF "kafka-connect" \in fl THEN CDC ELSE {})
        \cup (IF {"kyverno", "monitoring"} \subseteq fl THEN {"kyverno-scrape"} ELSE {})

\* Charts that render a PodMonitor or ServiceMonitor only if that API exists when helm renders them.
scrapeValues == {"kafka", "kafka-connect", "mirror-maker2", "kates", "chaos"}

\* Releases whose rollback downgrades something that holds state.
statefulCharts == {"kates", "kafka", "postgres", "strimzi"}
=============================================================================
