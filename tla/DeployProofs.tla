------------------------- MODULE DeployProofs -------------------------
(***************************************************************************)
(* What `kates deploy` does, and what it plans before it does it.          *)
(*                                                                         *)
(* The pipeline, for any flags, upgrades, parallelism, failures and        *)
(* releases of earlier deploys: what a deploy that says it succeeded has   *)
(* in the cluster, and what one that was cut short leaves there.           *)
(*                                                                         *)
(* The version plan, for any published operators and windows, any flags,   *)
(* releases and owners of other operators, and readings that fail: what    *)
(* deploys never take back.  A deploy without the Strimzi component plans  *)
(* the Kafka by an operator it does not install, so these theorems are     *)
(* about deploys with that component, and the admin-less ones.             *)
(***************************************************************************)
EXTENDS DeployPipeline, VersionPlan, TLAPS

-----------------------------------------------------------------------------
(* The component table *)

Helms == {"helm", "helm?"}
Kinds == Helms \cup {"prep", "issuer", "upgrade"}

LEMMA IdsAreComponents ==
  /\ Ids \subseteq Components
  /\ {"operators", "kafka", "kafka-users"} \subseteq Ids
BY FlagsAssumption DEF Ids, Enabled, Components, Optional, CDC

LEMMA Rows ==
  /\ Comp("strimzi") = strimziComponent /\ Comp("cert-manager") = certManagerComponent
  /\ Comp("kyverno") = kyvernoComponent /\ Comp("operators") = operatorsDoneComponent
  /\ Comp("monitoring") = monitoringComponent /\ Comp("kyverno-scrape") = kyvernoScrapeComponent
  /\ Comp("postgres") = postgresComponent /\ Comp("kafka") = kafkaComponent
  /\ Comp("kafka-users") = kafkaUsersComponent /\ Comp("kafka-connect") = kafkaConnectComponent
  /\ Comp("kafka-connector") = kafkaConnectorComponent /\ Comp("apicurio") = apicurioComponent
  /\ Comp("kates") = katesComponent /\ Comp("kafka-ui") = kafkaUIComponent
  /\ Comp("mirror-maker2") = mirrorMaker2Component /\ Comp("chaos") = chaosComponent
BY DEF Comp, deployComponents, Components, Optional, CDC

\* The installs there are.
Bare == {<<>>, <<"upgrade">>}
OneHelm == {<<"helm">>, <<"prep", "helm">>, <<"prep", "helm?">>, <<"prep", "helm", "prep">>}
Issuing == <<"prep", "helm", "prep", "issuer">>

LEMMA InstallsOfComponents ==
  ASSUME NEW c \in Components
  PROVE  /\ c = "cert-manager" => Steps(c) = Issuing
         /\ c # "cert-manager" => Steps(c) \in OneHelm \cup Bare
         /\ c # "cert-manager" /\ Comp(c).skip # Always => Steps(c) \in OneHelm
<1> USE DEF Always, IfDeployed, IfKept, IfReady, IfAvailable, Bare, OneHelm, Issuing, Steps
<1>1. CASE c = "strimzi"
  BY <1>1, Rows DEF strimziComponent
<1>2. CASE c = "cert-manager"
  BY <1>2, Rows DEF certManagerComponent
<1>3. CASE c = "kyverno"
  BY <1>3, Rows DEF kyvernoComponent
<1>4. CASE c = "operators"
  BY <1>4, Rows DEF operatorsDoneComponent
<1>5. CASE c = "monitoring"
  BY <1>5, Rows DEF monitoringComponent
<1>6. CASE c = "kyverno-scrape"
  BY <1>6, Rows DEF kyvernoScrapeComponent
<1>7. CASE c = "postgres"
  BY <1>7, Rows DEF postgresComponent
<1>8. CASE c = "kafka"
  BY <1>8, Rows DEF kafkaComponent
<1>9. CASE c = "kafka-users"
  BY <1>9, Rows DEF kafkaUsersComponent
<1>10. CASE c = "kafka-connect"
  BY <1>10, Rows DEF kafkaConnectComponent
<1>11. CASE c = "kafka-connector"
  BY <1>11, Rows DEF kafkaConnectorComponent
<1>12. CASE c = "apicurio"
  BY <1>12, Rows DEF apicurioComponent
<1>13. CASE c = "kates"
  BY <1>13, Rows DEF katesComponent
<1>14. CASE c = "kafka-ui"
  BY <1>14, Rows DEF kafkaUIComponent
<1>15. CASE c = "mirror-maker2"
  BY <1>15, Rows DEF mirrorMaker2Component
<1>16. CASE c = "chaos"
  BY <1>16, Rows DEF chaosComponent
<1> QED BY <1>1, <1>2, <1>3, <1>4, <1>5, <1>6, <1>7, <1>8, <1>9, <1>10, <1>11, <1>12, <1>13, <1>14, <1>15, <1>16 DEF Components, Optional, CDC

\* Whose install does what, and in which order.
LEMMA InstallTable ==
  ASSUME NEW c \in Components
  PROVE  /\ Steps(c) \in Seq(Kinds)
         /\ \A i, j \in 1..Len(Steps(c)) : Steps(c)[i] \in Helms /\ Steps(c)[j] \in Helms => i = j
         /\ \A i \in 1..Len(Steps(c)) : Steps(c)[i] = "issuer" => c = "cert-manager"
         /\ Comp(c).skip # Always => \E i \in 1..Len(Steps(c)) : Steps(c)[i] \in Helms
<1> DEFINE s == Steps(c)
<1> USE DEF Helms, Kinds
<1>1. CASE c = "cert-manager"
  <2>1. s = <<"prep", "helm", "prep", "issuer">>
    BY <1>1, InstallsOfComponents DEF Issuing
  <2>2. 2 \in 1..Len(s) /\ s[2] \in Helms
    BY <2>1
  <2>3. /\ s \in Seq(Kinds)
        /\ \A i \in 1..Len(s) : s[i] \in Helms => i = 2
    <3> HIDE DEF s
    <3> QED BY <2>1
  <2> QED BY <1>1, <2>2, <2>3
<1>2. CASE c # "cert-manager"
  <2>1. s \in OneHelm \cup Bare /\ (Comp(c).skip # Always => s \in OneHelm)
    BY <1>2, InstallsOfComponents
  <2>2. s \in Bare => s \in Seq(Kinds) /\ \A i \in 1..Len(s) : s[i] \notin Helms /\ s[i] # "issuer"
    <3> HIDE DEF s
    <3>1. CASE s = <<>>
      BY <3>1
    <3>2. CASE s = <<"upgrade">>
      BY <3>2
    <3> QED BY <3>1, <3>2 DEF Bare
  <2>3. s \in OneHelm =>
          /\ s \in Seq(Kinds)
          /\ \A i, j \in 1..Len(s) : s[i] \in Helms /\ s[j] \in Helms => i = j
          /\ \A i \in 1..Len(s) : s[i] # "issuer"
          /\ \E i \in 1..Len(s) : s[i] \in Helms
    <3> HIDE DEF s
    <3>1. CASE s = <<"helm">>
      BY <3>1
    <3>2. CASE s = <<"prep", "helm">>
      BY <3>2
    <3>3. CASE s = <<"prep", "helm?">>
      BY <3>3
    <3>4. CASE s = <<"prep", "helm", "prep">>
      BY <3>4
    <3> QED BY <3>1, <3>2, <3>3, <3>4 DEF OneHelm
  <2> QED BY <2>1, <2>2, <2>3
<1> QED BY <1>1, <1>2

\* Only Kyverno is left alone because it runs.
LEMMA AvailableTable == \A c \in Components : Comp(c).skip = IfAvailable => c = "kyverno"
BY Rows DEF Components, Optional, CDC, Always, IfDeployed, IfKept, IfReady, IfAvailable,
   strimziComponent, certManagerComponent, operatorsDoneComponent, monitoringComponent,
   kyvernoScrapeComponent, postgresComponent, kafkaComponent, kafkaUsersComponent,
   kafkaConnectComponent, kafkaConnectorComponent, apicurioComponent, katesComponent,
   kafkaUIComponent, mirrorMaker2Component, chaosComponent

\* What the charts with monitors wait for, on the way to the monitoring API.
LEMMA ScrapeTable ==
  /\ \A c \in scrapeValues : \/ "monitoring" \in Comp(c).after \cup Comp(c).deps
                             \/ "kafka-users" \in Comp(c).deps
  /\ "kafka" \in Comp("kafka-users").deps
  /\ "monitoring" \in Comp("kafka").after
  /\ \E i \in 1..Len(Steps("monitoring")) : Steps("monitoring")[i] \in {"helm", "helm?"}
<1>1. \A c \in scrapeValues : \/ "monitoring" \in Comp(c).after \cup Comp(c).deps
                            \/ "kafka-users" \in Comp(c).deps
  BY Rows DEF scrapeValues, kafkaComponent, kafkaConnectComponent, mirrorMaker2Component, katesComponent, chaosComponent
<1>2. "kafka" \in Comp("kafka-users").deps /\ "monitoring" \in Comp("kafka").after
  BY Rows DEF kafkaUsersComponent, kafkaComponent
<1>3. Steps("monitoring") = <<"prep", "helm">>
  BY Rows DEF Steps, monitoringComponent
<1>4. 2 \in 1..Len(Steps("monitoring")) /\ Steps("monitoring")[2] = "helm"
  BY <1>3
<1> QED BY <1>1, <1>2, <1>4

-----------------------------------------------------------------------------
(* The inductive invariant *)

ProcessType ==
  /\ phase \in Phases /\ faults \in 0..MaxFaults
  /\ firstErr \in {"none", "error", "interrupted"}
  /\ exit \in {"none", "ok", "error", "interrupted", "killed"}
  /\ webhook \in {"Fail", "Ignore"}

FlagType ==
  /\ stopped \in BOOLEAN /\ interrupted \in BOOLEAN
  /\ signalled \in BOOLEAN /\ unrestored \in BOOLEAN

WorkType ==
  /\ st \in [Ids -> Stages] /\ step \in [Ids -> Nat]
  /\ opened \subseteq Ids /\ finished \subseteq Ids /\ installedNow \subseteq Ids
  /\ release \in [Ids -> Statuses] /\ served \subseteq Ids /\ blind \subseteq Ids
  /\ spared \subseteq Ids

\* A component's install stands at one of its steps, or behind the last.
StepInv ==
  \A c \in Ids : /\ step[c] <= Len(Steps(c))
                 /\ st[c] \in {"helm", "bypass"} => step[c] < Len(Steps(c))
                 /\ st[c] = "bypass" => c = "cert-manager" /\ Steps(c)[step[c] + 1] = "issuer"

TypeInv == ProcessType /\ FlagType /\ WorkType /\ StepInv

Resting == {"waiting"} \cup Ended

\* Outside the pipeline nothing runs, and before it nothing has.
PhaseInv ==
  /\ phase # "pipeline" => \A c \in Ids : st[c] \in Resting
  /\ phase \in {"idle", "recover", "restore", "killed"} =>
       opened = {} /\ \A c \in Ids : st[c] = "waiting" /\ step[c] = 0

\* What the scheduler's channels say of the goroutines.
ChannelInv ==
  /\ finished \subseteq opened
  /\ \A c \in Ids : (c \in finished) <=> (st[c] = "done")
  /\ \A c \in opened : st[c] \in {"readying", "done", "failed"}

\* Nothing fails or is stopped without an error or a signal to report.
ErrorInv ==
  /\ \A c \in Ids : st[c] = "failed" => firstErr # "none"
  /\ \A c \in Ids : st[c] = "stopped" => stopped
  /\ stopped => firstErr # "none" \/ interrupted
  /\ interrupted => signalled

\* A goroutine that has started has its dependencies behind it.
OrderInv ==
  \A c \in Ids : st[c] \notin {"waiting", "stopped"} =>
    /\ Comp(c).deps \cap Ids \subseteq finished
    /\ Comp(c).after \cap Ids \subseteq opened

\* helm is through with the component.
InService(c) == c \in served /\ (release[c] = "deployed" \/ firstErr # "none")
HelmDone(c) == \E i \in 1..step[c] : Steps(c)[i] \in Helms

Readying == \A c \in Ids : st[c] = "readying" => step[c] = Len(Steps(c))
ServedInv == \A c \in Ids : release[c] = "deployed" => c \in served
HelmDoneInv == \A c \in Ids : HelmDone(c) => InService(c)
OpenedInv == \A c \in opened \cap Released : InService(c) \/ c \in spared

\* Only a Kyverno that runs is left alone without its release being looked at.
SparedInv == \A c \in spared : c = "kyverno"

ReleaseInv == Readying /\ ServedInv /\ HelmDoneInv /\ OpenedInv /\ SparedInv

\* A deploy that said "ok" has ended, every component done and no error seen.
ExitInv == exit = "ok" => phase = "returned" /\ finished = Ids /\ firstErr = "none"

RunInv == PhaseInv /\ ChannelInv /\ ErrorInv /\ OrderInv

\* No chart is rendered without its monitors.
NothingBlind == blind = {}

IInv ==
  /\ TypeInv /\ RunInv /\ ReleaseInv /\ ExitInv
  /\ NothingBlind /\ PendingNeedsASignal /\ WebhookClosedOutsideBypass

-----------------------------------------------------------------------------
(* Every step keeps it: one lemma per part, one step per action. *)

LEMMA ProcessTypeStep ==
  ASSUME IInv, Next
  PROVE  ProcessType'
<1> USE BoundsAssumption DEF procVars, worldVars, history, Keep, NoFault, Fault, Move, Enter, Fail, Finish, StepDone, FreshProcess, BoundsAssumption, IInv, TypeInv, ProcessType, Phases
<1>1. ASSUME Deploy PROVE ProcessType'
  BY <1>1 DEF Deploy
<1>2. ASSUME NEW c \in Ids, recoverStuckRelease(c) PROVE ProcessType'
  BY <1>2 DEF recoverStuckRelease, planRecovery, Stuck
<1>3. ASSUME recoverStuckReleases PROVE ProcessType'
  BY <1>3 DEF recoverStuckReleases
<1>4. ASSUME restoreFailOpenCertMgrWebhook PROVE ProcessType'
  BY <1>4 DEF restoreFailOpenCertMgrWebhook
<1>5. ASSUME NEW c \in Ids, Begin(c) PROVE ProcessType'
  BY <1>5 DEF Begin, MayStart
<1>6. ASSUME NEW c \in Ids, SkipCheck(c) PROVE ProcessType'
  BY <1>6 DEF SkipCheck
<1>7. ASSUME NEW c \in Ids, copyCredentials(c) PROVE ProcessType'
  BY <1>7 DEF copyCredentials
<1>8. ASSUME NEW c \in Ids, Prepare(c) PROVE ProcessType'
  BY <1>8 DEF Prepare, AtStep
<1>9. ASSUME NEW c \in Ids, KeepRelease(c) PROVE ProcessType'
  BY <1>9 DEF KeepRelease, AtStep
<1>10. ASSUME NEW c \in Ids, HelmStart(c) PROVE ProcessType'
  BY <1>10 DEF HelmStart, AtStep
<1>11. ASSUME NEW c \in Ids, HelmEnd(c) PROVE ProcessType'
  BY <1>11 DEF HelmEnd, HelmCutShort
<1>12. ASSUME NEW c \in Ids, ApplyIssuer(c) PROVE ProcessType'
  BY <1>12 DEF ApplyIssuer, AtStep
<1>13. ASSUME NEW c \in Ids, LeaveBypass(c) PROVE ProcessType'
  BY <1>13 DEF LeaveBypass, restoreCertMgrWebhookPolicy
<1>14. ASSUME NEW c \in Ids, WireScrape(c) PROVE ProcessType'
  BY <1>14 DEF WireScrape, AtStep, HelmCutShort
<1>15. ASSUME NEW c \in Ids, Installed(c) PROVE ProcessType'
  BY <1>15 DEF Installed
<1>16. ASSUME NEW c \in Ids, WaitReady(c) PROVE ProcessType'
  BY <1>16 DEF WaitReady
<1>17. ASSUME Abandon PROVE ProcessType'
  BY <1>17 DEF Abandon
<1>18. ASSUME Return PROVE ProcessType'
  BY <1>18 DEF Return
<1>19. ASSUME Interrupt PROVE ProcessType'
  BY <1>19 DEF Interrupt
<1>20. ASSUME Kill PROVE ProcessType'
  BY <1>20 DEF Kill
<1>21. ASSUME NEW c \in Ids, UserRollsBack(c) PROVE ProcessType'
  BY <1>21 DEF UserRollsBack, planRecovery, Stuck
<1> HIDE DEF procVars, worldVars, history, Keep, NoFault, Fault, Move, Enter, Fail, Finish, StepDone, FreshProcess, BoundsAssumption, IInv, TypeInv, ProcessType, Phases
<1> QED
  BY <1>1, <1>2, <1>3, <1>4, <1>5, <1>6, <1>7, <1>8, <1>9, <1>10, <1>11, <1>12, <1>13, <1>14, <1>15, <1>16, <1>17, <1>18, <1>19, <1>20, <1>21
  DEF Next, Startup, runComponents, Goroutine

LEMMA FlagTypeStep ==
  ASSUME IInv, Next
  PROVE  FlagType'
<1> USE DEF procVars, worldVars, history, Keep, NoFault, Fault, Move, Enter, Fail, Finish, StepDone, FreshProcess, IInv, TypeInv, FlagType
<1>1. ASSUME Deploy PROVE FlagType'
  BY <1>1 DEF Deploy
<1>2. ASSUME NEW c \in Ids, recoverStuckRelease(c) PROVE FlagType'
  BY <1>2 DEF recoverStuckRelease, planRecovery, Stuck
<1>3. ASSUME recoverStuckReleases PROVE FlagType'
  BY <1>3 DEF recoverStuckReleases
<1>4. ASSUME restoreFailOpenCertMgrWebhook PROVE FlagType'
  BY <1>4 DEF restoreFailOpenCertMgrWebhook
<1>5. ASSUME NEW c \in Ids, Begin(c) PROVE FlagType'
  BY <1>5 DEF Begin, MayStart
<1>6. ASSUME NEW c \in Ids, SkipCheck(c) PROVE FlagType'
  BY <1>6 DEF SkipCheck
<1>7. ASSUME NEW c \in Ids, copyCredentials(c) PROVE FlagType'
  BY <1>7 DEF copyCredentials
<1>8. ASSUME NEW c \in Ids, Prepare(c) PROVE FlagType'
  BY <1>8 DEF Prepare, AtStep
<1>9. ASSUME NEW c \in Ids, KeepRelease(c) PROVE FlagType'
  BY <1>9 DEF KeepRelease, AtStep
<1>10. ASSUME NEW c \in Ids, HelmStart(c) PROVE FlagType'
  BY <1>10 DEF HelmStart, AtStep
<1>11. ASSUME NEW c \in Ids, HelmEnd(c) PROVE FlagType'
  BY <1>11 DEF HelmEnd, HelmCutShort
<1>12. ASSUME NEW c \in Ids, ApplyIssuer(c) PROVE FlagType'
  BY <1>12 DEF ApplyIssuer, AtStep
<1>13. ASSUME NEW c \in Ids, LeaveBypass(c) PROVE FlagType'
  BY <1>13 DEF LeaveBypass, restoreCertMgrWebhookPolicy
<1>14. ASSUME NEW c \in Ids, WireScrape(c) PROVE FlagType'
  BY <1>14 DEF WireScrape, AtStep, HelmCutShort
<1>15. ASSUME NEW c \in Ids, Installed(c) PROVE FlagType'
  BY <1>15 DEF Installed
<1>16. ASSUME NEW c \in Ids, WaitReady(c) PROVE FlagType'
  BY <1>16 DEF WaitReady
<1>17. ASSUME Abandon PROVE FlagType'
  BY <1>17 DEF Abandon
<1>18. ASSUME Return PROVE FlagType'
  BY <1>18 DEF Return
<1>19. ASSUME Interrupt PROVE FlagType'
  BY <1>19 DEF Interrupt
<1>20. ASSUME Kill PROVE FlagType'
  BY <1>20 DEF Kill
<1>21. ASSUME NEW c \in Ids, UserRollsBack(c) PROVE FlagType'
  BY <1>21 DEF UserRollsBack, planRecovery, Stuck
<1> HIDE DEF procVars, worldVars, history, Keep, NoFault, Fault, Move, Enter, Fail, Finish, StepDone, FreshProcess, IInv, TypeInv, FlagType
<1> QED
  BY <1>1, <1>2, <1>3, <1>4, <1>5, <1>6, <1>7, <1>8, <1>9, <1>10, <1>11, <1>12, <1>13, <1>14, <1>15, <1>16, <1>17, <1>18, <1>19, <1>20, <1>21
  DEF Next, Startup, runComponents, Goroutine

LEMMA WorkTypeStep ==
  ASSUME IInv, Next
  PROVE  WorkType'
<1> USE DEF procVars, worldVars, history, Keep, NoFault, Fault, Move, Enter, Fail, Finish, StepDone, FreshProcess, IInv, TypeInv, WorkType, Stages, Statuses, RunInv, PhaseInv, Ended
<1>1. ASSUME Deploy PROVE WorkType'
  BY <1>1 DEF Deploy
<1>2. ASSUME NEW c \in Ids, recoverStuckRelease(c) PROVE WorkType'
  BY <1>2 DEF recoverStuckRelease, planRecovery, Stuck
<1>3. ASSUME recoverStuckReleases PROVE WorkType'
  BY <1>3 DEF recoverStuckReleases
<1>4. ASSUME restoreFailOpenCertMgrWebhook PROVE WorkType'
  BY <1>4 DEF restoreFailOpenCertMgrWebhook
<1>5. ASSUME NEW c \in Ids, Begin(c) PROVE WorkType'
  BY <1>5 DEF Begin, MayStart
<1>6. ASSUME NEW c \in Ids, SkipCheck(c) PROVE WorkType'
  BY <1>6 DEF SkipCheck
<1>7. ASSUME NEW c \in Ids, copyCredentials(c) PROVE WorkType'
  BY <1>7 DEF copyCredentials
<1>8. ASSUME NEW c \in Ids, Prepare(c) PROVE WorkType'
  BY <1>8 DEF Prepare, AtStep
<1>9. ASSUME NEW c \in Ids, KeepRelease(c) PROVE WorkType'
  BY <1>9 DEF KeepRelease, AtStep
<1>10. ASSUME NEW c \in Ids, HelmStart(c) PROVE WorkType'
  BY <1>10 DEF HelmStart, AtStep
<1>11. ASSUME NEW c \in Ids, HelmEnd(c) PROVE WorkType'
  BY <1>11 DEF HelmEnd, HelmCutShort
<1>12. ASSUME NEW c \in Ids, ApplyIssuer(c) PROVE WorkType'
  BY <1>12 DEF ApplyIssuer, AtStep
<1>13. ASSUME NEW c \in Ids, LeaveBypass(c) PROVE WorkType'
  BY <1>13 DEF LeaveBypass, restoreCertMgrWebhookPolicy
<1>14. ASSUME NEW c \in Ids, WireScrape(c) PROVE WorkType'
  <2>1. CASE release' = release
    BY <1>14, <2>1 DEF WireScrape
  <2>2. ASSUME NEW left \in {"failed", "pending"}, release' = [release EXCEPT !["kyverno"] = left], Fail(c)
        PROVE  WorkType'
    BY <1>14, <2>2 DEF WireScrape
  <2> QED BY <1>14, <2>1, <2>2 DEF WireScrape, HelmCutShort
<1>15. ASSUME NEW c \in Ids, Installed(c) PROVE WorkType'
  BY <1>15 DEF Installed
<1>16. ASSUME NEW c \in Ids, WaitReady(c) PROVE WorkType'
  BY <1>16 DEF WaitReady
<1>17. ASSUME Abandon PROVE WorkType'
  BY <1>17 DEF Abandon
<1>18. ASSUME Return PROVE WorkType'
  BY <1>18 DEF Return
<1>19. ASSUME Interrupt PROVE WorkType'
  BY <1>19 DEF Interrupt
<1>20. ASSUME Kill PROVE WorkType'
  BY <1>20 DEF Kill
<1>21. ASSUME NEW c \in Ids, UserRollsBack(c) PROVE WorkType'
  BY <1>21 DEF UserRollsBack, planRecovery, Stuck
<1> HIDE DEF procVars, worldVars, history, Keep, NoFault, Fault, Move, Enter, Fail, Finish, StepDone, FreshProcess, IInv, TypeInv, WorkType, Stages, Statuses, RunInv, PhaseInv, Ended
<1> QED
  BY <1>1, <1>2, <1>3, <1>4, <1>5, <1>6, <1>7, <1>8, <1>9, <1>10, <1>11, <1>12, <1>13, <1>14, <1>15, <1>16, <1>17, <1>18, <1>19, <1>20, <1>21
  DEF Next, Startup, runComponents, Goroutine

LEMMA InstallStep ==
  ASSUME IInv, Next
  PROVE  StepInv'
<1> USE DEF procVars, worldVars, history, Keep, NoFault, Fault, Move, Enter, Fail, Finish, StepDone, FreshProcess, IInv, TypeInv, ProcessType, WorkType, StepInv, Stages, RunInv, PhaseInv, Ended
<1>1. ASSUME Deploy PROVE StepInv'
  BY <1>1 DEF Deploy
<1>2. ASSUME NEW c \in Ids, recoverStuckRelease(c) PROVE StepInv'
  BY <1>2 DEF recoverStuckRelease, planRecovery, Stuck
<1>3. ASSUME recoverStuckReleases PROVE StepInv'
  BY <1>3 DEF recoverStuckReleases
<1>4. ASSUME restoreFailOpenCertMgrWebhook PROVE StepInv'
  BY <1>4 DEF restoreFailOpenCertMgrWebhook
<1>5. ASSUME NEW c \in Ids, Begin(c) PROVE StepInv'
  BY <1>5 DEF Begin, MayStart
<1>6. ASSUME NEW c \in Ids, SkipCheck(c) PROVE StepInv'
  BY <1>6 DEF SkipCheck
<1>7. ASSUME NEW c \in Ids, copyCredentials(c) PROVE StepInv'
  BY <1>7 DEF copyCredentials
<1>8. ASSUME NEW c \in Ids, Prepare(c) PROVE StepInv'
  <2> SUFFICES ASSUME NEW d \in Ids
               PROVE  /\ step'[d] <= Len(Steps(d))
                      /\ st'[d] \in {"helm", "bypass"} => step'[d] < Len(Steps(d))
                      /\ st'[d] = "bypass" => d = "cert-manager" /\ Steps(d)[step'[d] + 1] = "issuer"
    BY DEF StepInv
  <2>1. CASE d # c
    BY <1>8, <2>1 DEF Prepare
  <2>2. CASE d = c
    BY <1>8, <2>2, IdsAreComponents, InstallTable DEF Prepare, AtStep
  <2> QED BY <2>1, <2>2
<1>9. ASSUME NEW c \in Ids, KeepRelease(c) PROVE StepInv'
  BY <1>9 DEF KeepRelease, AtStep
<1>10. ASSUME NEW c \in Ids, HelmStart(c) PROVE StepInv'
  BY <1>10 DEF HelmStart, AtStep
<1>11. ASSUME NEW c \in Ids, HelmEnd(c) PROVE StepInv'
  BY <1>11 DEF HelmEnd, HelmCutShort
<1>12. ASSUME NEW c \in Ids, ApplyIssuer(c) PROVE StepInv'
  <2> SUFFICES ASSUME NEW d \in Ids
               PROVE  /\ step'[d] <= Len(Steps(d))
                      /\ st'[d] \in {"helm", "bypass"} => step'[d] < Len(Steps(d))
                      /\ st'[d] = "bypass" => d = "cert-manager" /\ Steps(d)[step'[d] + 1] = "issuer"
    BY DEF StepInv
  <2>1. CASE d # c
    BY <1>12, <2>1 DEF ApplyIssuer
  <2>2. CASE d = c
    BY <1>12, <2>2, IdsAreComponents, InstallTable DEF ApplyIssuer, AtStep
  <2> QED BY <2>1, <2>2
<1>13. ASSUME NEW c \in Ids, LeaveBypass(c) PROVE StepInv'
  BY <1>13 DEF LeaveBypass, restoreCertMgrWebhookPolicy
<1>14. ASSUME NEW c \in Ids, WireScrape(c) PROVE StepInv'
  <2> SUFFICES ASSUME NEW d \in Ids
               PROVE  /\ step'[d] <= Len(Steps(d))
                      /\ st'[d] \in {"helm", "bypass"} => step'[d] < Len(Steps(d))
                      /\ st'[d] = "bypass" => d = "cert-manager" /\ Steps(d)[step'[d] + 1] = "issuer"
    BY DEF StepInv
  <2>1. CASE d # c
    BY <1>14, <2>1 DEF WireScrape
  <2>2. CASE d = c
    BY <1>14, <2>2, IdsAreComponents, InstallTable DEF WireScrape, AtStep
  <2> QED BY <2>1, <2>2
<1>15. ASSUME NEW c \in Ids, Installed(c) PROVE StepInv'
  BY <1>15 DEF Installed
<1>16. ASSUME NEW c \in Ids, WaitReady(c) PROVE StepInv'
  BY <1>16 DEF WaitReady
<1>17. ASSUME Abandon PROVE StepInv'
  BY <1>17 DEF Abandon
<1>18. ASSUME Return PROVE StepInv'
  BY <1>18 DEF Return
<1>19. ASSUME Interrupt PROVE StepInv'
  BY <1>19 DEF Interrupt
<1>20. ASSUME Kill PROVE StepInv'
  BY <1>20 DEF Kill
<1>21. ASSUME NEW c \in Ids, UserRollsBack(c) PROVE StepInv'
  BY <1>21 DEF UserRollsBack, planRecovery, Stuck
<1> HIDE DEF procVars, worldVars, history, Keep, NoFault, Fault, Move, Enter, Fail, Finish, StepDone, FreshProcess, IInv, TypeInv, ProcessType, WorkType, StepInv, Stages, RunInv, PhaseInv, Ended
<1> QED
  BY <1>1, <1>2, <1>3, <1>4, <1>5, <1>6, <1>7, <1>8, <1>9, <1>10, <1>11, <1>12, <1>13, <1>14, <1>15, <1>16, <1>17, <1>18, <1>19, <1>20, <1>21
  DEF Next, Startup, runComponents, Goroutine

LEMMA PhaseStep ==
  ASSUME IInv, Next
  PROVE  PhaseInv'
<1> USE DEF procVars, worldVars, history, Keep, NoFault, Fault, Move, Enter, Fail, Finish, StepDone, FreshProcess, IInv, TypeInv, ProcessType, WorkType, RunInv, PhaseInv, Resting, Ended, ExitInv
<1>1. ASSUME Deploy PROVE PhaseInv'
  BY <1>1 DEF Deploy
<1>2. ASSUME NEW c \in Ids, recoverStuckRelease(c) PROVE PhaseInv'
  BY <1>2 DEF recoverStuckRelease, planRecovery, Stuck
<1>3. ASSUME recoverStuckReleases PROVE PhaseInv'
  BY <1>3 DEF recoverStuckReleases
<1>4. ASSUME restoreFailOpenCertMgrWebhook PROVE PhaseInv'
  BY <1>4 DEF restoreFailOpenCertMgrWebhook
<1>5. ASSUME NEW c \in Ids, Begin(c) PROVE PhaseInv'
  BY <1>5 DEF Begin, MayStart
<1>6. ASSUME NEW c \in Ids, SkipCheck(c) PROVE PhaseInv'
  BY <1>6 DEF SkipCheck
<1>7. ASSUME NEW c \in Ids, copyCredentials(c) PROVE PhaseInv'
  BY <1>7 DEF copyCredentials
<1>8. ASSUME NEW c \in Ids, Prepare(c) PROVE PhaseInv'
  BY <1>8 DEF Prepare, AtStep
<1>9. ASSUME NEW c \in Ids, KeepRelease(c) PROVE PhaseInv'
  BY <1>9 DEF KeepRelease, AtStep
<1>10. ASSUME NEW c \in Ids, HelmStart(c) PROVE PhaseInv'
  BY <1>10 DEF HelmStart, AtStep
<1>11. ASSUME NEW c \in Ids, HelmEnd(c) PROVE PhaseInv'
  BY <1>11 DEF HelmEnd, HelmCutShort
<1>12. ASSUME NEW c \in Ids, ApplyIssuer(c) PROVE PhaseInv'
  BY <1>12 DEF ApplyIssuer, AtStep
<1>13. ASSUME NEW c \in Ids, LeaveBypass(c) PROVE PhaseInv'
  BY <1>13 DEF LeaveBypass, restoreCertMgrWebhookPolicy
<1>14. ASSUME NEW c \in Ids, WireScrape(c) PROVE PhaseInv'
  BY <1>14 DEF WireScrape, AtStep, HelmCutShort
<1>15. ASSUME NEW c \in Ids, Installed(c) PROVE PhaseInv'
  BY <1>15 DEF Installed
<1>16. ASSUME NEW c \in Ids, WaitReady(c) PROVE PhaseInv'
  BY <1>16 DEF WaitReady
<1>17. ASSUME Abandon PROVE PhaseInv'
  BY <1>17 DEF Abandon
<1>18. ASSUME Return PROVE PhaseInv'
  BY <1>18 DEF Return
<1>19. ASSUME Interrupt PROVE PhaseInv'
  BY <1>19 DEF Interrupt
<1>20. ASSUME Kill PROVE PhaseInv'
  BY <1>20 DEF Kill
<1>21. ASSUME NEW c \in Ids, UserRollsBack(c) PROVE PhaseInv'
  BY <1>21 DEF UserRollsBack, planRecovery, Stuck
<1> HIDE DEF procVars, worldVars, history, Keep, NoFault, Fault, Move, Enter, Fail, Finish, StepDone, FreshProcess, IInv, TypeInv, ProcessType, WorkType, RunInv, PhaseInv, Resting, Ended, ExitInv
<1> QED
  BY <1>1, <1>2, <1>3, <1>4, <1>5, <1>6, <1>7, <1>8, <1>9, <1>10, <1>11, <1>12, <1>13, <1>14, <1>15, <1>16, <1>17, <1>18, <1>19, <1>20, <1>21
  DEF Next, Startup, runComponents, Goroutine

LEMMA ChannelStep ==
  ASSUME IInv, Next
  PROVE  ChannelInv'
<1> USE DEF procVars, worldVars, history, Keep, NoFault, Fault, Move, Enter, Fail, Finish, StepDone, FreshProcess, IInv, TypeInv, ProcessType, WorkType, RunInv, PhaseInv, ChannelInv, Ended
<1>1. ASSUME Deploy PROVE ChannelInv'
  BY <1>1 DEF Deploy
<1>2. ASSUME NEW c \in Ids, recoverStuckRelease(c) PROVE ChannelInv'
  BY <1>2 DEF recoverStuckRelease, planRecovery, Stuck
<1>3. ASSUME recoverStuckReleases PROVE ChannelInv'
  BY <1>3 DEF recoverStuckReleases
<1>4. ASSUME restoreFailOpenCertMgrWebhook PROVE ChannelInv'
  BY <1>4 DEF restoreFailOpenCertMgrWebhook
<1>5. ASSUME NEW c \in Ids, Begin(c) PROVE ChannelInv'
  BY <1>5 DEF Begin, MayStart
<1>6. ASSUME NEW c \in Ids, SkipCheck(c) PROVE ChannelInv'
  BY <1>6 DEF SkipCheck
<1>7. ASSUME NEW c \in Ids, copyCredentials(c) PROVE ChannelInv'
  BY <1>7 DEF copyCredentials
<1>8. ASSUME NEW c \in Ids, Prepare(c) PROVE ChannelInv'
  BY <1>8 DEF Prepare, AtStep
<1>9. ASSUME NEW c \in Ids, KeepRelease(c) PROVE ChannelInv'
  BY <1>9 DEF KeepRelease, AtStep
<1>10. ASSUME NEW c \in Ids, HelmStart(c) PROVE ChannelInv'
  BY <1>10 DEF HelmStart, AtStep
<1>11. ASSUME NEW c \in Ids, HelmEnd(c) PROVE ChannelInv'
  BY <1>11 DEF HelmEnd, HelmCutShort
<1>12. ASSUME NEW c \in Ids, ApplyIssuer(c) PROVE ChannelInv'
  BY <1>12 DEF ApplyIssuer, AtStep
<1>13. ASSUME NEW c \in Ids, LeaveBypass(c) PROVE ChannelInv'
  BY <1>13 DEF LeaveBypass, restoreCertMgrWebhookPolicy
<1>14. ASSUME NEW c \in Ids, WireScrape(c) PROVE ChannelInv'
  BY <1>14 DEF WireScrape, AtStep, HelmCutShort
<1>15. ASSUME NEW c \in Ids, Installed(c) PROVE ChannelInv'
  BY <1>15 DEF Installed
<1>16. ASSUME NEW c \in Ids, WaitReady(c) PROVE ChannelInv'
  BY <1>16 DEF WaitReady
<1>17. ASSUME Abandon PROVE ChannelInv'
  BY <1>17 DEF Abandon
<1>18. ASSUME Return PROVE ChannelInv'
  BY <1>18 DEF Return
<1>19. ASSUME Interrupt PROVE ChannelInv'
  BY <1>19 DEF Interrupt
<1>20. ASSUME Kill PROVE ChannelInv'
  BY <1>20 DEF Kill
<1>21. ASSUME NEW c \in Ids, UserRollsBack(c) PROVE ChannelInv'
  BY <1>21 DEF UserRollsBack, planRecovery, Stuck
<1> HIDE DEF procVars, worldVars, history, Keep, NoFault, Fault, Move, Enter, Fail, Finish, StepDone, FreshProcess, IInv, TypeInv, ProcessType, WorkType, RunInv, PhaseInv, ChannelInv, Ended
<1> QED
  BY <1>1, <1>2, <1>3, <1>4, <1>5, <1>6, <1>7, <1>8, <1>9, <1>10, <1>11, <1>12, <1>13, <1>14, <1>15, <1>16, <1>17, <1>18, <1>19, <1>20, <1>21
  DEF Next, Startup, runComponents, Goroutine

LEMMA ErrorStep ==
  ASSUME IInv, Next
  PROVE  ErrorInv'
<1> USE DEF procVars, worldVars, history, Keep, NoFault, Fault, Move, Enter, Fail, Finish, StepDone, FreshProcess, IInv, TypeInv, ProcessType, WorkType, RunInv, PhaseInv, ErrorInv, Ended
<1>1. ASSUME Deploy PROVE ErrorInv'
  BY <1>1 DEF Deploy
<1>2. ASSUME NEW c \in Ids, recoverStuckRelease(c) PROVE ErrorInv'
  BY <1>2 DEF recoverStuckRelease, planRecovery, Stuck
<1>3. ASSUME recoverStuckReleases PROVE ErrorInv'
  BY <1>3 DEF recoverStuckReleases
<1>4. ASSUME restoreFailOpenCertMgrWebhook PROVE ErrorInv'
  BY <1>4 DEF restoreFailOpenCertMgrWebhook
<1>5. ASSUME NEW c \in Ids, Begin(c) PROVE ErrorInv'
  BY <1>5 DEF Begin, MayStart
<1>6. ASSUME NEW c \in Ids, SkipCheck(c) PROVE ErrorInv'
  BY <1>6 DEF SkipCheck
<1>7. ASSUME NEW c \in Ids, copyCredentials(c) PROVE ErrorInv'
  BY <1>7 DEF copyCredentials
<1>8. ASSUME NEW c \in Ids, Prepare(c) PROVE ErrorInv'
  BY <1>8 DEF Prepare, AtStep
<1>9. ASSUME NEW c \in Ids, KeepRelease(c) PROVE ErrorInv'
  BY <1>9 DEF KeepRelease, AtStep
<1>10. ASSUME NEW c \in Ids, HelmStart(c) PROVE ErrorInv'
  BY <1>10 DEF HelmStart, AtStep
<1>11. ASSUME NEW c \in Ids, HelmEnd(c) PROVE ErrorInv'
  BY <1>11 DEF HelmEnd, HelmCutShort
<1>12. ASSUME NEW c \in Ids, ApplyIssuer(c) PROVE ErrorInv'
  BY <1>12 DEF ApplyIssuer, AtStep
<1>13. ASSUME NEW c \in Ids, LeaveBypass(c) PROVE ErrorInv'
  BY <1>13 DEF LeaveBypass, restoreCertMgrWebhookPolicy
<1>14. ASSUME NEW c \in Ids, WireScrape(c) PROVE ErrorInv'
  BY <1>14 DEF WireScrape, AtStep, HelmCutShort
<1>15. ASSUME NEW c \in Ids, Installed(c) PROVE ErrorInv'
  BY <1>15 DEF Installed
<1>16. ASSUME NEW c \in Ids, WaitReady(c) PROVE ErrorInv'
  BY <1>16 DEF WaitReady
<1>17. ASSUME Abandon PROVE ErrorInv'
  BY <1>17 DEF Abandon
<1>18. ASSUME Return PROVE ErrorInv'
  BY <1>18 DEF Return
<1>19. ASSUME Interrupt PROVE ErrorInv'
  BY <1>19 DEF Interrupt
<1>20. ASSUME Kill PROVE ErrorInv'
  BY <1>20 DEF Kill
<1>21. ASSUME NEW c \in Ids, UserRollsBack(c) PROVE ErrorInv'
  BY <1>21 DEF UserRollsBack, planRecovery, Stuck
<1> HIDE DEF procVars, worldVars, history, Keep, NoFault, Fault, Move, Enter, Fail, Finish, StepDone, FreshProcess, IInv, TypeInv, ProcessType, WorkType, RunInv, PhaseInv, ErrorInv, Ended
<1> QED
  BY <1>1, <1>2, <1>3, <1>4, <1>5, <1>6, <1>7, <1>8, <1>9, <1>10, <1>11, <1>12, <1>13, <1>14, <1>15, <1>16, <1>17, <1>18, <1>19, <1>20, <1>21
  DEF Next, Startup, runComponents, Goroutine

LEMMA OrderStep ==
  ASSUME IInv, Next
  PROVE  OrderInv'
<1> USE DEF procVars, worldVars, history, Keep, NoFault, Fault, Move, Enter, Fail, Finish, StepDone, FreshProcess, IInv, TypeInv, ProcessType, WorkType, RunInv, PhaseInv, ChannelInv, ErrorInv, OrderInv, Ended
<1>1. ASSUME Deploy PROVE OrderInv'
  BY <1>1 DEF Deploy
<1>2. ASSUME NEW c \in Ids, recoverStuckRelease(c) PROVE OrderInv'
  BY <1>2 DEF recoverStuckRelease, planRecovery, Stuck
<1>3. ASSUME recoverStuckReleases PROVE OrderInv'
  BY <1>3 DEF recoverStuckReleases
<1>4. ASSUME restoreFailOpenCertMgrWebhook PROVE OrderInv'
  BY <1>4 DEF restoreFailOpenCertMgrWebhook
<1>5. ASSUME NEW c \in Ids, Begin(c) PROVE OrderInv'
  BY <1>5 DEF Begin, MayStart
<1>6. ASSUME NEW c \in Ids, SkipCheck(c) PROVE OrderInv'
  BY <1>6 DEF SkipCheck
<1>7. ASSUME NEW c \in Ids, copyCredentials(c) PROVE OrderInv'
  BY <1>7 DEF copyCredentials
<1>8. ASSUME NEW c \in Ids, Prepare(c) PROVE OrderInv'
  BY <1>8 DEF Prepare, AtStep
<1>9. ASSUME NEW c \in Ids, KeepRelease(c) PROVE OrderInv'
  BY <1>9 DEF KeepRelease, AtStep
<1>10. ASSUME NEW c \in Ids, HelmStart(c) PROVE OrderInv'
  BY <1>10 DEF HelmStart, AtStep
<1>11. ASSUME NEW c \in Ids, HelmEnd(c) PROVE OrderInv'
  BY <1>11 DEF HelmEnd, HelmCutShort
<1>12. ASSUME NEW c \in Ids, ApplyIssuer(c) PROVE OrderInv'
  BY <1>12 DEF ApplyIssuer, AtStep
<1>13. ASSUME NEW c \in Ids, LeaveBypass(c) PROVE OrderInv'
  BY <1>13 DEF LeaveBypass, restoreCertMgrWebhookPolicy
<1>14. ASSUME NEW c \in Ids, WireScrape(c) PROVE OrderInv'
  BY <1>14 DEF WireScrape, AtStep, HelmCutShort
<1>15. ASSUME NEW c \in Ids, Installed(c) PROVE OrderInv'
  BY <1>15 DEF Installed
<1>16. ASSUME NEW c \in Ids, WaitReady(c) PROVE OrderInv'
  BY <1>16 DEF WaitReady
<1>17. ASSUME Abandon PROVE OrderInv'
  BY <1>17 DEF Abandon
<1>18. ASSUME Return PROVE OrderInv'
  BY <1>18 DEF Return
<1>19. ASSUME Interrupt PROVE OrderInv'
  BY <1>19 DEF Interrupt
<1>20. ASSUME Kill PROVE OrderInv'
  BY <1>20 DEF Kill
<1>21. ASSUME NEW c \in Ids, UserRollsBack(c) PROVE OrderInv'
  BY <1>21 DEF UserRollsBack, planRecovery, Stuck
<1> HIDE DEF procVars, worldVars, history, Keep, NoFault, Fault, Move, Enter, Fail, Finish, StepDone, FreshProcess, IInv, TypeInv, ProcessType, WorkType, RunInv, PhaseInv, ChannelInv, ErrorInv, OrderInv, Ended
<1> QED
  BY <1>1, <1>2, <1>3, <1>4, <1>5, <1>6, <1>7, <1>8, <1>9, <1>10, <1>11, <1>12, <1>13, <1>14, <1>15, <1>16, <1>17, <1>18, <1>19, <1>20, <1>21
  DEF Next, Startup, runComponents, Goroutine

LEMMA ReadyingStep ==
  ASSUME IInv, Next
  PROVE  Readying'
<1> USE DEF procVars, worldVars, history, Keep, NoFault, Fault, Move, Enter, Fail, Finish, StepDone, FreshProcess, IInv, TypeInv, ProcessType, WorkType, Readying, RunInv, PhaseInv, ChannelInv, Ended, Stages, ReleaseInv
<1>1. ASSUME Deploy PROVE Readying'
  BY <1>1 DEF Deploy
<1>2. ASSUME NEW c \in Ids, recoverStuckRelease(c) PROVE Readying'
  BY <1>2 DEF recoverStuckRelease, planRecovery, Stuck
<1>3. ASSUME recoverStuckReleases PROVE Readying'
  BY <1>3 DEF recoverStuckReleases
<1>4. ASSUME restoreFailOpenCertMgrWebhook PROVE Readying'
  BY <1>4 DEF restoreFailOpenCertMgrWebhook
<1>5. ASSUME NEW c \in Ids, Begin(c) PROVE Readying'
  BY <1>5 DEF Begin, MayStart
<1>6. ASSUME NEW c \in Ids, SkipCheck(c) PROVE Readying'
  BY <1>6 DEF SkipCheck
<1>7. ASSUME NEW c \in Ids, copyCredentials(c) PROVE Readying'
  BY <1>7 DEF copyCredentials
<1>8. ASSUME NEW c \in Ids, Prepare(c) PROVE Readying'
  BY <1>8 DEF Prepare, AtStep
<1>9. ASSUME NEW c \in Ids, KeepRelease(c) PROVE Readying'
  BY <1>9 DEF KeepRelease, AtStep
<1>10. ASSUME NEW c \in Ids, HelmStart(c) PROVE Readying'
  BY <1>10 DEF HelmStart, AtStep
<1>11. ASSUME NEW c \in Ids, HelmEnd(c) PROVE Readying'
  BY <1>11 DEF HelmEnd, HelmCutShort
<1>12. ASSUME NEW c \in Ids, ApplyIssuer(c) PROVE Readying'
  BY <1>12 DEF ApplyIssuer, AtStep
<1>13. ASSUME NEW c \in Ids, LeaveBypass(c) PROVE Readying'
  BY <1>13 DEF LeaveBypass, restoreCertMgrWebhookPolicy
<1>14. ASSUME NEW c \in Ids, WireScrape(c) PROVE Readying'
  BY <1>14 DEF WireScrape, AtStep, HelmCutShort
<1>15. ASSUME NEW c \in Ids, Installed(c) PROVE Readying'
  BY <1>15 DEF Installed
<1>16. ASSUME NEW c \in Ids, WaitReady(c) PROVE Readying'
  BY <1>16 DEF WaitReady
<1>17. ASSUME Abandon PROVE Readying'
  BY <1>17 DEF Abandon
<1>18. ASSUME Return PROVE Readying'
  BY <1>18 DEF Return
<1>19. ASSUME Interrupt PROVE Readying'
  BY <1>19 DEF Interrupt
<1>20. ASSUME Kill PROVE Readying'
  BY <1>20 DEF Kill
<1>21. ASSUME NEW c \in Ids, UserRollsBack(c) PROVE Readying'
  BY <1>21 DEF UserRollsBack, planRecovery, Stuck
<1> HIDE DEF procVars, worldVars, history, Keep, NoFault, Fault, Move, Enter, Fail, Finish, StepDone, FreshProcess, IInv, TypeInv, ProcessType, WorkType, Readying, RunInv, PhaseInv, ChannelInv, Ended, Stages, ReleaseInv
<1> QED
  BY <1>1, <1>2, <1>3, <1>4, <1>5, <1>6, <1>7, <1>8, <1>9, <1>10, <1>11, <1>12, <1>13, <1>14, <1>15, <1>16, <1>17, <1>18, <1>19, <1>20, <1>21
  DEF Next, Startup, runComponents, Goroutine

LEMMA ServedStep ==
  ASSUME IInv, Next
  PROVE  ServedInv'
<1> USE DEF procVars, worldVars, history, Keep, NoFault, Fault, Move, Enter, Fail, Finish, StepDone, FreshProcess, IInv, TypeInv, ProcessType, WorkType, ServedInv, RunInv, PhaseInv, ChannelInv, Ended, Stages, ReleaseInv
<1>1. ASSUME Deploy PROVE ServedInv'
  BY <1>1 DEF Deploy
<1>2. ASSUME NEW c \in Ids, recoverStuckRelease(c) PROVE ServedInv'
  BY <1>2 DEF recoverStuckRelease, planRecovery, Stuck
<1>3. ASSUME recoverStuckReleases PROVE ServedInv'
  BY <1>3 DEF recoverStuckReleases
<1>4. ASSUME restoreFailOpenCertMgrWebhook PROVE ServedInv'
  BY <1>4 DEF restoreFailOpenCertMgrWebhook
<1>5. ASSUME NEW c \in Ids, Begin(c) PROVE ServedInv'
  BY <1>5 DEF Begin, MayStart
<1>6. ASSUME NEW c \in Ids, SkipCheck(c) PROVE ServedInv'
  BY <1>6 DEF SkipCheck
<1>7. ASSUME NEW c \in Ids, copyCredentials(c) PROVE ServedInv'
  BY <1>7 DEF copyCredentials
<1>8. ASSUME NEW c \in Ids, Prepare(c) PROVE ServedInv'
  BY <1>8 DEF Prepare, AtStep
<1>9. ASSUME NEW c \in Ids, KeepRelease(c) PROVE ServedInv'
  BY <1>9 DEF KeepRelease, AtStep
<1>10. ASSUME NEW c \in Ids, HelmStart(c) PROVE ServedInv'
  BY <1>10 DEF HelmStart, AtStep
<1>11. ASSUME NEW c \in Ids, HelmEnd(c) PROVE ServedInv'
  BY <1>11 DEF HelmEnd, HelmCutShort
<1>12. ASSUME NEW c \in Ids, ApplyIssuer(c) PROVE ServedInv'
  BY <1>12 DEF ApplyIssuer, AtStep
<1>13. ASSUME NEW c \in Ids, LeaveBypass(c) PROVE ServedInv'
  BY <1>13 DEF LeaveBypass, restoreCertMgrWebhookPolicy
<1>14. ASSUME NEW c \in Ids, WireScrape(c) PROVE ServedInv'
  BY <1>14 DEF WireScrape, AtStep, HelmCutShort
<1>15. ASSUME NEW c \in Ids, Installed(c) PROVE ServedInv'
  BY <1>15 DEF Installed
<1>16. ASSUME NEW c \in Ids, WaitReady(c) PROVE ServedInv'
  BY <1>16 DEF WaitReady
<1>17. ASSUME Abandon PROVE ServedInv'
  BY <1>17 DEF Abandon
<1>18. ASSUME Return PROVE ServedInv'
  BY <1>18 DEF Return
<1>19. ASSUME Interrupt PROVE ServedInv'
  BY <1>19 DEF Interrupt
<1>20. ASSUME Kill PROVE ServedInv'
  BY <1>20 DEF Kill
<1>21. ASSUME NEW c \in Ids, UserRollsBack(c) PROVE ServedInv'
  BY <1>21 DEF UserRollsBack, planRecovery, Stuck
<1> HIDE DEF procVars, worldVars, history, Keep, NoFault, Fault, Move, Enter, Fail, Finish, StepDone, FreshProcess, IInv, TypeInv, ProcessType, WorkType, ServedInv, RunInv, PhaseInv, ChannelInv, Ended, Stages, ReleaseInv
<1> QED
  BY <1>1, <1>2, <1>3, <1>4, <1>5, <1>6, <1>7, <1>8, <1>9, <1>10, <1>11, <1>12, <1>13, <1>14, <1>15, <1>16, <1>17, <1>18, <1>19, <1>20, <1>21
  DEF Next, Startup, runComponents, Goroutine

\* A component in service stays in service, unless what broke it is the deploy's error.
LEMMA ServiceKept ==
  ASSUME NEW d, InService(d), served \subseteq served', firstErr # "none" => firstErr' # "none",
         release'[d] = release[d] \/ firstErr' # "none"
  PROVE  InService(d)'
BY DEF InService

\* A step that is not helm's adds nothing to what helm is through with.
LEMMA HelmDoneGrows ==
  ASSUME TypeInv, NEW c \in Ids, NEW d \in Ids, step' = [step EXCEPT ![c] = @ + 1], HelmDone(d)'
  PROVE  HelmDone(d) \/ (d = c /\ Steps(c)[step[c] + 1] \in Helms)
<1>1. step[d] \in Nat /\ step[c] \in Nat /\ step'[d] = IF d = c THEN step[c] + 1 ELSE step[d]
  BY DEF TypeInv, WorkType
<1>2. PICK i \in 1..step'[d] : Steps(d)[i] \in Helms
  BY DEF HelmDone
<1>3. CASE i \in 1..step[d]
  BY <1>2, <1>3 DEF HelmDone
<1>4. CASE i \notin 1..step[d]
  BY <1>1, <1>2, <1>4
<1> QED BY <1>3, <1>4

LEMMA HelmDoneStep ==
  ASSUME IInv, Next
  PROVE  HelmDoneInv'
<1> USE DEF procVars, worldVars, history, Keep, NoFault, Fault, Move, Enter, Fail, Finish, StepDone, FreshProcess, IInv, TypeInv, ProcessType, WorkType, StepInv, HelmDoneInv, InService, HelmDone, Helms, RunInv, PhaseInv, ChannelInv, Ended, Stages, ReleaseInv
<1>1. ASSUME Deploy PROVE HelmDoneInv'
  BY <1>1 DEF Deploy
<1>2. ASSUME NEW c \in Ids, recoverStuckRelease(c) PROVE HelmDoneInv'
  BY <1>2 DEF recoverStuckRelease, planRecovery, Stuck
<1>3. ASSUME recoverStuckReleases PROVE HelmDoneInv'
  BY <1>3 DEF recoverStuckReleases
<1>4. ASSUME restoreFailOpenCertMgrWebhook PROVE HelmDoneInv'
  BY <1>4 DEF restoreFailOpenCertMgrWebhook
<1>5. ASSUME NEW c \in Ids, Begin(c) PROVE HelmDoneInv'
  BY <1>5 DEF Begin, MayStart
<1>6. ASSUME NEW c \in Ids, SkipCheck(c) PROVE HelmDoneInv'
  BY <1>6 DEF SkipCheck
<1>7. ASSUME NEW c \in Ids, copyCredentials(c) PROVE HelmDoneInv'
  BY <1>7 DEF copyCredentials
<1>8. ASSUME NEW c \in Ids, Prepare(c) PROVE HelmDoneInv'
  <2> SUFFICES ASSUME NEW d \in Ids, HelmDone(d)' PROVE InService(d)'
    BY DEF HelmDoneInv
  <2>1. CASE step' = [step EXCEPT ![c] = @ + 1]
    <3>1. HelmDone(d)
      BY <1>8, <2>1, HelmDoneGrows DEF Prepare, AtStep, Helms
    <3> QED BY <1>8, <3>1, ServiceKept DEF Prepare, AtStep, Helms, HelmDoneInv
  <2>2. CASE step' = step
    <3>1. HelmDone(d)
      BY <2>2 DEF HelmDone
    <3> QED BY <1>8, <3>1, ServiceKept DEF Prepare, AtStep, Helms, HelmDoneInv
  <2> QED BY <1>8, <2>1, <2>2 DEF Prepare, AtStep, Helms
<1>9. ASSUME NEW c \in Ids, KeepRelease(c) PROVE HelmDoneInv'
  <2> SUFFICES ASSUME NEW d \in Ids, HelmDone(d)' PROVE InService(d)'
    BY DEF HelmDoneInv
  <2>1. InService(c)
    BY <1>9 DEF KeepRelease, releaseKept, ServedInv, InService
  <2>2. InService(d)
    BY <1>9, <2>1, HelmDoneGrows DEF KeepRelease, HelmDoneInv
  <2> QED BY <1>9, <2>2, ServiceKept DEF KeepRelease
<1>10. ASSUME NEW c \in Ids, HelmStart(c) PROVE HelmDoneInv'
  <2> SUFFICES ASSUME NEW d \in Ids, HelmDone(d)' PROVE InService(d)'
    BY DEF HelmDoneInv
  <2>1. HelmDone(d) /\ InService(d)
    BY <1>10 DEF HelmStart, HelmDone, HelmDoneInv
  <2>2. ASSUME d = c PROVE FALSE
    <3>1. PICK i \in 1..step[c] : Steps(c)[i] \in Helms
      BY <2>1, <2>2 DEF HelmDone
    <3>2. step[c] + 1 \in 1..Len(Steps(c)) /\ Steps(c)[step[c] + 1] \in Helms /\ i \in 1..Len(Steps(c))
      <4>1. step[c] < Len(Steps(c)) /\ Steps(c)[step[c] + 1] \in Helms
        BY <1>10 DEF HelmStart, AtStep
      <4>2. Len(Steps(c)) \in Nat
        BY IdsAreComponents, InstallTable
      <4> QED BY <3>1, <4>1, <4>2
    <3> QED BY <3>1, <3>2, IdsAreComponents, InstallTable
  <2> QED BY <1>10, <2>1, <2>2, ServiceKept DEF HelmStart
<1>11. ASSUME NEW c \in Ids, HelmEnd(c) PROVE HelmDoneInv'
  BY <1>11 DEF HelmEnd, HelmCutShort
<1>12. ASSUME NEW c \in Ids, ApplyIssuer(c) PROVE HelmDoneInv'
  <2> SUFFICES ASSUME NEW d \in Ids, HelmDone(d)' PROVE InService(d)'
    BY DEF HelmDoneInv
  <2>1. CASE step' = [step EXCEPT ![c] = @ + 1]
    <3>1. HelmDone(d)
      BY <1>12, <2>1, HelmDoneGrows DEF ApplyIssuer, AtStep, Helms
    <3> QED BY <1>12, <3>1, ServiceKept DEF ApplyIssuer, AtStep, Helms, HelmDoneInv
  <2>2. CASE step' = step
    <3>1. HelmDone(d)
      BY <2>2 DEF HelmDone
    <3> QED BY <1>12, <3>1, ServiceKept DEF ApplyIssuer, AtStep, Helms, HelmDoneInv
  <2> QED BY <1>12, <2>1, <2>2 DEF ApplyIssuer, AtStep, Helms
<1>13. ASSUME NEW c \in Ids, LeaveBypass(c) PROVE HelmDoneInv'
  <2> SUFFICES ASSUME NEW d \in Ids, HelmDone(d)' PROVE InService(d)'
    BY DEF HelmDoneInv
  <2>1. CASE step' = [step EXCEPT ![c] = @ + 1]
    <3>1. c = "cert-manager" /\ Steps(c)[step[c] + 1] = "issuer"
      BY <1>13 DEF LeaveBypass, StepInv
    <3>2. HelmDone(d)
      BY <2>1, <3>1, HelmDoneGrows DEF Helms
    <3> QED BY <1>13, <3>2, ServiceKept DEF LeaveBypass, HelmDoneInv
  <2>2. CASE step' = step
    <3>1. HelmDone(d)
      BY <2>2 DEF HelmDone
    <3> QED BY <1>13, <3>1, ServiceKept DEF LeaveBypass, HelmDoneInv
  <2> QED BY <1>13, <2>1, <2>2 DEF LeaveBypass
<1>14. ASSUME NEW c \in Ids, WireScrape(c) PROVE HelmDoneInv'
  <2> SUFFICES ASSUME NEW d \in Ids, HelmDone(d)' PROVE InService(d)'
    BY DEF HelmDoneInv
  <2>1. CASE StepDone(c) /\ release' = release
    <3>1. HelmDone(d)
      BY <1>14, <2>1, HelmDoneGrows DEF WireScrape, AtStep, Helms
    <3> QED BY <1>14, <2>1, <3>1, ServiceKept DEF WireScrape, HelmDoneInv
  <2>2. CASE Fail(c)
    <3>1. HelmDone(d)
      BY <2>2 DEF HelmDone
    <3> QED BY <1>14, <2>2, <3>1, ServiceKept DEF WireScrape, HelmDoneInv
  <2> QED BY <1>14, <2>1, <2>2 DEF WireScrape
<1>15. ASSUME NEW c \in Ids, Installed(c) PROVE HelmDoneInv'
  BY <1>15 DEF Installed
<1>16. ASSUME NEW c \in Ids, WaitReady(c) PROVE HelmDoneInv'
  BY <1>16 DEF WaitReady
<1>17. ASSUME Abandon PROVE HelmDoneInv'
  BY <1>17 DEF Abandon
<1>18. ASSUME Return PROVE HelmDoneInv'
  BY <1>18 DEF Return
<1>19. ASSUME Interrupt PROVE HelmDoneInv'
  BY <1>19 DEF Interrupt
<1>20. ASSUME Kill PROVE HelmDoneInv'
  BY <1>20 DEF Kill
<1>21. ASSUME NEW c \in Ids, UserRollsBack(c) PROVE HelmDoneInv'
  BY <1>21 DEF UserRollsBack, planRecovery, Stuck
<1> HIDE DEF procVars, worldVars, history, Keep, NoFault, Fault, Move, Enter, Fail, Finish, StepDone, FreshProcess, IInv, TypeInv, ProcessType, WorkType, StepInv, HelmDoneInv, InService, HelmDone, Helms, RunInv, PhaseInv, ChannelInv, Ended, Stages, ReleaseInv
<1> QED
  BY <1>1, <1>2, <1>3, <1>4, <1>5, <1>6, <1>7, <1>8, <1>9, <1>10, <1>11, <1>12, <1>13, <1>14, <1>15, <1>16, <1>17, <1>18, <1>19, <1>20, <1>21
  DEF Next, Startup, runComponents, Goroutine

LEMMA OpenedStep ==
  ASSUME IInv, Next
  PROVE  OpenedInv'
<1> USE DEF procVars, worldVars, history, Keep, NoFault, Fault, Move, Enter, Fail, Finish, StepDone, FreshProcess, IInv, TypeInv, ProcessType, WorkType, OpenedInv, InService, RunInv, PhaseInv, ChannelInv, Ended, Stages, ReleaseInv
<1>1. ASSUME Deploy PROVE OpenedInv'
  BY <1>1 DEF Deploy
<1>2. ASSUME NEW c \in Ids, recoverStuckRelease(c) PROVE OpenedInv'
  BY <1>2 DEF recoverStuckRelease, planRecovery, Stuck
<1>3. ASSUME recoverStuckReleases PROVE OpenedInv'
  BY <1>3 DEF recoverStuckReleases
<1>4. ASSUME restoreFailOpenCertMgrWebhook PROVE OpenedInv'
  BY <1>4 DEF restoreFailOpenCertMgrWebhook
<1>5. ASSUME NEW c \in Ids, Begin(c) PROVE OpenedInv'
  BY <1>5 DEF Begin, MayStart
<1>6. ASSUME NEW c \in Ids, SkipCheck(c) PROVE OpenedInv'
  <2> SUFFICES ASSUME NEW d \in opened' \cap Released PROVE (InService(d) \/ d \in spared)'
    BY DEF OpenedInv
  <2>1. CASE d \in opened
    BY <1>6, <2>1, ServiceKept DEF SkipCheck, OpenedInv
  <2>2. CASE d \notin opened
    BY <1>6, <2>2 DEF SkipCheck, isAvailable, releaseKept, ServedInv, InService
  <2> QED BY <2>1, <2>2
<1>7. ASSUME NEW c \in Ids, copyCredentials(c) PROVE OpenedInv'
  BY <1>7 DEF copyCredentials
<1>8. ASSUME NEW c \in Ids, Prepare(c) PROVE OpenedInv'
  BY <1>8 DEF Prepare, AtStep
<1>9. ASSUME NEW c \in Ids, KeepRelease(c) PROVE OpenedInv'
  BY <1>9 DEF KeepRelease, AtStep
<1>10. ASSUME NEW c \in Ids, HelmStart(c) PROVE OpenedInv'
  <2>1. c \notin opened /\ opened' = opened
    BY <1>10 DEF HelmStart, AtStep
  <2> SUFFICES ASSUME NEW d \in opened \cap Released PROVE (InService(d) \/ d \in spared)'
    BY <2>1 DEF OpenedInv
  <2>2. d # c /\ d \in Ids /\ release'[d] = release[d]
    BY <1>10, <2>1 DEF HelmStart
  <2> QED BY <1>10, <2>2, ServiceKept DEF HelmStart, OpenedInv
<1>11. ASSUME NEW c \in Ids, HelmEnd(c) PROVE OpenedInv'
  <2>1. c \notin opened /\ opened' = opened
    BY <1>11 DEF HelmEnd
  <2> SUFFICES ASSUME NEW d \in opened \cap Released PROVE (InService(d) \/ d \in spared)'
    BY <2>1 DEF OpenedInv
  <2>2. d # c /\ d \in Ids /\ release'[d] = release[d]
    BY <1>11, <2>1 DEF HelmEnd
  <2> QED BY <1>11, <2>2, ServiceKept DEF HelmEnd, OpenedInv
<1>12. ASSUME NEW c \in Ids, ApplyIssuer(c) PROVE OpenedInv'
  BY <1>12 DEF ApplyIssuer, AtStep
<1>13. ASSUME NEW c \in Ids, LeaveBypass(c) PROVE OpenedInv'
  BY <1>13 DEF LeaveBypass, restoreCertMgrWebhookPolicy
<1>14. ASSUME NEW c \in Ids, WireScrape(c) PROVE OpenedInv'
  BY <1>14 DEF WireScrape, AtStep, HelmCutShort
<1>15. ASSUME NEW c \in Ids, Installed(c) PROVE OpenedInv'
  <2> SUFFICES ASSUME NEW d \in opened' \cap Released PROVE (InService(d) \/ d \in spared)'
    BY DEF OpenedInv
  <2>1. CASE d \in opened
    BY <1>15, <2>1, ServiceKept DEF Installed, OpenedInv
  <2>2. CASE d \notin opened
    <3>1. d = c /\ step[c] = Len(Steps(c)) /\ HelmDone(c)
      BY <1>15, <2>2 DEF Installed, Released, HelmDone, Steps, Comp, Helms
    <3> QED BY <1>15, <3>1, ServiceKept DEF Installed, HelmDoneInv
  <2> QED BY <2>1, <2>2
<1>16. ASSUME NEW c \in Ids, WaitReady(c) PROVE OpenedInv'
  <2> SUFFICES ASSUME NEW d \in opened' \cap Released PROVE (InService(d) \/ d \in spared)'
    BY DEF OpenedInv
  <2>1. CASE d \in opened
    BY <1>16, <2>1, ServiceKept DEF WaitReady, OpenedInv
  <2>2. CASE d \notin opened
    <3>1. d = c /\ step[c] = Len(Steps(c)) /\ HelmDone(c)
      BY <1>16, <2>2 DEF WaitReady, Readying, Released, HelmDone, Steps, Comp, Helms
    <3> QED BY <1>16, <3>1, ServiceKept DEF WaitReady, HelmDoneInv
  <2> QED BY <2>1, <2>2
<1>17. ASSUME Abandon PROVE OpenedInv'
  BY <1>17 DEF Abandon
<1>18. ASSUME Return PROVE OpenedInv'
  BY <1>18 DEF Return
<1>19. ASSUME Interrupt PROVE OpenedInv'
  BY <1>19 DEF Interrupt
<1>20. ASSUME Kill PROVE OpenedInv'
  BY <1>20 DEF Kill
<1>21. ASSUME NEW c \in Ids, UserRollsBack(c) PROVE OpenedInv'
  BY <1>21 DEF UserRollsBack, planRecovery, Stuck
<1> HIDE DEF procVars, worldVars, history, Keep, NoFault, Fault, Move, Enter, Fail, Finish, StepDone, FreshProcess, IInv, TypeInv, ProcessType, WorkType, OpenedInv, InService, RunInv, PhaseInv, ChannelInv, Ended, Stages, ReleaseInv
<1> QED
  BY <1>1, <1>2, <1>3, <1>4, <1>5, <1>6, <1>7, <1>8, <1>9, <1>10, <1>11, <1>12, <1>13, <1>14, <1>15, <1>16, <1>17, <1>18, <1>19, <1>20, <1>21
  DEF Next, Startup, runComponents, Goroutine

\* Where a chart that renders monitors has started, their API is already served.
LEMMA MonitoringIsServed ==
  ASSUME IInv, NEW c \in Ids \cap scrapeValues, st[c] = "installing", "monitoring" \in Ids
  PROVE  "monitoring" \in served
<1>1. "monitoring" \in Released
  BY ScrapeTable DEF Released, Steps, Comp
<1>2. ASSUME "monitoring" \in opened PROVE "monitoring" \in served
  BY <1>1, <1>2 DEF IInv, ReleaseInv, OpenedInv, SparedInv, InService
<1>3. finished \subseteq opened
  BY DEF IInv, RunInv, ChannelInv
<1>4. CASE "monitoring" \in Comp(c).after \cup Comp(c).deps
  BY <1>2, <1>3, <1>4 DEF IInv, RunInv, OrderInv
<1>5. CASE "kafka-users" \in Comp(c).deps
  <2>1. {"kafka-users", "kafka"} \subseteq Ids
    BY IdsAreComponents
  <2>2. st["kafka-users"] = "done"
    BY <1>5, <2>1 DEF IInv, RunInv, OrderInv, ChannelInv
  <2>3. st["kafka"] = "done"
    BY <2>1, <2>2, ScrapeTable DEF IInv, RunInv, OrderInv, ChannelInv
  <2>4. "monitoring" \in opened
    BY <2>1, <2>3, ScrapeTable DEF IInv, RunInv, OrderInv
  <2> QED BY <1>2, <2>4
<1> QED BY <1>4, <1>5, ScrapeTable

LEMMA SparedStep ==
  ASSUME IInv, Next
  PROVE  SparedInv'
<1> USE DEF IInv, ReleaseInv, SparedInv
<1>1. CASE UNCHANGED spared
  BY <1>1
<1>2. CASE spared' = {}
  BY <1>2
<1>3. ASSUME NEW c \in Ids, SkipCheck(c) PROVE SparedInv'
  BY <1>3, IdsAreComponents, AvailableTable DEF SkipCheck, isAvailable
<1> QED
  BY <1>1, <1>2, <1>3
  DEF Next, Startup, runComponents, Goroutine, history, Keep, Deploy, recoverStuckRelease, recoverStuckReleases,
      restoreFailOpenCertMgrWebhook, Begin, copyCredentials, Prepare, KeepRelease, HelmStart, HelmEnd, ApplyIssuer,
      LeaveBypass, WireScrape, Installed, WaitReady, Abandon, Return, Interrupt, Kill, UserRollsBack

LEMMA BlindStep ==
  ASSUME IInv, Next
  PROVE  NothingBlind'
<1> USE DEF procVars, worldVars, history, Keep, NoFault, Fault, Move, Enter, Fail, Finish, StepDone, FreshProcess, IInv, TypeInv, ProcessType, WorkType, NothingBlind
<1>1. ASSUME Deploy PROVE NothingBlind'
  BY <1>1 DEF Deploy
<1>2. ASSUME NEW c \in Ids, recoverStuckRelease(c) PROVE NothingBlind'
  BY <1>2 DEF recoverStuckRelease, planRecovery, Stuck
<1>3. ASSUME recoverStuckReleases PROVE NothingBlind'
  BY <1>3 DEF recoverStuckReleases
<1>4. ASSUME restoreFailOpenCertMgrWebhook PROVE NothingBlind'
  BY <1>4 DEF restoreFailOpenCertMgrWebhook
<1>5. ASSUME NEW c \in Ids, Begin(c) PROVE NothingBlind'
  BY <1>5 DEF Begin, MayStart
<1>6. ASSUME NEW c \in Ids, SkipCheck(c) PROVE NothingBlind'
  BY <1>6 DEF SkipCheck
<1>7. ASSUME NEW c \in Ids, copyCredentials(c) PROVE NothingBlind'
  BY <1>7 DEF copyCredentials
<1>8. ASSUME NEW c \in Ids, Prepare(c) PROVE NothingBlind'
  BY <1>8 DEF Prepare, AtStep
<1>9. ASSUME NEW c \in Ids, KeepRelease(c) PROVE NothingBlind'
  BY <1>9 DEF KeepRelease, AtStep
<1>10. ASSUME NEW c \in Ids, HelmStart(c) PROVE NothingBlind'
  <2>1. st[c] = "installing"
    BY <1>10 DEF HelmStart, AtStep
  <2>2. CASE "monitoring" \in Ids /\ c \in scrapeValues
    BY <1>10, <2>1, <2>2, MonitoringIsServed DEF HelmStart
  <2>3. CASE ~("monitoring" \in Ids /\ c \in scrapeValues)
    BY <1>10, <2>3 DEF HelmStart
  <2> QED BY <2>2, <2>3
<1>11. ASSUME NEW c \in Ids, HelmEnd(c) PROVE NothingBlind'
  BY <1>11 DEF HelmEnd, HelmCutShort
<1>12. ASSUME NEW c \in Ids, ApplyIssuer(c) PROVE NothingBlind'
  BY <1>12 DEF ApplyIssuer, AtStep
<1>13. ASSUME NEW c \in Ids, LeaveBypass(c) PROVE NothingBlind'
  BY <1>13 DEF LeaveBypass, restoreCertMgrWebhookPolicy
<1>14. ASSUME NEW c \in Ids, WireScrape(c) PROVE NothingBlind'
  BY <1>14 DEF WireScrape, AtStep, HelmCutShort
<1>15. ASSUME NEW c \in Ids, Installed(c) PROVE NothingBlind'
  BY <1>15 DEF Installed
<1>16. ASSUME NEW c \in Ids, WaitReady(c) PROVE NothingBlind'
  BY <1>16 DEF WaitReady
<1>17. ASSUME Abandon PROVE NothingBlind'
  BY <1>17 DEF Abandon
<1>18. ASSUME Return PROVE NothingBlind'
  BY <1>18 DEF Return
<1>19. ASSUME Interrupt PROVE NothingBlind'
  BY <1>19 DEF Interrupt
<1>20. ASSUME Kill PROVE NothingBlind'
  BY <1>20 DEF Kill
<1>21. ASSUME NEW c \in Ids, UserRollsBack(c) PROVE NothingBlind'
  BY <1>21 DEF UserRollsBack, planRecovery, Stuck
<1> HIDE DEF procVars, worldVars, history, Keep, NoFault, Fault, Move, Enter, Fail, Finish, StepDone, FreshProcess, IInv, TypeInv, ProcessType, WorkType, NothingBlind
<1> QED
  BY <1>1, <1>2, <1>3, <1>4, <1>5, <1>6, <1>7, <1>8, <1>9, <1>10, <1>11, <1>12, <1>13, <1>14, <1>15, <1>16, <1>17, <1>18, <1>19, <1>20, <1>21
  DEF Next, Startup, runComponents, Goroutine

LEMMA ExitStep ==
  ASSUME IInv, Next
  PROVE  ExitInv'
<1> USE DEF procVars, worldVars, history, Keep, NoFault, Fault, Move, Enter, Fail, Finish, StepDone, FreshProcess, IInv, TypeInv, ProcessType, WorkType, ExitInv, RunInv, PhaseInv, ChannelInv, ErrorInv, Ended, Stages
<1>1. ASSUME Deploy PROVE ExitInv'
  BY <1>1 DEF Deploy
<1>2. ASSUME NEW c \in Ids, recoverStuckRelease(c) PROVE ExitInv'
  BY <1>2 DEF recoverStuckRelease, planRecovery, Stuck
<1>3. ASSUME recoverStuckReleases PROVE ExitInv'
  BY <1>3 DEF recoverStuckReleases
<1>4. ASSUME restoreFailOpenCertMgrWebhook PROVE ExitInv'
  BY <1>4 DEF restoreFailOpenCertMgrWebhook
<1>5. ASSUME NEW c \in Ids, Begin(c) PROVE ExitInv'
  BY <1>5 DEF Begin, MayStart
<1>6. ASSUME NEW c \in Ids, SkipCheck(c) PROVE ExitInv'
  BY <1>6 DEF SkipCheck
<1>7. ASSUME NEW c \in Ids, copyCredentials(c) PROVE ExitInv'
  BY <1>7 DEF copyCredentials
<1>8. ASSUME NEW c \in Ids, Prepare(c) PROVE ExitInv'
  BY <1>8 DEF Prepare, AtStep
<1>9. ASSUME NEW c \in Ids, KeepRelease(c) PROVE ExitInv'
  BY <1>9 DEF KeepRelease, AtStep
<1>10. ASSUME NEW c \in Ids, HelmStart(c) PROVE ExitInv'
  BY <1>10 DEF HelmStart, AtStep
<1>11. ASSUME NEW c \in Ids, HelmEnd(c) PROVE ExitInv'
  BY <1>11 DEF HelmEnd, HelmCutShort
<1>12. ASSUME NEW c \in Ids, ApplyIssuer(c) PROVE ExitInv'
  BY <1>12 DEF ApplyIssuer, AtStep
<1>13. ASSUME NEW c \in Ids, LeaveBypass(c) PROVE ExitInv'
  BY <1>13 DEF LeaveBypass, restoreCertMgrWebhookPolicy
<1>14. ASSUME NEW c \in Ids, WireScrape(c) PROVE ExitInv'
  BY <1>14 DEF WireScrape, AtStep, HelmCutShort
<1>15. ASSUME NEW c \in Ids, Installed(c) PROVE ExitInv'
  BY <1>15 DEF Installed
<1>16. ASSUME NEW c \in Ids, WaitReady(c) PROVE ExitInv'
  BY <1>16 DEF WaitReady
<1>17. ASSUME Abandon PROVE ExitInv'
  BY <1>17 DEF Abandon
<1>18. ASSUME Return PROVE ExitInv'
  BY <1>18 DEF Return
<1>19. ASSUME Interrupt PROVE ExitInv'
  BY <1>19 DEF Interrupt
<1>20. ASSUME Kill PROVE ExitInv'
  BY <1>20 DEF Kill
<1>21. ASSUME NEW c \in Ids, UserRollsBack(c) PROVE ExitInv'
  BY <1>21 DEF UserRollsBack, planRecovery, Stuck
<1> HIDE DEF procVars, worldVars, history, Keep, NoFault, Fault, Move, Enter, Fail, Finish, StepDone, FreshProcess, IInv, TypeInv, ProcessType, WorkType, ExitInv, RunInv, PhaseInv, ChannelInv, ErrorInv, Ended, Stages
<1> QED
  BY <1>1, <1>2, <1>3, <1>4, <1>5, <1>6, <1>7, <1>8, <1>9, <1>10, <1>11, <1>12, <1>13, <1>14, <1>15, <1>16, <1>17, <1>18, <1>19, <1>20, <1>21
  DEF Next, Startup, runComponents, Goroutine

LEMMA PendingStep ==
  ASSUME IInv, Next
  PROVE  PendingNeedsASignal'
<1> USE DEF procVars, worldVars, history, Keep, NoFault, Fault, Move, Enter, Fail, Finish, StepDone, FreshProcess, IInv, TypeInv, ProcessType, WorkType, PendingNeedsASignal, RunInv, PhaseInv, ErrorInv, Resting, Ended, Statuses
<1>1. ASSUME Deploy PROVE PendingNeedsASignal'
  BY <1>1 DEF Deploy
<1>2. ASSUME NEW c \in Ids, recoverStuckRelease(c) PROVE PendingNeedsASignal'
  BY <1>2 DEF recoverStuckRelease, planRecovery, Stuck
<1>3. ASSUME recoverStuckReleases PROVE PendingNeedsASignal'
  BY <1>3 DEF recoverStuckReleases
<1>4. ASSUME restoreFailOpenCertMgrWebhook PROVE PendingNeedsASignal'
  BY <1>4 DEF restoreFailOpenCertMgrWebhook
<1>5. ASSUME NEW c \in Ids, Begin(c) PROVE PendingNeedsASignal'
  BY <1>5 DEF Begin, MayStart
<1>6. ASSUME NEW c \in Ids, SkipCheck(c) PROVE PendingNeedsASignal'
  BY <1>6 DEF SkipCheck
<1>7. ASSUME NEW c \in Ids, copyCredentials(c) PROVE PendingNeedsASignal'
  BY <1>7 DEF copyCredentials
<1>8. ASSUME NEW c \in Ids, Prepare(c) PROVE PendingNeedsASignal'
  BY <1>8 DEF Prepare, AtStep
<1>9. ASSUME NEW c \in Ids, KeepRelease(c) PROVE PendingNeedsASignal'
  BY <1>9 DEF KeepRelease, AtStep
<1>10. ASSUME NEW c \in Ids, HelmStart(c) PROVE PendingNeedsASignal'
  BY <1>10 DEF HelmStart, AtStep
<1>11. ASSUME NEW c \in Ids, HelmEnd(c) PROVE PendingNeedsASignal'
  BY <1>11 DEF HelmEnd, HelmCutShort
<1>12. ASSUME NEW c \in Ids, ApplyIssuer(c) PROVE PendingNeedsASignal'
  BY <1>12 DEF ApplyIssuer, AtStep
<1>13. ASSUME NEW c \in Ids, LeaveBypass(c) PROVE PendingNeedsASignal'
  BY <1>13 DEF LeaveBypass, restoreCertMgrWebhookPolicy
<1>14. ASSUME NEW c \in Ids, WireScrape(c) PROVE PendingNeedsASignal'
  BY <1>14 DEF WireScrape, AtStep, HelmCutShort
<1>15. ASSUME NEW c \in Ids, Installed(c) PROVE PendingNeedsASignal'
  BY <1>15 DEF Installed
<1>16. ASSUME NEW c \in Ids, WaitReady(c) PROVE PendingNeedsASignal'
  BY <1>16 DEF WaitReady
<1>17. ASSUME Abandon PROVE PendingNeedsASignal'
  BY <1>17 DEF Abandon
<1>18. ASSUME Return PROVE PendingNeedsASignal'
  BY <1>18 DEF Return
<1>19. ASSUME Interrupt PROVE PendingNeedsASignal'
  BY <1>19 DEF Interrupt
<1>20. ASSUME Kill PROVE PendingNeedsASignal'
  BY <1>20 DEF Kill
<1>21. ASSUME NEW c \in Ids, UserRollsBack(c) PROVE PendingNeedsASignal'
  BY <1>21 DEF UserRollsBack, planRecovery, Stuck
<1> HIDE DEF procVars, worldVars, history, Keep, NoFault, Fault, Move, Enter, Fail, Finish, StepDone, FreshProcess, IInv, TypeInv, ProcessType, WorkType, PendingNeedsASignal, RunInv, PhaseInv, ErrorInv, Resting, Ended, Statuses
<1> QED
  BY <1>1, <1>2, <1>3, <1>4, <1>5, <1>6, <1>7, <1>8, <1>9, <1>10, <1>11, <1>12, <1>13, <1>14, <1>15, <1>16, <1>17, <1>18, <1>19, <1>20, <1>21
  DEF Next, Startup, runComponents, Goroutine

LEMMA WebhookStep ==
  ASSUME IInv, Next
  PROVE  WebhookClosedOutsideBypass'
<1> USE IdsAreComponents, InstallTable DEF procVars, worldVars, history, Keep, NoFault, Fault, Move, Enter, Fail, Finish, StepDone, FreshProcess, IInv, TypeInv, ProcessType, WorkType, StepInv, WebhookClosedOutsideBypass, RunInv, PhaseInv, Resting, Ended
<1>1. ASSUME Deploy PROVE WebhookClosedOutsideBypass'
  BY <1>1 DEF Deploy
<1>2. ASSUME NEW c \in Ids, recoverStuckRelease(c) PROVE WebhookClosedOutsideBypass'
  BY <1>2 DEF recoverStuckRelease, planRecovery, Stuck
<1>3. ASSUME recoverStuckReleases PROVE WebhookClosedOutsideBypass'
  BY <1>3 DEF recoverStuckReleases
<1>4. ASSUME restoreFailOpenCertMgrWebhook PROVE WebhookClosedOutsideBypass'
  BY <1>4 DEF restoreFailOpenCertMgrWebhook
<1>5. ASSUME NEW c \in Ids, Begin(c) PROVE WebhookClosedOutsideBypass'
  BY <1>5 DEF Begin, MayStart
<1>6. ASSUME NEW c \in Ids, SkipCheck(c) PROVE WebhookClosedOutsideBypass'
  BY <1>6 DEF SkipCheck
<1>7. ASSUME NEW c \in Ids, copyCredentials(c) PROVE WebhookClosedOutsideBypass'
  BY <1>7 DEF copyCredentials
<1>8. ASSUME NEW c \in Ids, Prepare(c) PROVE WebhookClosedOutsideBypass'
  BY <1>8 DEF Prepare, AtStep
<1>9. ASSUME NEW c \in Ids, KeepRelease(c) PROVE WebhookClosedOutsideBypass'
  BY <1>9 DEF KeepRelease, AtStep
<1>10. ASSUME NEW c \in Ids, HelmStart(c) PROVE WebhookClosedOutsideBypass'
  BY <1>10 DEF HelmStart, AtStep
<1>11. ASSUME NEW c \in Ids, HelmEnd(c) PROVE WebhookClosedOutsideBypass'
  BY <1>11 DEF HelmEnd, HelmCutShort
<1>12. ASSUME NEW c \in Ids, ApplyIssuer(c) PROVE WebhookClosedOutsideBypass'
  BY <1>12 DEF ApplyIssuer, AtStep
<1>13. ASSUME NEW c \in Ids, LeaveBypass(c) PROVE WebhookClosedOutsideBypass'
  BY <1>13 DEF LeaveBypass, restoreCertMgrWebhookPolicy
<1>14. ASSUME NEW c \in Ids, WireScrape(c) PROVE WebhookClosedOutsideBypass'
  BY <1>14 DEF WireScrape, AtStep, HelmCutShort
<1>15. ASSUME NEW c \in Ids, Installed(c) PROVE WebhookClosedOutsideBypass'
  BY <1>15 DEF Installed
<1>16. ASSUME NEW c \in Ids, WaitReady(c) PROVE WebhookClosedOutsideBypass'
  BY <1>16 DEF WaitReady
<1>17. ASSUME Abandon PROVE WebhookClosedOutsideBypass'
  BY <1>17 DEF Abandon
<1>18. ASSUME Return PROVE WebhookClosedOutsideBypass'
  BY <1>18 DEF Return
<1>19. ASSUME Interrupt PROVE WebhookClosedOutsideBypass'
  BY <1>19 DEF Interrupt
<1>20. ASSUME Kill PROVE WebhookClosedOutsideBypass'
  BY <1>20 DEF Kill
<1>21. ASSUME NEW c \in Ids, UserRollsBack(c) PROVE WebhookClosedOutsideBypass'
  BY <1>21 DEF UserRollsBack, planRecovery, Stuck
<1> HIDE DEF procVars, worldVars, history, Keep, NoFault, Fault, Move, Enter, Fail, Finish, StepDone, FreshProcess, IInv, TypeInv, ProcessType, WorkType, StepInv, WebhookClosedOutsideBypass, RunInv, PhaseInv, Resting, Ended
<1> QED
  BY <1>1, <1>2, <1>3, <1>4, <1>5, <1>6, <1>7, <1>8, <1>9, <1>10, <1>11, <1>12, <1>13, <1>14, <1>15, <1>16, <1>17, <1>18, <1>19, <1>20, <1>21
  DEF Next, Startup, runComponents, Goroutine

-----------------------------------------------------------------------------
LEMMA InitInv == Init => IInv
<1> SUFFICES ASSUME Init PROVE IInv
  OBVIOUS
<1>1. PICK before \in Earlier : /\ served = before \cap Released
                                /\ release = [c \in Ids |-> IF c \in before \cap Released THEN "deployed" ELSE "none"]
  BY DEF Init
<1>2. Released \subseteq Ids
  BY DEF Released
<1>3. \A c \in Ids : Steps(c) \in Seq(Kinds)
  BY IdsAreComponents, InstallTable
<1>4. ProcessType /\ FlagType
  <2>1. ProcessType
    BY BoundsAssumption DEF Init, BoundsAssumption, ProcessType, Phases
  <2>2. FlagType
    BY DEF Init, FlagType
  <2> QED BY <2>1, <2>2
<1>5. WorkType
  BY <1>1, <1>2 DEF Init, WorkType, Stages, Statuses
<1>6. StepInv
  BY <1>3 DEF Init, StepInv
<1>7. RunInv
  BY DEF Init, RunInv, PhaseInv, ChannelInv, ErrorInv, OrderInv, Resting
<1>8. ReleaseInv
  BY <1>1 DEF Init, ReleaseInv, Readying, ServedInv, HelmDoneInv, OpenedInv, SparedInv, HelmDone
<1>9. ExitInv /\ NothingBlind /\ PendingNeedsASignal /\ WebhookClosedOutsideBypass
  BY <1>1 DEF Init, ExitInv, NothingBlind, PendingNeedsASignal, WebhookClosedOutsideBypass
<1> QED BY <1>4, <1>5, <1>6, <1>7, <1>8, <1>9 DEF IInv, TypeInv

LEMMA StutterInv ==
  ASSUME IInv, UNCHANGED vars
  PROVE  IInv'
<1> USE DEF vars, procVars, worldVars, history
<1>1. TypeInv'
  BY DEF IInv, TypeInv, ProcessType, FlagType, WorkType, StepInv
<1>2. RunInv'
  BY DEF IInv, RunInv, PhaseInv, ChannelInv, ErrorInv, OrderInv
<1>3. ReleaseInv'
  BY DEF IInv, ReleaseInv, Readying, ServedInv, HelmDoneInv, OpenedInv, SparedInv, HelmDone, InService
<1>4. ExitInv' /\ NothingBlind' /\ PendingNeedsASignal' /\ WebhookClosedOutsideBypass'
  BY DEF IInv, ExitInv, NothingBlind, PendingNeedsASignal, WebhookClosedOutsideBypass
<1> QED BY <1>1, <1>2, <1>3, <1>4 DEF IInv

\* What holds in every state of every deploy: who has been waited for, what helm is through with,
\* and that a failure or a signal is behind whatever did not finish (runComponents).
THEOREM PipelineInvariant == Spec => []IInv
<1>1. ASSUME IInv, [Next]_vars PROVE IInv'
  <2>1. CASE Next
    BY <1>1, <2>1, ProcessTypeStep, FlagTypeStep, WorkTypeStep, InstallStep, PhaseStep, ChannelStep, ErrorStep,
       OrderStep, ReadyingStep, ServedStep, HelmDoneStep, OpenedStep, SparedStep, BlindStep, ExitStep, PendingStep, WebhookStep
       DEF IInv, TypeInv, RunInv, ReleaseInv
  <2>2. CASE UNCHANGED vars
    BY <1>1, <2>2, StutterInv
  <2> QED BY <1>1, <2>1, <2>2
<1> QED BY <1>1, InitInv, PTL DEF Spec

\* A deploy that says it succeeded has every component of the table's rows for its flags done and
\* every release deployed, whatever earlier deploys with any flags, failures and signals left; only
\* a Kyverno whose controllers run may have another record (kyvernoComponent's isKyvernoAvailable).
THEOREM SuccessMeansComplete == Spec => []SuccessIsComplete
<1>1. IInv => SuccessIsComplete
  BY DEF IInv, NothingBlind, ExitInv, SuccessIsComplete, ReleaseInv, OpenedInv, SparedInv, InService, RunInv, ChannelInv, Released
<1> QED BY <1>1, PipelineInvariant, PTL

\* However many components install at once, one's failure leaves no release of another pending.
THEOREM OnlySignalsLeavePending == Spec => []PendingNeedsASignal
<1>1. IInv => PendingNeedsASignal
  BY DEF IInv
<1> QED BY <1>1, PipelineInvariant, PTL

\* Whatever run died with the webhook open, no later pipeline runs with it open outside the bypass,
\* unless the patch that closes it failed.
THEOREM WebhookIsClosedAgain == Spec => []WebhookClosedOutsideBypass
<1>1. IInv => WebhookClosedOutsideBypass
  BY DEF IInv
<1> QED BY <1>1, PipelineInvariant, PTL


-----------------------------------------------------------------------------
(* The version plan *)

StrimziIsSelected == Selections \subseteq {TRUE}

-----------------------------------------------------------------------------
(* The inductive invariant of the version plan *)

Scopes == {"cluster", "namespaces"}

Plans ==
  [stage : {"replace", "crds", "operator", "kafka"}, operator : Operators,
   scope : Scopes, kafka : Nat \ {0}, metadata : Nat,
   asked : BOOLEAN, replaces : BOOLEAN, saw : BOOLEAN]

PlanTypeInv ==
  /\ pin \in Operators
  /\ own = NoOperator \/ own \in [version : Operators, scope : Scopes]
  /\ kafka = NoKafka \/ kafka \in [version : Nat \ {0}, metadata : Nat]
  /\ stored \subseteq {"v1beta2", "v1"}
  /\ plan = NoPlan \/ plan \in Plans
  /\ unseen \in BOOLEAN

\* An operator without v1beta2 stands on CRDs stored as v1 alone, and CRDs are
\* only replaced where there is no Kafka.
StoredInv ==
  /\ ~unseen /\ own # NoOperator /\ own.version >= V1 => stored \subseteq {"v1"}
  /\ stored = {} => kafka = NoKafka
  /\ plan.stage = "replace" => kafka = NoKafka
  /\ plan.stage = "operator" /\ plan.operator >= V1 => stored \subseteq {"v1"}

\* The running Kafka can run under operator v, and its metadata version is no
\* newer than the one v's window gives it.
Fits(v) ==
  /\ kafka.version \in Window[v]
  /\ kafka.metadata <= MetadataFor(kafka.version, Window[v])

RunningInv == ~unseen /\ kafka # NoKafka /\ own # NoOperator => Fits(own.version)

\* A plan made from what is there.
PlanInv ==
  plan # NoPlan /\ plan.saw =>
    /\ plan.kafka \in Window[plan.operator]
    /\ plan.metadata = MetadataFor(plan.kafka, Window[plan.operator])
    /\ own # NoOperator => plan.operator >= own.version
    /\ plan.stage = "kafka" => own # NoOperator /\ own.version = plan.operator
    /\ ~unseen /\ kafka # NoKafka =>
         Fits(plan.operator) /\ (plan.asked \/ plan.kafka = kafka.version)

PlanIInv == PlanTypeInv /\ StoredInv /\ RunningInv /\ PlanInv

-----------------------------------------------------------------------------
(* Windows *)

LEMMA LineType ==
  ASSUME NEW v \in Operators, NEW k \in Window[v]
  PROVE  k \in Nat \ {0} /\ Line(k) \in Nat
<1>1. k \in Nat \ {0}
  BY WindowAssumption
<1>2. k \div 10 \in Nat
  BY <1>1
<1> QED BY <1>1, <1>2 DEF Line

LEMMA NewestIsInTheWindow ==
  ASSUME NEW v \in Operators
  PROVE  Newest(Window[v]) \in Window[v]
BY WindowAssumption DEF Newest, Max

LEMMA MaxOfOne ==
  ASSUME NEW n \in Nat
  PROVE  Max({n}) = n
<1>1. n \in {n} /\ \A y \in {n} : n >= y
  OBVIOUS
<1> QED BY <1>1, Zenon DEF Max

\* The metadata version is a line of the window, the newest of those older than
\* the Kafka's, or the Kafka's own where there is none.
LEMMA MetadataLine ==
  ASSUME NEW v \in Operators, NEW k \in Window[v]
  PROVE  /\ MetadataFor(k, Window[v]) \in Nat
         /\ \E x \in Window[v] : MetadataFor(k, Window[v]) = Line(x)
         /\ \A x \in Window[v] : Line(x) < Line(k) =>
               /\ Line(x) <= MetadataFor(k, Window[v])
               /\ MetadataFor(k, Window[v]) < Line(k)
         /\ (\A x \in Window[v] : ~(Line(x) < Line(k))) => MetadataFor(k, Window[v]) = Line(k)
<1> DEFINE some == {y \in Window[v] : Line(y) < Line(k)}
           older == {Line(x) : x \in some}
<1>0. \A x \in Window[v] : x \in Nat /\ Line(x) \in Nat
  BY LineType
<1>1. CASE some = {}
  <2>1. MetadataFor(k, Window[v]) = Line(k)
    BY <1>1 DEF MetadataFor
  <2>2. \A x \in Window[v] : ~(Line(x) < Line(k))
    BY <1>1
  <2> QED BY <1>0, <2>1, <2>2
<1>2. CASE some # {}
  <2>1. some \in SUBSET Window[v]
    OBVIOUS
  <2>2. PICK m \in some : \A x \in some : m >= x
    BY <1>2, <2>1, WindowAssumption
  <2>3. \A x \in some : Line(m) >= Line(x)
    <3> SUFFICES ASSUME NEW x \in some PROVE Line(m) >= Line(x)
      OBVIOUS
    <3>1. m \in Nat /\ x \in Nat /\ m >= x
      BY <1>0, <2>2
    <3>2. m \div 10 >= x \div 10
      BY <3>1
    <3> QED BY <3>2 DEF Line
  <2>4. MetadataFor(k, Window[v]) = Max(older)
    BY <1>2 DEF MetadataFor
  <2>5. Line(m) \in older /\ \A l \in older : Line(m) >= l
    BY <2>3
  <2>6. Max(older) \in older /\ \A l \in older : Max(older) >= l
    <3> HIDE DEF older
    <3> QED BY <2>5, Zenon DEF Max
  <2>7. PICK y \in some : Max(older) = Line(y)
    BY <2>6
  <2>8. ASSUME NEW x \in Window[v], Line(x) < Line(k) PROVE Line(x) <= Line(y)
    <3>1. Line(x) \in older
      BY <2>8
    <3>2. Line(y) >= Line(x)
      BY <2>6, <2>7, <3>1
    <3> QED BY <1>0, <3>2
  <2>9. y \in Window[v] /\ Line(y) < Line(k)
    OBVIOUS
  <2> HIDE DEF some, older
  <2> QED BY <1>0, <2>4, <2>7, <2>8, <2>9
<1> QED BY <1>1, <1>2

\* What fits an operator fits the next one whose window has the version.
LEMMA FitsANewerOperator ==
  ASSUME NEW v \in Operators, NEW w \in Operators, w >= v, Fits(v),
         kafka.version \in Window[w], kafka.metadata \in Nat
  PROVE  Fits(w)
<1> DEFINE k == kafka.version
           old == MetadataFor(k, Window[v])
           new == MetadataFor(k, Window[w])
<1>1. CASE w = v
  BY <1>1
<1>2. CASE w # v
  <2>1. v < w
    <3>1. v \in Nat /\ w \in Nat
      BY WindowAssumption
    <3> QED BY <1>2, <3>1
  <2>2. k \in Window[v] /\ k \in Window[w] /\ kafka.metadata <= old
    BY DEF Fits
  <2>3. /\ \A x \in Window[v] : Line(x) \in Nat
        /\ \A x \in Window[w] : Line(x) \in Nat
        /\ old \in Nat /\ new \in Nat
    BY <2>2, LineType, MetadataLine
  <2> SUFFICES old <= new
    BY <2>2, <2>3 DEF Fits
  <2>4. CASE \E x \in Window[v] : Line(x) < Line(k)
    <3>1. PICK x \in Window[v] : old = Line(x) /\ Line(x) < Line(k)
      BY <2>2, <2>4, MetadataLine
    <3>2. CASE \E y \in Window[w] : Line(y) < Line(k)
      <4>1. PICK y \in Window[w] : Line(y) < Line(k)
        BY <3>2
      <4>2. CASE Line(x) <= Line(y)
        <5>1. Line(y) <= new
          BY <2>2, <4>1, MetadataLine
        <5> QED BY <2>3, <3>1, <4>2, <5>1
      <4>3. CASE ~(Line(x) <= Line(y))
        <5>1. Line(y) <= Line(x)
          BY <2>3, <4>3
        <5>2. PICK z \in Window[w] : Line(z) = Line(x)
          BY <2>1, <5>1, WindowAssumption
        <5>3. Line(z) <= new
          BY <2>2, <3>1, <5>2, MetadataLine
        <5> QED BY <3>1, <5>2, <5>3
      <4> QED BY <4>2, <4>3
    <3>3. CASE ~\E y \in Window[w] : Line(y) < Line(k)
      <4>1. new = Line(k)
        BY <2>2, <3>3, MetadataLine
      <4> QED BY <2>2, <2>3, <3>1, <4>1
    <3> QED BY <3>2, <3>3
  <2>5. CASE ~\E x \in Window[v] : Line(x) < Line(k)
    <3>1. old = Line(k)
      BY <2>2, <2>5, MetadataLine
    <3>2. ASSUME NEW y \in Window[w] PROVE ~(Line(y) < Line(k))
      <4>1. PICK x \in Window[v] : Line(x) <= Line(y)
        BY <2>1, WindowAssumption
      <4> QED BY <2>2, <2>3, <2>5, <4>1
    <3>3. new = Line(k)
      BY <2>2, <3>2, MetadataLine
    <3> QED BY <2>3, <3>1, <3>3
  <2> QED BY <2>4, <2>5
<1> QED BY <1>1, <1>2

\* From one Kafka of a window to another, the metadata version goes back only
\* with the Kafka, and only in a window of three lines.
LEMMA MetadataMovesUp ==
  ASSUME NEW v \in Operators, NEW k \in Window[v], NEW j \in Window[v],
         ~(Line(j) < Line(k) /\ ThreeLines(Window[v]))
  PROVE  MetadataFor(k, Window[v]) <= MetadataFor(j, Window[v])
<1> DEFINE old == MetadataFor(k, Window[v])
           new == MetadataFor(j, Window[v])
<1>1. (\A x \in Window[v] : Line(x) \in Nat) /\ old \in Nat /\ new \in Nat
  BY LineType, MetadataLine
<1>2. PICK x \in Window[v] : old = Line(x)
  BY MetadataLine
<1>3. CASE Line(j) < Line(k)
  <2>1. ~ThreeLines(Window[v])
    BY <1>3
  <2>2. \A y \in Window[v] : ~(Line(y) < Line(j))
    BY <1>3, <2>1 DEF ThreeLines
  <2>3. new = Line(j)
    BY <2>2, MetadataLine
  <2>4. Line(x) < Line(k)
    BY <1>2, <1>3, MetadataLine
  <2>5. ~(Line(j) < Line(x))
    BY <2>1, <2>4 DEF ThreeLines
  <2> QED BY <1>1, <1>2, <2>3, <2>5
<1>4. CASE ~(Line(j) < Line(k))
  <2>1. CASE \E y \in Window[v] : Line(y) < Line(k)
    <3>1. Line(x) < Line(k)
      BY <1>2, <2>1, MetadataLine
    <3>2. Line(x) < Line(j)
      BY <1>1, <1>4, <3>1
    <3> QED BY <1>2, <3>2, MetadataLine
  <2>2. CASE ~\E y \in Window[v] : Line(y) < Line(k)
    <3>1. old = Line(k)
      BY <2>2, MetadataLine
    <3>2. CASE Line(k) < Line(j)
      BY <3>1, <3>2, MetadataLine
    <3>3. CASE ~(Line(k) < Line(j))
      <4>1. Line(j) = Line(k)
        BY <1>1, <1>4, <3>3
      <4>2. new = Line(j)
        BY <2>2, <4>1, MetadataLine
      <4> QED BY <1>1, <3>1, <4>1, <4>2
    <3> QED BY <3>2, <3>3
  <2> QED BY <2>1, <2>2
<1> QED BY <1>3, <1>4

-----------------------------------------------------------------------------
(* The plan *)

\* What a deploy chooses, from the operator it read: op.
LEMMA ChosenVersions ==
  PlanTypeInv =>
    \A f \in DeployFlags : \A op \in {own, NoOperator} :
      KafkaAllowed(f, chooseOperatorVersion(f, op)) =>
        /\ chooseOperatorVersion(f, op) \in Operators
        /\ resolveScope(f, op) \in Scopes
        /\ \A running : chooseKafkaVersion(f, chooseOperatorVersion(f, op), running)
                          \in Window[chooseOperatorVersion(f, op)]
        /\ f.follow /\ op # NoOperator => chooseOperatorVersion(f, op) = own.version
<1> SUFFICES ASSUME PlanTypeInv, NEW f \in DeployFlags, NEW op \in {own, NoOperator},
                    KafkaAllowed(f, chooseOperatorVersion(f, op))
             PROVE  /\ chooseOperatorVersion(f, op) \in Operators
                    /\ resolveScope(f, op) \in Scopes
                    /\ \A running :
                          chooseKafkaVersion(f, chooseOperatorVersion(f, op), running)
                            \in Window[chooseOperatorVersion(f, op)]
                    /\ f.follow /\ op # NoOperator
                         => chooseOperatorVersion(f, op) = own.version
  OBVIOUS
<1>1. op # NoOperator => op.version \in Operators /\ op.scope \in Scopes /\ op = own
  <2>1. own = NoOperator \/ own \in [version : Operators, scope : Scopes]
    BY DEF PlanTypeInv
  <2>2. op # NoOperator => op = own
    OBVIOUS
  <2> QED BY <2>1, <2>2
<1>2. /\ f.strimzi \in Operators \cup {None} /\ f.scope \in Scopes
      /\ f.kafka \in Kafkas \cup {None} /\ f.follow \in BOOLEAN
  BY DEF DeployFlags, Scopes
<1>3. chooseOperatorVersion(f, op) \in Operators
  <2>1. op = NoOperator => ~(op.version > pin)
    BY WindowAssumption DEF PlanTypeInv, NoOperator, None
  <2> QED BY <1>1, <1>2, <2>1
          DEF chooseOperatorVersion, followInstalledOperator, Adopted, PlanTypeInv
<1>4. resolveScope(f, op) \in Scopes
  BY <1>1, <1>2 DEF resolveScope, followInstalledOperator
<1>5. \A v \in Operators : KafkaAllowed(f, v) =>
        \A running : chooseKafkaVersion(f, v, running) \in Window[v]
  BY NewestIsInTheWindow DEF chooseKafkaVersion, KafkaAllowed
<1>6. f.follow /\ op # NoOperator => chooseOperatorVersion(f, op) = own.version
  BY <1>1 DEF chooseOperatorVersion, followInstalledOperator
<1> QED BY <1>3, <1>4, <1>5, <1>6

LEMMA PlanStep ==
  ASSUME PlanIInv, StrimziIsSelected, resolveVersionPlan
  PROVE  PlanIInv'
<1> USE DEF PlanIInv
<1>1. PICK f \in {g \in DeployFlags : applyAdminlessProfile(g)}, r \in OperatorReads, kr \in KafkaReads :
        LET op == primaryOperator(r)
            v == chooseOperatorVersion(f, op)
            scope == resolveScope(f, op)
            k == chooseKafkaVersion(f, v, runningPrimaryKafka(op, kr))
        IN  /\ KafkaAllowed(f, v)
            /\ compareInstalled(op, v, scope, kr)
            /\ checkStrimziCRDStorage(f, op, v)
            /\ plan' = [stage |-> IF ~f.withStrimzi THEN "kafka"
                                  ELSE IF ReplaceEmptyPreV1CRDs(f, op, v)
                                  THEN "replace" ELSE "crds",
                        operator |-> v, scope |-> scope,
                        kafka |-> k,
                        metadata |-> MetadataFor(k, Window[v]),
                        asked |-> f.kafka # None,
                        replaces |-> op # NoOperator,
                        saw |-> r = "ok" /\ kr = "ok"
                                /\ (f.follow \/ kafka # NoKafka => op # NoOperator)]
  BY Zenon DEF resolveVersionPlan
<1> DEFINE op == primaryOperator(r)
           v == chooseOperatorVersion(f, op)
           scope == resolveScope(f, op)
           k == chooseKafkaVersion(f, v, runningPrimaryKafka(op, kr))
<1>2. UNCHANGED <<pin, own, other, leaving, kafka, stored, unseen>>
  BY DEF resolveVersionPlan
<1>3. /\ f \in DeployFlags /\ f.follow \in BOOLEAN /\ f.withStrimzi \in BOOLEAN
      /\ f.kafka \in Kafkas \cup {None}
      /\ f.follow <=> ~f.withStrimzi
  BY DEF DeployFlags, applyAdminlessProfile, StrimziIsSelected
<1>4. op \in {own, NoOperator} /\ (r = "ok" => op = own)
  BY DEF primaryOperator
<1>5. /\ KafkaAllowed(f, v)
      /\ compareInstalled(op, v, scope, kr)
      /\ checkStrimziCRDStorage(f, op, v)
  BY <1>1
<1>6. /\ v \in Operators /\ scope \in Scopes /\ k \in Window[v]
      /\ f.follow /\ op # NoOperator => v = own.version
  <2> HIDE DEF op
  <2>1. PlanTypeInv /\ KafkaAllowed(f, chooseOperatorVersion(f, op))
    BY <1>5
  <2>2. \A running :
          /\ chooseOperatorVersion(f, op) \in Operators
          /\ resolveScope(f, op) \in Scopes
          /\ chooseKafkaVersion(f, chooseOperatorVersion(f, op), running)
               \in Window[chooseOperatorVersion(f, op)]
          /\ f.follow /\ op # NoOperator => chooseOperatorVersion(f, op) = own.version
    BY <1>3, <1>4, <2>1, ChosenVersions
  <2> QED BY <2>2
<1>7. /\ plan'.stage = IF ~f.withStrimzi THEN "kafka"
                       ELSE IF ReplaceEmptyPreV1CRDs(f, op, v)
                       THEN "replace" ELSE "crds"
      /\ plan'.operator = v /\ plan'.scope = scope /\ plan'.kafka = k
      /\ plan'.metadata = MetadataFor(k, Window[v])
      /\ plan'.asked = (f.kafka # None) /\ plan'.replaces = (op # NoOperator)
      /\ plan'.saw = (r = "ok" /\ kr = "ok" /\ (f.follow \/ kafka # NoKafka => op # NoOperator))
  BY <1>1
<1>8. MetadataFor(k, Window[v]) \in Nat
  BY <1>6, MetadataLine
<1>a. plan' \in Plans
  <2>1. MetadataFor(k, Window[v]) \in Nat /\ k \in Nat \ {0}
    BY <1>6, <1>8, LineType
  <2> HIDE DEF op, v, scope, k
  <2> QED BY <1>1, <1>6, <2>1 DEF Plans, op, v, scope, k
<1> HIDE DEF op, v, scope, k
<1>b. PlanTypeInv'
  BY <1>2, <1>a DEF PlanTypeInv
<1>c. StoredInv'
  <2>1. plan'.stage = "replace" => kafka = NoKafka
    BY <1>5, <1>7 DEF checkStrimziCRDStorage
  <2>2. plan'.stage # "operator"
    BY <1>7
  <2> QED BY <1>2, <2>1, <2>2 DEF StoredInv
<1>d. RunningInv'
  BY <1>2 DEF RunningInv, Fits
<1>e. PlanInv'
  <2> SUFFICES ASSUME plan'.saw PROVE PlanInv'
    BY DEF PlanInv
  <2>1. /\ r = "ok" /\ kr = "ok" /\ op = own
        /\ f.follow \/ kafka # NoKafka => own # NoOperator
    BY <1>4, <1>7
  <2>2. own # NoOperator => own.version \in Operators
    BY DEF PlanTypeInv
  <2>3. ASSUME own # NoOperator PROVE v >= own.version
    <3>1. UpgradeKind(op, v) # "downgrade"
      BY <1>5, <2>1, <2>3 DEF compareInstalled
    <3>2. own.version = v \/ own.version < v
      BY <2>1, <3>1 DEF UpgradeKind
    <3>3. own.version \in Nat /\ v \in Nat
      BY <1>6, <2>2, <2>3, WindowAssumption
    <3> QED BY <3>2, <3>3
  <2>4. plan'.stage = "kafka" => own # NoOperator /\ own.version = v
    BY <1>3, <1>6, <1>7, <2>1
  <2>5. ASSUME ~unseen, kafka # NoKafka
        PROVE  Fits(v) /\ (f.kafka # None \/ k = kafka.version)
    <3>1. own # NoOperator /\ Fits(own.version)
      BY <2>1, <2>5 DEF RunningInv
    <3>2. kafka.version \in Nat \ {0} /\ kafka.metadata \in Nat
      BY <2>5 DEF PlanTypeInv
    <3>3. runningKafkaVersions(op, kr) = {kafka.version}
      BY <2>1, <3>1, <3>2 DEF runningKafkaVersions, None
    <3>4. kafka.version \in Window[v]
      <4>1. CASE own.version = v
        BY <3>1, <4>1 DEF Fits
      <4>2. CASE own.version # v
        <5>1. UpgradeKind(op, v) = "upgrade"
          BY <1>5, <2>1, <3>1, <4>2 DEF compareInstalled, UpgradeKind
        <5>2. runningKafkaVersions(op, kr) \subseteq Window[v]
          BY <1>5, <2>1, <3>1, <5>1 DEF compareInstalled
        <5> QED BY <3>3, <5>2
      <4> QED BY <4>1, <4>2
    <3>5. Fits(v)
      BY <1>6, <2>2, <2>3, <3>1, <3>2, <3>4, FitsANewerOperator
    <3>6. runningPrimaryKafka(op, kr) = kafka.version
      BY <3>2, <3>3, MaxOfOne DEF runningPrimaryKafka, Newest
    <3>7. f.kafka = None => k = kafka.version
      BY <3>4, <3>6 DEF k, chooseKafkaVersion
    <3> QED BY <3>5, <3>7
  <2> QED BY <1>2, <1>6, <1>7, <2>3, <2>4, <2>5 DEF PlanInv, Fits
<1> QED BY <1>b, <1>c, <1>d, <1>e

-----------------------------------------------------------------------------
(* The steps of a deploy, and those between deploys *)

LEMMA PlanInitInv == PlanInit => PlanIInv
<1> SUFFICES ASSUME PlanInit PROVE PlanIInv
  OBVIOUS
<1>1. PlanTypeInv
  BY DEF PlanInit, PlanTypeInv
<1>2. plan.stage = "none" /\ own = NoOperator /\ kafka = NoKafka /\ plan = NoPlan
  BY DEF PlanInit, NoPlan
<1> QED BY <1>1, <1>2 DEF PlanIInv, StoredInv, RunningInv, PlanInv

\* A plan in progress, and one that has come to an end.
LEMMA InProgress ==
  ASSUME PlanTypeInv
  PROVE  /\ plan.stage # "none" => plan \in Plans /\ plan # NoPlan
         /\ plan # NoPlan => plan \in Plans /\ plan.stage \in {"replace", "crds", "operator", "kafka"}
BY DEF PlanTypeInv, NoPlan, Plans

LEMMA ReplaceStep ==
  ASSUME PlanIInv, prepareEmptyPreV1StrimziReplacement
  PROVE  PlanIInv'
<1> USE DEF PlanIInv
<1>1. /\ plan \in Plans /\ plan # NoPlan /\ plan.stage = "replace"
      /\ kafka = NoKafka
  BY InProgress DEF prepareEmptyPreV1StrimziReplacement, StoredInv
<1>2. /\ UNCHANGED <<pin, other, leaving>> /\ kafka' = NoKafka
      /\ unseen' = (unseen \/ ~plan.saw)
      /\ \/ own' = NoOperator /\ plan' = plan /\ stored' = stored
         \/ own' = own /\ plan' = [plan EXCEPT !.stage = "crds"] /\ stored' = {}
  BY <1>1 DEF prepareEmptyPreV1StrimziReplacement
<1>3. plan' \in Plans /\ plan'.stage \in {"replace", "crds"} /\ plan' # NoPlan
  BY <1>1, <1>2 DEF Plans, NoPlan
<1>4. PlanTypeInv'
  BY <1>2, <1>3 DEF PlanTypeInv, Plans
<1>5. StoredInv'
  BY <1>2, <1>3 DEF StoredInv
<1>6. RunningInv'
  BY <1>2 DEF RunningInv
<1>7. PlanInv'
  <2>1. /\ plan'.operator = plan.operator /\ plan'.kafka = plan.kafka
        /\ plan'.metadata = plan.metadata /\ plan'.saw = plan.saw
    BY <1>1, <1>2 DEF Plans
  <2> QED BY <1>1, <1>2, <1>3, <2>1 DEF PlanInv
<1> QED BY <1>4, <1>5, <1>6, <1>7

LEMMA CRDStep ==
  ASSUME PlanIInv, applyLocalStrimziCRDs
  PROVE  PlanIInv'
<1> USE DEF PlanIInv
<1>1. plan \in Plans /\ plan # NoPlan /\ plan.stage = "crds"
  BY InProgress DEF applyLocalStrimziCRDs
<1>2. /\ stored \subseteq Served(plan.operator)
      /\ stored' = stored \cup {Storage(plan.operator)}
      /\ plan' = [plan EXCEPT !.stage = "operator"]
      /\ unseen' = (unseen \/ ~plan.saw)
      /\ UNCHANGED <<pin, own, other, leaving, kafka>>
  BY DEF applyLocalStrimziCRDs
<1>3. /\ plan' \in Plans /\ plan' # NoPlan /\ plan'.stage = "operator"
      /\ plan'.operator = plan.operator /\ plan'.kafka = plan.kafka
      /\ plan'.metadata = plan.metadata /\ plan'.saw = plan.saw
      /\ plan'.asked = plan.asked
  BY <1>1, <1>2 DEF Plans, NoPlan
<1>4. PlanTypeInv'
  <2>1. stored' \subseteq {"v1beta2", "v1"}
    BY <1>2 DEF PlanTypeInv, Storage
  <2> QED BY <1>2, <1>3, <2>1 DEF PlanTypeInv
<1>5. StoredInv'
  <2>1. plan.operator >= V1 => stored' \subseteq {"v1"}
    BY <1>2 DEF Served, Storage
  <2>2. ASSUME ~unseen', own # NoOperator, own.version >= V1
        PROVE  plan.operator >= V1
    <3>1. plan.operator >= own.version
      BY <1>1, <1>2, <2>2 DEF PlanInv
    <3>2. plan.operator \in Nat /\ own.version \in Nat /\ V1 \in Nat
      BY <1>1, <2>2, WindowAssumption DEF Plans, PlanTypeInv
    <3> QED BY <2>2, <3>1, <3>2
  <2>3. stored' # {}
    BY <1>2
  <2> QED BY <1>2, <1>3, <2>1, <2>2, <2>3 DEF StoredInv
<1>6. RunningInv'
  BY <1>2 DEF RunningInv, Fits
<1>7. PlanInv'
  BY <1>1, <1>2, <1>3 DEF PlanInv, Fits
<1> QED BY <1>4, <1>5, <1>6, <1>7

LEMMA OperatorStep ==
  ASSUME PlanIInv, installOperator
  PROVE  PlanIInv'
<1> USE DEF PlanIInv
<1>1. plan \in Plans /\ plan # NoPlan /\ plan.stage = "operator"
  BY InProgress DEF installOperator
<1>2. /\ own' = [version |-> plan.operator, scope |-> plan.scope]
      /\ plan' = [plan EXCEPT !.stage = "kafka"]
      /\ unseen' = (unseen \/ ~plan.saw)
      /\ UNCHANGED <<pin, other, leaving, kafka, stored>>
  BY DEF installOperator
<1>3. /\ plan' \in Plans /\ plan' # NoPlan /\ plan'.stage = "kafka"
      /\ plan'.operator = plan.operator /\ plan'.kafka = plan.kafka
      /\ plan'.metadata = plan.metadata /\ plan'.saw = plan.saw
      /\ plan'.asked = plan.asked
  BY <1>1, <1>2 DEF Plans, NoPlan
<1>4. /\ plan.operator \in Operators /\ plan.operator \in Nat /\ plan.scope \in Scopes
      /\ own'.version = plan.operator /\ own' # NoOperator
      /\ own' \in [version : Operators, scope : Scopes]
  BY <1>1, <1>2, WindowAssumption DEF Plans, NoOperator, None
<1>5. PlanTypeInv'
  BY <1>2, <1>3, <1>4 DEF PlanTypeInv
<1>6. StoredInv'
  BY <1>1, <1>2, <1>3, <1>4 DEF StoredInv
<1>7. RunningInv'
  BY <1>1, <1>2, <1>4 DEF RunningInv, PlanInv, Fits
<1>8. PlanInv'
  <2> SUFFICES ASSUME plan'.saw PROVE PlanInv'
    BY DEF PlanInv
  <2>1. plan.operator >= plan.operator
    BY <1>4
  <2>2. Fits(plan.operator)' <=> Fits(plan.operator)
    BY <1>2, <1>3 DEF Fits
  <2> QED BY <1>1, <1>2, <1>3, <1>4, <2>1, <2>2 DEF PlanInv, Fits
<1> QED BY <1>5, <1>6, <1>7, <1>8

LEMMA KafkaStep ==
  ASSUME PlanIInv, installKafka
  PROVE  PlanIInv'
<1> USE DEF PlanIInv
<1>1. plan \in Plans /\ plan # NoPlan /\ plan.stage = "kafka" /\ stored # {}
  BY InProgress DEF installKafka
<1>2. /\ kafka' = [version |-> plan.kafka, metadata |-> plan.metadata]
      /\ plan' = NoPlan /\ unseen' = (unseen \/ ~plan.saw)
      /\ UNCHANGED <<pin, own, other, leaving, stored>>
  BY DEF installKafka
<1>3. PlanTypeInv'
  BY <1>1, <1>2 DEF PlanTypeInv, Plans
<1>4. StoredInv'
  BY <1>1, <1>2 DEF StoredInv, NoPlan
<1>5. RunningInv'
  <2> SUFFICES ASSUME plan.saw PROVE RunningInv'
    BY <1>2 DEF RunningInv
  <2>1. plan.metadata \in Nat /\ plan.metadata <= plan.metadata
    BY <1>1 DEF Plans
  <2> QED BY <1>1, <1>2, <2>1 DEF RunningInv, PlanInv, Fits
<1>6. PlanInv'
  BY <1>2 DEF PlanInv
<1> QED BY <1>3, <1>4, <1>5, <1>6

\* A deploy that stops, and what happens between deploys.
LEMMA OtherSteps ==
  ASSUME PlanIInv,
         Stop \/ OtherRelease \/ OtherOperator \/ OtherLeaves \/ ConvertAPI \/ Clean
  PROVE  PlanIInv'
<1> USE DEF PlanIInv
<1>1. plan' = NoPlan
  BY DEF Stop, OtherRelease, OtherOperator, OtherLeaves, ConvertAPI, Clean
<1>2. PlanInv' /\ plan'.stage = "none"
  BY <1>1 DEF PlanInv, NoPlan
<1>3. CASE Stop
  BY <1>2, <1>3 DEF Stop, PlanTypeInv, StoredInv, RunningInv, Fits
<1>4. CASE OtherRelease
  BY <1>2, <1>4 DEF OtherRelease, PlanTypeInv, StoredInv, RunningInv, Fits
<1>5. CASE OtherOperator
  <2>1. PICK v \in Operators : /\ EligibleAdditional(v)
                               /\ stored' = IF stored # {} THEN stored ELSE {Storage(v)}
    BY <1>5 DEF OtherOperator
  <2>2. UNCHANGED <<pin, own, leaving, kafka, plan, unseen>>
    BY <1>5 DEF OtherOperator
  <2>3. stored' \subseteq {"v1beta2", "v1"}
    BY <2>1 DEF PlanTypeInv, Storage
  <2>4. own # NoOperator /\ own.version >= V1 /\ stored \subseteq {"v1"} => stored' \subseteq {"v1"}
    BY <2>1 DEF EligibleAdditional, Storage
  <2>5. StoredInv'
    BY <1>2, <2>1, <2>2, <2>4 DEF StoredInv
  <2> QED BY <1>2, <2>2, <2>3, <2>5 DEF PlanTypeInv, RunningInv, Fits
<1>6. CASE OtherLeaves
  BY <1>2, <1>6 DEF OtherLeaves, PlanTypeInv, StoredInv, RunningInv, Fits
<1>7. CASE ConvertAPI
  BY <1>2, <1>7 DEF ConvertAPI, PlanTypeInv, StoredInv, RunningInv, Fits
<1>8. CASE Clean
  <2>1. /\ UNCHANGED <<pin, other, leaving, plan>>
        /\ kafka' \in {kafka, NoKafka} /\ own' \in {own, NoOperator}
        /\ stored' \in {stored, {}} /\ (stored' = {} => kafka' = NoKafka)
        /\ unseen' = (unseen /\ <<own', kafka'>> # <<NoOperator, NoKafka>>)
    BY <1>8 DEF Clean
  <2>2. ~unseen' => own' = NoOperator \/ ~unseen
    BY <2>1
  <2>3. PlanTypeInv'
    BY <2>1 DEF PlanTypeInv
  <2>4. StoredInv'
    BY <1>2, <2>1, <2>2 DEF StoredInv
  <2>5. RunningInv'
    BY <2>1, <2>2 DEF RunningInv, Fits
  <2> QED BY <1>2, <2>3, <2>4, <2>5
<1> QED BY <1>3, <1>4, <1>5, <1>6, <1>7, <1>8

LEMMA PlanStepInv ==
  ASSUME StrimziIsSelected
  PROVE  PlanIInv /\ [PlanNext]_planVars => PlanIInv'
<1>1. PlanIInv /\ UNCHANGED planVars => PlanIInv'
  BY DEF PlanIInv, PlanTypeInv, StoredInv, RunningInv, PlanInv, Fits, planVars
<1> QED BY <1>1, PlanStep, ReplaceStep, CRDStep, OperatorStep, KafkaStep, OtherSteps DEF PlanNext

\* The inductive invariant: what is installed fits together, and a plan fits
\* what it was made from until it is carried out (compareInstalled,
\* checkStrimziCRDStorage, MetadataFor).
THEOREM DeployInvariant ==
  ASSUME StrimziIsSelected
  PROVE  PlanSpec => []PlanIInv
BY PlanInitInv, PlanStepInv, PTL DEF PlanSpec

-----------------------------------------------------------------------------
(* What deploys never take back *)

\* After every deploy and between its steps, the running Kafka is one the
\* operator supports (compareInstalled, chooseKafkaVersion).
THEOREM KafkaStaysInWindow ==
  ASSUME StrimziIsSelected
  PROVE  PlanSpec => []KafkaInWindow
<1>1. PlanIInv => KafkaInWindow
  BY DEF PlanIInv, RunningInv, Fits, KafkaInWindow
<1> QED BY <1>1, DeployInvariant, PTL

\* No Kafka is deleted with its CRDs, and none is left stored in a version the
\* operator has dropped, though every deploy applies CRDs of its own
\* (applyLocalStrimziCRDs, ReplaceEmptyPreV1CRDs, checkStrimziCRDStorage).
THEOREM NoKafkaIsEverLost ==
  ASSUME StrimziIsSelected
  PROVE  PlanSpec => NoKafkaIsLost
<1>1. PlanIInv => NoDataInADroppedVersion
  <2>1. own.version >= V1 => own # NoOperator
    BY WindowAssumption DEF NoOperator, None
  <2> QED BY <2>1 DEF PlanIInv, StoredInv, NoDataInADroppedVersion
<1>2. PlanIInv /\ [PlanNext]_planVars => [plan # NoPlan /\ kafka # NoKafka => kafka' # NoKafka]_planVars
  <2> SUFFICES ASSUME PlanIInv, PlanNext, plan # NoPlan, kafka # NoKafka
               PROVE  kafka' # NoKafka
    OBVIOUS
  <2>1. CASE prepareEmptyPreV1StrimziReplacement
    BY <2>1 DEF prepareEmptyPreV1StrimziReplacement, PlanIInv, StoredInv
  <2>2. CASE installKafka
    <3>1. plan \in Plans /\ kafka' = [version |-> plan.kafka, metadata |-> plan.metadata]
      BY <2>2, InProgress DEF installKafka, PlanIInv
    <3> QED BY <3>1 DEF Plans, NoKafka, None
  <2>3. CASE UNCHANGED kafka
    BY <2>3
  <2> QED BY <2>1, <2>2, <2>3
          DEF PlanNext, resolveVersionPlan, applyLocalStrimziCRDs, installOperator, Stop, OtherRelease,
              OtherOperator, OtherLeaves, ConvertAPI, Clean
<1> QED BY <1>1, <1>2, DeployInvariant, PTL
        DEF NoKafkaIsLost, ReplacementLosesNoKafka, PlanSpec

\* Only installKafka changes a running Kafka for another.
LEMMA AnotherKafka ==
  ASSUME PlanNext, NoKafka \notin {kafka, kafka'}, kafka' # kafka
  PROVE  installKafka
BY DEF PlanNext, resolveVersionPlan, prepareEmptyPreV1StrimziReplacement, applyLocalStrimziCRDs, installOperator,
       Stop, OtherRelease, OtherOperator, OtherLeaves, ConvertAPI, Clean

\* A newer release of the platform alone moves no running Kafka
\* (chooseKafkaVersion).
THEOREM KafkaIsKeptUnlessAsked ==
  ASSUME StrimziIsSelected
  PROVE  PlanSpec => KafkaKeptUnlessAsked
<1>1. PlanIInv /\ [PlanNext]_planVars =>
        [Seen /\ NoKafka \notin {kafka, kafka'} /\ kafka'.version # kafka.version
           => plan.asked]_planVars
  <2> SUFFICES ASSUME PlanIInv, PlanNext, Seen, NoKafka \notin {kafka, kafka'},
                      kafka'.version # kafka.version
               PROVE  plan.asked
    OBVIOUS
  <2>1. installKafka
    BY AnotherKafka
  <2>2. plan.saw /\ plan # NoPlan /\ kafka'.version = plan.kafka
    BY <2>1, InProgress DEF installKafka, Seen, PlanIInv
  <2> QED BY <2>2 DEF PlanIInv, PlanInv, Seen
<1> QED BY <1>1, DeployInvariant, PTL DEF KafkaKeptUnlessAsked, PlanSpec

\* The operator never goes back, in whatever order versions are asked for and
\* releases used, and the metadata version of a running Kafka only when an older
\* line is asked for in a window of three (MetadataFor, compareInstalled).
THEOREM NothingEverGoesBack ==
  ASSUME StrimziIsSelected
  PROVE  PlanSpec => NothingGoesBack
<1>1. PlanIInv /\ [PlanNext]_planVars =>
        [Seen /\ NoKafka \notin {kafka, kafka'}
           => kafka'.metadata >= kafka.metadata \/ RolledBack]_planVars
  <2> SUFFICES ASSUME PlanIInv, PlanNext, Seen, NoKafka \notin {kafka, kafka'}, ~RolledBack
               PROVE  kafka'.metadata >= kafka.metadata
    OBVIOUS
  <2>1. kafka.metadata \in Nat
    BY DEF PlanIInv, PlanTypeInv
  <2>2. CASE kafka' = kafka
    BY <2>1, <2>2
  <2>3. CASE kafka' # kafka
    <3> DEFINE w == Window[plan.operator]
    <3>1. installKafka
      BY <2>3, AnotherKafka
    <3>2. /\ plan.saw /\ plan # NoPlan /\ plan \in Plans
          /\ kafka'.metadata = plan.metadata /\ kafka'.version = plan.kafka
      BY <3>1, InProgress DEF installKafka, Seen, PlanIInv
    <3>3. /\ Fits(plan.operator) /\ plan.kafka \in w
          /\ plan.metadata = MetadataFor(plan.kafka, w)
          /\ plan.asked \/ plan.kafka = kafka.version
      BY <3>2 DEF PlanIInv, PlanInv, Seen
    <3>4. /\ kafka.version \in w /\ kafka.metadata <= MetadataFor(kafka.version, w)
          /\ plan.operator \in Operators
      BY <3>2, <3>3 DEF Fits, Plans
    <3>5. ~(Line(plan.kafka) < Line(kafka.version) /\ ThreeLines(w))
      <4>1. CASE plan.asked
        BY <3>2, <4>1 DEF RolledBack
      <4>2. CASE plan.kafka = kafka.version
        <5>1. Line(kafka.version) \in Nat
          BY <3>4, LineType
        <5> QED BY <4>2, <5>1
      <4> QED BY <3>3, <4>1, <4>2
    <3>6. MetadataFor(kafka.version, w) <= MetadataFor(plan.kafka, w)
      BY <3>3, <3>4, <3>5, MetadataMovesUp
    <3>7. MetadataFor(kafka.version, w) \in Nat /\ MetadataFor(plan.kafka, w) \in Nat
      BY <3>3, <3>4, MetadataLine
    <3> QED BY <2>1, <3>2, <3>3, <3>4, <3>6, <3>7
  <2> QED BY <2>2, <2>3
<1>2. PlanIInv /\ [PlanNext]_planVars =>
        [Seen /\ NoOperator \notin {own, own'} => own'.version >= own.version]_planVars
  <2> SUFFICES ASSUME PlanIInv, PlanNext, Seen, NoOperator \notin {own, own'}
               PROVE  own'.version >= own.version
    OBVIOUS
  <2>1. own.version \in Nat
    BY WindowAssumption DEF PlanIInv, PlanTypeInv
  <2>2. CASE own' = own
    BY <2>1, <2>2
  <2>3. CASE installOperator
    <3>1. plan.saw /\ plan # NoPlan /\ own'.version = plan.operator
      BY <2>3, InProgress DEF installOperator, Seen, PlanIInv
    <3> QED BY <3>1 DEF PlanIInv, PlanInv
  <2> QED BY <2>2, <2>3
          DEF PlanNext, resolveVersionPlan, prepareEmptyPreV1StrimziReplacement,
              applyLocalStrimziCRDs, installKafka, Stop, OtherRelease, OtherOperator, OtherLeaves,
              ConvertAPI, Clean
<1> QED BY <1>1, <1>2, DeployInvariant, PTL
        DEF NothingGoesBack, MetadataNeverGoesBack, OperatorNeverGoesBack, PlanSpec
=============================================================================
