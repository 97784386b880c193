--------------------------- MODULE DeployPipeline ---------------------------
(***************************************************************************)
(* The deploy pipeline of `kates deploy`: the scheduler that runs the      *)
(* components under their dependencies (cli/cmd/deploy_scheduler.go), what *)
(* an install leaves in the cluster, Ctrl-C and the death of the process,  *)
(* and what the next `kates deploy` does with what was left behind         *)
(* (deploy_recover.go, restoreFailOpenCertMgrWebhook).                     *)
(*                                                                         *)
(* One deploy runs at a time.  Each component is a goroutine; helm's run   *)
(* is two steps, because the release is pending while it runs.  A command  *)
(* that fails costs one of MaxFaults, and so does a signal.                *)
(***************************************************************************)
EXTENDS DeployComponents

CONSTANTS
    Flags,          \* the component flags given to every run
    Upgrade,        \* the installed components --upgrade names
    Parallelism,    \* deployParallelism
    Failures,       \* which failures happen: subset of {"error", "unready", "unreadable", "signal", "kill"}
    MaxFaults,      \* bound on failures, over all runs
    Earlier         \* the sets of releases earlier deploys, with other flags, may have left

ASSUME FlagsAssumption == Flags \subseteq Components /\ Upgrade \subseteq Components
ASSUME EarlierAssumption == Earlier \subseteq SUBSET Components
ASSUME BoundsAssumption == Parallelism \in Nat \ {0} /\ MaxFaults \in Nat

Ids == Enabled(Flags)
Released == {c \in Ids : \E i \in 1..Len(deployComponents[c].install) :
                             deployComponents[c].install[i] \in {"helm", "helm?"}}

VARIABLES
    phase,        \* where the process is
    faults,       \* failures so far
    st,           \* per component: what its goroutine is doing
    step,         \* per component: install steps done
    opened,       \* components whose `installed` channel is closed
    finished,     \* components whose `done` channel is closed
    stopped,      \* schedCtx is cancelled
    interrupted,  \* ctx is cancelled (Ctrl-C)
    firstErr,     \* the error runComponents returns
    exit,         \* how the last run ended
    installedNow, \* components this run installed
    release,      \* per component: helm's record of its release
    served,       \* components whose release was deployed at some time
    webhook,      \* failurePolicy of the cert-manager webhook
    signalled,    \* history: a run was interrupted or killed
    unrestored,   \* history: a patch that puts the policy back has failed
    blind,        \* history: rendered without the monitoring API although this run installs it
    spared        \* history: components this run left alone because they run, whatever their release

procVars == <<st, step, opened, finished, stopped, interrupted, firstErr, installedNow>>
worldVars == <<release, served, webhook>>
history == <<signalled, unrestored, blind, spared>>
vars == <<phase, faults, exit, procVars, worldVars, history>>

Stages == {"waiting", "checking", "starting", "installing", "helm", "bypass", "readying",
           "done", "failed", "stopped"}
Ended == {"done", "failed", "stopped"}
Phases == {"idle", "recover", "restore", "pipeline", "returned", "killed"}
Statuses == {"none", "pending", "deployed", "failed"}

Comp(c) == deployComponents[c]
Holding == {c \in Ids : st[c] \notin {"waiting"} \cup Ended}
Fault(kind) == kind \in Failures /\ faults < MaxFaults /\ faults' = faults + 1
NoFault == UNCHANGED faults

-----------------------------------------------------------------------------
Init ==
    /\ phase = "idle" /\ faults = 0 /\ exit = "none"
    /\ st = [c \in Ids |-> "waiting"]
    /\ step = [c \in Ids |-> 0]
    /\ opened = {} /\ finished = {} /\ installedNow = {}
    /\ stopped = FALSE /\ interrupted = FALSE /\ firstErr = "none"
    /\ \E before \in Earlier :
           served = before \cap Released /\ release = [c \in Ids |-> IF c \in before \cap Released THEN "deployed" ELSE "none"]
    /\ webhook = "Fail"
    /\ signalled = FALSE /\ unrestored = FALSE /\ blind = {} /\ spared = {}

FreshProcess ==
    /\ st' = [c \in Ids |-> "waiting"] /\ step' = [c \in Ids |-> 0]
    /\ opened' = {} /\ finished' = {} /\ installedNow' = {}
    /\ stopped' = FALSE /\ interrupted' = FALSE /\ firstErr' = "none"

(***************************************************************************)
(* The user runs `kates deploy`, again and again until it succeeds.        *)
(***************************************************************************)
Deploy ==
    /\ phase \in {"idle", "returned", "killed"} /\ exit # "ok"
    /\ phase' = "recover" /\ exit' = "none"
    /\ FreshProcess /\ spared' = {}
    /\ UNCHANGED <<faults, worldVars, signalled, unrestored, blind>>

(***************************************************************************)
(* recoverStuckReleases, before the pipeline: a pending release that was   *)
(* never in service is uninstalled, one that was is rolled back, unless    *)
(* that would downgrade something with state: then the deploy refuses.     *)
(***************************************************************************)
planRecovery(c) ==
    CASE c \notin served -> "uninstall"
      [] c \in served /\ c \in statefulCharts -> "refuse"
      [] OTHER -> "rollback"

\* The list as a bug could read it: pending upgrades only, never a first install.
StuckUpgrades == {c \in Ids : release[c] = "pending" /\ c \in served}

Stuck == {c \in Ids : release[c] = "pending"}

recoverStuckRelease(c) ==
    /\ phase = "recover" /\ c \in Stuck
    /\ \/ /\ planRecovery(c) # "refuse"
          /\ release' = [release EXCEPT ![c] = IF planRecovery(c) = "uninstall" THEN "none" ELSE "deployed"]
          /\ NoFault /\ UNCHANGED <<phase, exit>>
       \* Refused, declined, or the helm command failed: nothing is installed.
       \/ /\ IF planRecovery(c) = "refuse" THEN NoFault ELSE Fault("error")
          /\ phase' = "returned" /\ exit' = "error"
          /\ UNCHANGED release
    /\ UNCHANGED <<procVars, served, webhook, history>>

\* The list of pending releases is read once; a read that fails shows none.
recoverStuckReleases ==
    /\ phase = "recover"
    /\ IF Stuck = {} THEN NoFault ELSE Fault("unreadable")
    /\ phase' = "restore"
    /\ UNCHANGED <<exit, procVars, worldVars, history>>

(***************************************************************************)
(* restoreFailOpenCertMgrWebhook: an earlier run may have died between     *)
(* opening the webhook and closing it.                                     *)
(***************************************************************************)
restoreFailOpenCertMgrWebhook ==
    /\ phase = "restore" /\ phase' = "pipeline"
    /\ \/ webhook' = "Fail" /\ NoFault /\ UNCHANGED unrestored
       \/ webhook = "Ignore" /\ Fault("error") /\ unrestored' = TRUE /\ UNCHANGED webhook
    /\ UNCHANGED <<exit, procVars, release, served, signalled, blind, spared>>

-----------------------------------------------------------------------------
(***************************************************************************)
(* A component's goroutine.  A dependency the flags left out is ignored;   *)
(* cancelling schedCtx wakes every wait.                                   *)
(***************************************************************************)
MayStart(c) ==
    /\ Comp(c).deps \cap Ids \subseteq finished
    /\ Comp(c).after \cap Ids \subseteq opened
    /\ Cardinality(Holding) < Parallelism

Move(c, stage) == st' = [st EXCEPT ![c] = stage]

Keep == UNCHANGED <<phase, exit, history>>

\* fail: the first failure is the deploy's error, and stops the scheduling.
Fail(c) ==
    /\ Move(c, "failed")
    /\ firstErr' = IF firstErr # "none" THEN firstErr ELSE IF interrupted THEN "interrupted" ELSE "error"
    /\ stopped' = TRUE
    /\ UNCHANGED <<step, opened, finished, interrupted, installedNow>>

Finish(c) ==
    /\ Move(c, "done")
    /\ opened' = opened \cup {c} /\ finished' = finished \cup {c}
    /\ UNCHANGED <<step, stopped, interrupted, firstErr, installedNow>>

Enter(c, stage) == Move(c, stage) /\ UNCHANGED <<step, opened, finished, stopped, interrupted, firstErr, installedNow>>

Begin(c) ==
    /\ phase = "pipeline" /\ st[c] = "waiting" /\ MayStart(c) /\ ~stopped
    /\ Enter(c, "checking") /\ NoFault /\ Keep /\ UNCHANGED worldVars

Abandon ==
    /\ phase = "pipeline" /\ stopped /\ \E c \in Ids : st[c] = "waiting"
    /\ st' = [c \in Ids |-> IF st[c] = "waiting" THEN "stopped" ELSE st[c]]
    /\ NoFault /\ Keep
    /\ UNCHANGED <<step, opened, finished, stopped, interrupted, firstErr, installedNow, worldVars>>

\* Whether the installed release is left as it is; for Kafka it must also be Ready.
releaseKept(c) == release[c] = "deployed" /\ ~(Comp(c).skip = IfKept /\ c \in Upgrade)

(***************************************************************************)
(* The skip check.  A release that cannot be read reads as not installed,  *)
(* and so does a read the cancellation cut off: after it, nothing starts.  *)
(* isKyvernoAvailable: controllers that are ready, those of a failed       *)
(* release or of another one, are enough to leave the release as it is.    *)
(***************************************************************************)
isAvailable(c) == Comp(c).skip = IfAvailable

SkipCheck(c) ==
    /\ phase = "pipeline" /\ st[c] = "checking"
    /\ \/ /\ Comp(c).skip # Always /\ releaseKept(c) /\ ~stopped
          /\ Finish(c) /\ NoFault /\ UNCHANGED spared
       \/ /\ isAvailable(c) /\ ~stopped
          /\ Finish(c) /\ NoFault /\ spared' = spared \cup {c}
       \/ /\ stopped
          /\ Enter(c, "stopped") /\ NoFault /\ UNCHANGED spared
       \/ /\ ~stopped
          /\ IF Comp(c).skip \in {IfDeployed, IfKept, IfAvailable} /\ releaseKept(c)
             THEN Fault("unreadable") ELSE NoFault
          /\ Enter(c, "starting") /\ UNCHANGED spared
    /\ UNCHANGED <<phase, exit, signalled, unrestored, blind, worldVars>>

\* copyCredentials: a refused copy fails the component, a Secret not there yet only warns.
copyCredentials(c) ==
    /\ phase = "pipeline" /\ st[c] = "starting"
    /\ \/ /\ Comp(c).secrets
          /\ IF stopped THEN NoFault ELSE Fault("error")
          /\ Fail(c)
       \/ /\ stopped /\ Comp(c).install # <<>>
          /\ Enter(c, "stopped") /\ NoFault
       \/ /\ ~(stopped /\ Comp(c).install # <<>>)
          /\ Enter(c, "installing") /\ NoFault
    /\ Keep /\ UNCHANGED worldVars

Steps(c) == Comp(c).install
AtStep(c, kinds) == st[c] = "installing" /\ step[c] < Len(Steps(c)) /\ Steps(c)[step[c] + 1] \in kinds

StepDone(c) ==
    /\ step' = [step EXCEPT ![c] = @ + 1] /\ Move(c, "installing")
    /\ UNCHANGED <<opened, finished, stopped, interrupted, firstErr, installedNow>>

\* Installs run on ctx: another component's failure does not cut them short, Ctrl-C does.
Prepare(c) ==
    /\ phase = "pipeline" /\ AtStep(c, {"prep"})
    /\ \/ StepDone(c) /\ NoFault
       \/ Fail(c) /\ IF interrupted THEN NoFault ELSE Fault("error")
    /\ Keep /\ UNCHANGED worldVars

KeepRelease(c) ==
    /\ phase = "pipeline" /\ AtStep(c, {"helm?"}) /\ releaseKept(c)
    /\ StepDone(c) /\ NoFault /\ Keep /\ UNCHANGED worldVars

\* A release left pending refuses every operation.
HelmStart(c) ==
    /\ phase = "pipeline" /\ AtStep(c, {"helm", "helm?"})
    /\ \/ /\ release[c] # "pending"
          /\ Enter(c, "helm")
          /\ release' = [release EXCEPT ![c] = "pending"]
          /\ blind' = IF /\ {"monitoring"} \cap Ids # {} /\ c \in scrapeValues
                         /\ "monitoring" \notin served
                      THEN blind \cup {c} ELSE blind
       \/ release[c] = "pending" /\ Fail(c) /\ UNCHANGED <<release, blind>>
    /\ NoFault /\ UNCHANGED <<phase, exit, served, webhook, signalled, unrestored, spared>>

\* helm returns.  Only ctx reaches it: SIGTERM, and after the grace period SIGKILL.
\* The cancellation as a bug could wire it: helm runs on schedCtx, which any failure cancels.
HelmCutShortByAnyFailure == stopped

HelmCutShort == interrupted

HelmEnd(c) ==
    /\ phase = "pipeline" /\ st[c] = "helm"
    /\ \/ /\ StepDone(c) /\ NoFault
          /\ release' = [release EXCEPT ![c] = "deployed"] /\ served' = served \cup {c}
       \/ /\ Fail(c)
          /\ \E left \in {"failed"} \cup (IF HelmCutShort THEN {"pending"} ELSE {}) :
                 release' = [release EXCEPT ![c] = left]
          /\ IF HelmCutShort THEN NoFault ELSE Fault("error")
          /\ UNCHANGED served
    /\ Keep /\ UNCHANGED webhook

(***************************************************************************)
(* applyCertMgrClusterIssuer: when the webhook keeps refusing the issuer,  *)
(* the webhook is opened, the issuer applied once more, and the policy put *)
(* back on a context no cancellation reaches.                              *)
(***************************************************************************)
ApplyIssuer(c) ==
    /\ phase = "pipeline" /\ AtStep(c, {"issuer"})
    /\ \/ StepDone(c) /\ NoFault /\ UNCHANGED webhook
       \/ /\ ~interrupted /\ Fault("error")
          /\ Enter(c, "bypass") /\ webhook' = "Ignore"
       \/ interrupted /\ Fail(c) /\ NoFault /\ UNCHANGED webhook
    /\ Keep /\ UNCHANGED <<release, served>>

\* The restore as a bug could write it: on the cancelled context the patch never runs.
restoreOnCancelledContext ==
    IF interrupted THEN UNCHANGED <<webhook, unrestored>> ELSE webhook' = "Fail" /\ UNCHANGED unrestored

restoreCertMgrWebhookPolicy == webhook' = "Fail" /\ UNCHANGED unrestored

LeaveBypass(c) ==
    /\ phase = "pipeline" /\ st[c] = "bypass"
    /\ \/ restoreCertMgrWebhookPolicy /\ NoFault /\ (StepDone(c) \/ (interrupted /\ Fail(c)))
       \/ restoreCertMgrWebhookPolicy /\ Fault("error") /\ Fail(c)
       \/ Fault("error") /\ unrestored' = TRUE /\ UNCHANGED webhook /\ StepDone(c)
    /\ UNCHANGED <<phase, exit, release, served, signalled, blind, spared>>

\* wireKyvernoScrape: only a Kyverno this run installed is upgraded.
WireScrape(c) ==
    /\ phase = "pipeline" /\ AtStep(c, {"upgrade"})
    /\ \/ StepDone(c) /\ NoFault /\ UNCHANGED release
       \/ /\ "kyverno" \in installedNow /\ Fail(c)
          /\ \E left \in {"failed"} \cup (IF HelmCutShort THEN {"pending"} ELSE {}) :
                 release' = [release EXCEPT !["kyverno"] = left]
          /\ IF HelmCutShort THEN NoFault ELSE Fault("error")
    /\ Keep /\ UNCHANGED <<served, webhook>>

Installed(c) ==
    /\ phase = "pipeline" /\ st[c] = "installing" /\ step[c] = Len(Steps(c))
    /\ Move(c, "readying") /\ opened' = opened \cup {c}
    /\ installedNow' = IF c = "kafka-users" THEN installedNow ELSE installedNow \cup {c}
    /\ NoFault /\ Keep
    /\ UNCHANGED <<step, finished, stopped, interrupted, firstErr, worldVars>>

(***************************************************************************)
(* The readiness wait runs on schedCtx: a failure elsewhere cuts it short. *)
(* PostgreSQL's may fail without failing the deploy.                       *)
(***************************************************************************)
WaitReady(c) ==
    /\ phase = "pipeline" /\ st[c] = "readying"
    /\ \/ Finish(c) /\ NoFault
       \/ /\ Comp(c).wait # "none"
          /\ IF stopped THEN NoFault ELSE Fault("unready")
          /\ IF Comp(c).wait \in {"advisory", "warns"} THEN Finish(c) ELSE Fail(c)
    /\ Keep /\ UNCHANGED worldVars

-----------------------------------------------------------------------------
\* wg.Wait returns; a run interrupted with nothing failed is still not a success.
\* The end as a bug could write it: components that never started are not counted.
ReturnOnlyCountsFailures ==
    /\ phase = "pipeline" /\ \A c \in Ids : st[c] \in Ended
    /\ phase' = "returned"
    /\ exit' = IF \E c \in Ids : st[c] = "failed" THEN "error" ELSE "ok"
    /\ UNCHANGED <<faults, procVars, worldVars, history>>

Return ==
    /\ phase = "pipeline" /\ \A c \in Ids : st[c] \in Ended
    /\ phase' = "returned"
    /\ exit' = IF firstErr # "none" THEN firstErr ELSE IF interrupted THEN "interrupted" ELSE "ok"
    /\ UNCHANGED <<faults, procVars, worldVars, history>>

\* Ctrl-C during the pipeline cancels ctx, and with it schedCtx.
Interrupt ==
    /\ phase = "pipeline" /\ ~interrupted /\ Fault("signal")
    /\ interrupted' = TRUE /\ stopped' = TRUE /\ signalled' = TRUE
    /\ UNCHANGED <<phase, exit, st, step, opened, finished, firstErr, installedNow, worldVars, unrestored, blind, spared>>

\* A second Ctrl-C, or the machine, ends kates at once: helm's releases stay as they are.
Kill ==
    /\ phase = "pipeline" /\ Fault("kill")
    /\ phase' = "killed" /\ exit' = "killed" /\ signalled' = TRUE
    /\ FreshProcess
    /\ UNCHANGED <<worldVars, unrestored, blind, spared>>

\* The user runs the rollback that deploy printed.
UserRollsBack(c) ==
    /\ phase \in {"returned", "killed"} /\ c \in Stuck /\ planRecovery(c) = "refuse"
    /\ release' = [release EXCEPT ![c] = "deployed"]
    /\ UNCHANGED <<phase, faults, exit, procVars, served, webhook, history>>

Goroutine(c) ==
    \/ Begin(c) \/ SkipCheck(c) \/ copyCredentials(c) \/ Prepare(c) \/ KeepRelease(c)
    \/ HelmStart(c) \/ HelmEnd(c) \/ ApplyIssuer(c) \/ LeaveBypass(c) \/ WireScrape(c) \/ Installed(c) \/ WaitReady(c)

Startup == recoverStuckReleases \/ restoreFailOpenCertMgrWebhook \/ \E c \in Ids : recoverStuckRelease(c)

runComponents == (\E c \in Ids : Goroutine(c)) \/ Abandon \/ Return

Next ==
    \/ Deploy \/ Startup \/ runComponents \/ Interrupt \/ Kill
    \/ \E c \in Ids : UserRollsBack(c)

Spec == Init /\ [][Next]_vars

(***************************************************************************)
(* Every command ends (each has a timeout) and the goroutines are          *)
(* scheduled; the user runs deploy again until it succeeds, and runs the   *)
(* rollback it asks for.                                                   *)
(***************************************************************************)
Fairness ==
    /\ WF_vars(Deploy) /\ WF_vars(Startup) /\ WF_vars(runComponents)
    /\ SF_vars(\E c \in Ids : UserRollsBack(c))
FairSpec == Spec /\ Fairness
-----------------------------------------------------------------------------
TypeOK ==
    /\ phase \in Phases /\ faults \in 0..MaxFaults
    /\ st \in [Ids -> Stages] /\ \A c \in Ids : step[c] \in 0..Len(Steps(c))
    /\ opened \subseteq Ids /\ finished \subseteq Ids /\ installedNow \subseteq Ids
    /\ stopped \in BOOLEAN /\ interrupted \in BOOLEAN
    /\ firstErr \in {"none", "error", "interrupted"}
    /\ exit \in {"none", "ok", "error", "interrupted", "killed"}
    /\ release \in [Ids -> Statuses] /\ served \subseteq Ids
    /\ webhook \in {"Fail", "Ignore"}
    /\ signalled \in BOOLEAN /\ unrestored \in BOOLEAN /\ blind \subseteq Ids
    /\ spared \subseteq Ids

(***************************************************************************)
(* A deploy that reports success has every enabled component done, no      *)
(* chart without its monitors that renders them only where their API is,   *)
(* and every one of its releases deployed, whatever earlier runs left      *)
(* behind, except a Kyverno this run found running and left alone.         *)
(***************************************************************************)
SuccessIsComplete ==
    exit = "ok" =>
        /\ finished = Ids /\ blind = {}
        /\ \A c \in Released : release[c] = "deployed" \/ (c = "kyverno" /\ c \in spared)

(***************************************************************************)
(* A release is left pending only by a signal: a component that fails does *)
(* not cut short the helm runs of the others (runComponents' comment).     *)
(***************************************************************************)
PendingNeedsASignal ==
    \A c \in Ids : release[c] = "pending" => st[c] = "helm" \/ signalled

(***************************************************************************)
(* The cert-manager webhook is open only while the bypass runs, in every   *)
(* run of the pipeline, also after a run that died inside the bypass,      *)
(* unless the patch that closes it failed.                                 *)
(***************************************************************************)
WebhookClosedOutsideBypass ==
    phase = "pipeline" /\ webhook = "Ignore" =>
        unrestored \/ ("cert-manager" \in Ids /\ st["cert-manager"] = "bypass")

(***************************************************************************)
(* Deploying again finishes what failed, was interrupted or was killed     *)
(* ("Run kates deploy again to finish: it picks up the releases an         *)
(* interrupted run left pending").                                         *)
(***************************************************************************)
RerunsConverge == <>(exit = "ok")
=============================================================================
