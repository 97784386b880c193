--------------------------- MODULE LocalProcesses ---------------------------
(***************************************************************************)
(* The kates processes of one user on one machine, and what they share:    *)
(* the config file with its lock, the API key kates copies into it from    *)
(* the cluster's Secret, the port-forward on the local API port, and the   *)
(* cache of published charts.  Each process runs one command; it may be    *)
(* killed between any two steps, and `kates ports` kills the others of its *)
(* kind.  What is kept of a context is its URL, its key and its key-source *)
(* (the key that kates itself stored there, as a hash in the code).        *)
(***************************************************************************)
EXTENDS Naturals, FiniteSets

CONSTANTS
    Procs,       \* processes
    Scenes,      \* the commands each may run: a set of functions [Procs -> SUBSET of the names]
    Contexts,    \* context names besides "ports"
    Accepts,     \* the keys the API at each URL accepts: [{"local", "remote"} -> SUBSET Keys]
    Cosign,      \* the processes that find cosign on their PATH
    Signed,      \* the chart digests that the publish workflow signed
    Attested,    \* the chart digests for which GitHub holds its build provenance
    Digests,     \* the digests the registry may have under the version
    MaxFaults    \* bound on kills, unreadable Secrets, failing calls, rotations and republications

ASSUME LocalAssumption ==
    /\ Signed \subseteq Digests /\ Signed # {} /\ "none" \notin Digests
    /\ Attested \subseteq Digests
    /\ Cosign \subseteq Procs /\ "none" \notin Procs
    /\ Contexts # {} /\ Contexts \cap {"", "ports"} = {}
    /\ MaxFaults \in Nat

VARIABLES
    cfg,     \* the config file: its contexts and the current one
    lock,    \* the process that holds the config lock, or "none"
    secret,  \* the key in Secret kates-api-key
    mine,    \* history: contexts whose key the user set
    port,    \* who listens on the local API port: "free", "other", or "kates"
    cache,   \* the cached chart, its marker (and whether it tells of the provenance), what the registry
             \* serves, and, as history, whether a checked and an unchecked chart were put in at once
    pr,      \* per process
    faults   \* faults so far

vars == <<cfg, lock, secret, mine, port, cache, pr, faults>>

Names == Contexts \union {"ports"}
Keys == {"s1", "s2", "u"}
NoKey == ""
Urls == {"local", "remote"}
NoContext == [url |-> "", key |-> NoKey, src |-> NoKey]

Idle == [cmd |-> "none", at |-> "", ctx |-> "ports", before |-> NoContext, want |-> NoContext,
         snap |-> [ctxs |-> [c \in Names |-> NoContext], cur |-> ""], key |-> "unread", url |-> "",
         taken |-> FALSE, digest |-> "none", cached |-> FALSE, signed |-> FALSE, provenance |-> FALSE,
         missed |-> FALSE,       \* history: it overlooked another kates ports
         raced |-> FALSE,        \* history: a program took the port after it had looked
         answered |-> "nobody"]  \* history: who listened when it found its forward active

OnContext == {"ctx set", "ctx use", "ctx delete", "ctx import"}
\* "deploy ports" is the forwarding at the end of a deploy --port-forward, which runs the same code.
Forwarding == {"ports", "deploy ports"}
Syncing == Forwarding \union {"deploy"}
Commands == OnContext \union Syncing \union {"watch", "charts"}

\* The first step of each command.
First(cmd) ==
    CASE cmd \in Forwarding -> "stop others" [] cmd = "deploy" -> "secret" [] cmd = "watch" -> "repair"
      [] cmd = "charts" -> "look" [] OTHER -> "lock"

Init ==
    /\ \E key \in {NoKey, "s1", "u"}, own \in BOOLEAN :
           /\ cfg = [ctxs |-> [c \in Names |-> IF c = "ports" THEN NoContext
                                  ELSE [url |-> "remote", key |-> key, src |-> IF own THEN key ELSE NoKey]],
                     cur |-> CHOOSE c \in Contexts : TRUE]
           /\ own <=> key = "s1"
           /\ mine = IF key # NoKey /\ ~own THEN Contexts ELSE {}
    /\ lock = "none" /\ secret = "s1" /\ faults = 0
    /\ port \in {"free", "other", "kates"}
    /\ cache = [chart |-> "none", marker |-> "none", attested |-> FALSE, crossed |-> FALSE,
                serves |-> CHOOSE d \in Signed : TRUE]
    /\ \E does \in Scenes, f \in [Procs -> Commands \X Names] :
           /\ \A p \in Procs : f[p][1] \in does[p] /\ (f[p][1] \notin OnContext => f[p][2] = "ports")
           /\ pr = [p \in Procs |-> [Idle EXCEPT !.cmd = f[p][1], !.ctx = f[p][2], !.at = First(f[p][1])]]

Fault == faults < MaxFaults /\ faults' = faults + 1
Ended == {"ok", "failed", "killed"}
\* A process that ends keeps nothing.
To(p, at) ==
    pr' = [pr EXCEPT ![p] = IF at \in Ended
                            THEN [Idle EXCEPT !.cmd = pr[p].cmd, !.at = at,
                                              !.raced = pr[p].raced, !.answered = pr[p].answered]
                            ELSE [pr[p] EXCEPT !.at = at]]
Set(p, r) == pr' = [pr EXCEPT ![p] = r]
At(p, at) == pr[p].at = at
Alive(p) == pr[p].at \notin Ended
\* A `kates ports` that has not stopped the others has done nothing yet; the command line of a deploy
\* does not say that it forwards ports (isKatesPortsCommand).
Ports(p) == pr[p].cmd = "ports" /\ Alive(p) /\ pr[p].at # "stop others"
Saves(p) == pr[p].at = "write" /\ pr'[p].at = "ok"
Files == <<cfg, mine>>

-----------------------------------------------------------------------------
(***************************************************************************)
(* Keys.                                                                   *)
(***************************************************************************)
\* kates may replace a key it stored itself, and set one where there is none.
keySourceMatches(c) == c.src # NoKey /\ c.src = c.key
keyReplaceable(c) == c.key = NoKey \/ keySourceMatches(c)
storeSecretKey(c, k) == [c EXCEPT !.key = k, !.src = k]
sameKey(a, b) == a.key = b.key /\ a.src = b.src

\* The API's word on a key, when it can be asked.
checkAPIKey(url, k) ==
    IF faults < MaxFaults THEN {"unverified", IF k \in Accepts[url] THEN "accepted" ELSE "rejected"}
    ELSE {IF k \in Accepts[url] THEN "accepted" ELSE "rejected"}

fetchKatesAPIKey == IF faults < MaxFaults THEN {secret, "unread"} ELSE {secret}

(***************************************************************************)
(* kates ports.                                                            *)
(***************************************************************************)
\* Other `kates ports` processes die where they are; the kernel frees a lock they hold.  pgrep or ps
\* may fail, and those it does not tell of go on.
stopOtherPortsCommands(p) ==
    /\ At(p, "stop others")
    /\ \E missed \in SUBSET {q \in Procs \ {p} : Ports(q)} :
           LET others == {q \in Procs \ {p} : Ports(q)} \ missed IN
           /\ IF missed = {} THEN UNCHANGED faults ELSE Fault
           /\ pr' = [q \in Procs |-> IF q \in others THEN [Idle EXCEPT !.cmd = "ports", !.at = "killed"]
                                     ELSE IF q = p THEN [pr[p] EXCEPT !.at = "stop forwards", !.missed = (missed # {})]
                                     ELSE pr[q]]
           /\ lock' = IF lock \in others THEN "none" ELSE lock
    /\ UNCHANGED <<cfg, secret, mine, port, cache>>

stopOwnPortForwards(p) ==
    /\ At(p, "stop forwards")
    /\ port' = IF port = "kates" THEN "free" ELSE port
    /\ To(p, "taken")
    /\ UNCHANGED <<cfg, lock, secret, mine, cache, faults>>

\* Mutant: no look at who listens.
takenLocalPortsUnasked(p) ==
    /\ At(p, "taken") /\ To(p, "start forward")
    /\ UNCHANGED <<cfg, lock, secret, mine, port, cache, faults>>
\* No service found: nothing to forward, and a success.
takenLocalPorts(p) ==
    /\ At(p, "taken")
    /\ \/ Set(p, [pr[p] EXCEPT !.at = "start forward", !.taken = (port # "free")])
       \/ To(p, "ok")
    /\ UNCHANGED <<cfg, lock, secret, mine, port, cache, faults>>

\* kubectl binds the port or exits; either way a port that answers is active, whoever answers, and
\* only then the context follows.
verifyPortForwards(p) ==
    /\ At(p, "start forward")
    /\ port' \in IF pr[p].taken \/ port # "free" THEN {port} ELSE {"free", "kates"}
    /\ IF ~pr[p].taken /\ port' # "free" THEN Set(p, [pr[p] EXCEPT !.answered = port', !.at = "before"])
       ELSE To(p, "failed")
    /\ UNCHANGED <<cfg, lock, secret, mine, cache, faults>>

\* The slow part is done on a snapshot, before the lock is taken.
syncPortsContext(p) ==
    /\ At(p, "before")
    /\ LET before == cfg.ctxs["ports"] IN
           \/ /\ ~keyReplaceable(before)
              /\ Set(p, [pr[p] EXCEPT !.before = before, !.want = before, !.key = "user", !.at = "lock", !.ctx = "ports"])
           \/ /\ keyReplaceable(before)
              /\ \E k \in fetchKatesAPIKey :
                 \E verdict \in IF k = "unread" THEN {"unverified"} ELSE checkAPIKey("local", k) :
                     Set(p, [pr[p] EXCEPT !.before = before, !.at = "lock", !.ctx = "ports",
                              !.key = IF k = "unread" \/ verdict = "rejected" THEN "kept" ELSE "secret",
                              !.want = IF k = "unread" \/ verdict = "rejected" THEN before ELSE storeSecretKey(before, k)])
    /\ UNCHANGED <<cfg, lock, secret, mine, port, cache, faults>>

\* Mutant: what was decided before the lock is stored as it is.
portsChangeOfTheSnapshot(p, c) == [c EXCEPT !.ctxs["ports"] = [pr[p].want EXCEPT !.url = "local"], !.cur = "ports"]

\* Under the lock, on the file as it is now: a key that changed meanwhile to one kates may not
\* replace is kept.
portsChange(p, c) ==
    LET pc == c.ctxs["ports"]
        replace == \/ sameKey(pc, pr[p].before) \/ sameKey(pc, pr[p].want)
                   \/ pr[p].key = "secret" /\ keyReplaceable(pc)
        key == IF replace THEN [pc EXCEPT !.key = pr[p].want.key, !.src = pr[p].want.src] ELSE pc
    IN [ctxs |-> [c.ctxs EXCEPT !["ports"] = [key EXCEPT !.url = "local"]], cur |-> "ports"]

(***************************************************************************)
(* The end of a deploy: the Secret's key for the active context.           *)
(***************************************************************************)
syncActiveContextKey(p) ==
    /\ At(p, "secret")
    /\ \E k \in fetchKatesAPIKey :
           IF k = "unread" \/ cfg.cur = "" THEN To(p, "ok")
           ELSE LET before == cfg.ctxs[cfg.cur]
                    ask == before.url # "" /\ before.key # k /\ keyReplaceable(before) IN
                \E verdict \in IF ask THEN checkAPIKey(before.url, k) ELSE {"unverified"} :
                    Set(p, [pr[p] EXCEPT !.ctx = cfg.cur, !.want = storeSecretKey(before, k), !.at = "lock",
                             !.url = IF ask THEN before.url ELSE "", !.key = verdict])
    /\ UNCHANGED <<cfg, lock, secret, mine, port, cache, faults>>

\* Mutant: the URL that was asked is not compared with the one there now.
deployStoresAnywhere(p, c) ==
    LET now == c.ctxs[pr[p].ctx] IN
    now.url # "" /\ now.key # pr[p].want.key /\ keyReplaceable(now) /\ pr[p].key = "accepted"

\* Stored only in a context that still has the URL whose API accepted the key.
deployStores(p, c) ==
    LET now == c.ctxs[pr[p].ctx] IN
    /\ now.url # "" /\ now.key # pr[p].want.key /\ keyReplaceable(now)
    /\ pr[p].key = "accepted" /\ now.url = pr[p].url

deployChange(p, c) ==
    IF deployStores(p, c) THEN [c EXCEPT !.ctxs[pr[p].ctx] = storeSecretKey(@, pr[p].want.key)] ELSE c

(***************************************************************************)
(* kates ctx: what each changes of the file read under the lock.           *)
(***************************************************************************)
\* --api-key clears the key-source: the key is the user's now.  --replace forgets the rest.
\* The only context there is becomes the current one.
ctxSetCmd(c, n) ==
    LET only(d) == IF \A m \in Names \ {n} : d.ctxs[m].url = "" THEN [d EXCEPT !.cur = n] ELSE d IN
    {only(d) : d \in
    {[c EXCEPT !.ctxs[n] = [url |-> IF @.url = "" THEN "remote" ELSE @.url, key |-> "u", src |-> NoKey]],
     [c EXCEPT !.ctxs[n].url = "local"],
     [c EXCEPT !.ctxs[n] = [url |-> "local", key |-> NoKey, src |-> NoKey]]}}
ctxUseCmd(c, n) == IF c.ctxs[n].url = "" THEN {c} ELSE {[c EXCEPT !.cur = n]}
ctxDeleteCmd(c, n) ==
    IF c.ctxs[n].url = "" THEN {c}
    ELSE {[ctxs |-> [c.ctxs EXCEPT ![n] = NoContext],
           cur |-> IF c.cur # n THEN c.cur
                   ELSE IF \E m \in Names \ {n} : c.ctxs[m].url # "" THEN CHOOSE m \in Names \ {n} : c.ctxs[m].url # "" ELSE ""]}
\* A masked key in the file keeps the one there, if the context still means the same server;
\* a key that is given is the user's.
importContext(c, n) ==
    {[c EXCEPT !.ctxs[n] = [url |-> u, key |-> IF u = @.url THEN @.key ELSE NoKey,
                                       src |-> IF u = @.url THEN @.src ELSE NoKey]] : u \in Urls}
    \union {[c EXCEPT !.ctxs[n] = [url |-> "remote", key |-> "u", src |-> NoKey]]}

Changes(p, c) ==
    CASE pr[p].cmd \in Forwarding -> {portsChange(p, c)}
      [] pr[p].cmd = "deploy" -> {deployChange(p, c)}
      [] pr[p].cmd = "ctx set" -> ctxSetCmd(c, pr[p].ctx)
      [] pr[p].cmd = "ctx use" -> ctxUseCmd(c, pr[p].ctx)
      [] pr[p].cmd = "ctx delete" -> ctxDeleteCmd(c, pr[p].ctx)
      [] pr[p].cmd = "ctx import" -> importContext(c, pr[p].ctx)

(***************************************************************************)
(* updateConfig: lock, read, change, replace the file by a rename, unlock. *)
(***************************************************************************)
\* Only another process that holds the lock for 5 s is an error.
lockConfig(p) == IF lock = "none" THEN lock' = p ELSE FALSE

readConfig(p) ==
    /\ At(p, "lock")
    /\ \/ lockConfig(p) /\ Set(p, [pr[p] EXCEPT !.snap = cfg, !.at = "write"])
       \/ lock # "none" /\ To(p, "failed") /\ UNCHANGED lock
    /\ UNCHANGED <<cfg, secret, mine, port, cache, faults>>

\* Whose key a context holds after the change.
Owned(p, new) ==
    IF pr[p].cmd \in Syncing THEN mine \ {c \in Names : new.ctxs[c].key = NoKey}
    ELSE {c \in Names : new.ctxs[c].key # NoKey /\ (c \in mine \/ ~sameKey(new.ctxs[c], cfg.ctxs[c]))}

\* The rename is one step; a write that fails leaves the old file.
writeConfigFile(p) ==
    /\ At(p, "write")
    /\ lock' = IF lock = p THEN "none" ELSE lock
    /\ \/ \E new \in Changes(p, pr[p].snap) :
              cfg' = new /\ mine' = Owned(p, new) /\ To(p, "ok") /\ UNCHANGED faults
       \/ Fault /\ To(p, "failed") /\ UNCHANGED Files
    /\ UNCHANGED <<secret, port, cache>>

(***************************************************************************)
(* A watch whose polls fail restarts the forward of the active context     *)
(* "ports": it never takes a port that something listens on.               *)
(***************************************************************************)
repairLocalAPIPortForward(p) ==
    \/ /\ At(p, "repair")
       /\ To(p, IF cfg.cur # "ports" \/ port # "free" THEN "ok" ELSE "repair start")
       /\ UNCHANGED <<cfg, lock, secret, mine, port, cache, faults>>
    \/ /\ At(p, "repair start")
       /\ port' \in IF port = "free" THEN {"free", "kates"} ELSE {port}
       /\ To(p, "ok")
       /\ UNCHANGED <<cfg, lock, secret, mine, cache, faults>>

(***************************************************************************)
(* The chart cache.                                                        *)
(***************************************************************************)
\* A copy that is cached is used when the network is off or the pull fails, or when it may be kept.
pullPublishedChart(p) ==
    /\ At(p, "look")
    /\ \/ Set(p, [pr[p] EXCEPT !.cached = (cache.chart # "none"), !.digest = cache.serves, !.at = "verify chart"])
       \/ To(p, IF cache.chart # "none" THEN "check" ELSE "failed")
    /\ UNCHANGED <<cfg, lock, secret, mine, port, cache, faults>>

\* The provenance is in order; or the attestations cannot be read, and it stays unchecked; or it is
\* not in order, or cosign fails, and the chart is refused; or it fails otherwise, as a pull does.
verifyProvenance(p) ==
    \/ pr[p].digest \in Attested /\ Set(p, [pr[p] EXCEPT !.signed = TRUE, !.provenance = TRUE, !.at = "unmark"])
    \/ Set(p, [pr[p] EXCEPT !.signed = TRUE, !.at = "unmark"])
    \/ To(p, "failed")
    \/ pr[p].cached /\ To(p, "check")

\* A digest the marker names has a signature that was checked, and is checked for what the marker does
\* not tell.  Without cosign another chart is used unchecked; with it, one whose signature does not
\* verify is refused, whatever is cached.
verifyChart(p) ==
    /\ At(p, "verify chart")
    /\ LET known == cache.marker = pr[p].digest IN
           \/ known /\ cache.attested /\ Set(p, [pr[p] EXCEPT !.signed = TRUE, !.provenance = TRUE, !.at = "unmark"])
           \/ p \notin Cosign /\ ~(known /\ cache.attested) /\ Set(p, [pr[p] EXCEPT !.signed = known, !.at = "unmark"])
           \/ p \in Cosign /\ ~known /\ To(p, "failed")
           \/ p \in Cosign /\ ~(known /\ cache.attested) /\ (known \/ pr[p].digest \in Signed) /\ verifyProvenance(p)
    /\ UNCHANGED <<cfg, lock, secret, mine, port, cache, faults>>

\* The pulls of the others that are putting a chart in.
PuttingIn(p) == {q \in Procs \ {p} : pr[q].at \in {"aside", "swap", "mark"}}
Crosses(p) == \E q \in PuttingIn(p) : pr[q].signed # pr[p].signed

\* Mutant: the marker of an earlier chart stays.
unmarkedNot(p) == cache
unmarked(p) == IF pr[p].signed THEN cache ELSE [cache EXCEPT !.marker = "none", !.attested = FALSE]

\* An unchecked chart loses the marker before it is swapped in; a checked one gets it after.  Once a
\* pull has the cache to itself, what pulls that crossed have left there is mended.
fetchPublishedChart(p) ==
    \/ /\ At(p, "unmark")
       /\ cache' = [unmarked(p) EXCEPT !.crossed = Crosses(p) \/ (@ /\ (pr[p].signed \/ PuttingIn(p) # {}))]
       /\ To(p, "aside")
       /\ UNCHANGED <<cfg, lock, secret, mine, port, faults>>
    \/ /\ At(p, "aside")
       /\ cache' = [cache EXCEPT !.chart = "none", !.crossed = @ /\ (~pr[p].signed \/ PuttingIn(p) # {})]
       /\ To(p, "swap")
       /\ UNCHANGED <<cfg, lock, secret, mine, port, faults>>
    \* Another process put the same version there: its chart is used, and its marker.
    \/ /\ At(p, "swap")
       /\ IF cache.chart = "none"
          THEN cache' = [cache EXCEPT !.chart = pr[p].digest] /\ To(p, IF pr[p].signed THEN "mark" ELSE "check")
          ELSE UNCHANGED cache /\ To(p, "check")
       /\ UNCHANGED <<cfg, lock, secret, mine, port, faults>>
    \/ /\ At(p, "mark")
       /\ cache' = [cache EXCEPT !.marker = pr[p].digest, !.attested = pr[p].provenance]
       /\ To(p, "check")
       /\ UNCHANGED <<cfg, lock, secret, mine, port, faults>>

\* A warning; with KATES_REQUIRE_SIGNED_CHARTS a chart without a marker that tells of its provenance
\* is refused.
checkChartSignatures(p) ==
    /\ At(p, "check")
    /\ \E refuses \in BOOLEAN :
           To(p, IF refuses /\ (cache.marker = "none" \/ ~cache.attested) THEN "failed" ELSE "ok")
    /\ UNCHANGED <<cfg, lock, secret, mine, port, cache, faults>>

-----------------------------------------------------------------------------
(***************************************************************************)
(* Around them: kills, a rotated Secret, a republished chart, and other    *)
(* programs, which come and go and may take the port when it is free.      *)
(***************************************************************************)
Killed(p) ==
    /\ Alive(p) /\ Fault
    /\ To(p, "killed")
    /\ lock' = IF lock = p THEN "none" ELSE lock
    /\ UNCHANGED <<cfg, secret, mine, port, cache>>

World ==
    \/ Fault /\ secret = "s1" /\ secret' = "s2" /\ UNCHANGED <<cfg, lock, mine, port, cache, pr>>
    \/ /\ Fault /\ \E d \in Digests \ {cache.serves} : cache' = [cache EXCEPT !.serves = d]
       /\ UNCHANGED <<cfg, lock, secret, mine, port, pr>>
    \/ port = "other" /\ port' = "free" /\ UNCHANGED <<cfg, lock, secret, mine, cache, pr, faults>>
    \/ /\ port = "free" /\ port' = "other"
       /\ pr' = [p \in Procs |-> [pr[p] EXCEPT !.raced = @ \/ At(p, "start forward")]]
       /\ UNCHANGED <<cfg, lock, secret, mine, cache, faults>>
    \/ Fault /\ port = "kates" /\ port' = "free" /\ UNCHANGED <<cfg, lock, secret, mine, cache, pr>>

Works(p) ==
    \/ stopOtherPortsCommands(p) \/ stopOwnPortForwards(p) \/ takenLocalPorts(p) \/ verifyPortForwards(p)
    \/ syncPortsContext(p) \/ syncActiveContextKey(p)
    \/ readConfig(p) \/ writeConfigFile(p)
    \/ repairLocalAPIPortForward(p)
    \/ pullPublishedChart(p) \/ verifyChart(p) \/ fetchPublishedChart(p) \/ checkChartSignatures(p)

Next == World \/ \E p \in Procs : Works(p) \/ Killed(p)

\* A process that runs takes its next step.
Spec == Init /\ [][Next]_vars /\ \A p \in Procs : WF_vars(Works(p))

-----------------------------------------------------------------------------
(***************************************************************************)
(* Properties.                                                             *)
(***************************************************************************)
\* The file is always a whole config, and a lock is held only by a process that is saving.
TypeOK ==
    /\ \A c \in Names : cfg.ctxs[c].url \in Urls \union {""} /\ cfg.ctxs[c].key \in Keys \union {NoKey}
    /\ cfg.cur \in Names \union {""}
    /\ lock # "none" => pr[lock].at = "write"
    /\ port \in {"free", "other", "kates"} /\ faults \in 0..MaxFaults

\* A key the user set is never replaced by the cluster's, whatever else is saved while kates ports or
\* kates deploy read the Secret and ask the API (syncPortsContext, syncActiveContextKey).
UserKeyIsKept ==
    [][\A c \in mine : \A p \in Procs :
           (pr[p].cmd \in Syncing /\ Saves(p)) => cfg'.ctxs[c].key = cfg.ctxs[c].key]_vars

\* A save changes the context its command is about and the current one, and puts nothing else back
\* to what it was when the command started (updateConfig).
SavesTouchTheirOwn ==
    [][\A p \in Procs : Saves(p) => \A c \in Names \ {pr[p].ctx} : cfg'.ctxs[c] = cfg.ctxs[c]]_vars

\* The config stays the user's: what several commands save at once is what each of them is about.
ConfigIsTheUsers == UserKeyIsKept /\ SavesTouchTheirOwn

\* A key deploy stores is one the API at the context's URL accepts, though the check is made before
\* the lock is taken and the context may change in between (syncActiveContextKey).
DeployedKeyWorks ==
    [][\A p \in Procs : (pr[p].cmd = "deploy" /\ Saves(p)) =>
           \A c \in Names : cfg'.ctxs[c] # cfg.ctxs[c] => cfg'.ctxs[c].key \in Accepts[cfg'.ctxs[c].url]]_vars

\* Of several kates ports that find one another, one at a time gets past stopping the others
\* (stopOtherPortsCommands).
OnePortsAtATime ==
    Cardinality({p \in Procs : Ports(p) /\ ~pr[p].missed}) <= 1

\* The program that answers at the endpoint the "ports" context is given is kates' own forward, unless
\* it took the port between kates' look and kubectl's bind: the one that had it before never is, though
\* whoever answers is taken for the API (takenLocalPorts, verifyPortForwards).
EndpointIsNotAnothers ==
    \A p \in Procs : pr[p].answered = "other" => pr[p].raced

\* The local ports are one command's, and kates' own.
PortsAreItsOwn == OnePortsAtATime /\ EndpointIsNotAnothers

\* A chart beside a marker is one whose signature was checked (chartVerified), however pulls
\* interleave, die and meet a republished version, with cosign and without: until a checked and an
\* unchecked pull put their charts in at once, and from the next pull that is alone.
MarkedChartIsSigned ==
    cache.marker # "none" /\ cache.chart # "none" /\ ~cache.crossed => cache.chart \in Signed
=============================================================================
