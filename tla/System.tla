------------------------------- MODULE System -------------------------------
(***************************************************************************)
(* The running daemon: check schedulers, their registry, the policy        *)
(* manager over BGP, the config reloader and ad-hoc checks over HTTP       *)
(* (internal/reload, internal/checks, internal/policy, internal/httpapi).  *)
(*                                                                         *)
(* Goroutines and what they may interleave at:                             *)
(*  - every scheduler runs one check at a time (runMu): the check, the     *)
(*    update of its state, the result callback, the transition callback;   *)
(*  - a reload (SIGHUP or HTTP) and the reloader's own loop work under     *)
(*    Reloader.mu.  Its holder is at one point of reloadLocked or          *)
(*    commitLocked with their locals; a step is one call into another      *)
(*    component, and it waits for goroutines to exit in between;           *)
(*  - one HTTP request works through a snapshot of a VIP's schedulers.     *)
(* A policy callback is one step: it runs under the policy manager's own   *)
(* mutex (PolicyManager).  A scheduler is used through CheckVerdict, which *)
(* Scheduler implements: one result may leave any verdict.                 *)
(*                                                                         *)
(* Left out: order of VIPs and of map iteration (one fixed order), log     *)
(* level, metrics, reload outcome records.  A rejected load or build and a *)
(* reload of an unchanged file change nothing of this state.               *)
(***************************************************************************)
EXTENDS Naturals, Sequences, FiniteSets, Functions

CONSTANTS
    Names, CheckNames, Defs, VIPPrefixes, Absent, NoRoute,
    Configs,    \* the validated configs the file may hold
    Boot,       \* those among them the daemon may have been started with
    SchedIds,   \* bound: schedulers that exist at a time
    Faults,     \* the ways BGP operations fail, of PolicyManager's Outcomes
    MaxFaults,  \* bound: calls of the policy manager with a failing operation
    MaxReloads, \* bound: reloads in a behaviour
    MaxRequests,\* bound: HTTP requests that trigger checks in a behaviour
    NoHash      \* the zeroed hash after a failed removal

Files == {}

VARIABLES
    vips, bgp, present, exempt,  \* PolicyManager
    sched, visible,              \* Registry
    cur,       \* Reloader.cur
    curHash,   \* the config whose hash is kept, or NoHash
    staging,   \* per VIP its stagedVIP, or Absent
    verdicts,  \* Reloader.verdicts
    wake,      \* the wake channel holds a token
    ready,     \* commitReady's local, from vmu to mu
    loopAt,    \* the reloader's loop: "select" or "ready"
    owner,     \* who holds Reloader.mu: "reload", "loop" or "nobody"
    at,        \* the point its holder is at, or "none"
    waits,     \* the stopped schedulers it waits for, to close them
    file, base,     \* reloadLocked: the file, and the VIPs it is diffed against
    diff,           \* what is left to apply of diff.Removed, Added and Changed
    running, nth,   \* its copy of the list that RemoveVIP has come nth cells through
    failed,         \* the kept definitions of failed removals
    commits,   \* per VIP the stagedVIP the loop has still to commit, or Absent
    seeds, sh, \* commitLocked: the healths it seeded, the shadow it compares
    http,      \* schedulers the HTTP request has still to trigger
    reloads, requests, faults,  \* how many there were, up to the bounds
    panicked,  \* a nil scheduler was dereferenced
    misled     \* history: <<VIP, check>> given a health that was not current

policyVars == <<vips, bgp, present, exempt>>
regVars == <<sched, visible>>
loopVars == <<verdicts, wake, ready, loopAt>>
reloadVars == <<file, base, diff, running, nth, failed>>
commitVars == <<commits, seeds, sh>>
holderVars == <<owner, at, waits, reloadVars, commitVars>>
configVars == <<cur, curHash, staging>>
budgetVars == <<reloads, requests, faults>>
vars == <<policyVars, regVars, loopVars, holderVars, configVars, http, panicked, misled,
          budgetVars>>

Policy == INSTANCE PolicyManager
Reg == INSTANCE Registry
Diff == INSTANCE ConfigDiff
(* CheckVerdict!After: a result that decides nothing leaves the health h.  *)
Verdict(h) == {r \in [healthy: BOOLEAN, decided: BOOLEAN] : r.decided \/ r.healthy = h}

(***************************************************************************)
(* What the components hold: a running check with the callback it read, a  *)
(* scheduler, a stagedVIP and what is left of one that is being committed. *)
(***************************************************************************)
Callbacks == {"none", "watch", "policy"}
Runs == {Reg!NoRun} \cup [at: {"result", "transition"}, by: {"loop", "http"}, cb: Callbacks,
                          decided: BOOLEAN, crossed: BOOLEAN]
Specs == UNION {{d.specs[c] : c \in d.checks} : d \in Defs}
Schedulers == [vip: Names, check: CheckNames, spec: Specs, healthy: BOOLEAN, cb: Callbacks,
               loop: {"off", "on", "cancelled"}, run: Runs, closed: BOOLEAN, reached: BOOLEAN]
StagedVIPs == [def: Defs, old: Defs, shadows: SUBSET SchedIds, verdicts: SUBSET CheckNames]
CommittedVIPs == [def: Defs, old: Defs, shadows: SUBSET SchedIds]

(* A validated config: known definitions, every prefix once.               *)
ASSUME ConfigsAssumption ==
    /\ Configs \subseteq [Names -> Defs \cup {Absent}] /\ Boot \subseteq Configs
    /\ \A c \in Configs : \A v, w \in Names :
           v # w /\ c[v] # Absent /\ c[w] # Absent => c[v].prefix # c[w].prefix

(* A validated VIP has checks, finitely many.                              *)
ASSUME DefsAssumption ==
    \A d \in Defs :
        /\ d.prefix \in VIPPrefixes
        /\ d.checks \subseteq CheckNames /\ d.checks # {}
        /\ Cardinality(d.checks) \in Nat /\ Bijection(1..Cardinality(d.checks), d.checks) # {}

ASSUME FaultsAssumption == Faults \subseteq Policy!Outcomes

(* "nil" is none of the values, and no route is not a route.               *)
ASSUME AbsentAssumption ==
    /\ Absent \notin Defs /\ Absent \notin BOOLEAN /\ Absent \notin SchedIds
    /\ Absent \notin Schedulers /\ Absent \notin StagedVIPs /\ Absent \notin CommittedVIPs
    /\ Absent \notin Policy!Entry /\ NoRoute \notin Policy!Routes

reg == [started |-> TRUE, sched |-> sched, visible |-> visible]
SetReg(r) == sched' = r.sched /\ visible' = r.visible

Live == {s \in SchedIds : sched[s] # Absent}
Requested == Range(http)
Listed(v) == Range(visible[v])
Idle(s) == sched[s].run = Reg!NoRun
MuFree == owner = "nobody"

-----------------------------------------------------------------------------
(* Calls of the policy manager by a goroutine that may be out of date: an  *)
(* unknown VIP or check is logged and ignored.                             *)
Known(v, c) == v \in Policy!Registered /\ Policy!ReportedCheck(vips[v], c) # {}

(* The outcomes one call may meet, and counting the failing ones.          *)
Outcomes == IF faults < MaxFaults THEN Faults \cup {"ok"} ELSE {"ok"}
Count(os) == faults' = IF os = {"ok"} THEN faults ELSE faults + 1

TellHealth(v, c, healthy) ==
    IF Known(v, c)
    THEN \E o \in Outcomes : Policy!OnHealthTransition(v, c, healthy, o) /\ Count({o})
    ELSE UNCHANGED <<policyVars, faults>>

TellResult(v, c) ==
    IF Known(v, c)
    THEN \E o, r \in Outcomes : Policy!OnCheckResult(v, c, o, r) /\ Count({o, r})
    ELSE UNCHANGED <<policyVars, faults>>

-----------------------------------------------------------------------------
(***************************************************************************)
(* Schedulers.  A run is at "idle", "result" or "transition": what it has  *)
(* to call next.                                                           *)
(* The loop's select may take a tick although its context is cancelled.    *)
(***************************************************************************)
(* A closed scheduler nothing refers to any more is garbage; while it is   *)
(* still referred to only its identity matters.                            *)
Collected(sch, refs) ==
    [s \in SchedIds |->
        IF sch[s] = Absent \/ ~sch[s].closed \/ sch[s].run # Reg!NoRun THEN sch[s]
        ELSE IF s \notin refs THEN Absent
        ELSE [sch[s] EXCEPT !.healthy = s \in Requested /\ sch[s].healthy, !.reached = FALSE]]

LoopExits(s) ==
    /\ s \in Live /\ sched[s].loop = "cancelled"
    /\ sched[s].run.by # "loop"
    /\ sched' = [sched EXCEPT ![s].loop = "off"]
    /\ UNCHANGED <<policyVars, visible, loopVars, holderVars, configVars, http, panicked, misled, budgetVars>>

(* handleTriggerCheck: one request at a time, over a copy of the list or   *)
(* for one check of it.  An aborted request triggers no further check.     *)
Request(v) ==
    /\ requests < MaxRequests /\ requests' = requests + 1
    /\ http = <<>> /\ \A s \in Live : sched[s].run.by # "http"
    /\ Listed(v) # {}
    /\ http' \in {visible[v]} \cup {<<s>> : s \in Listed(v)}
    /\ UNCHANGED <<policyVars, regVars, loopVars, holderVars, configVars, panicked, misled, reloads, faults>>

Aborted ==
    /\ http # <<>>
    /\ http' = <<>>
    /\ sched' = Collected(sched, verdicts \cup ready)
    /\ UNCHANGED <<policyVars, visible, loopVars, holderVars, configVars, panicked, misled, budgetVars>>

(***************************************************************************)
(* A check returns: under mu its state is updated and the callbacks are    *)
(* read.  Before that the run touches nothing, so lock, check and update   *)
(* are one step.                                                           *)
(***************************************************************************)
Observe(s, by) ==
    \E r \in Verdict(sched[s].healthy) :
        sched' = [sched EXCEPT
            ![s].healthy = r.healthy,
            ![s].run = [at |-> "result", by |-> by, cb |-> sched[s].cb,
                        decided |-> (r.decided /\ sched[s].cb = "watch"),
                        crossed |-> (r.healthy # sched[s].healthy /\ sched[s].cb = "policy")]]

Tick(s) ==
    /\ s \in Live /\ Idle(s) /\ sched[s].loop # "off"
    /\ Observe(s, "loop")
    /\ UNCHANGED <<policyVars, visible, loopVars, holderVars, configVars, http, panicked, misled, budgetVars>>

TriggerCheck(s) ==
    /\ http # <<>> /\ s = Head(http) /\ Idle(s)
    /\ \A o \in Live : sched[o].run.by # "http"
    /\ http' = Tail(http)
    /\ Observe(s, "http")
    /\ UNCHANGED <<policyVars, visible, loopVars, holderVars, configVars, panicked, misled, budgetVars>>

EndRun(sch, s, queued) ==
    sched' = Collected([sch EXCEPT ![s].run = Reg!NoRun], Requested \cup queued \cup ready)

Shadowing(s) == staging[sched[s].vip] # Absent /\ s \in staging[sched[s].vip].shadows

(* onCheckResult: the policy manager's, or watchShadow's, which queues a   *)
(* decided shadow and wakes the reloader.                                  *)
Result(s) ==
    /\ s \in Live /\ sched[s].run.at = "result"
    /\ LET run == sched[s].run
       IN  /\ IF run.cb = "policy" THEN TellResult(sched[s].vip, sched[s].check)
              ELSE UNCHANGED <<policyVars, faults>>
           /\ verdicts' = IF run.decided THEN verdicts \cup {s} ELSE verdicts
           /\ wake' = (wake \/ run.decided)
           /\ IF run.crossed
              THEN sched' = [sched EXCEPT ![s].run.at = "transition"]
              ELSE EndRun([sched EXCEPT ![s].reached = @ \/ (run.decided /\ Shadowing(s))], s, verdicts')
    /\ UNCHANGED <<visible, ready, loopAt, holderVars, configVars, http, panicked, misled, reloads, requests>>

(* onTransition, and whether it is the listed scheduler that speaks.       *)
Booked(v, c) == IF Known(v, c) THEN {v} \X Policy!ReportedCheck(vips[v], c) ELSE {}

Transition(s) ==
    /\ s \in Live /\ sched[s].run.at = "transition"
    /\ LET v == sched[s].vip
           c == sched[s].check
       IN  /\ TellHealth(v, c, sched[s].healthy)
           /\ misled' = IF s \in Listed(v) THEN misled \ Booked(v, c)
                        ELSE misled \cup Booked(v, c)
    /\ EndRun(sched, s, verdicts)
    /\ UNCHANGED <<visible, loopVars, holderVars, configVars, http, panicked, reloads, requests>>

-----------------------------------------------------------------------------
(* Reloader.mu is taken.  The order of VIPs and of schedulers is fixed.    *)
First(S) == CHOOSE x \in S : TRUE
Nothing == [v \in Names |-> Absent]
NoSeeds == [s \in SchedIds |-> Absent]
NoDiff == [removed |-> {}, added |-> {}, changed |-> {}]

Named(v, checks) == {s \in Listed(v) : sched[s].check \in checks}
Staged == {v \in Names : staging[v] # Absent}
ShadowsOf(S) == UNION {staging[v].shadows : v \in S}

(* What governs the routes now.                                            *)
EffectiveIgnoresStaging == cur

Effective == [v \in Names |-> IF staging[v] # Absent THEN staging[v].old ELSE cur[v]]

-----------------------------------------------------------------------------
(* Taking Reloader.mu.                                                     *)

(* Reload, when the operator has written a config other than the running   *)
(* one, or the hash was forgotten after a failed removal.                  *)
Reload ==
    /\ MuFree
    /\ reloads < MaxReloads /\ reloads' = reloads + 1
    /\ file' \in Configs \ {curHash}
    /\ base' = Effective
    /\ diff' = [removed |-> Diff!Removed(Effective, file'), added |-> Diff!Added(Effective, file'),
                changed |-> Diff!Changed(Effective, file')]
    /\ owner' = "reload" /\ at' = "drop"
    /\ UNCHANGED <<policyVars, regVars, loopVars, waits, running, nth, failed, commitVars,
                   configVars, http, panicked, misled, requests, faults>>

LoopFree == loopAt = "select" /\ owner # "loop"

(* The reloader's loop is woken and drains the verdicts before it asks for *)
(* the mutex.                                                              *)
Drain ==
    /\ LoopFree /\ wake
    /\ wake' = FALSE
    /\ ready' = verdicts
    /\ verdicts' = {}
    /\ loopAt' = "ready"
    /\ UNCHANGED <<policyVars, regVars, holderVars, configVars, http, panicked, misled, budgetVars>>

(* The staged VIPs once the drained verdicts are entered.                  *)
EnteredIgnoringSupersession ==
    [v \in Names |->
        IF staging[v] = Absent THEN Absent
        ELSE [staging[v] EXCEPT !.verdicts =
                 @ \cup {sched[s].check : s \in {r \in ready : sched[r].vip = v}}]]

Entered ==
    [v \in Names |->
        IF staging[v] = Absent THEN Absent
        ELSE [staging[v] EXCEPT !.verdicts =
                 @ \cup {sched[s].check : s \in ready \cap staging[v].shadows}]]

Complete(st) == st # Absent /\ \A s \in st.shadows : sched[s].check \in st.verdicts

Taken(S) ==
    [v \in Names |-> IF v \notin S THEN Absent
                     ELSE [def |-> staging[v].def, old |-> staging[v].old, shadows |-> staging[v].shadows]]

(* The history flag of shadows about to be committed has served.           *)
Settled(S) == [s \in SchedIds |-> IF s \in S THEN [sched[s] EXCEPT !.reached = FALSE] ELSE sched[s]]

commitReady ==
    /\ loopAt = "ready" /\ MuFree
    /\ LET done == {v \in Names : Complete(Entered[v])}
       IN  /\ commits' = Taken(done)
           /\ staging' = [v \in Names |-> IF v \in done THEN Absent ELSE Entered[v]]
           /\ owner' = IF done = {} THEN "nobody" ELSE "loop"
           /\ at' = IF done = {} THEN "none" ELSE "switch"
           /\ sched' = Collected(Settled(ShadowsOf(done)), Requested \cup verdicts)
    /\ loopAt' = "select"
    /\ ready' = {}
    /\ UNCHANGED <<policyVars, visible, verdicts, wake, waits, reloadVars, seeds, sh, cur, curHash,
                   http, panicked, misled, budgetVars>>

(* Some staged VIPs are past their deadline.                               *)
ExpiresDecidedOnly ==
    /\ LoopFree /\ MuFree
    /\ \E late \in (SUBSET {v \in Names : Complete(staging[v])}) \ {{}} :
           /\ commits' = Taken(late)
           /\ sched' = Settled(ShadowsOf(late))
           /\ staging' = [v \in Names |-> IF v \in late THEN Absent ELSE staging[v]]
    /\ owner' = "loop" /\ at' = "switch"
    /\ UNCHANGED <<policyVars, visible, loopVars, waits, reloadVars, seeds, sh, cur, curHash, http,
                   panicked, misled, budgetVars>>

expireStaged ==
    /\ LoopFree /\ MuFree
    /\ \E late \in (SUBSET Staged) \ {{}} :
           /\ commits' = Taken(late)
           /\ sched' = Settled(ShadowsOf(late))
           /\ staging' = [v \in Names |-> IF v \in late THEN Absent ELSE staging[v]]
    /\ owner' = "loop" /\ at' = "switch"
    /\ UNCHANGED <<policyVars, visible, loopVars, waits, reloadVars, seeds, sh, cur, curHash, http,
                   panicked, misled, budgetVars>>

-----------------------------------------------------------------------------
(***************************************************************************)
(* What the holder of Reloader.mu does.  At(p): it is at p and waits for   *)
(* no goroutine.                                                           *)
(***************************************************************************)
At(p) == at = p /\ waits = {}

(* Registry.Remove; when the goroutine has exited, closeSchedulers.        *)
Stop(s) == SetReg(Reg!Remove(reg, s)) /\ waits' = {s}

Closed(S, refs) ==
    sched' = Collected([s \in SchedIds |-> IF s \in S THEN [sched[s] EXCEPT !.closed = TRUE]
                                           ELSE sched[s]], refs)

DoClose ==
    /\ waits # {} /\ \A s \in waits : Reg!Stopped(reg, s)
    /\ Closed(waits, Requested \cup verdicts \cup ready)
    /\ waits' = {}
    /\ UNCHANGED <<policyVars, visible, loopVars, owner, at, reloadVars, commitVars, configVars,
                   http, panicked, misled, budgetVars>>

(* dropStagingLocked: every shadow is stopped.                             *)
Superseded == {s \in ShadowsOf(Staged) : s \in Live /\ sched[s].loop = "on"}

DoSupersede ==
    /\ At("drop") /\ Superseded # {}
    /\ Stop(First(Superseded))
    /\ UNCHANGED <<policyVars, loopVars, owner, at, reloadVars, commitVars, configVars,
                   http, panicked, misled, budgetVars>>

DoDropStaging ==
    /\ At("drop") /\ Superseded = {}
    /\ staging' = Nothing
    /\ verdicts' = {}
    /\ sched' = Collected(sched, Requested \cup ready)
    /\ at' = "diff"
    /\ UNCHANGED <<policyVars, visible, wake, ready, loopAt, owner, waits, reloadVars, commitVars,
                   cur, curHash, http, panicked, misled, budgetVars>>

-----------------------------------------------------------------------------
(* The apply part of reloadLocked: removed VIPs first, then added ones,    *)
(* then changed ones.                                                      *)
Removing == At("diff") /\ diff.removed # {}
Adding == At("diff") /\ diff.removed = {} /\ diff.added # {}
Changing == At("diff") /\ diff.removed = {} /\ diff.added = {} /\ diff.changed # {}

(* Registry.RemoveVIP ranges over the list as it was; Remove returns when  *)
(* the goroutine has exited.                                               *)
RunningOf(v) == IF nth = 0 THEN visible[v] ELSE running
Returned(list) == \A i \in DOMAIN list : sched[list[i]].loop # "cancelled"

DoRemoveNth ==
    /\ Removing /\ ~panicked
    /\ LET v == First(diff.removed)
           list == RunningOf(v)
           cell == Reg!Cell(reg, v, nth + 1)
       IN  /\ nth < Len(list) /\ Returned(list)
           /\ IF cell = {} THEN panicked' = TRUE /\ UNCHANGED <<regVars, running, nth>>
              ELSE /\ SetReg(Reg!Remove(reg, First(cell)))
                   /\ running' = list /\ nth' = nth + 1
                   /\ UNCHANGED panicked
    /\ UNCHANGED <<policyVars, loopVars, owner, at, waits, file, base, diff, failed, commitVars,
                   configVars, http, misled, budgetVars>>

(* pol.RemoveVIP; when the route could not be withdrawn the stopped        *)
(* schedulers run again and the old definition stays.                      *)
RemoveVIPForgetsChecks ==
    /\ Removing
    /\ LET v == First(diff.removed)
           list == RunningOf(v)
       IN  /\ nth = Len(list) /\ Returned(list)
           /\ \E o \in Outcomes : Policy!RemoveVIP(v, o) /\ Count({o})
           /\ Closed(Range(list), Requested \cup verdicts \cup ready)
           /\ failed' = IF vips'[v] = Absent THEN failed ELSE [failed EXCEPT ![v] = base[v]]
           /\ diff' = [diff EXCEPT !.removed = @ \ {v}]
    /\ running' = <<>> /\ nth' = 0
    /\ UNCHANGED <<visible, loopVars, owner, at, waits, file, base, commitVars, configVars, http,
                   panicked, misled, reloads, requests>>

DoRemoveVIP ==
    /\ Removing
    /\ LET v == First(diff.removed)
           list == RunningOf(v)
       IN  /\ nth = Len(list) /\ Returned(list)
           /\ \E o \in Outcomes : Policy!RemoveVIP(v, o) /\ Count({o})
           /\ IF vips'[v] = Absent
              THEN /\ Closed(Range(list), Requested \cup verdicts \cup ready)
                   /\ UNCHANGED <<visible, failed>>
              ELSE /\ SetReg(Reg!AddAll(reg, v, list))
                   /\ failed' = [failed EXCEPT ![v] = base[v]]
           /\ diff' = [diff EXCEPT !.removed = @ \ {v}]
    /\ running' = <<>> /\ nth' = 0
    /\ UNCHANGED <<loopVars, owner, at, waits, file, base, commitVars, configVars, http,
                   panicked, misled, reloads, requests>>

(***************************************************************************)
(* NewSchedulers for the given checks, with callbacks cb; their ids are    *)
(* free ones.  They are built before anything is applied, but until they   *)
(* are started nothing refers to them.                                     *)
(***************************************************************************)
Room(S, ids) == Injection(S, ids) # {}
FreshIds(S, ids) == CHOOSE f \in Injection(S, ids) : TRUE
Enumeration(S) == CHOOSE q \in Bijection(1..Cardinality(S), S) : TRUE
Free == {s \in SchedIds : sched[s] = Absent}

Built(v, def, ids, cb) ==
    [reg EXCEPT !.sched =
        [s \in SchedIds |->
            IF s \in Range(ids)
            THEN LET c == CHOOSE c \in DOMAIN ids : ids[c] = s
                 IN  [Reg!NewScheduler(v, c, def.specs[c]) EXCEPT !.cb = cb]
            ELSE sched[s]]]

(* An added VIP; skipped when its name is that of a failed removal.        *)
DoAddVIP ==
    /\ Adding
    /\ LET v == First(diff.added)
           def == file[v]
           ids == FreshIds(def.checks, Free)
           names == Enumeration(def.checks)
       IN  /\ IF failed[v] # Absent THEN UNCHANGED <<policyVars, regVars, misled>>
              ELSE /\ Room(def.checks, Free)
                   /\ Policy!AddVIP(v, def)
                   /\ SetReg(Reg!AddAll(Built(v, def, ids, "policy"), v, [i \in DOMAIN names |-> ids[names[i]]]))
                   /\ misled' = {m \in misled : m[1] # v}
           /\ diff' = [diff EXCEPT !.added = @ \ {v}]
    /\ UNCHANGED <<loopVars, owner, at, waits, file, base, running, nth, failed, commitVars, configVars,
                   http, panicked, budgetVars>>

(* A changed VIP with changed checks: run them in shadow.                  *)
DoStage ==
    /\ Changing
    /\ LET v == First(diff.changed)
           checks == Diff!ChecksChanged(base[v], file[v])
           ids == FreshIds(checks, Free)
       IN  /\ checks # {} /\ Room(checks, Free)
           /\ SetReg(Reg!LaunchAll(Built(v, file[v], ids, "watch"), Range(ids)))
           /\ staging' = [staging EXCEPT ![v] =
                  [def |-> file[v], old |-> base[v], shadows |-> Range(ids), verdicts |-> {}]]
           /\ diff' = [diff EXCEPT !.changed = @ \ {v}]
    /\ UNCHANGED <<policyVars, loopVars, owner, at, waits, file, base, running, nth, failed, commitVars,
                   cur, curHash, http, panicked, misled, budgetVars>>

(* A changed VIP with nothing to prove in shadow: the dropped checks are   *)
(* stopped, then the policy manager switches.                              *)
Dropped(v, old, new) == Named(v, Diff!ChecksRemoved(old, new))
NothingToProve(v) == Diff!ChecksChanged(base[v], file[v]) = {}

DoDropCheck ==
    /\ Changing
    /\ LET v == First(diff.changed)
       IN  /\ NothingToProve(v) /\ Dropped(v, base[v], file[v]) # {}
           /\ Stop(First(Dropped(v, base[v], file[v])))
    /\ UNCHANGED <<policyVars, loopVars, owner, at, reloadVars, commitVars, configVars,
                   http, panicked, misled, budgetVars>>

AtOnce ==
    /\ Changing
    /\ LET v == First(diff.changed)
       IN  NothingToProve(v) /\ Dropped(v, base[v], file[v]) = {}

(* pol.CommitVIP, with the seeds read before; refused, it changes nothing. *)
SeedOf(shadows) ==
    [c \in {sched[s].check : s \in shadows} |->
        IF \E s \in shadows : sched[s].check = c /\ seeds[s] = TRUE THEN "healthy" ELSE "unhealthy"]

Accepted(v, def, shadows) ==
    /\ v \in Policy!Registered
    /\ def.prefix = vips[v].def.prefix
    /\ def.checks \subseteq DOMAIN SeedOf(shadows) \cup vips[v].def.checks

Switch(v, def, shadows) ==
    IF Accepted(v, def, shadows)
    THEN /\ \E o \in Outcomes : Policy!CommitVIP(v, def, SeedOf(shadows), o) /\ Count({o})
         /\ misled' = {m \in misled : m[1] = v => m[2] \in def.checks \ DOMAIN SeedOf(shadows)}
         /\ UNCHANGED seeds
    ELSE /\ seeds' = NoSeeds
         /\ UNCHANGED <<policyVars, misled, faults>>

DoCommitAtOnce ==
    /\ AtOnce
    /\ LET v == First(diff.changed)
       IN  /\ Switch(v, file[v], {})
           /\ diff' = [diff EXCEPT !.changed = @ \ {v}]
    /\ UNCHANGED <<regVars, loopVars, owner, at, waits, file, base, running, nth, failed, commits, sh,
                   configVars, http, panicked, reloads, requests>>

(* The file is what runs, except for removals that failed.                 *)
DoFinish ==
    /\ At("diff") /\ diff = NoDiff
    /\ cur' = [v \in Names |-> IF failed[v] # Absent THEN failed[v] ELSE file[v]]
    /\ curHash' = IF \E v \in Names : failed[v] # Absent THEN NoHash ELSE file
    /\ owner' = "nobody" /\ at' = "none"
    /\ file' = Nothing /\ base' = Nothing /\ failed' = Nothing
    /\ UNCHANGED <<policyVars, regVars, loopVars, waits, diff, running, nth, commitVars, staging, http,
                   panicked, misled, budgetVars>>

-----------------------------------------------------------------------------
(* commitLocked, for one staged VIP after the other.                       *)
ToCommit == {v \in Names : commits[v] # Absent}
InHand == First(ToCommit)

DoDropStaged ==
    /\ At("switch")
    /\ LET dropped == Dropped(InHand, commits[InHand].old, commits[InHand].def)
       IN  dropped # {} /\ Stop(First(dropped))
    /\ UNCHANGED <<policyVars, loopVars, owner, at, reloadVars, commitVars, configVars,
                   http, panicked, misled, budgetVars>>

Promoting == At("switch") /\ Dropped(InHand, commits[InHand].old, commits[InHand].def) = {}
Unlisted == commits[InHand].shadows \ Listed(InHand)

DoPromote ==
    /\ Promoting /\ Unlisted # {}
    /\ SetReg(Reg!Promote(reg, First(Unlisted)))
    /\ waits' = Reg!Replaced(reg, First(Unlisted))
    /\ UNCHANGED <<policyVars, loopVars, owner, at, reloadVars, commitVars, configVars,
                   http, panicked, misled, budgetVars>>

DoSeed ==
    /\ Promoting /\ Unlisted = {}
    /\ seeds' = [s \in SchedIds |-> IF s \in commits[InHand].shadows THEN sched[s].healthy ELSE Absent]
    /\ at' = "commit"
    /\ UNCHANGED <<policyVars, regVars, loopVars, owner, waits, reloadVars, commits, sh, configVars,
                   http, panicked, misled, budgetVars>>

DoCommit ==
    /\ At("commit")
    /\ Switch(InHand, commits[InHand].def, commits[InHand].shadows)
    /\ at' = "attach"
    /\ UNCHANGED <<regVars, loopVars, owner, waits, reloadVars, commits, sh, configVars,
                   http, panicked, reloads, requests>>

Watched == {s \in commits[InHand].shadows : sched[s].cb = "watch"}

DoAttach ==
    /\ At("attach")
    /\ sh' = First(Watched)
    /\ sched' = [sched EXCEPT ![First(Watched)].cb = "policy"]
    /\ at' = "compare"
    /\ UNCHANGED <<policyVars, visible, loopVars, owner, waits, reloadVars, commits, seeds, configVars,
                   http, panicked, misled, budgetVars>>

(* On to the next shadow, the next VIP, or out of the mutex.               *)
ShadowDone ==
    /\ seeds' = [seeds EXCEPT ![sh] = Absent]
    /\ sh' = Absent
    /\ commits' = IF Watched = {} THEN [commits EXCEPT ![InHand] = Absent] ELSE commits
    /\ at' = IF Watched # {} THEN "attach" ELSE IF ToCommit = {InHand} THEN "none" ELSE "switch"
    /\ owner' = IF at' = "none" THEN "nobody" ELSE owner

(* The final compare, and the transition it may call for.                  *)
Flipped == seeds[sh] # Absent /\ sched[sh].healthy # seeds[sh]

NeverCompares ==
    /\ At("compare")
    /\ ShadowDone
    /\ UNCHANGED <<policyVars, regVars, loopVars, waits, reloadVars, configVars, http,
                   panicked, misled, budgetVars>>

DoCompare ==
    /\ At("compare")
    /\ IF Flipped THEN at' = "correct" /\ UNCHANGED <<owner, commitVars>> ELSE ShadowDone
    /\ UNCHANGED <<policyVars, regVars, loopVars, waits, reloadVars, configVars, http,
                   panicked, misled, budgetVars>>

DoCorrect ==
    /\ At("correct")
    /\ LET v == sched[sh].vip
           c == sched[sh].check
           healthy == ~seeds[sh]
       IN  /\ TellHealth(v, c, healthy)
           /\ misled' = IF sched[sh].healthy = healthy THEN misled \ Booked(v, c)
                        ELSE misled \cup Booked(v, c)
    /\ ShadowDone
    /\ UNCHANGED <<regVars, loopVars, waits, reloadVars, configVars, http, panicked, reloads, requests>>

Holder ==
    \/ DoClose \/ DoSupersede \/ DoDropStaging
    \/ DoRemoveNth \/ DoRemoveVIP \/ DoAddVIP \/ DoStage \/ DoDropCheck \/ DoCommitAtOnce \/ DoFinish
    \/ DoDropStaged \/ DoPromote \/ DoSeed \/ DoCommit \/ DoAttach \/ DoCompare \/ DoCorrect

-----------------------------------------------------------------------------
(* The daemon after startup: every check of the config runs, none has      *)
(* reported.                                                               *)
Checks(c) == {vc \in Names \X CheckNames : c[vc[1]] # Absent /\ vc[2] \in c[vc[1]].checks}

Init ==
    /\ cur \in Boot /\ curHash = cur
    /\ present = {} /\ exempt = {}
    /\ bgp = Policy!NoRoutes
    /\ vips = [v \in Names |-> IF cur[v] = Absent THEN Absent ELSE Policy!newVIPEntry(cur[v])]
    /\ Room(Checks(cur), SchedIds)
    /\ LET ids == FreshIds(Checks(cur), SchedIds)
       IN  /\ sched = [s \in SchedIds |->
                  IF s \in Range(ids)
                  THEN LET vc == CHOOSE vc \in Checks(cur) : ids[vc] = s
                       IN  [Reg!NewScheduler(vc[1], vc[2], cur[vc[1]].specs[vc[2]])
                               EXCEPT !.cb = "policy", !.loop = "on"]
                  ELSE Absent]
           /\ visible = [v \in Names |->
                  IF cur[v] = Absent THEN <<>>
                  ELSE LET names == Enumeration(cur[v].checks)
                       IN  [i \in DOMAIN names |-> ids[<<v, names[i]>>]]]
    /\ staging = Nothing
    /\ verdicts = {} /\ wake = FALSE /\ ready = {} /\ loopAt = "select"
    /\ owner = "nobody" /\ at = "none" /\ waits = {}
    /\ file = Nothing /\ base = Nothing /\ diff = NoDiff /\ running = <<>> /\ nth = 0 /\ failed = Nothing
    /\ commits = Nothing /\ seeds = NoSeeds /\ sh = Absent
    /\ http = <<>> /\ panicked = FALSE /\ misled = {}
    /\ reloads = 0 /\ requests = 0 /\ faults = 0

Run(s) == Result(s) \/ Transition(s)

Next ==
    \/ \E s \in SchedIds : Tick(s) \/ LoopExits(s) \/ TriggerCheck(s) \/ Run(s)
    \/ Aborted \/ \E v \in Names : Request(v)
    \/ Reload \/ Drain \/ commitReady \/ expireStaged
    \/ Holder

Spec == Init /\ [][Next]_vars

(***************************************************************************)
(* Fairness: a run of a check ends (timeout); the holder of a mutex goes   *)
(* on; the loop serves its channels and gets the mutex, which is handed to *)
(* waiters that starve; select does not ignore a cancelled context for     *)
(* ever in favour of ticks.  Nobody need tick, edit, reload or trigger.    *)
(***************************************************************************)
Fairness ==
    /\ \A s \in SchedIds : WF_vars(Run(s)) /\ SF_vars(LoopExits(s))
    /\ WF_vars(Holder)
    /\ SF_vars(Drain) /\ SF_vars(commitReady) /\ SF_vars(expireStaged)

FairSpec == Spec /\ Fairness

-----------------------------------------------------------------------------
(* Types of the reloader's state; ids in use are ids of schedulers.        *)
TypeOK ==
    /\ curHash \in Configs \cup {NoHash}
    /\ cur \in [Names -> Defs \cup {Absent}]
    /\ verdicts \cup ready \cup Requested \subseteq Live
    /\ \A v \in Names : /\ Listed(v) \subseteq Live
                         /\ MuFree /\ staging[v] # Absent => staging[v].shadows \subseteq Live

(* Between reloads the config the next diff is computed against is exactly *)
(* what governs the routes, through superseded stagings, failed removals,  *)
(* prefix changes and expired deadlines (effectiveVIPsLocked, and what     *)
(* reloadLocked leaves in cur).                                            *)
EffectiveGoverns ==
    MuFree => \A v \in Names :
        Effective[v] = IF vips[v] = Absent THEN Absent ELSE vips[v].def

(* Between reloads exactly the right goroutines run: one listed scheduler  *)
(* per check of the governing definition, with that definition's           *)
(* parameters and the policy callbacks; beside them only the shadows of    *)
(* staged VIPs, which do not report to the policy manager.                 *)
RightChecksRun ==
    MuFree =>
        /\ \A v \in Names :
               /\ IsInjective(visible[v])
               /\ {<<sched[s].check, sched[s].spec>> : s \in Listed(v)} =
                     IF vips[v] = Absent THEN {}
                     ELSE {<<c, vips[v].def.specs[c]>> : c \in vips[v].def.checks}
               /\ \A s, t \in Listed(v) : sched[s].check = sched[t].check => s = t
               /\ \A s \in Listed(v) : sched[s].loop = "on" /\ sched[s].cb = "policy"
        /\ \A s \in Live : sched[s].loop # "off" =>
               \/ s \in Listed(sched[s].vip)
               \/ /\ staging[sched[s].vip] # Absent
                  /\ s \in staging[sched[s].vip].shadows
                  /\ sched[s].cb = "watch" /\ sched[s].loop = "on"

(* The policy manager holds the health the listed scheduler has, whenever  *)
(* that scheduler is between two runs: seeds, late callbacks, superseded   *)
(* shadows and dropped checks leave no trace, but for the two known races  *)
(* that the history variable misled records.                               *)
Agrees(v, s) == (vips[v].checks[sched[s].check] = "healthy") = sched[s].healthy

HealthAgreesUnlessMisled ==
    MuFree => \A v \in Policy!Registered : \A s \in Listed(v) :
        Idle(s) /\ <<v, sched[s].check>> \notin misled => Agrees(v, s)

(* The policy manager never refuses a commit of the reloader: the prefix   *)
(* is unchanged and every check is seeded or running.                      *)
CommitIsAccepted ==
    /\ At("commit") => Accepted(InHand, commits[InHand].def, commits[InHand].shadows)
    /\ AtOnce => Accepted(First(diff.changed), file[First(diff.changed)], {})

(* A VIP committed because of verdicts has them: every one of its shadows  *)
(* reached rise or fall itself; the verdict of a superseded shadow, queued *)
(* or already drained when the next reload staged the VIP anew, does not   *)
(* count for its successor (commitReady).                                  *)
CommitsOnVerdicts ==
    [][loopAt = "ready" /\ loopAt' = "select" => \A v \in Names :
           staging[v] # Absent /\ staging'[v] = Absent =>
               \A s \in staging[v].shadows : sched[s].reached]_vars

(* Whoever takes Reloader.mu gives it back: no deadlock between a reload   *)
(* that waits for schedulers and schedulers that call back.                *)
ReloadReturns == ~MuFree ~> MuFree \/ panicked

(* A changed VIP does not wait for ever on its old definition, whatever    *)
(* its shadows report (deadline) and however reloads follow each other.    *)
StagingEnds == \A v \in Names : staging[v] # Absent ~> staging[v] = Absent \/ panicked

-----------------------------------------------------------------------------
(* What the repository says and the code does not keep; see README.md.     *)

(* "RemoveVIP stops every visible scheduler of a VIP": the loop over them  *)
(* never meets a nil scheduler.                                            *)
RemoveVIPStopsEvery == ~panicked

(* "no transition is lost or misapplied".                                  *)
NoTransitionMisapplied ==
    MuFree => \A v \in Policy!Registered : \A s \in Listed(v) : Idle(s) => Agrees(v, s)

(* "RemoveVIP withdraws a VIP's route if it is installed and forgets the   *)
(* VIP": between reloads every route belongs to a VIP.                     *)
NoOrphanRoute == MuFree => Policy!NoOrphanRoute

(* "no route is announced until the service proves healthy", "with all the *)
(* VIP waits for the slowest rise": with checks_policy all, a VIP one of   *)
(* whose checks has never reported is withdrawn.  The first of two checks  *)
(* to pass makes a VIP unhealthy, and fail_action lower_priority then      *)
(* gives it a route; CommitVIP leaves the route of an earlier definition.  *)
UnprovenIsWithdrawn == Policy!UnprovenIsWithdrawn

(* A VIP the manager reports as announced, with nothing left to retry, has *)
(* its route in the RIB.                                                   *)
AnnouncedHasRoute ==
    MuFree => \A v \in Policy!Registered :
        vips[v].state # "withdrawn" /\ ~vips[v].pending => bgp.rib[vips[v].def.prefix] # NoRoute
=============================================================================
