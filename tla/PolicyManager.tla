---------------------------- MODULE PolicyManager ---------------------------
(***************************************************************************)
(* internal/policy/manager.go and internal/policy/reload.go over the BGP   *)
(* manager: the one place that turns check verdicts into routes.           *)
(*                                                                         *)
(* Every handler runs under Manager.mu from its first read to its last     *)
(* BGP call, so each is one action.  The callers are the check schedulers  *)
(* (OnHealthTransition, OnCheckResult) and the config reloader (AddVIP,    *)
(* RemoveVIP, CommitVIP); here they may call in any order with any         *)
(* arguments, so what holds here holds whatever they do.  BGP operations   *)
(* may fail at any call.  Left out: metrics, log text, timestamps, the     *)
(* display order of VIPs and the last result kept for the status page.     *)
(***************************************************************************)
EXTENDS PolicyEngine, BgpManager, FiniteSets

CONSTANTS
    Names,       \* VIP names
    CheckNames,  \* check names
    Defs,        \* the VIP definitions a config file may hold
    Files,       \* paths used as lower_priority_file
    Absent       \* "this name is not in Manager.vips"

ASSUME DefsAssumption ==
    \A d \in Defs :
        /\ d.prefix \in VIPPrefixes
        /\ d.checks \subseteq CheckNames
        /\ d.checks # {}

VARIABLES
    vips,     \* Manager.vips: per name the vipEntry, or Absent
    bgp,      \* the BGP manager: its UUID map and GoBGP's RIB
    present,  \* the lower_priority_files that exist now
    exempt    \* history: prefixes a reload left unsettled, see below

vars == <<vips, bgp, present, exempt>>

(***************************************************************************)
(* A vipEntry.  checks is total over CheckNames; a check outside           *)
(* def.checks is not in the code's map and stays "unknown" here.           *)
(***************************************************************************)
Entry == [def: Defs, state: VIPStates, health: HealthStatus,
          checks: [CheckNames -> HealthStatus], fileOn: BOOLEAN, pending: BOOLEAN]

ASSUME AbsentAssumption == Absent \notin Entry

(* What the BGP manager and the RIB may hold.                              *)
Routes == {RouteAttrsFor(d.policy, s) : d \in Defs, s \in VIPStates}

ASSUME NoRouteAssumption == NoRoute \notin Routes

RouteTable == [rib: [VIPPrefixes -> Routes \cup {NoRoute}], installed: SUBSET VIPPrefixes]

Registered == {v \in Names : vips[v] # Absent}

lowerPriorityFilePresent(policy) ==
    policy.lowerPriorityFile # "" /\ policy.lowerPriorityFile \in present

(* The route a VIP in this state stands for.                               *)
Want(def, state) ==
    IF state = "withdrawn" THEN NoRoute ELSE RouteAttrsFor(def.policy, state)

applyBGP(b, def, state, outcome) ==
    IF state = "withdrawn" THEN WithdrawVIP(b, def.prefix, outcome)
    ELSE upsertVIP(b, def.prefix, RouteAttrsFor(def.policy, state), outcome)

newVIPEntry(def) ==
    [def |-> def, state |-> "withdrawn", health |-> "unknown",
     checks |-> [c \in CheckNames |-> "unknown"],
     fileOn |-> lowerPriorityFilePresent(def.policy), pending |-> FALSE]

(***************************************************************************)
(* transitionStateLocked, on an entry and a BGP value: nothing when the    *)
(* state is already the wanted one, else the state is taken first and a    *)
(* failing BGP operation is remembered as pending.                         *)
(***************************************************************************)
transitionForgetsError(e, b, newState, outcome) ==
    IF newState = e.state THEN [e |-> e, bgp |-> b]
    ELSE [e   |-> [e EXCEPT !.state = newState],
          bgp |-> applyBGP(b, e.def, newState, outcome)]

transitionStateLocked(e, b, newState, outcome) ==
    IF newState = e.state THEN [e |-> e, bgp |-> b]
    ELSE [e   |-> [e EXCEPT !.state = newState, !.pending = (outcome # "ok")],
          bgp |-> applyBGP(b, e.def, newState, outcome)]

(* Apply the entry's current state again (a retry or a re-origination).    *)
Reapply(e, b, outcome) ==
    [e   |-> [e EXCEPT !.pending = (outcome # "ok")],
     bgp |-> applyBGP(b, e.def, e.state, outcome)]

(* What a handler leaves behind: the entry of v and the BGP value.         *)
Leave(v, r) ==
    /\ vips' = [vips EXCEPT ![v] = r.e]
    /\ bgp' = r.bgp

-----------------------------------------------------------------------------
(***************************************************************************)
(* The check a report is booked on: the named one, or the only one of a    *)
(* single-check VIP whatever name the report carries.  The empty set:      *)
(* "unknown check", the handler returns.                                   *)
(***************************************************************************)
ReportedCheck(e, c) ==
    IF c \in e.def.checks THEN {c}
    ELSE IF Cardinality(e.def.checks) = 1 THEN e.def.checks ELSE {}

(***************************************************************************)
(* OnHealthTransition: book the verdict, and only when the combined health *)
(* changed look at the drain file and re-evaluate.                         *)
(***************************************************************************)
TransitionKeepsHealth(e, b, c, healthy, outcome) ==
    LET booked == [e EXCEPT !.checks[c] = IF healthy THEN "healthy" ELSE "unhealthy"]
        combined == combineHealth(e.def, booked.checks)
        filePresent == lowerPriorityFilePresent(e.def.policy)
    IN  IF combined = e.health THEN [e |-> booked, bgp |-> b]
        ELSE transitionStateLocked([booked EXCEPT !.fileOn = filePresent], b,
                 Evaluate(combined = "healthy", filePresent, e.def.policy), outcome)

TransitionResult(e, b, c, healthy, outcome) ==
    LET booked == [e EXCEPT !.checks[c] = IF healthy THEN "healthy" ELSE "unhealthy"]
        combined == combineHealth(e.def, booked.checks)
        filePresent == lowerPriorityFilePresent(e.def.policy)
    IN  IF combined = e.health THEN [e |-> booked, bgp |-> b]
        ELSE transitionStateLocked(
                 [booked EXCEPT !.health = combined, !.fileOn = filePresent], b,
                 Evaluate(combined = "healthy", filePresent, e.def.policy), outcome)

OnHealthTransition(v, c, healthy, outcome) ==
    /\ v \in Registered
    /\ \E n \in ReportedCheck(vips[v], c) :
           Leave(v, TransitionResult(vips[v], bgp, n, healthy, outcome))
    /\ UNCHANGED <<present, exempt>>

(***************************************************************************)
(* OnCheckResult: notice a drain file that appeared or went, then retry a  *)
(* pending BGP operation - also one that this very call left pending.      *)
(***************************************************************************)
ResultNeverRetried(e, b, outcome, retry) ==
    LET filePresent == lowerPriorityFilePresent(e.def.policy)
        seen == [e EXCEPT !.fileOn = filePresent]
    IN  IF e.health = "unknown" THEN [e |-> seen, bgp |-> b]
        ELSE transitionStateLocked(seen, b,
                 Evaluate(e.health = "healthy", filePresent, e.def.policy), outcome)

CheckResult(e, b, outcome, retry) ==
    LET filePresent == lowerPriorityFilePresent(e.def.policy)
        seen == [e EXCEPT !.fileOn = filePresent]
        moved == IF e.health = "unknown" THEN [e |-> seen, bgp |-> b]
                 ELSE transitionStateLocked(seen, b,
                     Evaluate(e.health = "healthy", filePresent, e.def.policy), outcome)
    IN  IF moved.e.pending THEN Reapply(moved.e, moved.bgp, retry) ELSE moved

OnCheckResult(v, c, outcome, retry) ==
    /\ v \in Registered
    /\ ReportedCheck(vips[v], c) # {}
    /\ Leave(v, CheckResult(vips[v], bgp, outcome, retry))
    /\ UNCHANGED <<present, exempt>>

-----------------------------------------------------------------------------
(***************************************************************************)
(* AddVIP, from a reload.  The history variable notes a prefix that is not *)
(* free when its new owner arrives: another registered VIP announces it,   *)
(* or a route was left behind in the RIB.                                  *)
(***************************************************************************)
PrefixTaken(p) ==
    bgp.rib[p] # NoRoute \/ \E w \in Registered : vips[w].def.prefix = p

AddVIP(v, def) ==
    /\ v \notin Registered
    /\ vips' = [vips EXCEPT ![v] = newVIPEntry(def)]
    /\ exempt' = exempt \cup {p \in {def.prefix} : PrefixTaken(p)}
    /\ UNCHANGED <<bgp, present>>

(***************************************************************************)
(* RemoveVIP: a withdrawn VIP is forgotten at once, any other only after   *)
(* its route was withdrawn; an error keeps the VIP.                        *)
(***************************************************************************)
RemoveVIP(v, outcome) ==
    /\ v \in Registered
    /\ IF vips[v].state = "withdrawn"
       THEN vips' = [vips EXCEPT ![v] = Absent] /\ UNCHANGED bgp
       ELSE /\ bgp' = WithdrawVIP(bgp, vips[v].def.prefix, outcome)
            /\ vips' = IF outcome = "ok" THEN [vips EXCEPT ![v] = Absent] ELSE vips
    /\ UNCHANGED <<present, exempt>>

(***************************************************************************)
(* CommitVIP: switch to a new definition of the same prefix.  A seeded     *)
(* check starts from its seed, any other keeps its running state; without  *)
(* either, or with another prefix, the call is an error and changes        *)
(* nothing.  While no check has reported the handler stops there.  Else    *)
(* the state is re-evaluated, and a route whose attributes changed (or     *)
(* whose last operation failed) is originated again.                       *)
(***************************************************************************)
SwitchedChecks(e, def, seeds) ==
    [c \in CheckNames |-> IF c \in DOMAIN seeds THEN seeds[c]
                          ELSE IF c \in def.checks THEN e.checks[c] ELSE "unknown"]

CommitKeepsRoute(e, b, def, seeds, outcome) ==
    LET checks == SwitchedChecks(e, def, seeds)
        health == combineHealth(def, checks)
        filePresent == lowerPriorityFilePresent(def.policy)
        newState == Evaluate(health = "healthy", filePresent, def.policy)
        switched == [e EXCEPT !.def = def, !.checks = checks, !.health = health]
        seen == [switched EXCEPT !.fileOn = filePresent]
    IN  IF health = "unknown" THEN [e |-> switched, bgp |-> b]
        ELSE transitionStateLocked(seen, b, newState, outcome)

CommitStaleFile(e, b, def, seeds, outcome) ==
    LET checks == SwitchedChecks(e, def, seeds)
        health == combineHealth(def, checks)
        newState == Evaluate(health = "healthy", e.fileOn, def.policy)
        switched == [e EXCEPT !.def = def, !.checks = checks, !.health = health]
    IN  IF health = "unknown" THEN [e |-> switched, bgp |-> b]
        ELSE transitionStateLocked(
                 [switched EXCEPT !.fileOn = lowerPriorityFilePresent(def.policy)],
                 b, newState, outcome)

CommitResult(e, b, def, seeds, outcome) ==
    LET checks == SwitchedChecks(e, def, seeds)
        health == combineHealth(def, checks)
        filePresent == lowerPriorityFilePresent(def.policy)
        newState == Evaluate(health = "healthy", filePresent, def.policy)
        switched == [e EXCEPT !.def = def, !.checks = checks, !.health = health]
        seen == [switched EXCEPT !.fileOn = filePresent]
        attrsChanged ==
            RouteAttrsFor(e.def.policy, e.state) # RouteAttrsFor(def.policy, e.state)
    IN  IF health = "unknown" THEN [e |-> switched, bgp |-> b]
        ELSE IF newState # e.state THEN transitionStateLocked(seen, b, newState, outcome)
        ELSE IF e.state # "withdrawn" /\ (e.pending \/ attrsChanged)
        THEN Reapply(seen, b, outcome)
        ELSE [e |-> seen, bgp |-> b]

(* History: the commit returned early on a VIP that still has a route.     *)
LeftUnsettled(e) == e.health = "unknown" /\ e.state # "withdrawn"

CommitVIP(v, def, seeds, outcome) ==
    /\ v \in Registered
    /\ def.prefix = vips[v].def.prefix
    /\ def.checks \subseteq DOMAIN seeds \cup vips[v].def.checks
    /\ LET r == CommitResult(vips[v], bgp, def, seeds, outcome)
       IN  /\ Leave(v, r)
           /\ exempt' = exempt \cup {p \in {def.prefix} : LeftUnsettled(r.e)}
    /\ UNCHANGED present

(* The operator creates or deletes a lower_priority_file.                  *)
ToggleFile(f) ==
    /\ present' = IF f \in present THEN present \ {f} ELSE present \cup {f}
    /\ UNCHANGED <<vips, bgp, exempt>>

-----------------------------------------------------------------------------
(* NewManager: a validated config names every prefix once; no route yet.   *)
Init ==
    /\ present \in SUBSET Files
    /\ vips \in [Names -> {Absent} \cup {newVIPEntry(d) : d \in Defs}]
    /\ \A v, w \in Registered : v # w => vips[v].def.prefix # vips[w].def.prefix
    /\ bgp = NoRoutes
    /\ exempt = {}

Seeds(def) == UNION {[S -> {"healthy", "unhealthy"}] : S \in SUBSET def.checks}

Next ==
    \/ \E v \in Names, c \in CheckNames, healthy \in BOOLEAN, o \in Outcomes :
           OnHealthTransition(v, c, healthy, o)
    \/ \E v \in Names, c \in CheckNames, o, r \in Outcomes : OnCheckResult(v, c, o, r)
    \/ \E v \in Names, d \in Defs : AddVIP(v, d)
    \/ \E v \in Names, o \in Outcomes : RemoveVIP(v, o)
    \/ \E v \in Names, d \in Defs : \E s \in Seeds(d), o \in Outcomes : CommitVIP(v, d, s, o)
    \/ \E f \in Files : ToggleFile(f)

Spec == Init /\ [][Next]_vars

(***************************************************************************)
(* Fairness: a registered VIP keeps getting check results (its schedulers  *)
(* tick for as long as it is registered), and GoBGP does not refuse for    *)
(* ever.                                                                   *)
(***************************************************************************)
ResultsKeepComing ==
    \A v \in Names : WF_vars(\E c \in CheckNames : OnCheckResult(v, c, "ok", "ok"))

FairSpec == Spec /\ ResultsKeepComing

-----------------------------------------------------------------------------
(* Every entry is a vipEntry over the known names, the RIB holds only      *)
(* routes some definition calls for.                                       *)
TypeOK ==
    /\ vips \in [Names -> Entry \cup {Absent}]
    /\ bgp \in RouteTable
    /\ present \in SUBSET Files
    /\ exempt \in SUBSET VIPPrefixes

(* The UUID map of the BGP manager names exactly the prefixes that have a  *)
(* route, through every failed delete and add (upsertVIP, WithdrawVIP):    *)
(* no route is ever out of the manager's reach.                            *)
UUIDsTrackRoutes == bgp.installed = {p \in VIPPrefixes : bgp.rib[p] # NoRoute}

(* The VIP health shown is the checks_policy over the check verdicts, in   *)
(* every order of transitions, commits and dropped checks.                 *)
HealthIsCombined ==
    \A v \in Registered : vips[v].health = combineHealth(vips[v].def, vips[v].checks)

(* A VIP with known health is in the state its policy calls for, given     *)
(* that health and the drain file as last seen: no handler leaves one of   *)
(* health, file and state behind (OnHealthTransition returns early, a      *)
(* commit swaps the policy, the file comes and goes between calls).  The   *)
(* first verdict of one check makes the health known; UnprovenIsWithdrawn  *)
(* below is about what this means before the other checks have reported.   *)
StateFollowsPolicy ==
    \A v \in Registered :
        vips[v].health # "unknown" =>
            vips[v].state = Evaluate(vips[v].health = "healthy", vips[v].fileOn,
                                     vips[v].def.policy)

(* Nothing pending means the RIB is right: the VIP's prefix carries        *)
(* exactly the route its state and current definition stand for, or none.  *)
(* Exempt are the prefixes a reload left unsettled (history variable).     *)
RouteMatchesState ==
    \A v \in Registered :
        vips[v].def.prefix \notin exempt /\ ~vips[v].pending =>
            bgp.rib[vips[v].def.prefix] = Want(vips[v].def, vips[v].state)

(* A VIP that is healthy for good under one definition, with no drain      *)
(* file, ends up announced with exactly its announce attributes, however   *)
(* many BGP operations fail on the way (bgpPending and its retries).       *)
Settled(v, d) ==
    /\ v \in Registered
    /\ vips[v].def = d
    /\ vips[v].health = "healthy"
    /\ ~lowerPriorityFilePresent(d.policy)
    /\ d.prefix \notin exempt

HealthyIsServed ==
    \A v \in Names, d \in Defs :
        <>[]Settled(v, d) => <>[](bgp.rib[d.prefix] = BaseRouteAttrs(d.policy))

(* A pending BGP operation does not stay pending while results come in.    *)
PendingIsRetried ==
    \A v \in Names :
        (v \in Registered /\ vips[v].pending) ~> (v \notin Registered \/ ~vips[v].pending)

-----------------------------------------------------------------------------
(* What the repository says and the code does not keep; see README.md.     *)

(* "RemoveVIP withdraws a VIP's route if it is installed and forgets the   *)
(* VIP": no prefix has a route that no registered VIP accounts for.        *)
NoOrphanRoute ==
    \A p \in VIPPrefixes :
        bgp.rib[p] # NoRoute => \E v \in Registered : vips[v].def.prefix = p

(* "no route is announced until the service proves healthy", "with all the *)
(* VIP waits for the slowest rise": with checks_policy all, a VIP one of   *)
(* whose checks has never reported is withdrawn.                           *)
UnprovenIsWithdrawn ==
    \A v \in Registered :
        LET e == vips[v]
        IN  e.def.checksPolicy = "all" /\ (\E c \in e.def.checks : e.checks[c] = "unknown")
            => e.state = "withdrawn"
=============================================================================
