---------------------------- MODULE PolicyProofs ----------------------------
(***************************************************************************)
(* Proofs about PolicyManager for every set of definitions, names, checks  *)
(* and prefixes, under any order of handler calls and BGP failures.        *)
(*                                                                         *)
(* The argument: what matters about one VIP is a predicate of its entry    *)
(* and the route table (Sound).  Each handler turns a sound entry into a   *)
(* sound one and touches no other prefix; two VIPs that share a prefix     *)
(* share an exempt one.  So a step on one VIP keeps every other sound.     *)
(***************************************************************************)
EXTENDS PolicyManager, TLAPS

Tracks(b) == b.installed = {p \in VIPPrefixes : b.rib[p] # NoRoute}

Served(e, b, ex) ==
    e.def.prefix \notin ex /\ ~e.pending => b.rib[e.def.prefix] = Want(e.def, e.state)

Sound(e, b, ex) ==
    /\ e.health = combineHealth(e.def, e.checks)
    /\ e.health # "unknown" =>
           e.state = Evaluate(e.health = "healthy", e.fileOn, e.def.policy)
    /\ Served(e, b, ex)
    /\ e.def.prefix \notin ex /\ e.health = "unknown" => e.state = "withdrawn"

(* What a handler on an entry with prefix p must leave behind.             *)
Keeps(p, b, r) ==
    /\ r.e \in Entry /\ r.e.def.prefix = p
    /\ r.bgp \in RouteTable /\ Tracks(r.bgp)
    /\ \A q \in VIPPrefixes \ {p} : r.bgp.rib[q] = b.rib[q]

OwnersAreExempt ==
    \A v, w \in Registered :
        v # w /\ vips[v].def.prefix = vips[w].def.prefix => vips[v].def.prefix \in exempt

Inv ==
    /\ TypeOK
    /\ Tracks(bgp)
    /\ \A v \in Registered : Sound(vips[v], bgp, exempt)
    /\ OwnersAreExempt

-----------------------------------------------------------------------------
(* Evaluate and combineHealth return states and healths.                   *)
LEMMA EvaluateType ==
    ASSUME NEW h, NEW f, NEW policy
    PROVE  Evaluate(h, f, policy) \in VIPStates
BY DEF Evaluate, VIPStates

LEMMA CombineType ==
    ASSUME NEW def, NEW checks
    PROVE  combineHealth(def, checks) \in HealthStatus
BY DEF combineHealth, HealthStatus

(* A BGP operation for definition d keeps the table well formed and the    *)
(* UUID map right, touches only d's prefix, and when it succeeds leaves    *)
(* there what the state stands for.                                        *)
LEMMA ApplyBGP ==
    ASSUME NEW b \in RouteTable, Tracks(b), NEW d \in Defs, NEW s \in VIPStates,
           NEW o \in Outcomes
    PROVE  LET r == applyBGP(b, d, s, o)
           IN  /\ r \in RouteTable /\ Tracks(r)
               /\ o = "ok" => r.rib[d.prefix] = Want(d, s)
               /\ \A q \in VIPPrefixes \ {d.prefix} : r.rib[q] = b.rib[q]
<1> DEFINE attrs == RouteAttrsFor(d.policy, s)
           p == d.prefix
<1>1. p \in VIPPrefixes /\ attrs \in Routes /\ attrs # NoRoute
  BY DefsAssumption, NoRouteAssumption DEF Routes
<1>2. /\ Deleted(b, p) \in RouteTable /\ Tracks(Deleted(b, p))
      /\ Deleted(b, p).rib[p] = NoRoute
      /\ \A q \in VIPPrefixes \ {p} : Deleted(b, p).rib[q] = b.rib[q]
  BY <1>1 DEF Deleted, RouteTable, Tracks
<1>3. ASSUME NEW c \in RouteTable, Tracks(c)
      PROVE  /\ Added(c, p, attrs) \in RouteTable /\ Tracks(Added(c, p, attrs))
             /\ Added(c, p, attrs).rib[p] = attrs
             /\ \A q \in VIPPrefixes \ {p} : Added(c, p, attrs).rib[q] = c.rib[q]
  BY <1>1, <1>3 DEF Added, RouteTable, Tracks
<1> HIDE DEF attrs, p
<1>4. CASE s = "withdrawn"
  BY <1>2, <1>4 DEF applyBGP, WithdrawVIP, Want, p
<1>5. CASE s # "withdrawn"
  <2> DEFINE cleared == IF p \in b.installed THEN Deleted(b, p) ELSE b
  <2>1. /\ cleared \in RouteTable /\ Tracks(cleared)
        /\ \A q \in VIPPrefixes \ {p} : cleared.rib[q] = b.rib[q]
    BY <1>2
  <2>2. applyBGP(b, d, s, o) = IF o = "ok" THEN Added(cleared, p, attrs)
                               ELSE IF o = "addFailed" THEN cleared ELSE b
    BY <1>5 DEF applyBGP, upsertVIP, p, attrs
  <2>3. Want(d, s) = attrs
    BY <1>5 DEF Want, attrs
  <2> HIDE DEF cleared
  <2>4. CASE o = "ok"
    <3>1. applyBGP(b, d, s, o) = Added(cleared, p, attrs)
      BY <2>2, <2>4
    <3> QED BY <3>1, <2>1, <2>3, <1>3 DEF p
  <2>5. CASE o = "addFailed"
    <3>1. applyBGP(b, d, s, o) = cleared
      BY <2>2, <2>5
    <3> QED BY <3>1, <2>1, <2>5 DEF p
  <2>6. CASE o = "deleteFailed"
    <3>1. applyBGP(b, d, s, o) = b
      BY <2>2, <2>6
    <3> QED BY <3>1, <2>6 DEF p
  <2> QED BY <2>4, <2>5, <2>6 DEF Outcomes
<1> QED BY <1>4, <1>5

(* transitionStateLocked to another state changes nothing else of the      *)
(* entry and leaves the right route or a pending operation.                *)
LEMMA MovedAway ==
    ASSUME NEW e \in Entry, NEW b \in RouteTable, Tracks(b), NEW ex,
           NEW s \in VIPStates, NEW o \in Outcomes, s # e.state
    PROVE  LET r == transitionStateLocked(e, b, s, o)
           IN  /\ Keeps(e.def.prefix, b, r)
               /\ r.e.def = e.def /\ r.e.health = e.health /\ r.e.checks = e.checks
               /\ r.e.fileOn = e.fileOn /\ r.e.state = s
               /\ Served(r.e, r.bgp, ex)
<1> DEFINE r == transitionStateLocked(e, b, s, o)
<1>1. /\ r.e = [e EXCEPT !.state = s, !.pending = (o # "ok")]
      /\ r.bgp = applyBGP(b, e.def, s, o)
  BY DEF transitionStateLocked
<1>2. /\ r.e \in Entry /\ r.e.def = e.def /\ r.e.health = e.health
      /\ r.e.checks = e.checks /\ r.e.fileOn = e.fileOn /\ r.e.state = s
      /\ r.e.pending = (o # "ok")
  BY <1>1 DEF Entry
<1>3. /\ r.bgp \in RouteTable /\ Tracks(r.bgp)
      /\ o = "ok" => r.bgp.rib[e.def.prefix] = Want(e.def, s)
      /\ \A q \in VIPPrefixes \ {e.def.prefix} : r.bgp.rib[q] = b.rib[q]
  <2>1. e.def \in Defs
    BY DEF Entry
  <2> QED BY <1>1, <2>1, ApplyBGP
<1> QED BY <1>2, <1>3 DEF Keeps, Served

(* The same when the state may be the one the entry is in, with its route. *)
LEMMA Moved ==
    ASSUME NEW e \in Entry, NEW b \in RouteTable, Tracks(b), NEW ex,
           NEW s \in VIPStates, NEW o \in Outcomes, Served(e, b, ex)
    PROVE  LET r == transitionStateLocked(e, b, s, o)
           IN  /\ Keeps(e.def.prefix, b, r)
               /\ r.e.def = e.def /\ r.e.health = e.health /\ r.e.checks = e.checks
               /\ r.e.fileOn = e.fileOn /\ r.e.state = s
               /\ Served(r.e, r.bgp, ex)
<1>1. CASE s = e.state
  BY <1>1 DEF transitionStateLocked, Keeps
<1>2. CASE s # e.state
  BY <1>2, MovedAway
<1> QED BY <1>1, <1>2

(* A retry or re-origination applies the state the entry has.              *)
LEMMA Reapplied ==
    ASSUME NEW e \in Entry, NEW b \in RouteTable, Tracks(b), NEW ex, NEW o \in Outcomes
    PROVE  LET r == Reapply(e, b, o)
           IN  /\ Keeps(e.def.prefix, b, r)
               /\ r.e.def = e.def /\ r.e.health = e.health /\ r.e.checks = e.checks
               /\ r.e.fileOn = e.fileOn /\ r.e.state = e.state
               /\ Served(r.e, r.bgp, ex)
<1> DEFINE r == Reapply(e, b, o)
<1>1. r.e = [e EXCEPT !.pending = (o # "ok")] /\ r.bgp = applyBGP(b, e.def, e.state, o)
  BY DEF Reapply
<1>2. /\ r.e \in Entry /\ r.e.def = e.def /\ r.e.health = e.health
      /\ r.e.checks = e.checks /\ r.e.fileOn = e.fileOn /\ r.e.state = e.state
      /\ r.e.pending = (o # "ok")
  BY <1>1 DEF Entry
<1>3. /\ r.bgp \in RouteTable /\ Tracks(r.bgp)
      /\ o = "ok" => r.bgp.rib[e.def.prefix] = Want(e.def, e.state)
      /\ \A q \in VIPPrefixes \ {e.def.prefix} : r.bgp.rib[q] = b.rib[q]
  <2>1. e.def \in Defs /\ e.state \in VIPStates
    BY DEF Entry
  <2> QED BY <1>1, <2>1, ApplyBGP
<1> QED BY <1>2, <1>3 DEF Keeps, Served

-----------------------------------------------------------------------------
(* Each handler keeps its entry sound.                                     *)

(* OnHealthTransition.                                                     *)
LEMMA TransitionSound ==
    ASSUME NEW e \in Entry, NEW b \in RouteTable, Tracks(b), NEW ex, Sound(e, b, ex),
           NEW c \in e.def.checks, NEW healthy \in BOOLEAN, NEW o \in Outcomes
    PROVE  LET r == TransitionResult(e, b, c, healthy, o)
           IN  Keeps(e.def.prefix, b, r) /\ Sound(r.e, r.bgp, ex)
<1> DEFINE booked == [e EXCEPT !.checks[c] = IF healthy THEN "healthy" ELSE "unhealthy"]
           combined == combineHealth(e.def, booked.checks)
           filePresent == lowerPriorityFilePresent(e.def.policy)
           seen == [booked EXCEPT !.health = combined, !.fileOn = filePresent]
           s == Evaluate(combined = "healthy", filePresent, e.def.policy)
           r == TransitionResult(e, b, c, healthy, o)
<1>1. /\ booked \in Entry /\ booked.def = e.def /\ booked.health = e.health
      /\ booked.state = e.state /\ booked.pending = e.pending /\ booked.fileOn = e.fileOn
      /\ booked.checks[c] # "unknown"
  <2>1. c \in CheckNames
    BY DefsAssumption DEF Entry
  <2> QED BY <2>1 DEF Entry, HealthStatus
<1>2. combined \in HealthStatus /\ combined # "unknown"
  BY <1>1, CombineType DEF combineHealth
<1>3. filePresent \in BOOLEAN
  BY DEF lowerPriorityFilePresent
<1>4. r = IF combined = e.health THEN [e |-> booked, bgp |-> b]
          ELSE transitionStateLocked(seen, b, s, o)
  BY DEF TransitionResult
<1> HIDE DEF booked, combined, filePresent, r
<1>5. CASE combined = e.health
  <2>1. r.e = booked /\ r.bgp = b
    BY <1>4, <1>5
  <2>2. Sound(booked, b, ex)
    BY <1>1, <1>2, <1>5 DEF Sound, Served, combined
  <2> QED BY <2>1, <2>2, <1>1 DEF Keeps, r
<1>6. CASE combined # e.health
  <2>1. /\ seen \in Entry /\ seen.def = e.def /\ seen.health = combined
        /\ seen.state = e.state /\ seen.pending = e.pending /\ seen.fileOn = filePresent
        /\ seen.checks = booked.checks
    BY <1>1, <1>2, <1>3 DEF Entry
  <2>2. Served(seen, b, ex)
    BY <2>1 DEF Sound, Served
  <2>3. s \in VIPStates
    BY EvaluateType
  <2> HIDE DEF seen
  <2>4. /\ Keeps(e.def.prefix, b, r)
        /\ r.e.def = e.def /\ r.e.health = combined /\ r.e.checks = booked.checks
        /\ r.e.fileOn = filePresent /\ r.e.state = s
        /\ Served(r.e, r.bgp, ex)
    BY <1>4, <1>6, <2>1, <2>2, <2>3, Moved
  <2> QED BY <2>4, <1>2 DEF Sound, combined, r
<1> QED BY <1>5, <1>6

(* OnCheckResult.                                                          *)
LEMMA ResultSound ==
    ASSUME NEW e \in Entry, NEW b \in RouteTable, Tracks(b), NEW ex, Sound(e, b, ex),
           NEW o \in Outcomes, NEW retry \in Outcomes
    PROVE  LET r == CheckResult(e, b, o, retry)
           IN  Keeps(e.def.prefix, b, r) /\ Sound(r.e, r.bgp, ex)
<1> DEFINE filePresent == lowerPriorityFilePresent(e.def.policy)
           seen == [e EXCEPT !.fileOn = filePresent]
           s == Evaluate(e.health = "healthy", filePresent, e.def.policy)
           moved == IF e.health = "unknown" THEN [e |-> seen, bgp |-> b]
                    ELSE transitionStateLocked(seen, b, s, o)
           r == CheckResult(e, b, o, retry)
<1>1. filePresent \in BOOLEAN
  BY DEF lowerPriorityFilePresent
<1>2. /\ seen \in Entry /\ seen.def = e.def /\ seen.health = e.health
      /\ seen.state = e.state /\ seen.pending = e.pending /\ seen.fileOn = filePresent
      /\ seen.checks = e.checks
  BY <1>1 DEF Entry
<1>3. r = IF moved.e.pending THEN Reapply(moved.e, moved.bgp, retry) ELSE moved
  BY DEF CheckResult
<1>4. s \in VIPStates
  BY EvaluateType
<1>5. Served(seen, b, ex)
  BY <1>2 DEF Sound, Served
<1> HIDE DEF filePresent, seen, r
<1>6. Keeps(e.def.prefix, b, moved) /\ Sound(moved.e, moved.bgp, ex)
  <2>1. CASE e.health = "unknown"
    <3>1. moved.e = seen /\ moved.bgp = b
      BY <2>1
    <3> QED BY <3>1, <1>2, <1>5, <2>1 DEF Keeps, Sound
  <2>2. CASE e.health # "unknown"
    <3>1. moved = transitionStateLocked(seen, b, s, o)
      BY <2>2
    <3> HIDE DEF moved
    <3>2. /\ Keeps(e.def.prefix, b, moved)
          /\ moved.e.def = e.def /\ moved.e.health = e.health /\ moved.e.checks = e.checks
          /\ moved.e.fileOn = filePresent /\ moved.e.state = s
          /\ Served(moved.e, moved.bgp, ex)
      BY <3>1, <1>2, <1>4, <1>5, Moved
    <3> QED BY <3>2, <2>2 DEF Sound
  <2> QED BY <2>1, <2>2
<1> HIDE DEF moved
<1>7. CASE ~moved.e.pending
  BY <1>3, <1>6, <1>7 DEF r
<1>8. CASE moved.e.pending
  <2>1. r = Reapply(moved.e, moved.bgp, retry)
    BY <1>3, <1>8
  <2>2. moved.e \in Entry /\ moved.bgp \in RouteTable /\ Tracks(moved.bgp)
        /\ moved.e.def.prefix = e.def.prefix
    BY <1>6 DEF Keeps
  <2>3. /\ Keeps(e.def.prefix, moved.bgp, r)
        /\ r.e.def = moved.e.def /\ r.e.health = moved.e.health
        /\ r.e.checks = moved.e.checks /\ r.e.fileOn = moved.e.fileOn
        /\ r.e.state = moved.e.state
        /\ Served(r.e, r.bgp, ex)
    BY <2>1, <2>2, Reapplied
  <2>4. Keeps(e.def.prefix, b, r)
    BY <2>3, <1>6 DEF Keeps
  <2> QED BY <2>3, <2>4, <1>6 DEF Sound, r
<1> QED BY <1>7, <1>8

(* The exempt prefixes once a reload has left e behind on this prefix.     *)
Exempting(ex, prefix, e) == ex \cup {p \in {prefix} : LeftUnsettled(e)}

(* CommitVIP; a commit that leaves the VIP unsettled makes its prefix      *)
(* exempt.                                                                 *)
LEMMA CommitSound ==
    ASSUME NEW e \in Entry, NEW b \in RouteTable, Tracks(b), NEW ex, Sound(e, b, ex),
           NEW def \in Defs, def.prefix = e.def.prefix,
           NEW seeds \in Seeds(def), NEW o \in Outcomes
    PROVE  LET r == CommitResult(e, b, def, seeds, o)
           IN  /\ Keeps(e.def.prefix, b, r)
               /\ Sound(r.e, r.bgp, Exempting(ex, def.prefix, r.e))
<1> DEFINE checks == SwitchedChecks(e, def, seeds)
           health == combineHealth(def, checks)
           filePresent == lowerPriorityFilePresent(def.policy)
           s == Evaluate(health = "healthy", filePresent, def.policy)
           switched == [e EXCEPT !.def = def, !.checks = checks, !.health = health]
           seen == [switched EXCEPT !.fileOn = filePresent]
           attrsChanged ==
               RouteAttrsFor(e.def.policy, e.state) # RouteAttrsFor(def.policy, e.state)
           r == CommitResult(e, b, def, seeds, o)
           ex2 == ex \cup {p \in {def.prefix} : LeftUnsettled(r.e)}
<1>1. checks \in [CheckNames -> HealthStatus]
  <2>1. PICK S \in SUBSET def.checks : seeds \in [S -> {"healthy", "unhealthy"}]
    BY DEF Seeds
  <2>2. e.checks \in [CheckNames -> HealthStatus]
    BY DEF Entry
  <2> QED BY <2>1, <2>2 DEF SwitchedChecks, HealthStatus
<1>2. health \in HealthStatus /\ filePresent \in BOOLEAN /\ s \in VIPStates
  BY CombineType, EvaluateType DEF lowerPriorityFilePresent
<1>3. /\ switched \in Entry /\ switched.def = def /\ switched.health = health
      /\ switched.state = e.state /\ switched.pending = e.pending
      /\ switched.checks = checks
  BY <1>1, <1>2 DEF Entry
<1>4. /\ seen \in Entry /\ seen.def = def /\ seen.health = health
      /\ seen.state = e.state /\ seen.pending = e.pending
      /\ seen.checks = checks /\ seen.fileOn = filePresent
  BY <1>1, <1>2 DEF Entry
<1>5. r = IF health = "unknown" THEN [e |-> switched, bgp |-> b]
          ELSE IF s # e.state THEN transitionStateLocked(seen, b, s, o)
          ELSE IF e.state # "withdrawn" /\ (e.pending \/ attrsChanged)
          THEN Reapply(seen, b, o)
          ELSE [e |-> seen, bgp |-> b]
  BY DEF CommitResult
<1>6. SUFFICES Keeps(e.def.prefix, b, r) /\ Sound(r.e, r.bgp, ex2)
  BY DEF Exempting
<1> HIDE DEF checks, filePresent, switched, seen, r
<1>7. CASE health = "unknown"
  <2>1. r.e = switched /\ r.bgp = b
    BY <1>5, <1>7
  <2>2. def.prefix \notin ex2 => e.state = "withdrawn"
    BY <2>1, <1>3, <1>7 DEF LeftUnsettled
  <2>3. Served(switched, b, ex2)
    BY <2>2, <1>3 DEF Sound, Served, Want
  <2> QED BY <2>1, <2>2, <2>3, <1>3, <1>7 DEF Keeps, Sound
<1>8. CASE health # "unknown" /\ s # e.state
  <2>1. r = transitionStateLocked(seen, b, s, o)
    BY <1>5, <1>8
  <2>2. s # seen.state
    BY <1>4, <1>8
  <2> HIDE DEF health, s, ex2
  <2>3. /\ Keeps(e.def.prefix, b, r)
        /\ r.e.def = def /\ r.e.health = health /\ r.e.checks = checks
        /\ r.e.fileOn = filePresent /\ r.e.state = s
        /\ Served(r.e, r.bgp, ex2)
    <3> DEFINE q == transitionStateLocked(seen, b, s, o)
    <3>1. /\ Keeps(seen.def.prefix, b, q)
          /\ q.e.def = seen.def /\ q.e.health = seen.health /\ q.e.checks = seen.checks
          /\ q.e.fileOn = seen.fileOn /\ q.e.state = s
          /\ Served(q.e, q.bgp, ex2)
      BY <2>2, <1>2, <1>4, MovedAway
    <3> QED BY <3>1, <2>1, <1>4
  <2> QED BY <2>3, <1>8 DEF Sound, health, s
<1>9. CASE /\ health # "unknown" /\ s = e.state
           /\ e.state # "withdrawn" /\ (e.pending \/ attrsChanged)
  <2>1. r = Reapply(seen, b, o)
    BY <1>5, <1>9
  <2>2. /\ Keeps(e.def.prefix, b, r)
        /\ r.e.def = def /\ r.e.health = health /\ r.e.checks = checks
        /\ r.e.fileOn = filePresent /\ r.e.state = e.state
        /\ Served(r.e, r.bgp, ex2)
    BY <2>1, <1>4, Reapplied
  <2> QED BY <2>2, <1>9 DEF Sound
<1>10. CASE /\ health # "unknown" /\ s = e.state
            /\ ~(e.state # "withdrawn" /\ (e.pending \/ attrsChanged))
  <2>1. r.e = seen /\ r.bgp = b
    BY <1>5, <1>10
  <2>2. Served(seen, b, ex2)
    BY <1>4, <1>10 DEF Sound, Served, Want
  <2> QED BY <2>1, <2>2, <1>4, <1>10 DEF Keeps, Sound
<1> QED BY <1>7, <1>8, <1>9, <1>10

-----------------------------------------------------------------------------
(* What an invariant state says of the entry a handler works on.           *)
LEMMA EntryFacts ==
    ASSUME Inv, NEW v \in Registered
    PROVE  /\ v \in Names /\ vips[v] \in Entry /\ vips[v].def \in Defs
           /\ vips[v].def.prefix \in VIPPrefixes
           /\ bgp \in RouteTable /\ Tracks(bgp) /\ Sound(vips[v], bgp, exempt)
<1>1. v \in Names /\ vips[v] \in Entry
  BY DEF Inv, TypeOK, Registered
<1>2. vips[v].def \in Defs
  BY <1>1 DEF Entry
<1> QED BY <1>1, <1>2, DefsAssumption DEF Inv, TypeOK

(* A VIP stays sound when the routes of its prefix do not change, and on   *)
(* an exempt prefix whatever happens to them.                              *)
LEMMA OthersSound ==
    ASSUME NEW e, NEW b, NEW c, NEW ex, NEW ex2, Sound(e, b, ex), ex \subseteq ex2,
           e.def.prefix \in ex \/ c.rib[e.def.prefix] = b.rib[e.def.prefix]
    PROVE  Sound(e, c, ex2)
BY DEF Sound, Served

(* A handler that keeps its own entry sound keeps the invariant.           *)
LEMMA HandlerKeepsInv ==
    ASSUME Inv, NEW v \in Registered, NEW r, Leave(v, r),
           Keeps(vips[v].def.prefix, bgp, r), Sound(r.e, r.bgp, exempt'),
           exempt \subseteq exempt', exempt' \in SUBSET VIPPrefixes,
           present' \in SUBSET Files
    PROVE  Inv'
<1>1. /\ v \in Names /\ vips \in [Names -> Entry \cup {Absent}]
      /\ r.e \in Entry /\ r.e # Absent
  BY AbsentAssumption DEF Inv, TypeOK, Registered, Keeps
<1>2. /\ vips' = [vips EXCEPT ![v] = r.e] /\ bgp' = r.bgp
      /\ \A w \in Names \ {v} : vips'[w] = vips[w]
      /\ vips'[v] = r.e
  BY <1>1 DEF Leave
<1>3. Registered' = Registered
  BY <1>1, <1>2 DEF Registered
<1>4. TypeOK'
  BY <1>1, <1>2 DEF TypeOK, Keeps
<1>5. Tracks(bgp')
  BY <1>2 DEF Keeps
<1>6. ASSUME NEW w \in Registered
      PROVE  Sound(vips'[w], bgp', exempt')
  <2>1. CASE w = v
    BY <2>1, <1>2
  <2>2. CASE w # v
    <3>1. vips'[w] = vips[w] /\ vips[w].def.prefix \in VIPPrefixes /\ Sound(vips[w], bgp, exempt)
      BY <2>2, <1>2, EntryFacts
    <3>2. \/ vips[w].def.prefix \in exempt
          \/ bgp'.rib[vips[w].def.prefix] = bgp.rib[vips[w].def.prefix]
      BY <2>2, <3>1, <1>2 DEF Inv, OwnersAreExempt, Keeps
    <3> QED BY <3>1, <3>2, OthersSound
  <2> QED BY <2>1, <2>2
<1>7. OwnersAreExempt'
  <2>1. \A w \in Registered : vips'[w].def.prefix = vips[w].def.prefix
    BY <1>2 DEF Registered, Keeps
  <2> QED BY <2>1, <1>3 DEF Inv, OwnersAreExempt
<1> QED BY <1>3, <1>4, <1>5, <1>6, <1>7 DEF Inv

-----------------------------------------------------------------------------
(* A new entry: nothing reported, withdrawn.                               *)
LEMMA NewEntrySound ==
    ASSUME NEW def \in Defs, NEW b, NEW ex,
           def.prefix \notin ex => b.rib[def.prefix] = NoRoute
    PROVE  newVIPEntry(def) \in Entry /\ Sound(newVIPEntry(def), b, ex)
<1> DEFINE e == newVIPEntry(def)
<1>1. e = [def |-> def, state |-> "withdrawn", health |-> "unknown",
           checks |-> [c \in CheckNames |-> "unknown"],
           fileOn |-> lowerPriorityFilePresent(def.policy), pending |-> FALSE]
  BY DEF newVIPEntry
<1>2. lowerPriorityFilePresent(def.policy) \in BOOLEAN
  BY DEF lowerPriorityFilePresent
<1>3. e \in Entry
  BY <1>1, <1>2 DEF Entry, VIPStates, HealthStatus
<1>4. combineHealth(e.def, e.checks) = "unknown"
  BY <1>1, DefsAssumption DEF combineHealth
<1> HIDE DEF e
<1> QED BY <1>1, <1>3, <1>4 DEF Sound, Served, Want, e

LEMMA InitInv == Init => Inv
<1> SUFFICES ASSUME Init PROVE Inv
  OBVIOUS
<1>1. bgp \in RouteTable /\ Tracks(bgp) /\ \A p \in VIPPrefixes : bgp.rib[p] = NoRoute
  BY DEF Init, NoRoutes, RouteTable, Tracks
<1>2. ASSUME NEW d \in Defs
      PROVE  newVIPEntry(d) \in Entry /\ Sound(newVIPEntry(d), bgp, exempt)
  BY <1>1, DefsAssumption, NewEntrySound
<1>3. TypeOK
  BY <1>1, <1>2 DEF Init, TypeOK
<1>4. ASSUME NEW v \in Registered
      PROVE  Sound(vips[v], bgp, exempt)
  <2>1. PICK d \in Defs : vips[v] = newVIPEntry(d)
    BY DEF Init, Registered
  <2> QED BY <2>1, <1>2
<1>5. OwnersAreExempt
  BY DEF Init, OwnersAreExempt
<1> QED BY <1>1, <1>3, <1>4, <1>5 DEF Inv

(* A reload adds a VIP.                                                    *)
LEMMA AddKeepsInv ==
    ASSUME Inv, NEW v \in Names, NEW d \in Defs, AddVIP(v, d)
    PROVE  Inv'
<1>1. d.prefix \in VIPPrefixes
  BY DefsAssumption
<1>2. d.prefix \notin exempt' => ~PrefixTaken(d.prefix)
  BY DEF AddVIP
<1>3. newVIPEntry(d) \in Entry /\ Sound(newVIPEntry(d), bgp, exempt')
  BY <1>2, NewEntrySound DEF PrefixTaken
<1>4. /\ vips \in [Names -> Entry \cup {Absent}] /\ bgp' = bgp
      /\ vips' = [vips EXCEPT ![v] = newVIPEntry(d)]
      /\ vips'[v] = newVIPEntry(d) /\ \A w \in Names \ {v} : vips'[w] = vips[w]
      /\ exempt \subseteq exempt' /\ exempt' \in SUBSET VIPPrefixes /\ present' = present
  BY <1>1 DEF AddVIP, Inv, TypeOK
<1>5. Registered' = Registered \cup {v} /\ v \notin Registered
  BY <1>3, <1>4, AbsentAssumption DEF AddVIP, Registered
<1>6. newVIPEntry(d).def = d
  BY DEF newVIPEntry
<1>7. TypeOK'
  BY <1>3, <1>4 DEF Inv, TypeOK
<1>8. ASSUME NEW w \in Registered'
      PROVE  Sound(vips'[w], bgp', exempt')
  <2>1. CASE w = v
    BY <2>1, <1>3, <1>4
  <2>2. CASE w # v
    <3>1. w \in Registered /\ vips'[w] = vips[w]
      BY <2>2, <1>4, <1>5 DEF Registered
    <3> QED BY <3>1, <1>4, OthersSound DEF Inv
  <2> QED BY <2>1, <2>2
<1>9. OwnersAreExempt'
  <2>1. \A w \in Registered : vips'[w] = vips[w]
    BY <1>4, <1>5 DEF Registered
  <2>2. \A w \in Registered : vips[w].def.prefix = d.prefix => d.prefix \in exempt'
    BY <1>2 DEF PrefixTaken
  <2> QED BY <2>1, <2>2, <1>4, <1>5, <1>6 DEF Inv, OwnersAreExempt
<1> QED BY <1>4, <1>7, <1>8, <1>9 DEF Inv

(* A reload removes a VIP, or fails to.                                    *)
LEMMA RemoveKeepsInv ==
    ASSUME Inv, NEW v \in Names, NEW o \in Outcomes, RemoveVIP(v, o)
    PROVE  Inv'
<1> DEFINE p == vips[v].def.prefix
<1>1. v \in Registered /\ present' = present /\ exempt' = exempt
  BY DEF RemoveVIP
<1>2. p \in VIPPrefixes /\ bgp \in RouteTable /\ Tracks(bgp)
  BY <1>1, EntryFacts
<1>3. \/ vips' = vips /\ bgp' = bgp
      \/ /\ vips' = [vips EXCEPT ![v] = Absent]
         /\ bgp' = bgp \/ bgp' = Deleted(bgp, p)
  BY DEF RemoveVIP, WithdrawVIP
<1>4. CASE vips' = vips /\ bgp' = bgp
  BY <1>1, <1>4 DEF Inv, TypeOK, OwnersAreExempt, Registered
<1>5. CASE vips' = [vips EXCEPT ![v] = Absent] /\ (bgp' = bgp \/ bgp' = Deleted(bgp, p))
  <2>1. /\ bgp' \in RouteTable /\ Tracks(bgp')
        /\ \A q \in VIPPrefixes \ {p} : bgp'.rib[q] = bgp.rib[q]
    BY <1>2, <1>5 DEF Deleted, RouteTable, Tracks
  <2>2. vips \in [Names -> Entry \cup {Absent}]
    BY DEF Inv, TypeOK
  <2>3. Registered' = Registered \ {v} /\ \A w \in Registered' : vips'[w] = vips[w]
    BY <1>5, <2>2 DEF Registered
  <2>4. TypeOK'
    BY <1>1, <1>5, <2>1, <2>2 DEF Inv, TypeOK
  <2>5. ASSUME NEW w \in Registered'
        PROVE  Sound(vips'[w], bgp', exempt')
    <3>1. w \in Registered /\ w # v /\ vips'[w] = vips[w]
      BY <2>3
    <3>2. vips[w].def.prefix \in VIPPrefixes /\ Sound(vips[w], bgp, exempt)
      BY <3>1, EntryFacts
    <3>3. \/ vips[w].def.prefix \in exempt
          \/ bgp'.rib[vips[w].def.prefix] = bgp.rib[vips[w].def.prefix]
      BY <1>1, <3>1, <3>2, <2>1 DEF Inv, OwnersAreExempt
    <3> QED BY <1>1, <3>1, <3>2, <3>3, OthersSound
  <2>6. OwnersAreExempt'
    BY <1>1, <2>3 DEF Inv, OwnersAreExempt
  <2> QED BY <2>1, <2>4, <2>5, <2>6 DEF Inv
<1> QED BY <1>3, <1>4, <1>5

(* Every step of the manager keeps the invariant.                          *)
LEMMA NextInv == Inv /\ [Next]_vars => Inv'
<1> SUFFICES ASSUME Inv, [Next]_vars PROVE Inv'
  OBVIOUS
<1>1. ASSUME NEW v \in Names, NEW c \in CheckNames, NEW healthy \in BOOLEAN,
             NEW o \in Outcomes, OnHealthTransition(v, c, healthy, o)
      PROVE  Inv'
  <2>1. v \in Registered /\ present' = present /\ exempt' = exempt
    BY <1>1 DEF OnHealthTransition
  <2>2. PICK n \in ReportedCheck(vips[v], c) :
            Leave(v, TransitionResult(vips[v], bgp, n, healthy, o))
    BY <1>1 DEF OnHealthTransition
  <2>3. n \in vips[v].def.checks
    BY DEF ReportedCheck
  <2> DEFINE r == TransitionResult(vips[v], bgp, n, healthy, o)
  <2>4. Keeps(vips[v].def.prefix, bgp, r) /\ Sound(r.e, r.bgp, exempt)
    BY <2>1, <2>3, EntryFacts, TransitionSound
  <2>5. exempt \in SUBSET VIPPrefixes /\ present \in SUBSET Files
    BY DEF Inv, TypeOK
  <2> HIDE DEF r
  <2>6. Leave(v, r)
    BY <2>2 DEF r
  <2> QED BY <2>1, <2>4, <2>5, <2>6, HandlerKeepsInv
<1>2. ASSUME NEW v \in Names, NEW c \in CheckNames, NEW o \in Outcomes,
             NEW retry \in Outcomes, OnCheckResult(v, c, o, retry)
      PROVE  Inv'
  <2> DEFINE r == CheckResult(vips[v], bgp, o, retry)
  <2>1. v \in Registered /\ Leave(v, r) /\ present' = present /\ exempt' = exempt
    BY <1>2 DEF OnCheckResult
  <2>2. Keeps(vips[v].def.prefix, bgp, r) /\ Sound(r.e, r.bgp, exempt)
    BY <2>1, EntryFacts, ResultSound
  <2>3. exempt \in SUBSET VIPPrefixes /\ present \in SUBSET Files
    BY DEF Inv, TypeOK
  <2> HIDE DEF r
  <2> QED BY <2>1, <2>2, <2>3, HandlerKeepsInv
<1>3. ASSUME NEW v \in Names, NEW d \in Defs, AddVIP(v, d)
      PROVE  Inv'
  BY <1>3, AddKeepsInv
<1>4. ASSUME NEW v \in Names, NEW o \in Outcomes, RemoveVIP(v, o)
      PROVE  Inv'
  BY <1>4, RemoveKeepsInv
<1>5. ASSUME NEW v \in Names, NEW d \in Defs, NEW seeds \in Seeds(d), NEW o \in Outcomes,
             CommitVIP(v, d, seeds, o)
      PROVE  Inv'
  <2> DEFINE r == CommitResult(vips[v], bgp, d, seeds, o)
             ex2 == Exempting(exempt, d.prefix, r.e)
  <2>1. /\ v \in Registered /\ d.prefix = vips[v].def.prefix
        /\ Leave(v, r) /\ present' = present /\ exempt' = ex2
    BY <1>5 DEF CommitVIP, Exempting
  <2>2. Keeps(vips[v].def.prefix, bgp, r) /\ Sound(r.e, r.bgp, ex2)
    BY <2>1, EntryFacts, CommitSound
  <2>3. exempt \subseteq ex2 /\ ex2 \in SUBSET VIPPrefixes /\ present \in SUBSET Files
    BY DefsAssumption DEF Inv, TypeOK, Exempting
  <2> HIDE DEF r, ex2
  <2> QED BY <2>1, <2>2, <2>3, HandlerKeepsInv
<1>6. ASSUME NEW f \in Files, ToggleFile(f)
      PROVE  Inv'
  BY <1>6 DEF ToggleFile, Inv, TypeOK, OwnersAreExempt, Registered
<1>7. CASE UNCHANGED vars
  BY <1>7 DEF vars, Inv, TypeOK, OwnersAreExempt, Registered
<1> QED BY <1>1, <1>2, <1>3, <1>4, <1>5, <1>6, <1>7 DEF Next

(* The inductive invariant holds in every reachable state.                 *)
THEOREM InvHolds == Spec => []Inv
BY InitInv, NextInv, PTL DEF Spec

(* Entries, routes and the UUID map keep their types through every handler *)
(* (policy.Manager), for all definitions, names and prefixes.              *)
THEOREM TypeCorrect == Spec => []TypeOK
<1>1. Inv => TypeOK
  BY DEF Inv
<1> QED BY <1>1, InvHolds, PTL

(* The UUID map of the BGP manager names exactly the installed routes,     *)
(* whichever DeletePath or AddPath fails (upsertVIP, WithdrawVIP).         *)
THEOREM UUIDMapIsExact == Spec => []UUIDsTrackRoutes
<1>1. Inv => UUIDsTrackRoutes
  BY DEF Inv, Tracks, UUIDsTrackRoutes
<1> QED BY <1>1, InvHolds, PTL

(* The health of a VIP is its checks_policy over its checks' verdicts      *)
(* (OnHealthTransition's early return, CommitVIP's switch).                *)
THEOREM HealthIsPolicy == Spec => []HealthIsCombined
<1>1. Inv => HealthIsCombined
  BY DEF Inv, Sound, HealthIsCombined
<1> QED BY <1>1, InvHolds, PTL

(* A VIP with known health is in the state its policy calls for.           *)
THEOREM StateIsPolicy == Spec => []StateFollowsPolicy
<1>1. Inv => StateFollowsPolicy
  BY DEF Inv, Sound, StateFollowsPolicy
<1> QED BY <1>1, InvHolds, PTL

(* With nothing pending the RIB carries exactly the route the VIP's state  *)
(* and definition stand for, on every prefix that no reload left unsettled *)
(* (transitionStateLocked, CommitVIP, OnCheckResult's retry).              *)
THEOREM RouteIsRight == Spec => []RouteMatchesState
<1>1. Inv => RouteMatchesState
  BY DEF Inv, Sound, Served, RouteMatchesState
<1> QED BY <1>1, InvHolds, PTL
=============================================================================
