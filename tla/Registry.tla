------------------------------ MODULE Registry ------------------------------
(***************************************************************************)
(* internal/checks/registry.go: which schedulers run and which are listed. *)
(* The registry is a record of                                             *)
(*   started  Registry.started;                                            *)
(*   sched    per id the scheduler and its goroutine, or Absent;           *)
(*   visible  per VIP the listed schedulers, in order.                     *)
(* A scheduler that is in sched and not in visible is a shadow, or one     *)
(* that was taken out and is on its way to stop.                           *)
(*                                                                         *)
(* A method's critical section under Registry.mu is one operator; waiting  *)
(* for the goroutine comes after the unlock, so it is a step of its own    *)
(* for the caller (Stopped).  The scheduler record:                        *)
(*   vip, check, spec   what it checks                                     *)
(*   healthy            Scheduler.healthy                                  *)
(*   cb                 the callbacks: "none", "watch" (the reloader's     *)
(*                      watchShadow) or "policy"                           *)
(*   loop               Run's goroutine: "off", "on", or "cancelled"       *)
(*   run                the runCheck that holds runMu: see System          *)
(*   closed             Close was called, it will not run again            *)
(*   reached            history: as a shadow it has reached a verdict.     *)
(***************************************************************************)
EXTENDS Integers, Sequences

CONSTANTS SchedIds, Absent

NoRun == [at |-> "idle", by |-> "nobody"]

NewScheduler(vip, check, spec) ==
    [vip |-> vip, check |-> check, spec |-> spec, healthy |-> FALSE,
     cb |-> "none", loop |-> "off", run |-> NoRun, closed |-> FALSE,
     reached |-> FALSE]

launchLocked(r, s) == [r EXCEPT !.sched[s].loop = "on"]

Add(r, s) ==
    [(IF r.started THEN launchLocked(r, s) ELSE r) EXCEPT !.visible[r.sched[s].vip] = Append(@, s)]

AddShadow(r, s) == launchLocked(r, s)

(* Add and AddShadow of every one of a list, on a started registry.        *)
LaunchAll(r, S) ==
    [r EXCEPT !.sched = [s \in SchedIds |-> IF s \in S THEN [@[s] EXCEPT !.loop = "on"] ELSE @[s]]]

AddAll(r, vip, list) ==
    [LaunchAll(r, {list[i] : i \in DOMAIN list}) EXCEPT !.visible[vip] = @ \o list]

Cancelled(r, s) == [r EXCEPT !.sched[s].loop = IF @ = "on" THEN "cancelled" ELSE @]

(* Mutant: it stays listed.                                                *)
RemoveKeepsListing(r, s) == Cancelled(r, s)

(* slices.Delete at the index of s, if it is listed.                       *)
Without(list, s) ==
    IF \A k \in DOMAIN list : list[k] # s THEN list
    ELSE LET idx == CHOOSE k \in DOMAIN list : list[k] = s
         IN  [i \in 1 .. Len(list) - 1 |-> IF i < idx THEN list[i] ELSE list[i + 1]]

(* Remove up to the unlock; the cancel that follows is not observable      *)
(* apart from it.                                                          *)
Remove(r, s) == [Cancelled(r, s) EXCEPT !.visible[r.sched[s].vip] = Without(@, s)]

(* The scheduler a promotion of s replaces: none, or the one it names.     *)
Replaced(r, s) ==
    LET list == r.visible[r.sched[s].vip]
    IN  {o \in {list[i] : i \in DOMAIN list} : r.sched[o].check = r.sched[s].check}

(* Mutant: the replaced one is not cancelled.                              *)
PromoteForgetsOld(r, s) ==
    [r EXCEPT !.visible[r.sched[s].vip] =
        IF Replaced(r, s) = {} THEN Append(@, s)
        ELSE [i \in DOMAIN @ |-> IF @[i] \in Replaced(r, s) THEN s ELSE @[i]]]

Promote(r, s) ==
    LET vip == r.sched[s].vip
        old == Replaced(r, s)
        listed == IF old = {} THEN Append(r.visible[vip], s)
                  ELSE [i \in DOMAIN r.visible[vip] |->
                           IF r.visible[vip][i] \in old THEN s ELSE r.visible[vip][i]]
    IN  [started |-> r.started,
         sched |-> [o \in SchedIds |->
                       IF o \in old THEN Cancelled(r, o).sched[o] ELSE r.sched[o]],
         visible |-> [r.visible EXCEPT ![vip] = listed]]

(* The goroutine has exited: stopRunning returns.                          *)
Stopped(r, s) == r.sched[s].loop = "off"

Registered(r) == {s \in SchedIds : \E v \in DOMAIN r.visible : \E i \in DOMAIN r.visible[v] : r.visible[v][i] = s}

Start(r) ==
    [r EXCEPT !.started = TRUE,
              !.sched = [s \in SchedIds |-> IF s \in Registered(r) /\ r.sched[s].loop = "off"
                                            THEN [@[s] EXCEPT !.loop = "on"] ELSE @[s]]]

(* Stop up to the unlock; it then waits for the Launched ones.             *)
Launched(r) == {s \in SchedIds : r.sched[s] # Absent /\ r.sched[s].loop = "on"}
Stop(r) ==
    [r EXCEPT !.started = FALSE,
              !.sched = [s \in SchedIds |-> IF s \in Launched(r) THEN [@[s] EXCEPT !.loop = "cancelled"] ELSE @[s]]]

(***************************************************************************)
(* RemoveVIP ranges over the listed slice itself, not over a copy, while   *)
(* Remove deletes from it in place: the cells move up and the vacated one  *)
(* is cleared.  The i-th iteration therefore reads the i-th cell of what   *)
(* is left, or nil.                                                        *)
(***************************************************************************)
Cell(r, vip, i) ==
    IF i <= Len(r.visible[vip]) THEN {r.visible[vip][i]} ELSE {}
=============================================================================
