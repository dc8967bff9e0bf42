------------------------------ MODULE Scheduler -----------------------------
(***************************************************************************)
(* One check scheduler, internal/checks/scheduler.go: the ticker goroutine *)
(* and ad-hoc triggers call runCheck; runMu lets one run at a time through *)
(* from the check to its last callback; the counters and the health flag   *)
(* change together under mu, and the callbacks are called after mu is      *)
(* released.  The user of the callbacks is the policy manager, reduced     *)
(* here to the last transition it was told of.                             *)
(*                                                                         *)
(* A check either succeeds or fails with the state its target is in when   *)
(* the checker looks; a timeout is a failure.  Left out: the result's      *)
(* detail, duration and spans.  Cancelling the ticker's context belongs to *)
(* the registry and is modelled in System.                                 *)
(***************************************************************************)
EXTENDS Integers

CONSTANTS
    Callers,    \* goroutines that call runCheck: the ticker and the triggers
    Ticker,     \* the one that runs for as long as the scheduler does
    Rise, Fall, \* the thresholds, validated to be at least 1
    MaxStreak,  \* bound on the history variables okStreak and failStreak
    Nobody      \* runMu is free

ASSUME ThresholdAssumption ==
    /\ Rise \in Nat \ {0}
    /\ Fall \in Nat \ {0}
    /\ MaxStreak \in Nat /\ MaxStreak >= Rise /\ MaxStreak >= Fall

ASSUME CallersAssumption == Ticker \in Callers /\ Nobody \notin Callers

VARIABLES
    up,                              \* the target would pass the check now
    runMu,                           \* holder of runMu, or Nobody
    pc,                              \* per caller, where it is in runCheck
    healthy,                         \* Scheduler.healthy
    consecutiveOK, consecutiveFail,  \* the counters, capped at rise and fall
    crossed,                         \* runCheck's local: a transition to report
    told,                            \* health the policy manager was last told of
    okStreak, failStreak             \* history: consecutive equal results so far

checkVars == <<healthy, consecutiveOK, consecutiveFail, okStreak, failStreak>>
vars == <<up, runMu, pc, crossed, told, checkVars>>

Min(a, b) == IF a < b THEN a ELSE b

Init ==
    /\ up \in BOOLEAN
    /\ runMu = Nobody
    /\ pc = [t \in Callers |-> "idle"]
    /\ healthy = FALSE
    /\ consecutiveOK = 0 /\ consecutiveFail = 0
    /\ crossed = FALSE
    /\ told = FALSE
    /\ okStreak = 0 /\ failStreak = 0

(* Run's tick or TriggerCheck enters runCheck and queues for runMu.        *)
Enter(t) ==
    /\ pc[t] = "idle"
    /\ pc' = [pc EXCEPT ![t] = "lock"]
    /\ UNCHANGED <<up, runMu, crossed, told, checkVars>>

LockNotHeld(t) ==
    /\ pc[t] = "lock"
    /\ runMu' = t
    /\ pc' = [pc EXCEPT ![t] = "check"]
    /\ UNCHANGED <<up, crossed, told, checkVars>>

Lock(t) ==
    /\ pc[t] = "lock"
    /\ runMu = Nobody
    /\ runMu' = t
    /\ pc' = [pc EXCEPT ![t] = "check"]
    /\ UNCHANGED <<up, crossed, told, checkVars>>

(* The critical section under mu after a success and after a failure.      *)
SucceedCountsOn ==
    /\ consecutiveFail' = consecutiveFail
    /\ consecutiveOK' = Min(consecutiveOK + 1, Rise)
    /\ healthy' = (healthy \/ consecutiveOK' >= Rise)
    /\ okStreak' = Min(okStreak + 1, MaxStreak) /\ failStreak' = 0

SucceedUncapped ==
    /\ consecutiveFail' = 0
    /\ consecutiveOK' = consecutiveOK + 1
    /\ healthy' = (healthy \/ consecutiveOK' >= Rise)
    /\ okStreak' = Min(okStreak + 1, MaxStreak) /\ failStreak' = 0

Succeed ==
    /\ consecutiveFail' = 0
    /\ consecutiveOK' = Min(consecutiveOK + 1, Rise)
    /\ healthy' = (healthy \/ consecutiveOK' >= Rise)
    /\ okStreak' = Min(okStreak + 1, MaxStreak) /\ failStreak' = 0

FailOneEarly ==
    /\ consecutiveOK' = 0
    /\ consecutiveFail' = Min(consecutiveFail + 1, Fall)
    /\ healthy' = (healthy /\ consecutiveFail < Fall - 2)
    /\ failStreak' = Min(failStreak + 1, MaxStreak) /\ okStreak' = 0

FailPastThreshold ==
    /\ consecutiveOK' = 0
    /\ consecutiveFail' = Min(consecutiveFail + 1, Fall)
    /\ healthy' = (healthy /\ consecutiveFail' <= Fall)
    /\ failStreak' = Min(failStreak + 1, MaxStreak) /\ okStreak' = 0

Fail ==
    /\ consecutiveOK' = 0
    /\ consecutiveFail' = Min(consecutiveFail + 1, Fall)
    /\ healthy' = (healthy /\ consecutiveFail' < Fall)
    /\ failStreak' = Min(failStreak + 1, MaxStreak) /\ okStreak' = 0

(* The checker returns and the state is updated; onCheckResult, called     *)
(* next, changes nothing here.  Without a transition the run is over.      *)
CheckReportsAll(t) ==
    /\ pc[t] = "check"
    /\ IF up THEN Succeed ELSE Fail
    /\ crossed' = TRUE
    /\ pc' = [pc EXCEPT ![t] = "report"]
    /\ UNCHANGED <<up, runMu, told>>

Check(t) ==
    /\ pc[t] = "check"
    /\ IF up THEN Succeed ELSE Fail
    /\ crossed' = (healthy' # healthy)
    /\ pc' = [pc EXCEPT ![t] = IF crossed' THEN "report" ELSE "unlock"]
    /\ UNCHANGED <<up, runMu, told>>

(* onTransition, called outside mu but still inside runMu.                 *)
Report(t) ==
    /\ pc[t] = "report"
    /\ told' = healthy
    /\ crossed' = FALSE
    /\ pc' = [pc EXCEPT ![t] = "unlock"]
    /\ UNCHANGED <<up, runMu, checkVars>>

Unlock(t) ==
    /\ pc[t] = "unlock"
    /\ runMu' = Nobody
    /\ pc' = [pc EXCEPT ![t] = "idle"]
    /\ UNCHANGED <<up, crossed, told, checkVars>>

TargetFlips ==
    /\ up' = ~up
    /\ UNCHANGED <<runMu, pc, crossed, told, checkVars>>

Step(t) == Enter(t) \/ Lock(t) \/ Check(t) \/ Report(t) \/ Unlock(t)

Next == TargetFlips \/ \E t \in Callers : Step(t)

Spec == Init /\ [][Next]_vars

(***************************************************************************)
(* Fairness: the ticker keeps ticking, every run ends (its timeout), and a *)
(* goroutine queueing for runMu is not overtaken for ever (sync.Mutex      *)
(* hands over to a waiter that starves).  Triggers need never come.        *)
(***************************************************************************)
Fairness ==
    /\ WF_vars(Enter(Ticker))
    /\ \A t \in Callers :
           /\ SF_vars(Lock(t))
           /\ WF_vars(Check(t) \/ Report(t) \/ Unlock(t))

FairSpec == Spec /\ Fairness

-----------------------------------------------------------------------------
(* Every variable has its type; the counters never pass the thresholds.    *)
TypeOK ==
    /\ up \in BOOLEAN /\ healthy \in BOOLEAN /\ crossed \in BOOLEAN /\ told \in BOOLEAN
    /\ runMu \in Callers \cup {Nobody}
    /\ pc \in [Callers -> {"idle", "lock", "check", "report", "unlock"}]
    /\ consecutiveOK \in 0..Rise /\ consecutiveFail \in 0..Fall
    /\ okStreak \in 0..MaxStreak /\ failStreak \in 0..MaxStreak

(* The flag is a hysteresis on the results, whichever goroutines produced  *)
(* them: never healthy over fall failures in a row, never unhealthy over   *)
(* rise successes in a row (runCheck's counters and thresholds).           *)
Hysteresis ==
    /\ healthy => failStreak < Fall
    /\ ~healthy => okStreak < Rise

(* The flag turns only on the result that completes the run: up after      *)
(* exactly rise successes or down after exactly fall failures.             *)
FlipsOnThreshold ==
    [][/\ ~healthy /\ healthy' => okStreak' = Rise
       /\ healthy /\ ~healthy' => failStreak' = Fall]_vars

(* Whenever no run is in flight the policy manager was told the health the *)
(* scheduler has: no transition is lost, repeated or overtaken by a later  *)
(* one although the callbacks run outside mu (runMu).                      *)
ToldWhenIdle == runMu = Nobody => told = healthy

(* Each transition reported is news: the manager never hears the health it *)
(* already has.                                                            *)
ReportsAreNews == [][\A t \in Callers : Report(t) => told' # told]_vars

(* A target that stays up is eventually reported healthy for good, one     *)
(* that stays down unhealthy for good (fail closed), with any number of    *)
(* ad-hoc triggers in between.                                             *)
TruthIsReported == (<>[]up => <>[]told) /\ (<>[]~up => <>[]~told)

(* The scheduler implements CheckVerdict; decided is what the reloader     *)
(* reads off the counters of a shadow scheduler.                           *)
Verdict == INSTANCE CheckVerdict
    WITH healthy <- healthy,
         decided <- (consecutiveOK >= Rise \/ consecutiveFail >= Fall)

ImplementsVerdict == Verdict!Spec
=============================================================================
