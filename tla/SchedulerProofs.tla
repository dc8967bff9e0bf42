--------------------------- MODULE SchedulerProofs --------------------------
(***************************************************************************)
(* Scheduler for every rise, every fall and any set of goroutines.         *)
(***************************************************************************)
EXTENDS Scheduler, TLAPS

(***************************************************************************)
(* Why the properties hold.  A caller between lock and unlock is the one   *)
(* that holds runMu, so one caller at most is in there; the counters are   *)
(* the streaks, cut off at the thresholds; and the manager's view differs  *)
(* from the flag only while the caller that turned it has yet to report.   *)
(***************************************************************************)
Inside(t) == pc[t] \in {"check", "report", "unlock"}

Exclusion == \A t \in Callers : Inside(t) <=> runMu = t

CountersAreStreaks ==
    /\ consecutiveOK = Min(okStreak, Rise)
    /\ consecutiveFail = Min(failStreak, Fall)

Reporting == \E t \in Callers : pc[t] = "report"

ViewFollows == told = (IF Reporting THEN ~healthy ELSE healthy)

Inv ==
    /\ TypeOK
    /\ Exclusion
    /\ CountersAreStreaks
    /\ Hysteresis
    /\ ViewFollows

LEMMA InitInv == Init => Inv
  <1> SUFFICES ASSUME Init PROVE Inv
    OBVIOUS
  <1>1. TypeOK
    <2>1. /\ consecutiveOK \in 0..Rise /\ consecutiveFail \in 0..Fall
          /\ okStreak \in 0..MaxStreak /\ failStreak \in 0..MaxStreak
      BY ThresholdAssumption DEF Init
    <2>2. QED BY <2>1 DEF Init, TypeOK
  <1>2. CountersAreStreaks
    BY ThresholdAssumption DEF Init, CountersAreStreaks, Min
  <1>3. Hysteresis
    BY ThresholdAssumption DEF Init, Hysteresis
  <1>4. Exclusion
    BY CallersAssumption DEF Init, Exclusion, Inside
  <1>5. ViewFollows
    BY DEF Init, ViewFollows, Reporting
  <1>6. QED BY <1>1, <1>2, <1>3, <1>4, <1>5 DEF Inv

(* What one result does to the counters, the streaks and the flag, given   *)
(* that they agreed before (the critical section of runCheck).             *)
LEMMA ResultCounts ==
    ASSUME TypeOK, CountersAreStreaks, Hysteresis, Succeed \/ Fail
    PROVE  /\ healthy' \in BOOLEAN
           /\ consecutiveOK' \in 0..Rise /\ consecutiveFail' \in 0..Fall
           /\ okStreak' \in 0..MaxStreak /\ failStreak' \in 0..MaxStreak
           /\ CountersAreStreaks'
           /\ Hysteresis'
           /\ ~healthy /\ healthy' => okStreak' = Rise
           /\ healthy /\ ~healthy' => failStreak' = Fall
  <1>1. CASE Succeed
    <2>1. /\ consecutiveOK' \in 0..Rise /\ consecutiveFail' \in 0..Fall
          /\ okStreak' \in 0..MaxStreak /\ failStreak' \in 0..MaxStreak
          /\ CountersAreStreaks'
      BY <1>1, ThresholdAssumption DEF Succeed, TypeOK, CountersAreStreaks, Min
    <2>2. healthy' = (healthy \/ consecutiveOK' >= Rise) /\ healthy \in BOOLEAN
      BY <1>1 DEF Succeed, TypeOK
    <2>3. consecutiveOK' >= Rise <=> okStreak' >= Rise
      BY <2>1, ThresholdAssumption DEF CountersAreStreaks, Min
    <2>4. failStreak' < Fall
      BY <1>1, ThresholdAssumption DEF Succeed
    <2>5. ~healthy => okStreak' <= Rise
      BY <1>1, ThresholdAssumption DEF Succeed, Hysteresis, TypeOK, Min
    <2>6. QED
      <3>1. healthy' \in BOOLEAN
        BY <2>2
      <3>2. Hysteresis'
        <4>1. ~healthy' => ~(okStreak' >= Rise)
          BY <2>2, <2>3, Zenon
        <4>2. ~healthy' => okStreak' < Rise
          BY <4>1, <2>1, ThresholdAssumption
        <4>3. QED BY <2>4, <4>2 DEF Hysteresis
      <3>3. ~healthy /\ healthy' => okStreak' = Rise
        <4>1. ~healthy /\ healthy' => okStreak' >= Rise /\ okStreak' <= Rise
          BY <2>2, <2>3, <2>5, Zenon
        <4>2. QED BY <4>1, <2>1, ThresholdAssumption
      <3>4. ~(healthy /\ ~healthy')
        BY <2>2
      <3>5. QED BY <2>1, <3>1, <3>2, <3>3, <3>4
  <1>2. CASE Fail
    <2>1. /\ consecutiveOK' \in 0..Rise /\ consecutiveFail' \in 0..Fall
          /\ okStreak' \in 0..MaxStreak /\ failStreak' \in 0..MaxStreak
          /\ CountersAreStreaks'
      BY <1>2, ThresholdAssumption DEF Fail, TypeOK, CountersAreStreaks, Min
    <2>2. healthy' = (healthy /\ consecutiveFail' < Fall) /\ healthy \in BOOLEAN
      BY <1>2 DEF Fail, TypeOK
    <2>3. consecutiveFail' < Fall <=> failStreak' < Fall
      BY <2>1, ThresholdAssumption DEF CountersAreStreaks, Min
    <2>4. okStreak' < Rise
      BY <1>2, ThresholdAssumption DEF Fail
    <2>5. healthy => failStreak' <= Fall
      BY <1>2, ThresholdAssumption DEF Fail, Hysteresis, TypeOK, Min
    <2>6. QED
      <3>1. healthy' \in BOOLEAN
        BY <2>2
      <3>2. Hysteresis'
        BY <2>1, <2>2, <2>3, <2>4, ThresholdAssumption DEF Hysteresis
      <3>3. healthy /\ ~healthy' => failStreak' = Fall
        <4>1. healthy /\ ~healthy' => ~(failStreak' < Fall) /\ failStreak' <= Fall
          BY <2>2, <2>3, <2>5, Zenon
        <4>2. QED BY <4>1, <2>1, ThresholdAssumption
      <3>4. ~(~healthy /\ healthy')
        BY <2>2
      <3>5. QED BY <2>1, <3>1, <3>2, <3>3, <3>4
  <1>3. QED BY <1>1, <1>2

LEMMA NextInv == Inv /\ [Next]_vars => Inv'
  <1> SUFFICES ASSUME Inv, [Next]_vars PROVE Inv'
    OBVIOUS
  <1> USE CallersAssumption DEF Inv
  <1>1. CASE UNCHANGED vars
    BY <1>1 DEF vars, checkVars, TypeOK, Exclusion, Inside, CountersAreStreaks,
                Hysteresis, ViewFollows, Reporting
  <1>2. CASE TargetFlips
    BY <1>2 DEF TargetFlips, checkVars, TypeOK, Exclusion, Inside,
                CountersAreStreaks, Hysteresis, ViewFollows, Reporting
  <1>3. ASSUME NEW t \in Callers, Enter(t) PROVE Inv'
    BY <1>3 DEF Enter, checkVars, TypeOK, Exclusion, Inside, CountersAreStreaks,
                Hysteresis, ViewFollows, Reporting
  <1>4. ASSUME NEW t \in Callers, Lock(t) PROVE Inv'
    BY <1>4 DEF Lock, checkVars, TypeOK, Exclusion, Inside, CountersAreStreaks,
                Hysteresis, ViewFollows, Reporting
  <1>5. ASSUME NEW t \in Callers, Check(t) PROVE Inv'
    <2>1. Succeed \/ Fail
      BY <1>5 DEF Check
    <2>2. /\ healthy' \in BOOLEAN
          /\ consecutiveOK' \in 0..Rise /\ consecutiveFail' \in 0..Fall
          /\ okStreak' \in 0..MaxStreak /\ failStreak' \in 0..MaxStreak
          /\ CountersAreStreaks' /\ Hysteresis'
      BY <2>1, ResultCounts
    <2>3. TypeOK'
      BY <1>5, <2>2 DEF Check, TypeOK
    <2>4. Exclusion'
      BY <1>5 DEF Check, TypeOK, Exclusion, Inside
    <2>5. \A u \in Callers : pc[u] # "report"
      BY <1>5 DEF Check, Exclusion, Inside
    <2>6. ViewFollows'
      BY <1>5, <2>2, <2>5 DEF Check, TypeOK, ViewFollows, Reporting
    <2>7. QED BY <2>2, <2>3, <2>4, <2>6
  <1>6. ASSUME NEW t \in Callers, Report(t) PROVE Inv'
    <2>1. \A u \in Callers : u # t => pc[u] # "report"
      BY <1>6 DEF Report, Exclusion, Inside
    <2>2. QED
      BY <1>6, <2>1 DEF Report, checkVars, TypeOK, Exclusion, Inside,
                        CountersAreStreaks, Hysteresis, ViewFollows, Reporting
  <1>7. ASSUME NEW t \in Callers, Unlock(t) PROVE Inv'
    BY <1>7 DEF Unlock, checkVars, TypeOK, Exclusion, Inside, CountersAreStreaks,
                Hysteresis, ViewFollows, Reporting
  <1>8. QED
    BY <1>1, <1>2, <1>3, <1>4, <1>5, <1>6, <1>7 DEF Next, Step

(* The strengthening of all the invariants below is itself one.            *)
THEOREM InvHolds == Spec => []Inv
  BY InitInv, NextInv, PTL DEF Spec

(* Every variable keeps its type and the counters stay within rise and     *)
(* fall, for every threshold and any number of concurrent callers.         *)
THEOREM TypeCorrect == Spec => []TypeOK
  <1>1. Inv => TypeOK BY DEF Inv
  <1>2. QED BY <1>1, InvHolds, PTL

(* The health flag is a hysteresis on the results: runCheck's counters     *)
(* never let it stay up over fall failures or down over rise successes.    *)
THEOREM FlagIsHysteresis == Spec => []Hysteresis
  <1>1. Inv => Hysteresis BY DEF Inv
  <1>2. QED BY <1>1, InvHolds, PTL

(* runMu delivers transitions in order and without loss: with no run in    *)
(* flight the policy manager knows the scheduler's health.                 *)
THEOREM ManagerIsTold == Spec => []ToldWhenIdle
  <1>1. Inv => ToldWhenIdle
    BY CallersAssumption
       DEF Inv, TypeOK, Exclusion, Inside, ViewFollows, Reporting, ToldWhenIdle
  <1>2. QED BY <1>1, InvHolds, PTL

(* The flag turns only on the result that completes rise successes or fall *)
(* failures in a row: no other step of runCheck touches it.                *)
THEOREM FlagFlipsOnThreshold == Spec => FlipsOnThreshold
  <1>1. Inv /\ [Next]_vars =>
          [/\ ~healthy /\ healthy' => okStreak' = Rise
           /\ healthy /\ ~healthy' => failStreak' = Fall]_vars
    <2> SUFFICES ASSUME Inv, [Next]_vars
                 PROVE  \/ /\ ~healthy /\ healthy' => okStreak' = Rise
                           /\ healthy /\ ~healthy' => failStreak' = Fall
                        \/ vars' = vars
      OBVIOUS
    <2>1. CASE healthy' = healthy
      BY <2>1
    <2>2. CASE healthy' # healthy
      <3>1. Succeed \/ Fail
        BY <2>2 DEF Next, Step, TargetFlips, Enter, Lock, Check, Report, Unlock,
                    vars, checkVars
      <3>2. QED BY <3>1, ResultCounts DEF Inv
    <2>3. QED BY <2>1, <2>2
  <1>2. QED BY <1>1, InvHolds, PTL DEF Spec, FlipsOnThreshold

(* No transition is reported twice: the health that runCheck hands to the  *)
(* manager is never the one the manager was last told of.                  *)
THEOREM ManagerHearsNews == Spec => ReportsAreNews
  <1>1. Inv /\ [Next]_vars => [\A t \in Callers : Report(t) => told' # told]_vars
    <2> SUFFICES ASSUME Inv, NEW t \in Callers, Report(t) PROVE told' # told
      OBVIOUS
    <2>1. Reporting /\ told' = healthy
      BY DEF Report, Reporting
    <2>2. told = ~healthy /\ healthy \in BOOLEAN
      BY <2>1 DEF Inv, ViewFollows, TypeOK
    <2>3. QED BY <2>1, <2>2
  <1>2. QED BY <1>1, InvHolds, PTL DEF Spec, ReportsAreNews

(* Refinement: every step of the scheduler is a result of CheckVerdict or  *)
(* leaves its flag and verdict alone, so users of a scheduler may reason   *)
(* with CheckVerdict whatever the thresholds are.                          *)
THEOREM SchedulerImplementsVerdict == Spec => ImplementsVerdict
  <1> DEFINE decided == consecutiveOK >= Rise \/ consecutiveFail >= Fall
  <1>1. Init => Verdict!Init
    BY ThresholdAssumption DEF Init, Verdict!Init
  <1>2. Inv /\ [Next]_vars => [Verdict!Next]_(Verdict!vars)
    <2> SUFFICES ASSUME Inv, [Next]_vars PROVE [Verdict!Next]_(Verdict!vars)
      OBVIOUS
    <2>1. CASE UNCHANGED checkVars
      BY <2>1 DEF checkVars, Verdict!vars
    <2>2. CASE Succeed
      <3>1. /\ healthy' = (healthy \/ consecutiveOK' >= Rise)
            /\ healthy \in BOOLEAN
        BY <2>2 DEF Succeed, Inv, TypeOK
      <3>2. ~(consecutiveFail' >= Fall)
        BY <2>2, ThresholdAssumption DEF Succeed
      <3>3. CASE consecutiveOK' >= Rise
        <4>1. healthy' = TRUE /\ decided' = TRUE
          BY <3>1, <3>3
        <4>2. QED BY <4>1 DEF Verdict!Next, Verdict!Result, Verdict!After
      <3>4. CASE ~(consecutiveOK' >= Rise)
        <4>1. healthy' = healthy /\ decided' = FALSE
          BY <3>1, <3>2, <3>4
        <4>2. QED BY <4>1 DEF Verdict!Next, Verdict!Result, Verdict!After
      <3>5. QED BY <3>3, <3>4
    <2>3. CASE Fail
      <3>1. /\ healthy' = (healthy /\ consecutiveFail' < Fall)
            /\ healthy \in BOOLEAN
            /\ consecutiveFail' \in Int
        BY <2>3, ThresholdAssumption DEF Fail, Inv, TypeOK, Min
      <3>2. ~(consecutiveOK' >= Rise)
        BY <2>3, ThresholdAssumption DEF Fail
      <3>3. CASE consecutiveFail' >= Fall
        <4>1. ~(consecutiveFail' < Fall)
          BY <3>1, <3>3, ThresholdAssumption
        <4>2. healthy' = FALSE /\ decided' = TRUE
          BY <3>1, <3>3, <4>1
        <4>3. QED BY <4>2 DEF Verdict!Next, Verdict!Result, Verdict!After
      <3>4. CASE ~(consecutiveFail' >= Fall)
        <4>1. consecutiveFail' < Fall
          BY <3>1, <3>4, ThresholdAssumption
        <4>2. healthy' = healthy /\ decided' = FALSE
          BY <3>1, <3>2, <3>4, <4>1
        <4>3. QED BY <4>2 DEF Verdict!Next, Verdict!Result, Verdict!After
      <3>5. QED BY <3>3, <3>4
    <2>4. QED
      BY <2>1, <2>2, <2>3 DEF Next, Step, TargetFlips, Enter, Lock, Check, Report,
                              Unlock, vars, checkVars
  <1>3. QED BY <1>1, <1>2, InvHolds, PTL DEF Spec, ImplementsVerdict, Verdict!Spec
=============================================================================
