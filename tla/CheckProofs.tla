----------------------------- MODULE CheckProofs -----------------------------
(***************************************************************************)
(* `pathosd check` gives the right exit code for every config file,        *)
(* command line and behaviour of the targets, however the goroutines of    *)
(* the checks interleave.                                                  *)
(***************************************************************************)
EXTENDS CheckCommand, TLAPS

(* The address was there, or nobody asked for it.                          *)
Admitted(p) == VIPOf(p).requireLocalAddress => opts.skipLocalAddress \/ seen[p].address

(* What is known of a check at each point of its goroutine.  A finished    *)
(* one carries the verdict on the answer it got, and it got one only past  *)
(* the guard.                                                              *)
JobSound(p) ==
    /\ job[p] \in {"todo", "skipped", "guard", "probe", "finished"}
    /\ seen[p] = [address |-> seen[p].address, answer |-> seen[p].answer]
    /\ job[p] = "skipped" => Unselected(p)
    /\ job[p] \in {"guard", "probe", "finished"} => CheckOf(p).type \in CheckTypes
    /\ job[p] = "probe" => Admitted(p)
    /\ job[p] # "finished" => result[p].ran = FALSE /\ seen[p].answer = Nil
    /\ job[p] = "finished" =>
          /\ result[p].ran = TRUE
          /\ \/ result[p].success = FALSE /\ seen[p].answer = Nil
             \/ /\ result[p].success = Check(CheckOf(p), seen[p].answer)
                /\ seen[p].answer # Nil
                /\ seen[p].answer \in Answers[CheckOf(p).type]
                /\ Admitted(p)

Inv ==
    /\ pc \in {"load", "select", "launch", "done"}
    /\ pc # "done" => exit = Nil
    /\ pc \in {"load", "select"} => DOMAIN job = {}
    /\ pc = "launch" => DOMAIN job = Jobs
    /\ DOMAIN result = DOMAIN job /\ DOMAIN seen = DOMAIN job
    /\ \A p \in DOMAIN job : JobSound(p)
    /\ ExitIsVerdict

LEMMA InitInv == Init => Inv
  <1> SUFFICES ASSUME Init PROVE Inv
    OBVIOUS
  <1>1. pc = "load" /\ exit = Nil /\ job = <<>> /\ result = job /\ seen = job
    BY DEF Init
  <1>2. DOMAIN job = {}
    BY <1>1
  <1>3. QED BY <1>1, <1>2 DEF Inv, ExitIsVerdict

(* While the checks run, what they are asked to do does not change.        *)
LEMMA SameQuestion ==
    ASSUME UNCHANGED <<opts, loaded>>
    PROVE  /\ Jobs' = Jobs /\ selectVIPs' = selectVIPs
           /\ \A p : /\ CheckOf(p)' = CheckOf(p) /\ VIPOf(p)' = VIPOf(p)
                     /\ Unselected(p)' = Unselected(p) /\ Guarded(p)' = Guarded(p)
  BY DEF Jobs, selectVIPs, CheckOf, VIPOf, VIPNamed, Unselected, Guarded

(* A step of one check leaves the others alone.                            *)
LEMMA OneJob ==
    ASSUME Inv, pc = "launch", UNCHANGED <<opts, loaded, pc, exit>>, NEW p \in DOMAIN job,
           DOMAIN job' = DOMAIN job, DOMAIN result' = DOMAIN job, DOMAIN seen' = DOMAIN job,
           \A q \in DOMAIN job : q # p => job'[q] = job[q] /\ result'[q] = result[q] /\ seen'[q] = seen[q],
           JobSound(p)'
    PROVE  Inv'
  <1>1. Jobs' = Jobs /\ exit' = Nil
    BY SameQuestion DEF Inv
  <1>2. ASSUME NEW q \in DOMAIN job, q # p PROVE JobSound(q)'
    <2>1. JobSound(q) /\ job'[q] = job[q] /\ result'[q] = result[q] /\ seen'[q] = seen[q]
      BY <1>2 DEF Inv
    <2>2. /\ CheckOf(q)' = CheckOf(q) /\ VIPOf(q)' = VIPOf(q) /\ Unselected(q)' = Unselected(q)
          /\ opts' = opts
      BY SameQuestion
    <2>3. QED BY <2>1, <2>2 DEF JobSound, Admitted
  <1>3. \A q \in DOMAIN job' : JobSound(q)'
    BY <1>2
  <1>4. ExitIsVerdict'
    BY <1>1 DEF ExitIsVerdict
  <1>5. QED BY <1>1, <1>3, <1>4 DEF Inv

LEMMA SkipKeeps == ASSUME Inv, NEW p \in DOMAIN job, Skip(p) PROVE Inv'
  <1>1. /\ pc = "launch" /\ job[p] = "todo" /\ Unselected(p) /\ JobSound(p)
        /\ job' = [job EXCEPT ![p] = "skipped"] /\ UNCHANGED <<opts, loaded, pc, exit, result, seen>>
    BY DEF Skip, Turn, Inv
  <1>2. job'[p] = "skipped" /\ Unselected(p)'
    BY <1>1, SameQuestion
  <1>3. JobSound(p)'
    BY <1>1, <1>2 DEF JobSound
  <1>4. DOMAIN result = DOMAIN job /\ DOMAIN seen = DOMAIN job
    BY DEF Inv
  <1>5. QED BY <1>1, <1>3, <1>4, OneJob

LEMMA LaunchKeeps == ASSUME Inv, NEW p \in DOMAIN job, Launch(p) PROVE Inv'
  <1>1. /\ pc = "launch" /\ job[p] = "todo" /\ build(p) /\ JobSound(p)
        /\ job' = [job EXCEPT ![p] = IF Guarded(p) THEN "guard" ELSE "probe"]
        /\ UNCHANGED <<opts, loaded, pc, exit, result, seen>>
    BY DEF Launch, Turn, Inv
  <1>2. job'[p] = (IF Guarded(p) THEN "guard" ELSE "probe") /\ CheckOf(p)' = CheckOf(p)
    BY <1>1, SameQuestion
  <1>3. CheckOf(p).type \in CheckTypes
    BY <1>1 DEF build, NewChecker
  <1>4. ~Guarded(p) => Admitted(p)'
    BY <1>1, SameQuestion DEF Guarded, Admitted
  <1>5. JobSound(p)'
    BY <1>1, <1>2, <1>3, <1>4 DEF JobSound
  <1>6. DOMAIN result = DOMAIN job /\ DOMAIN seen = DOMAIN job
    BY DEF Inv
  <1>7. QED BY <1>1, <1>5, <1>6, OneJob

LEMMA GuardKeeps == ASSUME Inv, NEW p \in DOMAIN job, Guard(p) PROVE Inv'
  <1> DEFINE there == Assigned(GuardOf(p), local)
  <1>1. /\ pc = "launch" /\ job[p] = "guard" /\ JobSound(p)
        /\ seen' = [seen EXCEPT ![p].address = there]
        /\ UNCHANGED <<opts, loaded, pc, exit>>
    BY DEF Guard, Inv
  <1>2. \/ there /\ job' = [job EXCEPT ![p] = "probe"] /\ result' = result
        \/ /\ job' = [job EXCEPT ![p] = "finished"]
           /\ result' = [result EXCEPT ![p] = [ran |-> TRUE, success |-> FALSE]]
    BY DEF Guard, Finish
  <1> HIDE DEF there
  <1>3. DOMAIN result = DOMAIN job /\ DOMAIN seen = DOMAIN job
    BY DEF Inv
  <1>4. seen'[p] = [address |-> there, answer |-> Nil]
    BY <1>1, <1>3 DEF JobSound
  <1>5. CheckOf(p)' = CheckOf(p) /\ CheckOf(p).type \in CheckTypes
    BY <1>1, SameQuestion DEF JobSound
  <1>6. JobSound(p)'
    <2>1. CASE there /\ job' = [job EXCEPT ![p] = "probe"] /\ result' = result
      <3>1. job'[p] = "probe" /\ result'[p].ran = FALSE
        BY <1>1, <2>1 DEF JobSound
      <3>2. Admitted(p)'
        BY <1>4, <2>1 DEF Admitted
      <3>3. QED BY <1>4, <1>5, <3>1, <3>2 DEF JobSound
    <2>2. CASE /\ job' = [job EXCEPT ![p] = "finished"]
               /\ result' = [result EXCEPT ![p] = [ran |-> TRUE, success |-> FALSE]]
      <3>1. job'[p] = "finished" /\ result'[p] = [ran |-> TRUE, success |-> FALSE]
        BY <1>3, <2>2
      <3>2. QED BY <1>4, <1>5, <3>1 DEF JobSound
    <2>3. QED BY <1>2, <2>1, <2>2
  <1>7. QED BY <1>1, <1>2, <1>3, <1>6, OneJob

LEMMA ProbeKeeps == ASSUME Inv, NEW p \in DOMAIN job, Probe(p) PROVE Inv'
  <1>1. pc = "launch" /\ job[p] = "probe" /\ JobSound(p) /\ UNCHANGED <<opts, loaded, pc, exit>>
    BY DEF Probe, Inv
  <1>2. PICK a \in Answers[CheckOf(p).type] :
           /\ seen' = [seen EXCEPT ![p].answer = a]
           /\ job' = [job EXCEPT ![p] = "finished"]
           /\ result' = [result EXCEPT ![p] = [ran |-> TRUE, success |-> Check(CheckOf(p), a)]]
    BY DEF Probe, Finish
  <1>3. a # Nil
    BY <1>1, <1>2, AnswersAssumption DEF JobSound
  <1>4. DOMAIN result = DOMAIN job /\ DOMAIN seen = DOMAIN job
    BY DEF Inv
  <1>5. /\ seen'[p] = [address |-> seen[p].address, answer |-> a]
        /\ job'[p] = "finished"
        /\ result'[p] = [ran |-> TRUE, success |-> Check(CheckOf(p), a)]
    BY <1>1, <1>2, <1>4 DEF JobSound
  <1>6. CheckOf(p)' = CheckOf(p) /\ Admitted(p)'
    BY <1>1, <1>5, SameQuestion DEF JobSound, Admitted
  <1>7. CheckOf(p).type \in CheckTypes
    BY <1>1 DEF JobSound
  <1>8. JobSound(p)'
    BY <1>2, <1>3, <1>5, <1>6, <1>7 DEF JobSound
  <1>9. QED BY <1>1, <1>2, <1>4, <1>8, OneJob

(* A step to an exit that is not a verdict.                                *)
LEMMA GivingUpKeeps ==
    ASSUME Inv, NEW why, why # "verdict", Exit(200, why), UNCHANGED <<opts, loaded, job, result, seen>>
    PROVE  Inv'
  <1>1. pc' = "done" /\ exit' = [code |-> 200, why |-> why]
    BY DEF Exit
  <1>2. \A p : JobSound(p)' <=> JobSound(p)
    <2> TAKE p
    <2>1. CheckOf(p)' = CheckOf(p) /\ VIPOf(p)' = VIPOf(p) /\ Unselected(p)' = Unselected(p)
      BY SameQuestion
    <2>2. QED BY <2>1 DEF JobSound, Admitted
  <1>3. ExitIsVerdict'
    BY <1>1 DEF ExitIsVerdict
  <1>4. QED BY <1>1, <1>2, <1>3 DEF Inv

LEMMA SelectKeeps == ASSUME Inv, Select PROVE Inv'
  <1>1. /\ pc = "select" /\ pc' = "launch" /\ UNCHANGED <<opts, loaded, exit>>
        /\ job' = [p \in Jobs |-> "todo"]
        /\ result' = [p \in Jobs |-> [ran |-> FALSE, success |-> FALSE]]
        /\ seen' = [p \in Jobs |-> [address |-> FALSE, answer |-> Nil]]
    BY DEF Select
  <1>2. exit' = Nil /\ Jobs' = Jobs
    BY <1>1, SameQuestion DEF Inv
  <1>3. ASSUME NEW p \in Jobs PROVE JobSound(p)'
    <2>1. /\ job'[p] = "todo" /\ result'[p] = [ran |-> FALSE, success |-> FALSE]
          /\ seen'[p] = [address |-> FALSE, answer |-> Nil]
      BY <1>1
    <2>2. QED BY <2>1 DEF JobSound
  <1>4. DOMAIN job' = Jobs /\ DOMAIN result' = Jobs /\ DOMAIN seen' = Jobs
    BY <1>1
  <1>5. ExitIsVerdict'
    BY <1>2 DEF ExitIsVerdict
  <1>6. QED BY <1>1, <1>2, <1>3, <1>4, <1>5 DEF Inv

(* The checks of a VIP that passed are the ones that earned it.            *)
LEMMA PassedIsEarned ==
    ASSUME Inv, Waited, NEW i
    PROVE  Healthy(i) = PE!Eval(Evaluator(loaded.vips[selectVIPs[i]]), Earned(i))
  <1> DEFINE passed == {p \in DOMAIN result : p[1] = i /\ result[p].ran /\ result[p].success}
             earned == {q \in DOMAIN job : /\ q[1] = i
                                           /\ seen[q].answer # Nil
                                           /\ Check(CheckOf(q), seen[q].answer)
                                           /\ VIPOf(q).requireLocalAddress => opts.skipLocalAddress \/ seen[q].address}
  <1>1. ASSUME NEW p \in DOMAIN job
        PROVE  (result[p].ran /\ result[p].success) <=> /\ seen[p].answer # Nil
                                                       /\ Check(CheckOf(p), seen[p].answer)
                                                       /\ Admitted(p)
    <2>1. JobSound(p) /\ job[p] \in {"finished", "skipped"}
      BY DEF Inv, Waited
    <2>2. CASE job[p] = "skipped"
      BY <2>1, <2>2 DEF JobSound
    <2>3. CASE job[p] = "finished"
      BY <2>1, <2>3 DEF JobSound
    <2>4. QED BY <2>1, <2>2, <2>3
  <1>2. passed = earned
    BY <1>1 DEF Inv, Admitted
  <1>3. Healthy(i) = PE!Eval(Evaluator(loaded.vips[selectVIPs[i]]), {EffectiveName(CheckOf(p)) : p \in passed})
    BY DEF Healthy
  <1>4. Earned(i) = {EffectiveName(CheckOf(p)) : p \in earned}
    BY DEF Earned
  <1> HIDE DEF passed, earned
  <1>5. QED BY <1>2, <1>3, <1>4

LEMMA ReportKeeps == ASSUME Inv, Report PROVE Inv'
  <1>1. pc = "launch" /\ Waited /\ UNCHANGED <<opts, file, loaded, job, result, local, seen>>
    BY DEF Report
  <1>2. CASE Exit(200, "output")
    BY <1>1, <1>2, GivingUpKeeps
  <1>3. CASE Exit(IF \A i \in DOMAIN selectVIPs : Healthy(i) THEN 0 ELSE 1, "verdict")
    <2> DEFINE well == \A i \in DOMAIN selectVIPs :
                          PE!Eval(Evaluator(loaded.vips[selectVIPs[i]]), Earned(i))
    <2>1. (\A i \in DOMAIN selectVIPs : Healthy(i)) <=> well
      BY <1>1, PassedIsEarned
    <2>2. pc' = "done" /\ exit' = [code |-> IF well THEN 0 ELSE 1, why |-> "verdict"]
      BY <1>3, <2>1 DEF Exit
    <2>3. \A p \in Jobs : Unselected(p) \/ job[p] = "finished"
      <3> TAKE p \in Jobs
      <3>1. JobSound(p) /\ job[p] \in {"finished", "skipped"}
        BY <1>1 DEF Inv, Waited
      <3>2. QED BY <3>1 DEF JobSound
    <2>4. well' <=> well
      <3>1. \A i : Earned(i)' = Earned(i)
        BY <1>1 DEF Earned, selectVIPs, CheckOf, VIPOf, VIPNamed
      <3>2. selectVIPs' = selectVIPs /\ loaded' = loaded
        BY <1>1, SameQuestion
      <3>3. QED BY <3>1, <3>2
    <2>5. (exit'.code = 0) = well'
      <3>1. CASE well
        <4>1. exit'.code = 0 /\ well'
          BY <2>2, <2>4, <3>1
        <4>2. QED BY <4>1 DEF Causes
      <3>2. CASE ~well
        <4>1. exit'.code # 0 /\ ~well'
          BY <2>2, <2>4, <3>2
        <4>2. (exit'.code = 0) = FALSE /\ well' = FALSE
          BY <4>1
        <4>3. QED BY <4>2
      <3>3. QED BY <3>1, <3>2
    <2>6. \A p \in Jobs' : Unselected(p)' \/ job'[p] = "finished"
      BY <1>1, <2>3, SameQuestion
    <2>7. ExitIsVerdict'
      BY <2>5, <2>6 DEF ExitIsVerdict
    <2>8. \A p : JobSound(p)' <=> JobSound(p)
      <3> TAKE p
      <3>1. CheckOf(p)' = CheckOf(p) /\ VIPOf(p)' = VIPOf(p) /\ Unselected(p)' = Unselected(p)
        BY <1>1, SameQuestion
      <3>2. QED BY <1>1, <3>1 DEF JobSound, Admitted
    <2>9. QED BY <1>1, <2>2, <2>7, <2>8 DEF Inv
  <1>4. QED BY <1>2, <1>3 DEF Report

(* A step that changes nothing the invariant speaks of.                    *)
LEMMA FrameKeeps ==
    ASSUME Inv, UNCHANGED <<opts, loaded, pc, job, result, exit, seen>>
    PROVE  Inv'
  <1>1. \A p : JobSound(p)' <=> JobSound(p)
    <2> TAKE p
    <2>1. CheckOf(p)' = CheckOf(p) /\ VIPOf(p)' = VIPOf(p) /\ Unselected(p)' = Unselected(p)
      BY SameQuestion
    <2>2. QED BY <2>1 DEF JobSound, Admitted
  <1>2. Jobs' = Jobs /\ selectVIPs' = selectVIPs /\ \A p : Unselected(p)' = Unselected(p)
    BY SameQuestion
  <1>3. \A i : Earned(i)' = Earned(i)
    BY DEF Earned, selectVIPs, CheckOf, VIPOf, VIPNamed
  <1>4. ExitIsVerdict'
    BY <1>2, <1>3 DEF Inv, ExitIsVerdict
  <1>5. QED BY <1>1, <1>2, <1>4 DEF Inv

LEMMA LoadKeeps == ASSUME Inv, Load PROVE Inv'
  <1>1. /\ pc = "load" /\ UNCHANGED <<job, result, seen>>
        /\ \/ exit' = [code |-> 200, why |-> "config"] /\ pc' = "done"
           \/ exit' = exit /\ pc' = "select"
    BY DEF Load, Exit
  <1>2. exit = Nil /\ DOMAIN job = {} /\ DOMAIN result = DOMAIN job /\ DOMAIN seen = DOMAIN job
    BY <1>1 DEF Inv
  <1>3. ExitIsVerdict'
    BY <1>1, <1>2 DEF ExitIsVerdict
  <1>4. QED BY <1>1, <1>2, <1>3 DEF Inv

LEMMA StepInv == Inv /\ [Next]_vars => Inv'
  <1> SUFFICES ASSUME Inv, [Next]_vars PROVE Inv'
    OBVIOUS
  <1>1. CASE Load
    BY <1>1, LoadKeeps
  <1>2. CASE UnknownVIP \/ UnknownCheck
    BY <1>2, GivingUpKeeps DEF UnknownVIP, UnknownCheck, Reject
  <1>3. CASE Select
    BY <1>3, SelectKeeps
  <1>4. CASE Report
    BY <1>4, ReportKeeps
  <1>5. ASSUME NEW p \in DOMAIN job, Skip(p) \/ Launch(p) PROVE Inv'
    BY <1>5, SkipKeeps, LaunchKeeps
  <1>6. ASSUME NEW p \in DOMAIN job, BuildFails(p) PROVE Inv'
    BY <1>6, GivingUpKeeps DEF BuildFails
  <1>7. ASSUME NEW p \in DOMAIN job, Goroutine(p) PROVE Inv'
    BY <1>7, GuardKeeps, ProbeKeeps DEF Goroutine
  <1>8. CASE AddressesChange \/ Exited \/ UNCHANGED vars
    BY <1>8, FrameKeeps DEF AddressesChange, Exited, vars
  <1>9. QED BY <1>1, <1>2, <1>3, <1>4, <1>5, <1>6, <1>7, <1>8 DEF Next, Command

(***************************************************************************)
(* For every config file, command line, set of addresses and behaviour of  *)
(* the targets: `pathosd check` gives a verdict only when every check      *)
(* asked for has ended, and exits with 0 exactly when the checks_policy of *)
(* every selected VIP holds over the checks that passed on an answer of    *)
(* their own target, past the guard (CheckCmd.Run, execute).               *)
(***************************************************************************)
THEOREM ExitCodeIsRight == Spec => []ExitIsVerdict
  <1>1. Inv => ExitIsVerdict
    BY DEF Inv
  <1>2. QED BY <1>1, InitInv, StepInv, PTL DEF Spec

(***************************************************************************)
(* Type correctness, and that there is an exit code exactly when the       *)
(* command has returned.                                                   *)
(***************************************************************************)
THEOREM TypeCorrect == Spec => []TypeOK
  <1> DEFINE Codes == [code : {0, 1, 200}, why : Causes]
             Exits == local \in Locals /\ (pc = "done" => exit \in Codes)
  <1>1. Init => Exits
    BY DEF Init
  <1>2. Inv /\ Exits /\ [Next]_vars => Exits'
    <2> SUFFICES ASSUME Inv, Exits, [Next]_vars PROVE Exits'
      OBVIOUS
    <2>1. local' \in Locals
      BY DEF Next, Command, Load, UnknownVIP, UnknownCheck, Reject, Select, Report, Skip, Launch,
             BuildFails, Goroutine, Guard, Probe, AddressesChange, Exited, vars
    <2>2. exit' \in Codes \/ (exit' = exit /\ (pc' = pc \/ pc' # "done"))
      <3>1. CASE Report
        <4>1. \/ exit' = [code |-> IF \A i \in DOMAIN selectVIPs : Healthy(i) THEN 0 ELSE 1, why |-> "verdict"]
              \/ exit' = [code |-> 200, why |-> "output"]
          BY <3>1 DEF Report, Exit
        <4>2. QED BY <4>1 DEF Causes
      <3>2. CASE Load
        <4>1. exit' = [code |-> 200, why |-> "config"] \/ (exit' = exit /\ pc' = "select")
          BY <3>2 DEF Load, Exit
        <4>2. QED BY <4>1 DEF Causes
      <3>3. CASE UnknownVIP \/ UnknownCheck
        <4>1. exit' = [code |-> 200, why |-> "vip"] \/ exit' = [code |-> 200, why |-> "check"]
          BY <3>3 DEF UnknownVIP, UnknownCheck, Reject, Exit
        <4>2. QED BY <4>1 DEF Causes
      <3>4. CASE \E p \in DOMAIN job : BuildFails(p)
        <4>1. exit' = [code |-> 200, why |-> "build"]
          BY <3>4 DEF BuildFails, Exit
        <4>2. QED BY <4>1 DEF Causes
      <3>5. CASE Select \/ \E p \in DOMAIN job : Skip(p) \/ Launch(p)
        BY <3>5 DEF Select, Skip, Launch
      <3>6. CASE (\E p \in DOMAIN job : Goroutine(p)) \/ AddressesChange \/ Exited \/ UNCHANGED vars
        BY <3>6 DEF Goroutine, Guard, Probe, AddressesChange, Exited, vars
      <3>7. QED BY <3>1, <3>2, <3>3, <3>4, <3>5, <3>6 DEF Next, Command
    <2>3. QED BY <2>1, <2>2
  <1>3. Inv /\ Exits => TypeOK
    <2> SUFFICES ASSUME Inv, Exits PROVE TypeOK
      OBVIOUS
    <2>1. \A p \in DOMAIN job : job[p] \in {"todo", "skipped", "guard", "probe", "finished"}
      BY DEF Inv, JobSound
    <2>2. pc = "done" => exit # Nil /\ exit.code \in {0, 1, 200}
      BY ExitAssumption
    <2>3. (exit = Nil) = (pc # "done")
      BY <2>2 DEF Inv
    <2>4. QED BY <2>1, <2>2, <2>3 DEF Inv, TypeOK
  <1>4. QED BY <1>1, <1>2, <1>3, InitInv, StepInv, PTL DEF Spec
=============================================================================
