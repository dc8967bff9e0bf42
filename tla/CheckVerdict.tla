---------------------------- MODULE CheckVerdict ----------------------------
(***************************************************************************)
(* What a check scheduler promises its users, whatever rise and fall are:  *)
(* a health flag that only moves together with a verdict.  A check is      *)
(* "decided" after a result when that result completed (or continued) a    *)
(* full run of rise successes or fall failures; the flag then says which.  *)
(* An undecided result never moves the flag.  The system model (System)    *)
(* uses schedulers through this specification; Scheduler implements it.    *)
(***************************************************************************)
VARIABLES healthy, decided

vars == <<healthy, decided>>

(* The flag and the verdict one more result may leave behind.              *)
After(h) == {<<TRUE, TRUE>>, <<FALSE, TRUE>>, <<h, FALSE>>}

Init == healthy = FALSE /\ decided = FALSE

Result == <<healthy', decided'>> \in After(healthy)

Next == Result

Spec == Init /\ [][Next]_vars
=============================================================================
