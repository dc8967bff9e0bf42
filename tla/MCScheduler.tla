----------------------------- MODULE MCScheduler ----------------------------
(* Scheduler with a ticker and two ad-hoc triggers.                        *)
EXTENDS Scheduler
CONSTANTS ticker, trigger1, trigger2
AllCallers == {ticker, trigger1, trigger2}
=============================================================================
