------------------------------ MODULE MCDaemon ------------------------------
EXTENDS Daemon

(* The running file, the same with another VIP section, one that needs a   *)
(* restart, one that does not load, none.                                  *)
Running == [readable |-> TRUE, loads |-> TRUE, fixed |-> 1, text |-> 1]
Files == {Running,
          [Running EXCEPT !.text = 2],
          [Running EXCEPT !.fixed = 2],
          [Running EXCEPT !.loads = FALSE],
          [Running EXCEPT !.readable = FALSE]}
=============================================================================
