------------------------------ MODULE MCPolicy ------------------------------
(***************************************************************************)
(* A small instance of PolicyManager.  The definitions cover both fail     *)
(* actions, the three kinds of checks_policy, one and two checks, a drain  *)
(* file, and two definitions of one prefix whose announced attributes      *)
(* differ.                                                                 *)
(***************************************************************************)
EXTENDS PolicyManager

Block(prepend, communities) == [prepend |-> prepend, communities |-> communities]

Definition(prefix, checks, checksPolicy, expr, failAction, file, announce, lower) ==
    [prefix |-> prefix, checks |-> checks, checksPolicy |-> checksPolicy, expr |-> expr,
     policy |-> [failAction |-> failAction, lowerPriorityFile |-> file,
                 announce |-> announce, lowerPriority |-> lower]]

Unset == Block(<<>>, <<>>)

(* Two checks, either is enough; drained by a file.                        *)
AnyOfTwo(p) == Definition(p, {"web", "dns"}, "any", {}, "withdraw", "drain",
                          Block(<<1>>, <<"c1">>), Block(<<2>>, <<"c2", "c1">>))

(* The second check alone, degraded instead of withdrawn.                  *)
OnlyDns(p) == Definition(p, {"dns"}, "all", {}, "lower_priority", "", Unset, Unset)

(* Both checks needed, degraded instead of withdrawn.                      *)
BothOrLower(p) == Definition(p, {"web", "dns"}, "all", {}, "lower_priority", "",
                             Unset, Block(<<3>>, <<>>))

(* An expression: web and not dns.                                         *)
WebNotDns(p) == Definition(p, {"web", "dns"}, "expr", {{"web"}}, "withdraw", "drain",
                           Unset, Unset)

VIPDefs == {AnyOfTwo("p1"), OnlyDns("p1"), BothOrLower("p1"), WebNotDns("p1"), OnlyDns("p2")}
=============================================================================
