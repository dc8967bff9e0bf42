------------------------------ MODULE MCSystem ------------------------------
(***************************************************************************)
(* Small instances of System: configs of one or two VIPs whose checks,     *)
(* parameters, policy or prefix differ from one file to the next.          *)
(***************************************************************************)
EXTENDS System

Block(prepend) == [prepend |-> prepend, communities |-> <<>>]

VIP(prefix, specs, checksPolicy, prepend) ==
    [prefix |-> prefix, checks |-> DOMAIN specs, specs |-> specs,
     checksPolicy |-> checksPolicy, expr |-> {},
     policy |-> [failAction |-> "withdraw", lowerPriorityFile |-> "",
                 announce |-> Block(prepend), lowerPriority |-> Block(<<>>)]]

Web(n) == [c \in {"web"} |-> n]
Dns(n) == [c \in {"dns"} |-> n]
Both(n) == [c \in {"web", "dns"} |-> n]

Config(a, b) == [v \in Names |-> IF v = "a" THEN a ELSE b]
Only(d) == [v \in Names |-> d]

(* One VIP with one check; its parameters and attributes changed; a check  *)
(* added; its prefix changed; gone.                                        *)
Start == Only(VIP("p1", Web(1), "all", <<>>))
Tweaked == Only(VIP("p1", Web(2), "all", <<1>>))
Widened == Only(VIP("p1", Both(1), "any", <<>>))
Moved == Only(VIP("p2", Web(1), "all", <<>>))
Gone == Only(Absent)

AllDefs(configs) == {c[v] : c \in configs, v \in Names} \ {Absent}

OneCheck == {Start, Tweaked, Moved}

(* Three scenarios in one instance: two reloads of a VIP with one check,   *)
(* with a request or a failing BGP call; the same undisturbed, the second  *)
(* of them with a third set of parameters, so that a staged VIP is staged  *)
(* anew; and, with another prefix, one undisturbed reload in which checks  *)
(* come, change or go.  Where both of two change, one runs at a time.      *)
Third == Only(VIP("p1", Web(3), "all", <<>>))
OneOf(n) == Only(VIP("p3", Web(n), "all", <<n>>))
TwoOf(n) == Only(VIP("p3", Both(n), "any", <<n>>))
TwoChecks == {OneOf(1), OneOf(2), TwoOf(1), TwoOf(2)}
EitherStart == {Start, OneOf(1), TwoOf(1)}
AllConfigs == OneCheck \cup {Third} \cup TwoChecks
AllDefsOfBoth == AllDefs(AllConfigs)

Undisturbed(c) == c["a"].prefix = "p3"
OneScenario ==
    /\ owner = "reload" => Undisturbed(file) = Undisturbed(cur)
    /\ Undisturbed(cur) => reloads <= 1 /\ requests = 0 /\ faults = 0
    /\ Third \in {file, cur} => reloads = 2 /\ requests = 0 /\ faults = 0
    /\ owner = "reload" /\ file = TwoOf(2) => cur = TwoOf(1)
    /\ TwoOf(2) \in {file, cur} => \A s, t \in Live : Idle(s) \/ Idle(t) \/ s = t
    /\ requests = 0 \/ faults = 0

LiveConfigs == {Start, Tweaked, Gone}
LiveDefs == AllDefs(LiveConfigs)
StartOnly == {Start}

(* A VIP of two checks is removed.                                         *)
WidenedOnly == {Widened}
DropsWidened == {Widened, Gone}
DropsWidenedDefs == AllDefs(DropsWidened)

(* A VIP's only check gets new parameters.                                 *)
Tweaks == {Start, Tweaked}
TweaksDefs == AllDefs(Tweaks)

(* A VIP is removed.                                                       *)
Removals == {Start, Gone}
RemovalsDefs == AllDefs(Removals)

(* Both checks are needed, with a degraded route otherwise; or one of two  *)
(* checks is dropped.                                                      *)
BothOrLower == Only([VIP("p1", Both(1), "all", <<>>) EXCEPT !.policy.failAction = "lower_priority"])
Unproven == {BothOrLower, Widened, Only(VIP("p1", Dns(1), "all", <<>>))}
UnprovenDefs == AllDefs(Unproven)
TwoCheckStart == {BothOrLower, Widened}

(* A VIP is renamed: the same prefix under another name.                   *)
Named1 == Config(VIP("p1", Web(1), "all", <<>>), Absent)
NamedOnly == {Named1}
Renamings == {Named1, Config(Absent, VIP("p1", Web(1), "all", <<>>))}
RenamingsDefs == AllDefs(Renamings)
=============================================================================
