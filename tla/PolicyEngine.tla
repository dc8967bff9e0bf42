---------------------------- MODULE PolicyEngine ----------------------------
(***************************************************************************)
(* The pure part of pathosd's policy: how the health of a VIP's checks is  *)
(* folded into one health, which VIP state that health calls for, and      *)
(* which BGP attributes a VIP in that state is originated with.            *)
(* Code: internal/policy/engine.go, internal/policy/manager.go             *)
(* (combineHealth), internal/config/checkspolicy.go (Eval).                *)
(*                                                                         *)
(* A VIP definition (config.VIPConfig after defaults) is a record with     *)
(*   prefix        the announced prefix                                    *)
(*   checks        the set of its check names                              *)
(*   checksPolicy  "all", "any" or "expr"                                  *)
(*   expr          for "expr": the sets of healthy checks that satisfy the *)
(*                 compiled expression (an expression over booleans is     *)
(*                 exactly such a family of sets); {} otherwise            *)
(*   policy        failAction, lowerPriorityFile ("" when not set), and    *)
(*                 the announce and lowerPriority blocks, each with an     *)
(*                 optional prepend (<<>> or <<n>>) and communities        *)
(***************************************************************************)
EXTENDS Naturals, Sequences, Folds

VIPStates == {"withdrawn", "announced", "pessimized"}
HealthStatus == {"unknown", "healthy", "unhealthy"}

(***************************************************************************)
(* Evaluate: the state a VIP with known health belongs in.                 *)
(***************************************************************************)
Evaluate(healthy, filePresent, policy) ==
    IF healthy THEN IF filePresent THEN "pessimized" ELSE "announced"
    ELSE IF policy.failAction = "lower_priority" THEN "pessimized"
    ELSE "withdrawn"

(***************************************************************************)
(* Attributes.  defaultLowerPriorityPrepend applies when the block carries *)
(* no prepend; mergeCommunities keeps the first occurrence of each value.  *)
(***************************************************************************)
defaultLowerPriorityPrepend == 6

PrependOr(block, default) ==
    IF block.prepend = <<>> THEN default ELSE block.prepend[1]

mergeCommunities(base, extra) ==
    LET all == base \o extra
    IN  MapThenFoldSet(
            LAMBDA c, out : IF \E i \in DOMAIN out : out[i] = c THEN out ELSE Append(out, c),
            <<>>, LAMBDA i : all[i],
            LAMBDA S : CHOOSE i \in S : \A j \in S : j <= i, DOMAIN all)

BaseRouteAttrs(policy) ==
    [prepend |-> PrependOr(policy.announce, 0),
     communities |-> policy.announce.communities]

PessimizedRouteAttrs(policy) ==
    LET base == BaseRouteAttrs(policy)
    IN  [prepend |-> base.prepend
                       + PrependOr(policy.lowerPriority, defaultLowerPriorityPrepend),
         communities |-> mergeCommunities(base.communities,
                                          policy.lowerPriority.communities)]

RouteAttrsFor(policy, state) ==
    IF state = "announced" THEN BaseRouteAttrs(policy)
    ELSE IF state = "pessimized" THEN PessimizedRouteAttrs(policy)
    ELSE [prepend |-> 0, communities |-> <<>>]

(***************************************************************************)
(* ChecksEvaluator.Eval over the set of healthy checks.                    *)
(***************************************************************************)
Eval(def, healthy) ==
    \/ /\ def.checksPolicy = "all"
       /\ def.checks \subseteq healthy
       /\ def.checks # {}
    \/ def.checksPolicy = "any" /\ def.checks \cap healthy # {}
    \/ def.checksPolicy = "expr" /\ (def.checks \cap healthy) \in def.expr

(***************************************************************************)
(* combineHealth: unknown counts as not healthy, and the result is unknown *)
(* only while no check has reported.                                       *)
(***************************************************************************)
combineHealth(def, checks) ==
    IF \A c \in def.checks : checks[c] = "unknown" THEN "unknown"
    ELSE IF Eval(def, {c \in def.checks : checks[c] = "healthy"}) THEN "healthy"
    ELSE "unhealthy"
=============================================================================
