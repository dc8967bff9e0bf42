----------------------------- MODULE BgpManager -----------------------------
(***************************************************************************)
(* The route operations of internal/bgp/manager.go over the RIB of the     *)
(* embedded GoBGP server.  A value of this component is a record           *)
(*   rib        per prefix the attributes of the locally originated path,  *)
(*              or NoRoute (external: GoBGP's table)                       *)
(*   installed  the prefixes with an entry in Manager.installedRouteUUID   *)
(* The callers hold policy.Manager.mu across a whole operation, so an      *)
(* operation is a function from such a value and an outcome to the next    *)
(* value.  The outcomes: "ok", GoBGP refused DeletePath, GoBGP refused     *)
(* AddPath.  A failed operation returns an error to the policy manager.    *)
(***************************************************************************)
EXTENDS Naturals

CONSTANTS VIPPrefixes, NoRoute

Outcomes == {"ok", "deleteFailed", "addFailed"}

NoRoutes == [rib |-> [p \in VIPPrefixes |-> NoRoute], installed |-> {}]

(* DeletePath removed the path and clearInstalledUUID forgot it.           *)
Deleted(bgp, p) ==
    [rib |-> [bgp.rib EXCEPT ![p] = NoRoute], installed |-> bgp.installed \ {p}]

(* A store that forgets to remember the UUID of the new path.              *)
AddedUntracked(bgp, p, attrs) ==
    [rib |-> [bgp.rib EXCEPT ![p] = attrs], installed |-> bgp.installed]

(* AddPath installed the path and storeInstalledUUID remembered it.        *)
Added(bgp, p, attrs) ==
    [rib |-> [bgp.rib EXCEPT ![p] = attrs], installed |-> bgp.installed \cup {p}]

(***************************************************************************)
(* upsertVIP (AnnounceVIP, PessimizeVIP): the previous path, when its UUID *)
(* is known, is deleted first; only then is the new one added.  A refused  *)
(* DeletePath leaves everything as it was, a refused AddPath leaves no     *)
(* route at all.                                                           *)
(***************************************************************************)
upsertAccumulates(bgp, p, attrs, outcome) ==
    IF outcome # "ok" THEN bgp
    ELSE Added(bgp, p, IF p \in bgp.installed
                       THEN [attrs EXCEPT !.prepend = @ + bgp.rib[p].prepend] ELSE attrs)

upsertVIP(bgp, p, attrs, outcome) ==
    LET cleared == IF p \in bgp.installed THEN Deleted(bgp, p) ELSE bgp
    IN  IF outcome = "ok" THEN Added(cleared, p, attrs)
        ELSE IF outcome = "addFailed" THEN cleared ELSE bgp

WithdrawVIP(bgp, p, outcome) ==
    IF outcome = "ok" THEN Deleted(bgp, p) ELSE bgp
=============================================================================
