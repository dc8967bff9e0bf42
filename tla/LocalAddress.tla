---------------------------- MODULE LocalAddress ----------------------------
(***************************************************************************)
(* internal/checks/localaddr.go: the guard that fails a check while the    *)
(* VIP's address is not configured on the host.  What the kernel lists is  *)
(* a set of [iface, addr] records.                                         *)
(***************************************************************************)

NewLocalAddressGuard(addr, iface) == [addr |-> addr, iface |-> iface]

(* check, once the addresses are listed.                                   *)
Assigned(g, local) ==
    \E a \in local : a.addr = g.addr /\ g.iface \in {"", a.iface}
=============================================================================
