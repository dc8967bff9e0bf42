----------------------------- MODULE BgpConfig -----------------------------
(***************************************************************************)
(* What internal/bgp makes of a loaded config: the global configuration    *)
(* and the peers it hands to GoBGP when the daemon starts, and the path it *)
(* originates for a VIP.  A bgp.Manager keeps the config it was built      *)
(* with, while a reload adds VIPs of a later one: RestartRequired          *)
(* (config/diff.go) is what keeps the two together.                        *)
(***************************************************************************)
EXTENDS ConfigValidation

CONSTANT Loopback   \* per listen address without a host of its own: the one to dial

PE == INSTANCE PolicyEngine

-----------------------------------------------------------------------------
(* A candidate is refused for what only a restart can change.              *)

RestartRequired(running, candidate) ==
    {f \in {"schema", "router", "api", "otel", "paths"} : running[f] # candidate[f]}
    \cup Flag([running.logging EXCEPT !.level = ""] # [candidate.logging EXCEPT !.level = ""], "logging")
    \cup Flag([running.bgp EXCEPT !.neighbors = <<>>] # [candidate.bgp EXCEPT !.neighbors = <<>>], "bgp")
    \cup Flag(running.bgp.neighbors # candidate.bgp.neighbors, "bgp.neighbors")

-----------------------------------------------------------------------------
(* Start and AddPeers.                                                     *)

effectiveListenAddress(cfg) ==
    OrText(cfg.bgp.listenAddress, OrText(cfg.router.localAddress, "0.0.0.0"))

buildGlobalConfig(cfg) ==
    [asn |-> cfg.router.asn, routerID |-> cfg.router.routerID,
     listenPort |-> OrZero(cfg.bgp.listenPort, 179), listenAddresses |-> {effectiveListenAddress(cfg)}]

peerLocalAddress(cfg, n) == OrText(n.localAddress, cfg.router.localAddress)

(* netip.ParsePrefix and Addr().Is6()                                      *)
routeFamily(prefix) ==
    IF prefix \in DOMAIN CIDRs
    THEN IF CIDRs[prefix].strict /\ CIDRs[prefix].is6 THEN "ipv6" ELSE "ipv4"
    ELSE "ipv4"

(* Mutant: the families of the VIPs at startup.                            *)
wantsIPv6ByVIPs(cfg) == \E i \in DOMAIN cfg.vips : routeFamily(cfg.vips[i].prefix) = "ipv6"

wantsIPv6(cfg) ==
    \/ cfg.router.localAddressIPv6 # ""
    \/ \E i \in DOMAIN cfg.vips : routeFamily(cfg.vips[i].prefix) = "ipv6"

buildPeerAfiSafis(cfg) == {"ipv4"} \cup Flag(wantsIPv6(cfg), "ipv6")

(* Whole seconds.  A keepalive time counts only next to a hold time.       *)
buildTimers(bgp) ==
    IF bgp.holdTime = Nil THEN Nil
    ELSE [holdTime |-> bgp.holdTime \div 1000, keepaliveInterval |-> OrNil(bgp.keepaliveTime, 0) \div 1000]

(* Nil for a peer that would dial itself.                                  *)
buildPeer(cfg, n) ==
    LET local == peerLocalAddress(cfg, n)
    IN  IF ~n.passive /\ local # "" /\ local = n.address THEN Nil
        ELSE [address |-> n.address, peerASN |-> n.peerASN, description |-> n.name,
              authPasswordLen |-> n.authPasswordLen, localAddress |-> local, port |-> n.port,
              afiSafis |-> buildPeerAfiSafis(cfg), passive |-> n.passive,
              gracefulRestart |-> cfg.bgp.gracefulRestart = TRUE, timers |-> buildTimers(cfg.bgp),
              multihopTTL |-> IF n.enableMultihop THEN n.multihopTTL ELSE Nil,
              bfd |-> IF n.bfd = Nil THEN Nil ELSE IF n.bfd.enabled THEN n.bfd ELSE Nil]

(* GoBGP refuses a second peer with one address.                           *)
AddPeers(cfg) ==
    /\ \A i \in DOMAIN cfg.bgp.neighbors : buildPeer(cfg, cfg.bgp.neighbors[i]) # Nil
    /\ \A i, j \in DOMAIN cfg.bgp.neighbors :
          cfg.bgp.neighbors[i].address = cfg.bgp.neighbors[j].address => i = j

-----------------------------------------------------------------------------
(* Paths.                                                                  *)

(* A router may have an IPv6 local_address for its sessions: the router id *)
(* is the next hop of IPv4 routes then.                                    *)
nextHopFor(cfg, family) ==
    IF family = "ipv6" THEN IF cfg.router.localAddressIPv6 \in V6 \cup Mapped THEN cfg.router.localAddressIPv6 ELSE Nil
    ELSE IF cfg.router.localAddress \in V4 \ Mapped THEN cfg.router.localAddress
    ELSE IF cfg.router.routerID \in IPs THEN cfg.router.routerID ELSE Nil

hasIBGPPeer(cfg) == \E i \in DOMAIN cfg.bgp.neighbors : cfg.bgp.neighbors[i].peerASN = cfg.router.asn

buildASPath(localASN, prepend) == [i \in 1..prepend |-> localASN]

(* Nil unless every one is two numbers of 16 bits.                         *)
parseCommunities(communities) ==
    IF \A i \in DOMAIN communities : Parses(communities[i]) THEN communities ELSE Nil

(* A path GoBGP is given, or Nil.  One iBGP peer takes the prepends from   *)
(* the path, which is the same for all peers.                              *)
buildPath(cfg, prefix, attrs) ==
    LET family == routeFamily(prefix)
        comms == parseCommunities(attrs.communities)
    IN  IF ~CIDRs[prefix].strict \/ nextHopFor(cfg, family) = Nil \/ comms = Nil THEN Nil
        ELSE [nlri |-> <<family, CIDRs[prefix].canonical>>, family |-> family, nextHop |-> nextHopFor(cfg, family),
              asPath |-> IF hasIBGPPeer(cfg) THEN <<>> ELSE buildASPath(cfg.router.asn, attrs.prepend),
              communities |-> comms]

(* The policy block of a VIP as the policy engine reads it.                *)
EnginePolicy(p) ==
    LET Block(b) == [prepend |-> IF b.prepend = Nil THEN <<>> ELSE <<b.prepend>>, communities |-> b.communities]
    IN  [p EXCEPT !.announce = Block(@), !.lowerPriority = Block(@)]

(* originate: the path of a VIP in a state, by a manager built from cfg.   *)
originate(cfg, v, state) == buildPath(cfg, v.prefix, PE!RouteAttrsFor(EnginePolicy(v.policy), state))

-----------------------------------------------------------------------------
(* Readiness.                                                              *)


(* GetPeerStates: the peers GoBGP listed (the keys of sessions), with the  *)
(* required flag of the first neighbor of that address.  When ListPeer     *)
(* fails, the error is logged and those listed before it are returned.     *)
GetPeerStates(cfg, sessions) ==
    {[address |-> a, sessionState |-> sessions[a],
      required |-> \A i \in DOMAIN cfg.bgp.neighbors :
                      /\ cfg.bgp.neighbors[i].address = a
                      /\ \A j \in 1..(i - 1) : cfg.bgp.neighbors[j].address # a
                      => cfg.bgp.neighbors[i].required # FALSE] : a \in DOMAIN sessions}

UnreadyPeers(peers) == {p \in peers : p.required /\ p.sessionState # "established"}

(* The status of the answer; the handler runs only while the daemon does.  *)
handleReadyz(cfg, sessions) == IF UnreadyPeers(GetPeerStates(cfg, sessions)) = {} THEN 200 ELSE 503
handleHealthz == 200

defaultAPIAddr == "127.0.0.1:59179"

(* Nil for what is no host:port.                                           *)
loopbackFor(listen) ==
    IF ~Parses(listen) THEN Nil ELSE IF listen \in DOMAIN Loopback THEN Loopback[listen] ELSE listen

(* --addr, else the api.listen of --config (Nil: none), else the default.  *)
(* Nil for an error: a config that does not load, but for one that is      *)
(* missing where that is allowed, or no address.                           *)
resolveAPIAddr(addr, source, missingOK) ==
    LET Listen(cfg) == IF cfg = Nil THEN Nil ELSE loopbackFor(cfg.api.listen)
    IN  IF addr # "" THEN loopbackFor(addr)
        ELSE IF source = Nil THEN defaultAPIAddr
        ELSE IF missingOK /\ source.missing THEN defaultAPIAddr ELSE Listen(LoadRaw(source))

(* probe: whether the daemon is healthy; no answer or another status is an *)
(* error, and an error is not healthy.                                     *)
probe(live, answers, cfg, sessions) ==
    answers /\ (IF live THEN handleHealthz ELSE handleReadyz(cfg, sessions)) = 200

(* The exit code of `pathosd healthcheck`, with the daemon of cfg at the   *)
(* address it listens on.                                                  *)
healthcheck(live, addr, source, answers, cfg, sessions) ==
    LET dial == resolveAPIAddr(addr, source, TRUE)
    IN  IF dial = Nil THEN 200
        ELSE IF dial = loopbackFor(cfg.api.listen) /\ probe(live, answers, cfg, sessions) THEN 0 ELSE 1
=============================================================================
