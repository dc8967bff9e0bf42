-------------------------- MODULE ConfigValidation --------------------------
(***************************************************************************)
(* internal/config/validate.go: the rules a config must meet after         *)
(* ApplyDefaults.  Validate and its parts return the set of fields they    *)
(* object to; the code's error list has one entry per offence, and nobody  *)
(* reads more from it than whether it is empty.                            *)
(***************************************************************************)
EXTENDS Config

CONSTANTS
    Malformed,  \* texts that are no check name, regexp, jq program, community,
                \* endpoint and listen address
    Exprs,      \* per checks_policy expression that compiles: the check names in
                \* it (vars) and the sets of them that make it true (sat)
    Env         \* the environment variables that are set

(* An empty text is an unset field.                                        *)
ASSUME MalformedAssumption == "" \notin Malformed

Flag(bad, field) == IF bad THEN {field} ELSE {}

Parses(text) == text \notin Malformed
Ports == 1..65535

isSingleHost(prefix) == IF prefix \in DOMAIN CIDRs THEN CIDRs[prefix].single ELSE FALSE

(* Neither given nor to be had from the prefix.                            *)
NoHost(host, prefix) == host = "" /\ ~isSingleHost(prefix)

-----------------------------------------------------------------------------
(* The checks.                                                             *)

(* SQL and Kafka demand the same of their TLS fields, and so does gRPC.    *)
validateTLS(b) ==
    Flag(~b.tls /\ b.tlsInsecure, "tlsInsecure")
    \cup Flag(~b.tls /\ b.tlsCACert # "", "tlsCACert")
    \cup Flag(~b.tls /\ b.tlsServerName # "", "tlsServerName")
    \cup Flag(b.tlsInsecure /\ b.tlsCACert # "", "tlsCACert")

validateHTTPCheck(h, prefix) ==
    Flag(h.proto \notin {"", "http", "https"}, "proto")
    \cup Flag(h.method \notin {"GET", "HEAD"}, "method")
    \cup Flag(/\ h.method = "HEAD"
              /\ h.responseText # "" \/ h.responseRegex # "" \/ h.responseJQ # "", "response")
    \cup Flag(NoHost(h.host, prefix), "host")
    \cup Flag(~Parses(h.responseRegex), "responseRegex")
    \cup Flag(h.tlsCACert # "" /\ h.tlsInsecure, "tlsCACert")
    \cup Flag(/\ h.proxy # ""
              /\ \/ h.proxy \notin DOMAIN URLs
                 \/ URLs[h.proxy].scheme \notin {"http", "https"}
                 \/ URLs[h.proxy].host = ""
                 \/ h.host \in IPs \cup {""}, "proxy")

QueryTypes == {"A", "AAAA", "CNAME", "PTR", "NS", "MX", "SOA", "TXT", "SRV"}

validateDNSCheck(d) ==
    Flag(d.names = {}, "names") \cup Flag(Normal(d.queryType) \notin QueryTypes, "queryType")

(* Mutant: a ratio of 1 is let through.                                    *)
validatePingCheckAnyLoss(p, prefix) ==
    Flag(NoHost(p.dstIP, prefix), "dstIP")
    \cup Flag(p.dstIP \notin IPs \cup {""}, "dstIP")
    \cup Flag(p.srcIP \notin IPs \cup {""}, "srcIP")
    \cup Flag(p.count \notin 1..60, "count")
    \cup Flag(p.maxLossRatio \notin 0..100, "maxLossRatio")

validatePingCheck(p, prefix) ==
    Flag(NoHost(p.dstIP, prefix), "dstIP")
    \cup Flag(p.dstIP \notin IPs \cup {""}, "dstIP")
    \cup Flag(p.srcIP \notin IPs \cup {""}, "srcIP")
    \cup Flag(p.count \notin 1..60, "count")
    \cup Flag(p.maxLossRatio \notin 0..99, "maxLossRatio")

(* udp, tcp                                                                *)
validatePortCheck(b, prefix) ==
    Flag(b.port = 0, "port") \cup Flag(NoHost(b.host, prefix), "host")

validateListenCheck(l, prefix) ==
    validatePortCheck(l, prefix)
    \cup Flag(l.proto \notin {"tcp", "udp"}, "proto")
    \cup Flag(l.host \notin IPs \cup {""}, "host")
    \cup Flag(l.netnsPID < 0, "netnsPID")

(* Mutant: the SASL mechanism is not looked at.                            *)
validateKafkaCheckAnySASL(k, prefix) ==
    Flag(NoHost(k.host, prefix), "host") \cup Flag(k.minBrokers < 0, "minBrokers") \cup validateTLS(k)

validateKafkaCheck(k, prefix) ==
    Flag(NoHost(k.host, prefix), "host")
    \cup Flag(k.minBrokers < 0, "minBrokers")
    \cup validateTLS(k)
    \cup IF k.sasl = Nil THEN {}
         ELSE Flag(k.sasl.mechanism \notin {"plain", "scram-sha-256", "scram-sha-512"}, "mechanism")
              \cup Flag(k.sasl.user = "", "user") \cup Flag(k.sasl.password = "", "password")

QueryName(queries, i) == OrText(queries[i].name, "q" \o ToString(i))

validateSQLCheck(s, prefix) ==
    Flag(s.driver \notin {"mysql", "postgres"}, "driver")
    \cup Flag(s.user = "", "user")
    \cup Flag(NoHost(s.host, prefix), "host")
    \cup Flag(s.maxRows < 0, "maxRows")
    \cup validateTLS(s)
    \cup Flag(\E i \in DOMAIN s.queries : s.queries[i].sql = "", "sql")
    \cup Flag(\E i, j \in DOMAIN s.queries : i < j /\ QueryName(s.queries, i) = QueryName(s.queries, j), "name")
    \cup Flag(\E i \in DOMAIN s.queries : ~Parses(s.queries[i].resultJQ), "resultJQ")

validGRPCCodeNames ==
    {"ok", "canceled", "unknown", "invalidargument", "deadlineexceeded", "notfound",
     "alreadyexists", "permissiondenied", "resourceexhausted", "failedprecondition", "aborted",
     "outofrange", "unimplemented", "internal", "unavailable", "dataloss", "unauthenticated"}

validateGRPCCheck(g, prefix) ==
    validatePortCheck(g, prefix)
    \cup validateTLS(g)
    \cup Flag(\E code \in g.okCodes : Normal(code) \notin validGRPCCodeNames, "okCodes")

(* The DNS resolver has no rule.                                           *)
validateCheck(c, prefix) ==
    LET t == c.type
        b == c.blocks[t]
    IN  IF t \notin CheckTypes THEN {"type"}
        ELSE IF b = Nil THEN {t}
        ELSE IF t = "http" THEN validateHTTPCheck(b, prefix)
        ELSE IF t = "dns" THEN validateDNSCheck(b)
        ELSE IF t = "ping" THEN validatePingCheck(b, prefix)
        ELSE IF t \in {"udp", "tcp"} THEN validatePortCheck(b, prefix)
        ELSE IF t = "listen" THEN validateListenCheck(b, prefix)
        ELSE IF t = "kafka" THEN validateKafkaCheck(b, prefix)
        ELSE IF t = "sql" THEN validateSQLCheck(b, prefix)
        ELSE validateGRPCCheck(b, prefix)

-----------------------------------------------------------------------------
(* The VIPs.                                                               *)

validateCommunities(communities) ==
    Flag(\E i \in DOMAIN communities : ~Parses(communities[i]), "communities")

(* An announce or lower_priority block.                                    *)
validateAttrs(block, least) ==
    IF block = Nil THEN {}
    ELSE Flag(block.prepend # Nil /\ block.prepend \notin least..16, "prepend")
         \cup validateCommunities(block.communities)

validatePolicy(p) ==
    Flag(p.failAction \notin {"withdraw", "lower_priority"}, "failAction")
    \cup validateAttrs(p.lowerPriority, 1)
    \cup validateAttrs(p.announce, 0)

ValidateCheckName(name) == Parses(name) /\ name \notin {"all", "any"}

CheckNamesOf(v) == {EffectiveName(CheckList(v)[i]) : i \in DOMAIN CheckList(v)}

CompileChecksPolicy(policy, names) ==
    policy \in {"", "all", "any"} \/ (IF policy \in DOMAIN Exprs THEN Exprs[policy].vars \subseteq names ELSE FALSE)

(* One entry of the check list, given the names of those before it.        *)
validateListedCheck(v, i) ==
    LET c == CheckList(v)[i]
    IN  Flag(c.name # "" /\ ~ValidateCheckName(c.name), "name")
        \cup Flag(\E j \in 1..(i - 1) : EffectiveName(CheckList(v)[j]) = EffectiveName(c), "name")
        \cup Flag(c.interval # Nil /\ c.timeout # Nil /\ c.timeout >= c.interval, "timeout")
        \cup Flag(c.rise # Nil /\ c.rise < 1, "rise")
        \cup Flag(c.fall # Nil /\ c.fall < 1, "fall")
        \cup validateCheck(c, v.prefix)

validateChecksPolicy(v) ==
    IF v.checksPolicy \in {"", "all", "any"} THEN {}
    ELSE IF v.checks = <<>> THEN {"checksPolicy"}
    ELSE Flag(/\ \A i, j \in DOMAIN v.checks :
                    EffectiveName(v.checks[i]) = EffectiveName(v.checks[j]) => i = j
              /\ ~CompileChecksPolicy(v.checksPolicy, CheckNamesOf(v)), "checksPolicy")

(* Mutant: networks are compared as written.                               *)
validateVIPAsWritten(vips, i) ==
    LET v == vips[i]
    IN  Flag(v.name = "" \/ \E j \in 1..(i - 1) : vips[j].name = v.name, "name")
        \cup Flag(v.prefix \notin DOMAIN CIDRs \/ \E j \in 1..(i - 1) : vips[j].prefix = v.prefix, "prefix")
        \cup Flag(v.checks = <<>> /\ v.check.type = "", "check")
        \cup UNION {validateListedCheck(v, k) : k \in DOMAIN CheckList(v)}
        \cup validateChecksPolicy(v)
        \cup validatePolicy(v.policy)

hasSingleCheck(v) == v.check.type # "" \/ \E t \in CheckTypes : v.check.blocks[t] # Nil
hasCheck(v) == hasSingleCheck(v) \/ v.checks # <<>>

validateChecks(v) ==
    IF hasCheck(v) THEN UNION {validateListedCheck(v, k) : k \in DOMAIN CheckList(v)} ELSE {}

validateVIP(vips, i) ==
    LET v == vips[i]
    IN  Flag(v.name = "" \/ \E j \in 1..(i - 1) : vips[j].name = v.name, "name")
        \cup Flag(v.prefix \notin DOMAIN CIDRs, "prefix")
        \cup Flag(/\ v.prefix \in DOMAIN CIDRs
                  /\ \E j \in 1..(i - 1) : /\ vips[j].prefix \in DOMAIN CIDRs
                                           /\ CIDRs[vips[j].prefix].canonical = CIDRs[v.prefix].canonical,
                  "prefix")
        \cup Flag(v.localInterface # "" /\ ~v.requireLocalAddress, "localInterface")
        \cup Flag(hasSingleCheck(v) /\ v.checks # <<>>, "checks")
        \cup Flag(~hasCheck(v), "check")
        \cup validateChecks(v)
        \cup validateChecksPolicy(v)
        \cup validatePolicy(v.policy)

-----------------------------------------------------------------------------
(* The rest of the file.                                                   *)

hasIPv6VIP(cfg) ==
    \E i \in DOMAIN cfg.vips :
        IF cfg.vips[i].prefix \in DOMAIN CIDRs THEN CIDRs[cfg.vips[i].prefix].v6 ELSE FALSE

validateRouter(cfg) ==
    LET r == cfg.router
    IN  Flag(r.asn = 0, "asn")
        \cup Flag(r.routerID \notin V4, "routerID")
        \cup Flag(r.localAddress \notin IPs \cup {""}, "localAddress")
        \cup Flag(r.localAddressIPv6 \notin V6 \cup {""}, "localAddressIPv6")
        \cup Flag(hasIPv6VIP(cfg) /\ r.localAddressIPv6 = "", "localAddressIPv6")

validateAPI(api) ==
    Flag(api.listen = "", "listen")
    \cup Flag(\E t \in DOMAIN api.timeouts : api.timeouts[t] # Nil /\ api.timeouts[t] < 0, "timeouts")

Levels == {"debug", "info", "warn", "error"}

validateLogging(l) ==
    Flag(l.level \notin Levels, "level")
    \cup Flag(l.format \notin {"text", "json"}, "format")
    \cup Flag(l.otelLevel \notin Levels \cup {""}, "otelLevel")

validateGoBGPAPIListen(g) ==
    Flag(IF g.enabled THEN g.listen = "" \/ ~Parses(g.listen) ELSE g.listen # "", "gobgpAPI")

validateNeighbor(neighbors, i) ==
    LET n == neighbors[i]
        bfd == IF n.bfd = Nil THEN FALSE ELSE n.bfd.enabled
    IN  Flag(n.name = "" \/ \E j \in 1..(i - 1) : neighbors[j].name = n.name, "name")
        \cup Flag(n.address \notin IPs, "address")
        \cup Flag(n.localAddress \notin IPs \cup {""}, "localAddress")
        \cup Flag(n.peerASN = 0, "peerASN")
        \cup Flag(n.authPasswordLen > 80, "authPassword")
        \cup Flag(n.multihopTTL # 0 /\ (~n.enableMultihop \/ n.multihopTTL < 2), "multihopTTL")
        \cup Flag(bfd /\ n.enableMultihop, "bfd")
        \cup (IF bfd THEN Flag(n.bfd.port \notin Ports \cup {0}, "bfdPort")
                          \cup Flag(n.bfd.detectionMultiplier = 1, "detectionMultiplier")
              ELSE {})

validateBGP(bgp) ==
    Flag(bgp.listenAddress \notin IPs \cup {""}, "listenAddress")
    \cup Flag(bgp.listenPort \notin Ports \cup {0, -1}, "listenPort")
    \cup validateGoBGPAPIListen(bgp.gobgpAPI)
    \cup Flag(bgp.neighbors = <<>>, "neighbors")
    \cup UNION {validateNeighbor(bgp.neighbors, i) : i \in DOMAIN bgp.neighbors}

(* Without an endpoint nothing is exported and nothing is looked at.       *)
validateOTel(o) ==
    IF o.endpoint = "" THEN {}
    ELSE Flag(~Parses(o.endpoint), "endpoint")
         \cup Flag(\E s \in DOMAIN o.signals : ~Parses(o.signals[s].endpoint), "signal")
         \cup Flag(o.serviceName = "", "serviceName")

Validate(cfg) ==
    Flag(cfg.schema # "v1", "schema")
    \cup validateRouter(cfg)
    \cup validateAPI(cfg.api)
    \cup validateLogging(cfg.logging)
    \cup validateBGP(cfg.bgp)
    \cup Flag(cfg.vips = <<>>, "vips")
    \cup UNION {validateVIP(cfg.vips, i) : i \in DOMAIN cfg.vips}
    \cup validateOTel(cfg.otel)

(***************************************************************************)
(* load.go.  A file is what reading and parsing it gives: whether it can   *)
(* be read, the %{NAME} placeholders in it, whether it decodes in the      *)
(* format its extension names, and the config it decodes to.               *)
(***************************************************************************)
expandEnvPlaceholders(source) == source.placeholders \subseteq Env

loadBytes(source) ==
    LET cfg == ApplyDefaults(source.config)
    IN  IF expandEnvPlaceholders(source) /\ source.decodes
        THEN IF Validate(cfg) = {} THEN cfg ELSE Nil
        ELSE Nil

LoadRaw(source) == IF source.readable THEN loadBytes(source) ELSE Nil
=============================================================================
