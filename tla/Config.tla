------------------------------- MODULE Config -------------------------------
(***************************************************************************)
(* internal/config: the shape of a config file and ApplyDefaults.          *)
(*                                                                         *)
(* A Go struct is a record with the source's field names, a pointer that   *)
(* may be unset is Nil or its value, durations are milliseconds, and a     *)
(* list whose order nobody reads is a set.  Texts are opaque: what the     *)
(* code parses out of one is given by a table.                             *)
(***************************************************************************)
EXTENDS Integers, Sequences, TLC

CONSTANTS
    Nil,        \* an unset pointer
    V4, V6,     \* the texts net.ParseIP takes for an IPv4, IPv6 address
    Mapped,     \* those of V4 in the IPv6 form ::ffff:a.b.c.d, for which To4() is
                \* an address but netip's Is4() is FALSE and Is6() TRUE
    CIDRs,      \* per text net.ParseCIDR accepts: the address (ip), the network
                \* (canonical), whether To4() of it is nil (v6), whether it is one
                \* host (single), whether the stricter netip.ParsePrefix accepts it
                \* too (strict) and then calls it IPv6 (is6)
    URLs,       \* per URL with a scheme: scheme, host (with port), hostname,
                \* port (0 without one) and request path
    Canonical   \* the normal form of the header names, query types and gRPC
                \* codes that are not written in it

(* A text that parses is not empty; IPv6 is IPv6 to either parser.         *)
ASSUME CIDRsAssumption == \A t \in DOMAIN CIDRs : CIDRs[t].ip # "" /\ (CIDRs[t].v6 => CIDRs[t].is6)
(* A path has no scheme, and a normal form is its own.                     *)
ASSUME URLsAssumption ==
    /\ "/" \notin DOMAIN URLs
    /\ \A t \in DOMAIN URLs : URLs[t].path \notin DOMAIN URLs \cup {""} /\ URLs[t].scheme # ""
ASSUME CanonicalAssumption ==
    /\ {"", "A", "Host", "User-Agent", "Accept"} \cap DOMAIN Canonical = {}
    /\ \A s \in DOMAIN Canonical : Canonical[s] \notin DOMAIN Canonical \cup {""}

IPs == V4 \cup V6
Normal(s) == IF s \in DOMAIN Canonical THEN Canonical[s] ELSE s

OrText(s, default) == IF s = "" THEN default ELSE s
OrZero(n, default) == IF n = 0 THEN default ELSE n
OrNil(p, default) == IF p = Nil THEN default ELSE p

-----------------------------------------------------------------------------
(* The check blocks as they are before anything is set.                    *)

CheckTypes == {"http", "dns", "ping", "udp", "tcp", "listen", "sql", "kafka", "grpc"}

HTTPCheckConfig ==
    [url |-> "", proto |-> "", host |-> "", port |-> 0, method |-> "", responseCodes |-> {},
     responseText |-> "", responseRegex |-> "", responseJQ |-> "", tlsInsecure |-> FALSE,
     tlsCACert |-> "", tlsServerName |-> "", proxy |-> "", headers |-> <<>>]

TCPCheckConfig == [host |-> "", port |-> 0]
UDPCheckConfig == [host |-> "", port |-> 0, payload |-> ""]
ListenCheckConfig == [proto |-> "", port |-> 0, host |-> "", netnsPID |-> 0, procfs |-> ""]
DNSCheckConfig == [names |-> {}, resolver |-> "", port |-> 0, queryType |-> ""]

(* max_loss_ratio in percent.                                              *)
PingCheckConfig == [dstIP |-> "", srcIP |-> "", count |-> 0, maxLossRatio |-> 0]

SQLCheckConfig ==
    [driver |-> "", host |-> "", port |-> 0, user |-> "", tls |-> FALSE, tlsInsecure |-> FALSE,
     tlsCACert |-> "", tlsServerName |-> "", queries |-> <<>>, maxRows |-> 0]

SQLQueryConfig == [name |-> "", sql |-> "", resultJQ |-> ""]

KafkaCheckConfig ==
    [host |-> "", port |-> 0, clientID |-> "", tls |-> FALSE, tlsInsecure |-> FALSE,
     tlsCACert |-> "", tlsServerName |-> "", sasl |-> Nil, topic |-> "", minBrokers |-> 0]

GRPCCheckConfig ==
    [host |-> "", port |-> 0, tls |-> FALSE, tlsInsecure |-> FALSE, tlsCACert |-> "",
     tlsServerName |-> "", method |-> "", okCodes |-> {}]

CheckConfig ==
    [name |-> "", type |-> "", interval |-> Nil, timeout |-> Nil, rise |-> Nil, fall |-> Nil,
     blocks |-> [t \in CheckTypes |-> Nil]]

(* AnnounceConfig and LowerPriorityConfig have one shape.                  *)
AttrsConfig == [prepend |-> Nil, communities |-> <<>>]

PolicyConfig ==
    [failAction |-> "", lowerPriorityFile |-> "", announce |-> Nil, lowerPriority |-> Nil]

(* What decoding gives, whatever the file says: structs with their fields, *)
(* blocks that are set or not, lists, and numbers that are set or not.     *)
EmptyBlock ==
    [http |-> HTTPCheckConfig, dns |-> DNSCheckConfig, ping |-> PingCheckConfig, udp |-> UDPCheckConfig,
     tcp |-> TCPCheckConfig, listen |-> ListenCheckConfig, sql |-> SQLCheckConfig,
     kafka |-> KafkaCheckConfig, grpc |-> GRPCCheckConfig]

IsList(list) == Len(list) \in Nat /\ list = [i \in 1..Len(list) |-> list[i]]
IsNumber(n) == n \in Int \cup {Nil}
AttrsConfigs == [prepend : Int \cup {Nil}, communities : Seq(STRING)]
IsPolicy(p) == DOMAIN p = DOMAIN PolicyConfig /\ {p.announce, p.lowerPriority} \subseteq AttrsConfigs \cup {Nil}

IsCheck(c) ==
    /\ DOMAIN c = DOMAIN CheckConfig /\ DOMAIN c.blocks = CheckTypes
    /\ IsNumber(c.interval) /\ IsNumber(c.timeout) /\ IsNumber(c.rise) /\ IsNumber(c.fall)
    /\ \A t \in CheckTypes : c.blocks[t] # Nil => DOMAIN c.blocks[t] = DOMAIN EmptyBlock[t]

IsVIP(v) ==
    /\ {"name", "prefix", "check", "checks", "checksPolicy", "policy"} \subseteq DOMAIN v
    /\ IsList(v.checks) /\ IsCheck(v.check) /\ IsPolicy(v.policy)
    /\ \A i \in DOMAIN v.checks : IsCheck(v.checks[i])

IsConfig(cfg) ==
    /\ {"api", "logging", "bgp", "paths", "vips", "otel"} \subseteq DOMAIN cfg
    /\ IsList(cfg.vips) /\ \A i \in DOMAIN cfg.vips : IsVIP(cfg.vips[i])

ASSUME NilAssumption == Nil \notin Int \cup AttrsConfigs

(* CheckList: the checks list when set, otherwise the single check.        *)
CheckList(v) == IF v.checks # <<>> THEN v.checks ELSE <<v.check>>

EffectiveName(c) == OrText(c.name, c.type)
EffectiveChecksPolicy(v) == OrText(v.checksPolicy, "all")

-----------------------------------------------------------------------------
(* Defaults of the check blocks.                                           *)

vipHostIP(prefix) ==
    IF prefix \in DOMAIN CIDRs THEN IF CIDRs[prefix].single THEN CIDRs[prefix].ip ELSE "" ELSE ""

WithHeader(headers, key, value) ==
    [k \in DOMAIN headers \cup {key} |-> IF k \in DOMAIN headers THEN headers[k] ELSE value]

(* One entry per normal form.  The headers of a file are the entries of a  *)
(* map in the order in which the loop meets them, which may be another one *)
(* every time: of two spellings of one header the last one met is kept.    *)
CanonicalHeaders(headers) ==
    LET Spellings(k) == {i \in DOMAIN headers : Normal(headers[i].name) = k}
        Last(k) == CHOOSE i \in Spellings(k) : \A j \in Spellings(k) : j <= i
    IN  [k \in {Normal(headers[i].name) : i \in DOMAIN headers} |-> headers[Last(k)].value]

(* The parts of a full URL, Nil for a path.                                *)
FullURL(h) == LET text == OrText(h.url, "/") IN IF text \in DOMAIN URLs THEN URLs[text] ELSE Nil

(* The host it names, if it does so by name.                               *)
urlHostname(h) ==
    LET u == FullURL(h)
    IN  IF u = Nil THEN "" ELSE IF u.hostname \in IPs THEN "" ELSE u.hostname

ProtoOf(h) == OrText(h.proto, IF FullURL(h) = Nil THEN "http" ELSE FullURL(h).scheme)

DefaultPort(h) ==
    LET u == FullURL(h)
        usual == IF ProtoOf(h) = "https" THEN 443 ELSE 80
    IN  IF u = Nil THEN usual ELSE IF u.port \in 1..65535 THEN u.port ELSE usual

(* The host a URL names is the one to connect to only behind a proxy.      *)
ConnectHost(h, prefix) ==
    OrText(h.host, IF h.proxy # "" /\ urlHostname(h) # "" THEN urlHostname(h) ELSE vipHostIP(prefix))

ServerName(h, prefix) ==
    IF /\ h.proxy = "" /\ h.tlsServerName = "" /\ urlHostname(h) # ""
       /\ ProtoOf(h) = "https" /\ ConnectHost(h, prefix) # urlHostname(h)
    THEN urlHostname(h) ELSE h.tlsServerName

SentHeaders(h) ==
    LET u == FullURL(h)
        given == CanonicalHeaders(h.headers)
        addressed == IF u = Nil THEN given ELSE IF u.hostname = "" THEN given ELSE WithHeader(given, "Host", u.host)
        known == WithHeader(addressed, "User-Agent", "pathosd-check/1.0")
    IN  IF h.responseJQ # "" THEN WithHeader(known, "Accept", "application/json") ELSE known

(* A full URL is cut to its path.                                          *)
applyHTTPDefaults(h, prefix) ==
    [h EXCEPT
       !.url = IF FullURL(h) = Nil THEN OrText(@, "/") ELSE FullURL(h).path,
       !.proto = ProtoOf(h),
       !.port = OrZero(@, DefaultPort(h)),
       !.host = ConnectHost(h, prefix),
       !.tlsServerName = ServerName(h, prefix),
       !.method = OrText(@, "GET"),
       !.responseCodes = IF @ = {} THEN {200} ELSE @,
       !.headers = SentHeaders(h)]

applyDNSDefaults(d, prefix) ==
    [d EXCEPT !.port = OrZero(@, 53), !.queryType = OrText(Normal(@), "A"),
              !.resolver = OrText(@, vipHostIP(prefix))]

applyUDPDefaults(u, prefix) ==
    [u EXCEPT !.host = OrText(@, vipHostIP(prefix)), !.payload = OrText(@, "\\x00")]

applySQLDefaults(s, prefix) ==
    [s EXCEPT !.host = OrText(@, vipHostIP(prefix)),
              !.port = OrZero(@, IF s.driver = "mysql" THEN 3306
                                 ELSE IF s.driver = "postgres" THEN 5432 ELSE 0),
              !.queries = IF @ = <<>> THEN <<[SQLQueryConfig EXCEPT !.sql = "SELECT 1"]>> ELSE @,
              !.maxRows = OrZero(@, 100)]

applyKafkaDefaults(k, prefix) ==
    [k EXCEPT !.host = OrText(@, vipHostIP(prefix)), !.port = OrZero(@, 9092),
              !.clientID = OrText(@, "pathosd"), !.minBrokers = OrZero(@, 1)]

applyPingDefaults(p, prefix) ==
    [p EXCEPT !.count = OrZero(@, 1), !.dstIP = OrText(@, vipHostIP(prefix))]

applyHostDefault(b, prefix) == [b EXCEPT !.host = OrText(@, vipHostIP(prefix))]

applyBlockDefaults(type, block, prefix) ==
    IF type = "http" THEN applyHTTPDefaults(OrNil(block, HTTPCheckConfig), prefix)
    ELSE IF type = "dns" THEN applyDNSDefaults(OrNil(block, DNSCheckConfig), prefix)
    ELSE IF type = "ping" THEN applyPingDefaults(OrNil(block, PingCheckConfig), prefix)
    ELSE IF type = "udp" THEN applyUDPDefaults(OrNil(block, UDPCheckConfig), prefix)
    ELSE IF type = "sql" THEN applySQLDefaults(OrNil(block, SQLCheckConfig), prefix)
    ELSE IF type = "kafka" THEN applyKafkaDefaults(OrNil(block, KafkaCheckConfig), prefix)
    ELSE IF type = "tcp" THEN applyHostDefault(OrNil(block, TCPCheckConfig), prefix)
    ELSE IF type = "grpc" THEN applyHostDefault(OrNil(block, GRPCCheckConfig), prefix)
    ELSE applyHostDefault(OrNil(block, ListenCheckConfig), prefix)

(* Only the block of the check's own type is created and filled.           *)
applyCheckDefaults(c, prefix) ==
    [c EXCEPT !.interval = OrNil(@, 1000), !.timeout = OrNil(@, 100),
              !.rise = OrNil(@, 1), !.fall = OrNil(@, 3),
              !.blocks = [t \in CheckTypes |->
                             IF t = c.type THEN applyBlockDefaults(t, @[t], prefix) ELSE @[t]]]

-----------------------------------------------------------------------------
(* Defaults of a VIP and of the whole config.                              *)

WithPrepend(block, n) == [OrNil(block, AttrsConfig) EXCEPT !.prepend = OrNil(@, n)]

applyPolicyDefaults(p) ==
    [p EXCEPT !.failAction = OrText(@, "lower_priority"),
              !.lowerPriority = WithPrepend(@, 6),
              !.announce = WithPrepend(@, 0)]

(* A listen block learns procfs whatever the type of its check is.         *)
WithProcfs(c, procfs) ==
    IF c.blocks["listen"] = Nil THEN c
    ELSE [c EXCEPT !.blocks["listen"].procfs = OrText(@, procfs)]

(* A VIP without any check is left as it is, its policy included.          *)
applyVIPDefaults(v, procfs) ==
    LET Filled(c) == WithProcfs(applyCheckDefaults(c, v.prefix), procfs)
    IN  IF v.checks = <<>> /\ v.check.type = "" THEN v
        ELSE [v EXCEPT !.check = IF v.checks = <<>> THEN Filled(@) ELSE @,
                       !.checks = [i \in DOMAIN @ |-> Filled(@[i])],
                       !.checksPolicy = OrText(@, "all"),
                       !.policy = applyPolicyDefaults(@)]

applyNeighborDefaults(n) ==
    [n EXCEPT !.port = OrZero(@, 179), !.required = OrNil(@, TRUE)]

applyPathsDefaults(p) == [p EXCEPT !.procfs = OrText(@, "/proc")]

applyOTelDefaults(o) ==
    [o EXCEPT !.enabled = OrNil(@, TRUE), !.serviceName = OrText(@, "pathosd"),
              !.signals = [s \in DOMAIN @ |-> [@[s] EXCEPT !.enabled = OrNil(@, TRUE)]]]

DefaultTimeouts == [readHeader |-> 10000, read |-> 30000, write |-> 60000, idle |-> 120000]

ApplyDefaults(cfg) ==
    LET paths == applyPathsDefaults(cfg.paths)
    IN  [cfg EXCEPT
           !.api.listen = OrText(@, ":59179"),
           !.api.timeouts = [t \in DOMAIN @ |-> OrNil(@[t], DefaultTimeouts[t])],
           !.logging.level = OrText(@, "info"),
           !.logging.format = OrText(@, "text"),
           !.bgp.gracefulRestart = OrNil(@, TRUE),
           !.bgp.listenPort = OrZero(@, 179),
           !.bgp.gobgpAPI.listen = IF cfg.bgp.gobgpAPI.enabled THEN OrText(@, "127.0.0.1:50051") ELSE @,
           !.bgp.neighbors = [i \in DOMAIN @ |-> applyNeighborDefaults(@[i])],
           !.paths = paths,
           !.vips = [i \in DOMAIN @ |-> applyVIPDefaults(@[i], paths.procfs)],
           !.otel = applyOTelDefaults(@)]
=============================================================================
