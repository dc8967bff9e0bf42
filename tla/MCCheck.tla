------------------------------ MODULE MCCheck ------------------------------
(***************************************************************************)
(* Instances of CheckCommand.  The files are one good config and many that *)
(* differ from it in one place, so that every rule and every default is    *)
(* met both ways; the command lines and the targets' answers are varied    *)
(* where checks run concurrently.                                          *)
(***************************************************************************)
EXTENDS CheckCommand

MCV4 == {"10.0.0.1", "10.0.0.2", "192.0.2.1", "::ffff:10.0.0.2"}
MCMapped == {"::ffff:10.0.0.2"}
MCV6 == {"2001:db8::1", "2001:db8::ff"}

Network(ip, canonical, v6, single) ==
    [ip |-> ip, canonical |-> canonical, v6 |-> v6, single |-> single, strict |-> TRUE, is6 |-> v6]

(* A prefix length with a leading zero, and the IPv4-mapped form, are read *)
(* differently by net and netip.                                           *)
MCCIDRs ==
    ("10.0.0.1/32" :> Network("10.0.0.1", "10.0.0.1/32", FALSE, TRUE))
    @@ ("10.0.0.1/032" :> [Network("10.0.0.1", "10.0.0.1/32", FALSE, TRUE) EXCEPT !.strict = FALSE])
    @@ ("::ffff:10.0.0.1/128" :> [Network("10.0.0.1", "10.0.0.1/32", FALSE, TRUE) EXCEPT !.is6 = TRUE])
    @@ ("10.0.0.0/24" :> Network("10.0.0.0", "10.0.0.0/24", FALSE, FALSE))
    @@ ("2001:db8::1/128" :> Network("2001:db8::1", "2001:db8::1/128", TRUE, TRUE))

Address(scheme, host, hostname, port, path) ==
    [scheme |-> scheme, host |-> host, hostname |-> hostname, port |-> port, path |-> path]

MCURLs ==
    ("https://www.example/ready" :> Address("https", "www.example", "www.example", 0, "/ready"))
    @@ ("http://www.example:8080" :> Address("http", "www.example:8080", "www.example", 8080, "/"))
    @@ ("http://10.0.0.2:99999/" :> Address("http", "10.0.0.2:99999", "10.0.0.2", 99999, "/"))
    @@ ("http://proxy:3128" :> Address("http", "proxy:3128", "proxy", 3128, "/"))
    @@ ("ftp://www.example/" :> Address("ftp", "www.example", "www.example", 0, "/"))

MCCanonical ==
    ("aaaa" :> "AAAA") @@ ("host" :> "Host") @@ ("NOT_FOUND" :> "notfound") @@ ("Unavailable" :> "unavailable")

MCMalformed == {"(bad"}
MCLoopback == (":59179" :> "127.0.0.1:59179") @@ (":8080" :> "127.0.0.1:8080")
MCExprs == ("web && !dns" :> [vars |-> {"web", "dns"}, sat |-> {{"web"}}])

-----------------------------------------------------------------------------
(* A check of a type with its block as given, and a VIP of checks.         *)
Typed(type, block) == [CheckConfig EXCEPT !.type = type, !.blocks[type] = block]
Named(name, check) == [check EXCEPT !.name = name]

VIP(prefix, checks) ==
    [name |-> "a", prefix |-> prefix, requireLocalAddress |-> FALSE, localInterface |-> "",
     check |-> CheckConfig, checks |-> checks, checksPolicy |-> "", policy |-> PolicyConfig]

Single(prefix, check) == [VIP(prefix, <<>>) EXCEPT !.check = check]

Neighbor ==
    [name |-> "tor", address |-> "192.0.2.1", peerASN |-> 65001, required |-> Nil, port |-> 0,
     localAddress |-> "", enableMultihop |-> FALSE, multihopTTL |-> 0, bfd |-> Nil,
     authPasswordLen |-> 0, passive |-> FALSE]

Signal == [endpoint |-> "", enabled |-> Nil]

(* The config around the VIPs, with an IPv6 next hop.                      *)
Around(vips) ==
    [schema |-> "v1",
     router |-> [asn |-> 65000, routerID |-> "10.0.0.2", localAddress |-> "",
                 localAddressIPv6 |-> "2001:db8::ff"],
     api |-> [listen |-> "", timeouts |-> [t \in DOMAIN DefaultTimeouts |-> Nil]],
     logging |-> [level |-> "", format |-> "", otelLevel |-> ""],
     bgp |-> [gracefulRestart |-> Nil, holdTime |-> Nil, keepaliveTime |-> Nil, listenAddress |-> "", listenPort |-> 0,
              gobgpAPI |-> [enabled |-> FALSE, listen |-> ""], neighbors |-> <<Neighbor>>],
     paths |-> [procfs |-> ""],
     vips |-> vips,
     otel |-> [enabled |-> Nil, endpoint |-> "", serviceName |-> "",
               signals |-> [s \in {"traces", "metrics", "logs"} |-> Signal]]]

Good == Around(<<Single("10.0.0.1/32", Typed("tcp", [TCPCheckConfig EXCEPT !.port = 22]))>>)

(* One place of the surroundings changed.                                  *)
AroundVariants ==
    {Good,
     [Good EXCEPT !.schema = "v2"], [Good EXCEPT !.router.asn = 0],
     [Good EXCEPT !.router.routerID = "2001:db8::1"], [Good EXCEPT !.router.localAddress = "(bad"],
     [Good EXCEPT !.router.localAddressIPv6 = "10.0.0.1"],
     [Good EXCEPT !.router.localAddressIPv6 = "",
                  !.vips = <<Single("2001:db8::1/128", Typed("tcp", [TCPCheckConfig EXCEPT !.port = 22]))>>],
     [Good EXCEPT !.router.localAddressIPv6 = ""],
     [Good EXCEPT !.router.localAddressIPv6 = "", !.vips[1].prefix = "::ffff:10.0.0.1/128"],
     [Good EXCEPT !.router.routerID = "::ffff:10.0.0.2"], [Good EXCEPT !.router.localAddress = "::ffff:10.0.0.2"],
     [Good EXCEPT !.api.listen = ":8080"], [Good EXCEPT !.api.listen = "(bad"],
     [Good EXCEPT !.bgp.holdTime = 90000, !.bgp.keepaliveTime = 30000],
     [Good EXCEPT !.api.timeouts["write"] = -1], [Good EXCEPT !.api.timeouts["idle"] = 0],
     [Good EXCEPT !.logging.level = "loud"], [Good EXCEPT !.logging.format = "xml"],
     [Good EXCEPT !.logging.otelLevel = "loud"],
     [Good EXCEPT !.bgp.listenAddress = "(bad"], [Good EXCEPT !.bgp.listenPort = 65536],
     [Good EXCEPT !.bgp.listenPort = -1], [Good EXCEPT !.bgp.gobgpAPI.enabled = TRUE],
     [Good EXCEPT !.bgp.gobgpAPI.listen = ":50051"], [Good EXCEPT !.bgp.neighbors = <<>>],
     [Good EXCEPT !.vips = <<>>],
     [Good EXCEPT !.otel.endpoint = "(bad"], [Good EXCEPT !.otel.signals["logs"].endpoint = "(bad"],
     [Good EXCEPT !.otel.endpoint = "grpc://c", !.otel.signals["logs"].endpoint = "(bad"]}
    \cup {[Good EXCEPT !.bgp.neighbors = <<n>>] : n \in
        {[Neighbor EXCEPT !.name = ""], [Neighbor EXCEPT !.address = "tor"],
         [Neighbor EXCEPT !.peerASN = 0], [Neighbor EXCEPT !.localAddress = "(bad"],
         [Neighbor EXCEPT !.authPasswordLen = 81], [Neighbor EXCEPT !.multihopTTL = 2],
         [Neighbor EXCEPT !.enableMultihop = TRUE, !.multihopTTL = 1],
         [Neighbor EXCEPT !.enableMultihop = TRUE, !.multihopTTL = 2],
         [Neighbor EXCEPT !.bfd = [enabled |-> TRUE, port |-> 0, detectionMultiplier |-> 1]],
         [Neighbor EXCEPT !.bfd = [enabled |-> TRUE, port |-> 65536, detectionMultiplier |-> 3]],
         [Neighbor EXCEPT !.enableMultihop = TRUE,
                          !.bfd = [enabled |-> TRUE, port |-> 0, detectionMultiplier |-> 3]]}}
    \cup {[Good EXCEPT !.bgp.neighbors = <<Neighbor, n>>] : n \in
        {Neighbor, [Neighbor EXCEPT !.name = "leaf"],
         [Neighbor EXCEPT !.name = "leaf", !.address = "10.0.0.1", !.required = FALSE],
         [Neighbor EXCEPT !.name = "leaf", !.address = "10.0.0.1", !.peerASN = 65000]}}
    \cup {[Good EXCEPT !.router.localAddress = a, !.bgp.neighbors = <<[Neighbor EXCEPT !.passive = p]>>] :
             a \in {"192.0.2.1", "10.0.0.1", "2001:db8::1"}, p \in BOOLEAN}

-----------------------------------------------------------------------------
(* The blocks of each type: as little as there can be, and one thing at a  *)
(* time set, rightly or wrongly.                                           *)
Header(name, value) == [name |-> name, value |-> value]
HTTP == HTTPCheckConfig
HTTPBlocks ==
    {Nil, [HTTP EXCEPT !.proto = "gopher"], [HTTP EXCEPT !.method = "HEAD"], [HTTP EXCEPT !.method = "PUT"],
     [HTTP EXCEPT !.method = "HEAD", !.responseText = "ok"], [HTTP EXCEPT !.responseRegex = "(bad"],
     [HTTP EXCEPT !.responseText = "ok", !.responseRegex = "o."], [HTTP EXCEPT !.responseJQ = ".ok"],
     [HTTP EXCEPT !.responseJQ = "(bad"], [HTTP EXCEPT !.tlsCACert = "ca.pem", !.tlsInsecure = TRUE],
     [HTTP EXCEPT !.tlsCACert = "ca.pem"], [HTTP EXCEPT !.tlsCACert = "none.pem"],
     [HTTP EXCEPT !.headers = <<Header("host", "www")>>],
     [HTTP EXCEPT !.headers = <<Header("Host", "a"), Header("host", "b")>>],
     [HTTP EXCEPT !.headers = <<Header("host", "b"), Header("Host", "a")>>], [HTTP EXCEPT !.host = "svc", !.url = "https://www.example/ready"],
     [HTTP EXCEPT !.proxy = "http://proxy:3128"], [HTTP EXCEPT !.proxy = "proxy", !.host = "svc"],
     [HTTP EXCEPT !.proxy = "ftp://www.example/", !.host = "svc"],
     [HTTP EXCEPT !.proxy = "http://proxy:3128", !.url = "https://www.example/ready"]}
    \cup {[HTTP EXCEPT !.url = t] : t \in DOMAIN URLs \cup {"/x"}}

DNSBlocks ==
    {Nil} \cup {[DNSCheckConfig EXCEPT !.names = {"n1", "n2"}, !.queryType = q] : q \in {"", "aaaa", "ANY"}}

PingBlocks ==
    {Nil, [PingCheckConfig EXCEPT !.dstIP = "(bad"], [PingCheckConfig EXCEPT !.srcIP = "(bad"],
     [PingCheckConfig EXCEPT !.count = 61], [PingCheckConfig EXCEPT !.maxLossRatio = 50],
     [PingCheckConfig EXCEPT !.maxLossRatio = 100]}

ListenBlocks ==
    {Nil, [ListenCheckConfig EXCEPT !.proto = "tcp", !.port = 25],
     [ListenCheckConfig EXCEPT !.proto = "udp", !.port = 53, !.netnsPID = 1],
     [ListenCheckConfig EXCEPT !.proto = "sctp", !.port = 25],
     [ListenCheckConfig EXCEPT !.proto = "tcp", !.port = 25, !.host = "svc"],
     [ListenCheckConfig EXCEPT !.proto = "tcp", !.port = 25, !.netnsPID = -1]}

(* The TLS fields of SQL, Kafka and gRPC.                                  *)
WithTLS(b) ==
    {b, [b EXCEPT !.tlsInsecure = TRUE], [b EXCEPT !.tlsServerName = "db"], [b EXCEPT !.tlsCACert = "ca.pem"],
     [b EXCEPT !.tls = TRUE, !.tlsCACert = "ca.pem", !.tlsInsecure = TRUE],
     [b EXCEPT !.tls = TRUE, !.tlsCACert = "none.pem"], [b EXCEPT !.tls = TRUE, !.tlsCACert = "ca.pem"]}

Query(name, sql, jq) == [name |-> name, sql |-> sql, resultJQ |-> jq]
MySQL == [SQLCheckConfig EXCEPT !.driver = "mysql", !.user = "u"]
SQLBlocks ==
    {Nil, [MySQL EXCEPT !.driver = "postgres"], [MySQL EXCEPT !.user = ""], [MySQL EXCEPT !.maxRows = -1],
     [MySQL EXCEPT !.queries = <<Query("", "", "")>>], [MySQL EXCEPT !.queries = <<Query("", "s", "(bad")>>],
     [MySQL EXCEPT !.queries = <<Query("q2", "s", ""), Query("", "s", "")>>],
     [MySQL EXCEPT !.queries = <<Query("", "s", ".ok"), Query("", "s", "")>>, !.maxRows = 1]}
    \cup WithTLS(MySQL)

Login(mechanism, user, password) == [mechanism |-> mechanism, user |-> user, password |-> password]
KafkaBlocks ==
    {Nil, [KafkaCheckConfig EXCEPT !.minBrokers = -1], [KafkaCheckConfig EXCEPT !.minBrokers = 2, !.topic = "t"]}
    \cup {[KafkaCheckConfig EXCEPT !.sasl = l] :
             l \in {Login("plain", "u", "p"), Login("gssapi", "u", "p"), Login("plain", "", "p"), Login("plain", "u", "")}}
    \cup WithTLS(KafkaCheckConfig)

GRPC == [GRPCCheckConfig EXCEPT !.port = 50051]
GRPCBlocks ==
    {Nil, [GRPC EXCEPT !.method = "/m"], [GRPC EXCEPT !.method = "/m", !.okCodes = {"NOT_FOUND", "Unavailable"}],
     [GRPC EXCEPT !.method = "/m", !.okCodes = {"Fine"}]} \cup WithTLS(GRPC)

Portful(b) == {Nil, [b EXCEPT !.port = 53], [b EXCEPT !.port = 53, !.host = "svc"]}

Blocks ==
    [http |-> HTTPBlocks, dns |-> DNSBlocks, ping |-> PingBlocks, udp |-> Portful(UDPCheckConfig),
     tcp |-> Portful(TCPCheckConfig), listen |-> ListenBlocks, sql |-> SQLBlocks,
     kafka |-> KafkaBlocks, grpc |-> GRPCBlocks]

(* Every block on one host, on a network and, where it fits, on IPv6.      *)
CheckVariants ==
    {Around(<<Single(prefix, Typed(t, b))>>) :
        prefix \in {"10.0.0.1/32", "10.0.0.0/24", "2001:db8::1/128"}, t \in CheckTypes, b \in {Nil}}
    \cup UNION {{Around(<<Single(prefix, Typed(t, b))>>) :
                    prefix \in {"10.0.0.1/32", "10.0.0.0/24", "2001:db8::1/128"}, b \in Blocks[t]} : t \in CheckTypes}

-----------------------------------------------------------------------------
(* VIPs, their lists of checks and their policies.                         *)
SSH == Typed("tcp", [TCPCheckConfig EXCEPT !.port = 22])
Web == Named("web", Typed("http", Nil))
Dns == Typed("dns", [DNSCheckConfig EXCEPT !.names = {"n1"}])
Plain == Single("10.0.0.1/32", SSH)
Other == [Plain EXCEPT !.name = "b", !.prefix = "2001:db8::1/128"]
Two(policy) == [VIP("10.0.0.1/32", <<Web, Dns>>) EXCEPT !.checksPolicy = policy]

Attrs(n, communities) == [prepend |-> n, communities |-> communities]

VIPLists ==
    {<<[Plain EXCEPT !.name = ""]>>, <<[Plain EXCEPT !.prefix = ""]>>,
     <<Plain, [Other EXCEPT !.name = "a"]>>, <<Plain, [Other EXCEPT !.prefix = "10.0.0.1/032"]>>, <<Plain, Other>>,
     <<[Plain EXCEPT !.localInterface = "lo"]>>, <<[Plain EXCEPT !.checks = <<Web>>]>>, <<VIP("10.0.0.1/32", <<>>)>>,
     <<[Plain EXCEPT !.check.type = ""]>>, <<[Plain EXCEPT !.check.type = "icmp"]>>,
     <<[Plain EXCEPT !.check.blocks["listen"] = ListenCheckConfig]>>,
     <<VIP("10.0.0.1/32", <<Web, Web>>)>>, <<VIP("10.0.0.1/32", <<SSH, SSH>>)>>,
     <<VIP("10.0.0.1/32", <<SSH, Named("tcp", Web)>>)>>,
     <<VIP("10.0.0.1/32", <<Named("all", Web)>>)>>, <<VIP("10.0.0.1/32", <<Named("(bad", Web)>>)>>,
     <<[VIP("10.0.0.1/32", <<Web, Web>>) EXCEPT !.checksPolicy = "web && !dns"]>>,
     <<[VIP("10.0.0.1/32", <<Web>>) EXCEPT !.checksPolicy = "web && !dns"]>>,
     <<[Plain EXCEPT !.checksPolicy = "web && !dns"]>>, <<Two("any")>>, <<Two("(bad")>>,
     <<[Plain EXCEPT !.check.interval = 100]>>, <<[Plain EXCEPT !.check.interval = 101]>>,
     <<[Plain EXCEPT !.check.rise = 0]>>, <<[Plain EXCEPT !.check.fall = 0]>>,
     <<[Plain EXCEPT !.policy.failAction = "panic"]>>,
     <<[Plain EXCEPT !.policy.lowerPriority = Attrs(0, <<>>)]>>, <<[Plain EXCEPT !.policy.announce = Attrs(0, <<>>)]>>,
     <<[Plain EXCEPT !.policy.lowerPriority = Attrs(17, <<>>)]>>, <<[Plain EXCEPT !.policy.announce = Attrs(17, <<>>)]>>,
     <<[Plain EXCEPT !.policy.announce = Attrs(Nil, <<"(bad">>)]>>,
     <<[Plain EXCEPT !.policy.announce = Attrs(3, <<"65000:1">>), !.policy.lowerPriority = Attrs(1, <<"65000:1", "65000:2">>)]>>,
     <<[Plain EXCEPT !.prefix = "10.0.0.1/032", !.requireLocalAddress = TRUE]>>,
     <<[Plain EXCEPT !.prefix = "::ffff:10.0.0.1/128", !.requireLocalAddress = TRUE]>>,
     <<Plain, [Other EXCEPT !.prefix = "::ffff:10.0.0.1/128"]>>}

(* Where checks run side by side: an expression over two checks, next to a *)
(* VIP that must be on the right interface.                                *)
Guarded1 == [Other EXCEPT !.requireLocalAddress = TRUE, !.localInterface = "lo"]
SideBySide == {<<Two("web && !dns"), Guarded1>>, <<Two(""), [Guarded1 EXCEPT !.localInterface = ""]>>}

File(config) == [missing |-> FALSE, readable |-> TRUE, placeholders |-> {}, decodes |-> TRUE, config |-> config]

MCFiles ==
    {File(c) : c \in AroundVariants \cup CheckVariants \cup {Around(l) : l \in VIPLists \cup SideBySide}}
    \cup {[File(Good) EXCEPT !.readable = FALSE], [File(Good) EXCEPT !.readable = FALSE, !.missing = TRUE],
          [File(Good) EXCEPT !.decodes = FALSE],
          [File(Good) EXCEPT !.placeholders = {"HOME"}], [File(Good) EXCEPT !.placeholders = {"UNSET"}]}

Line(vips, checks, skip) == [vips |-> vips, checks |-> checks, skipLocalAddress |-> skip, broken |-> {}]
MCOptions ==
    {Line(<<>>, {}, FALSE), Line(<<"b">>, {}, FALSE), Line(<<"a", "a">>, {"web"}, FALSE), Line(<<>>, {"dns"}, FALSE),
     [Line(<<>>, {}, TRUE) EXCEPT !.broken = {"certPool", "grpcClient", "mysqlConnector", "pgEnvironment"}]}

MCLocals ==
    {{}, {[iface |-> "lo", addr |-> "2001:db8::1"]},
     {[iface |-> "eth0", addr |-> "2001:db8::1"], [iface |-> "lo", addr |-> "10.0.0.1"]}}

-----------------------------------------------------------------------------
Page(code, text, json, jq) ==
    [reached |-> TRUE, code |-> code, bodyRead |-> TRUE, hasText |-> text, matches |-> text, json |-> json, jq |-> jq]
Socket(addr, port, listening) == [addr |-> addr, port |-> port, listening |-> listening]
Table(state, sockets) == [state |-> state, sockets |-> sockets]
Topic(err, leaders) ==
    "t" :> [err |-> err, partitions |-> [i \in DOMAIN leaders |-> [err |-> FALSE, leader |-> leaders[i]]]]

MCAnswers ==
    [http |-> {[Page(0, FALSE, FALSE, "none") EXCEPT !.reached = FALSE], Page(500, TRUE, TRUE, "true"),
               Page(200, FALSE, TRUE, "false"), Page(200, TRUE, TRUE, "true")},
     dns |-> {[names |-> [n \in {"n1", "n2"} |->
                             [exchanged |-> e, rcode |-> c, answers |-> IF n = "n1" THEN 1 ELSE k]]] :
                 e \in BOOLEAN, c \in {"NOERROR", "SERVFAIL"}, k \in 0..1},
     ping |-> {[ran |-> r, loss |-> l] : r \in BOOLEAN, l \in {0, 50, 100}},
     udp |-> {[sent |-> FALSE, reply |-> "none"]} \cup {[sent |-> TRUE, reply |-> r] : r \in {"data", "silence", "refused"}},
     tcp |-> {[reached |-> r] : r \in BOOLEAN},
     listen |-> {[procfs |-> TRUE, tables |-> [v4 |-> Table(s, {}), v6 |-> Table("read", {x})]] :
                    s \in {"absent", "unreadable"}, x \in {Socket("::", 25, TRUE), Socket("10.0.0.1", 25, FALSE)}}
                \cup {[procfs |-> TRUE, tables |-> [v4 |-> Table("read", x), v6 |-> Table("absent", {})]] :
                         x \in {{}, {Socket("0.0.0.0", 25, TRUE)}, {Socket("10.0.0.2", 53, TRUE)}, {Socket("10.0.0.1", 53, FALSE)}}},
     sql |-> {[reached |-> r, queries |-> [i \in 1..2 |-> [runs |-> q, rows |-> 2, jq |-> (1 :> "true") @@ (2 :> "false")]]] :
                 r, q \in BOOLEAN},
     kafka |-> {[reached |-> r, brokers |-> b, topics |-> t] :
                   r \in BOOLEAN, b \in 0..2, t \in {<<>>, Topic(FALSE, <<1, 2>>), Topic(FALSE, <<1, -1>>), Topic(TRUE, <<1>>)}},
     grpc |-> {[reached |-> FALSE, code |-> "unavailable", serving |-> "UNKNOWN"]}
              \cup {[reached |-> TRUE, code |-> c, serving |-> s] : c \in {"ok", "notfound"}, s \in {"SERVING", "NOT_SERVING"}}]
=============================================================================
