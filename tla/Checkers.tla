------------------------------ MODULE Checkers ------------------------------
(***************************************************************************)
(* internal/checks: the nine checkers.  A constructor is the predicate     *)
(* that it succeeds, given the calls into libraries that fail in this      *)
(* process (broken).  A Check is its verdict on an answer, which says what *)
(* the target did, in the terms in which its checker sees it: reached is   *)
(* FALSE when the connection or the one exchange with it failed (refused,  *)
(* unroutable, TLS or login, the deadline passed).                         *)
(***************************************************************************)
EXTENDS ConfigValidation

CONSTANT CertFiles      \* the files that can be read and hold a PEM certificate

(* HTTP, gRPC, SQL and Kafka read the CA file in the same way.             *)
CALoads(path) == path = "" \/ path \in CertFiles

NewHTTPChecker(h, broken) ==
    /\ ~(h.tlsInsecure /\ h.tlsCACert # "")
    /\ h.proxy \in DOMAIN URLs \cup {""}
    /\ CALoads(h.tlsCACert)
    /\ h.tlsCACert # "" => "certPool" \notin broken
    /\ Parses(h.responseRegex)
    /\ Parses(h.responseJQ)

parseGRPCCode(name) == Normal(name) \in validGRPCCodeNames

(* Without the system's certificates gRPC goes on with the CA file alone.  *)
NewGRPCChecker(g, broken) ==
    /\ ~(g.tlsInsecure /\ g.tlsCACert # "")
    /\ g.tls => CALoads(g.tlsCACert)
    /\ "grpcClient" \notin broken
    /\ \A code \in g.okCodes : parseGRPCCode(code)

sqlTLSConfig(s) == s.tls => CALoads(s.tlsCACert)
(* pgx starts from the PG* variables of the environment.                   *)
sqlConnector(s, broken) ==
    /\ sqlTLSConfig(s)
    /\ \/ s.driver = "mysql" /\ "mysqlConnector" \notin broken
       \/ s.driver = "postgres" /\ "pgEnvironment" \notin broken
NewSQLChecker(s, broken) == sqlConnector(s, broken) /\ \A i \in DOMAIN s.queries : Parses(s.queries[i].resultJQ)

kafkaTLSConfig(k) == CALoads(k.tlsCACert)
kafkaSASL(sasl) == sasl.mechanism \in {"plain", "scram-sha-256", "scram-sha-512"}
NewKafkaChecker(k) == (k.tls => kafkaTLSConfig(k)) /\ (k.sasl # Nil => kafkaSASL(k.sasl))

(* The other five constructors cannot fail.                                *)
NewChecker(c, broken) ==
    IF c.type \notin CheckTypes THEN FALSE
    ELSE /\ c.blocks[c.type] # Nil
         /\ c.type = "http" => NewHTTPChecker(c.blocks["http"], broken)
         /\ c.type = "grpc" => NewGRPCChecker(c.blocks["grpc"], broken)
         /\ c.type = "sql" => NewSQLChecker(c.blocks["sql"], broken)
         /\ c.type = "kafka" => NewKafkaChecker(c.blocks["kafka"])

-----------------------------------------------------------------------------
(* Verdicts.                                                               *)

(* A jq program yields "true", another value, an error or nothing.         *)
evalJQ(output) == output = "true"

evaluateResponse(h, a) ==
    /\ a.code \in h.responseCodes
    /\ h.responseText # "" \/ h.responseRegex # "" \/ h.responseJQ # "" => a.bodyRead
    /\ h.responseText # "" => a.hasText
    /\ h.responseRegex # "" => a.matches
    /\ h.responseJQ # "" => a.json /\ evalJQ(a.jq)

HTTPCheck(h, a) == a.reached /\ evaluateResponse(h, a)

(* answer.names: per name whether the exchange succeeded, the response     *)
(* code and the answer count.                                              *)
DNSCheck(d, a) ==
    \A n \in d.names :
        a.names[n].exchanged /\ a.names[n].rcode = "NOERROR" /\ a.names[n].answers > 0

TCPCheck(t, a) == t.host # "" /\ t.port # 0 /\ a.reached

newConfiguredPinger(p) == p.dstIP # ""

(* answer.ran: the pinger came to its end in time and without an error.  A *)
(* target that is silent is no error, it is a loss of 100 percent.         *)
PingCheck(p, a) == newConfiguredPinger(p) /\ a.ran /\ a.loss <= p.maxLossRatio

(* Silence until the read deadline passes as an open port.                 *)
UDPCheck(u, a) == u.host # "" /\ u.port # 0 /\ a.sent /\ a.reply \in {"data", "silence"}

checkStandardHealth(a) == a.reached /\ a.serving = "SERVING"

(* A failed exchange has a status code as well: unavailable or             *)
(* deadlineexceeded, and ok_codes may list it.                             *)
checkCustomMethod(g, a) ==
    a.code \in (IF g.okCodes = {} THEN {"ok"} ELSE {Normal(c) : c \in g.okCodes})

GRPCCheck(g, a) == IF g.method = "" THEN checkStandardHealth(a) ELSE checkCustomMethod(g, a)

(* Rows beyond max_rows are not fetched, so result_jq sees at most that    *)
(* many; answer.jq is its output per number of rows it is given.           *)
SQLCheck(s, a) ==
    /\ a.reached
    /\ \A i \in DOMAIN s.queries :
          /\ a.queries[i].runs
          /\ s.queries[i].resultJQ # "" =>
                LET limit == IF s.maxRows <= 0 THEN 100 ELSE s.maxRows
                    rows == a.queries[i].rows
                IN  evalJQ(a.queries[i].jq[IF rows > limit THEN limit ELSE rows])

evalKafkaTopic(topic) ==
    ~topic.err /\ topic.partitions # <<>>
    /\ \A i \in DOMAIN topic.partitions : ~topic.partitions[i].err /\ topic.partitions[i].leader >= 0

KafkaCheck(k, a) ==
    /\ a.reached
    /\ a.brokers >= IF k.minBrokers <= 0 THEN 1 ELSE k.minBrokers
    /\ k.topic # "" => k.topic \in DOMAIN a.topics /\ evalKafkaTopic(a.topics[k.topic])

(* A socket serves the host when bound to it or to a wildcard of a family  *)
(* that takes the host's packets.                                          *)
match(l, socket) ==
    /\ socket.port = l.port
    /\ l.proto = "tcp" => socket.listening
    /\ l.host # "" => socket.addr \in {l.host, "0.0.0.0", "::"}
    /\ ~(l.host \in V6 /\ socket.addr = "0.0.0.0")

(* answer.tables: the IPv4 and the IPv6 socket table of the protocol, each *)
(* "absent", "unreadable" or read.  An absent table is skipped.            *)
ListenCheck(l, a) ==
    /\ l.port # 0 /\ l.proto \in {"tcp", "udp"} /\ l.host \in IPs \cup {""}
    /\ a.procfs
    /\ \A f \in DOMAIN a.tables : a.tables[f].state # "unreadable"
    /\ \E f \in DOMAIN a.tables : \E socket \in a.tables[f].sockets : match(l, socket)

Check(c, a) ==
    LET b == c.blocks[c.type]
    IN  IF c.type = "http" THEN HTTPCheck(b, a)
        ELSE IF c.type = "dns" THEN DNSCheck(b, a)
        ELSE IF c.type = "ping" THEN PingCheck(b, a)
        ELSE IF c.type = "udp" THEN UDPCheck(b, a)
        ELSE IF c.type = "tcp" THEN TCPCheck(b, a)
        ELSE IF c.type = "listen" THEN ListenCheck(b, a)
        ELSE IF c.type = "sql" THEN SQLCheck(b, a)
        ELSE IF c.type = "kafka" THEN KafkaCheck(b, a)
        ELSE GRPCCheck(b, a)
=============================================================================
