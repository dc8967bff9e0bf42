---------------------------- MODULE ConfigProofs ----------------------------
(***************************************************************************)
(* Every config that loads is one the components can rely on, whatever the *)
(* file says: ApplyDefaults and Validate together leave nothing open.      *)
(***************************************************************************)
EXTENDS CheckCommand, TLAPS

LEMMA NoFlag == \A bad, field : Flag(bad, field) = {} => ~bad
  BY DEF Flag

-----------------------------------------------------------------------------
(* What the defaults fill in.                                              *)

(* Kept folded: the SMT encoding does not tell "" from other texts.        *)
Blank(s) == s = ""

LEMMA OrTextBlank == \A s, default : Blank(OrText(s, default)) => Blank(default)
  BY DEF OrText, Blank

(* vipHostIP, which fills in a target, and isSingleHost, which validation  *)
(* asks, agree.                                                            *)
LEMMA HostFromPrefix ==
    ASSUME NEW prefix, Blank(vipHostIP(prefix))
    PROVE  ~isSingleHost(prefix)
  BY CIDRsAssumption DEF vipHostIP, isSingleHost, Blank

TargetOf(type, b) == IF type = "ping" THEN b.dstIP ELSE b.host

LEMMA HTTPTarget ==
    ASSUME NEW h, NEW prefix, "host" \in DOMAIN h, Blank(applyHTTPDefaults(h, prefix).host)
    PROVE  Blank(vipHostIP(prefix))
  <1> DEFINE given == IF h.proxy # "" /\ urlHostname(h) # "" THEN urlHostname(h) ELSE vipHostIP(prefix)
  <1>1. applyHTTPDefaults(h, prefix).host = ConnectHost(h, prefix)
    BY DEF applyHTTPDefaults
  <1>2. ConnectHost(h, prefix) = OrText(h.host, given)
    BY DEF ConnectHost
  <1>3. Blank(given) => Blank(vipHostIP(prefix))
    BY DEF Blank
  <1> HIDE DEF given
  <1>4. QED BY <1>1, <1>2, <1>3, OrTextBlank

LEMMA BlockTarget ==
    ASSUME NEW t \in CheckTypes, t # "dns", NEW b, NEW prefix,
           b # Nil => DOMAIN b = DOMAIN EmptyBlock[t],
           Blank(TargetOf(t, applyBlockDefaults(t, b, prefix)))
    PROVE  Blank(vipHostIP(prefix))
  <1>1. CASE t = "http"
    <2>1. "host" \in DOMAIN OrNil(b, HTTPCheckConfig)
      BY <1>1 DEF OrNil, HTTPCheckConfig, EmptyBlock
    <2>2. QED BY <1>1, <2>1, HTTPTarget DEF TargetOf, applyBlockDefaults
  <1>2. CASE t = "ping"
    <2>1. "dstIP" \in DOMAIN OrNil(b, PingCheckConfig)
      BY <1>2 DEF OrNil, PingCheckConfig, EmptyBlock
    <2>2. applyPingDefaults(OrNil(b, PingCheckConfig), prefix).dstIP
             = OrText(OrNil(b, PingCheckConfig).dstIP, vipHostIP(prefix))
      BY <2>1 DEF applyPingDefaults
    <2>3. QED BY <1>2, <2>2, OrTextBlank DEF TargetOf, applyBlockDefaults
  <1>3. CASE t = "udp"
    <2>1. "host" \in DOMAIN OrNil(b, UDPCheckConfig)
      BY <1>3 DEF OrNil, UDPCheckConfig, EmptyBlock
    <2>2. applyUDPDefaults(OrNil(b, UDPCheckConfig), prefix).host
             = OrText(OrNil(b, UDPCheckConfig).host, vipHostIP(prefix))
      BY <2>1 DEF applyUDPDefaults
    <2>3. QED BY <1>3, <2>2, OrTextBlank DEF TargetOf, applyBlockDefaults
  <1>4. CASE t = "sql"
    <2>1. "host" \in DOMAIN OrNil(b, SQLCheckConfig)
      BY <1>4 DEF OrNil, SQLCheckConfig, EmptyBlock
    <2>2. applySQLDefaults(OrNil(b, SQLCheckConfig), prefix).host
             = OrText(OrNil(b, SQLCheckConfig).host, vipHostIP(prefix))
      BY <2>1 DEF applySQLDefaults
    <2>3. QED BY <1>4, <2>2, OrTextBlank DEF TargetOf, applyBlockDefaults
  <1>5. CASE t = "kafka"
    <2>1. "host" \in DOMAIN OrNil(b, KafkaCheckConfig)
      BY <1>5 DEF OrNil, KafkaCheckConfig, EmptyBlock
    <2>2. applyKafkaDefaults(OrNil(b, KafkaCheckConfig), prefix).host
             = OrText(OrNil(b, KafkaCheckConfig).host, vipHostIP(prefix))
      BY <2>1 DEF applyKafkaDefaults
    <2>3. QED BY <1>5, <2>2, OrTextBlank DEF TargetOf, applyBlockDefaults
  <1>6. CASE t = "tcp"
    <2>1. "host" \in DOMAIN OrNil(b, TCPCheckConfig)
      BY <1>6 DEF OrNil, TCPCheckConfig, EmptyBlock
    <2>2. applyHostDefault(OrNil(b, TCPCheckConfig), prefix).host
             = OrText(OrNil(b, TCPCheckConfig).host, vipHostIP(prefix))
      BY <2>1 DEF applyHostDefault
    <2>3. QED BY <1>6, <2>2, OrTextBlank DEF TargetOf, applyBlockDefaults
  <1>7. CASE t = "grpc"
    <2>1. "host" \in DOMAIN OrNil(b, GRPCCheckConfig)
      BY <1>7 DEF OrNil, GRPCCheckConfig, EmptyBlock
    <2>2. applyHostDefault(OrNil(b, GRPCCheckConfig), prefix).host
             = OrText(OrNil(b, GRPCCheckConfig).host, vipHostIP(prefix))
      BY <2>1 DEF applyHostDefault
    <2>3. QED BY <1>7, <2>2, OrTextBlank DEF TargetOf, applyBlockDefaults
  <1>8. CASE t = "listen"
    <2>1. "host" \in DOMAIN OrNil(b, ListenCheckConfig)
      BY <1>8 DEF OrNil, ListenCheckConfig, EmptyBlock
    <2>2. applyHostDefault(OrNil(b, ListenCheckConfig), prefix).host
             = OrText(OrNil(b, ListenCheckConfig).host, vipHostIP(prefix))
      BY <2>1 DEF applyHostDefault
    <2>3. QED BY <1>8, <2>2, OrTextBlank DEF TargetOf, applyBlockDefaults
  <1>9. QED BY <1>1, <1>2, <1>3, <1>4, <1>5, <1>6, <1>7, <1>8 DEF CheckTypes

LEMMA NumberFilled == \A n, default : IsNumber(n) /\ default \in Int => OrNil(n, default) \in Int
  BY DEF IsNumber, OrNil

(* A check as ApplyDefaults leaves it.                                     *)
Filled(c, prefix, d) ==
    /\ d.type = c.type
    /\ d.interval \in Int /\ d.timeout \in Int /\ d.rise \in Int /\ d.fall \in Int
    /\ c.type \in CheckTypes =>
          TargetOf(c.type, d.blocks[c.type])
              = TargetOf(c.type, applyBlockDefaults(c.type, c.blocks[c.type], prefix))

LEMMA CheckFilled ==
    ASSUME NEW c, IsCheck(c), NEW prefix, NEW procfs, NEW d,
           d = WithProcfs(applyCheckDefaults(c, prefix), procfs)
    PROVE  Filled(c, prefix, d)
  <1> DEFINE e == applyCheckDefaults(c, prefix)
             new == [t \in CheckTypes |-> IF t = c.type THEN applyBlockDefaults(t, c.blocks[t], prefix)
                                          ELSE c.blocks[t]]
  <1>1. DOMAIN c = {"name", "type", "interval", "timeout", "rise", "fall", "blocks"}
    BY DEF IsCheck, CheckConfig
  <1>2. /\ DOMAIN e = DOMAIN c /\ e.type = c.type /\ e.blocks = new
        /\ e.interval = OrNil(c.interval, 1000) /\ e.timeout = OrNil(c.timeout, 100)
        /\ e.rise = OrNil(c.rise, 1) /\ e.fall = OrNil(c.fall, 3)
    BY <1>1 DEF applyCheckDefaults
  <1>3. e.interval \in Int /\ e.timeout \in Int /\ e.rise \in Int /\ e.fall \in Int
    BY <1>2, NumberFilled DEF IsCheck
  <1>4. c.type \in CheckTypes => e.blocks[c.type] = applyBlockDefaults(c.type, c.blocks[c.type], prefix)
    BY <1>2
  <1>5. DOMAIN e.blocks = CheckTypes /\ "listen" \in CheckTypes
    BY <1>2 DEF CheckTypes
  <1> HIDE DEF e
  <1>6. d = IF e.blocks["listen"] = Nil THEN e
            ELSE [e EXCEPT !.blocks["listen"].procfs = OrText(@, procfs)]
    BY DEF WithProcfs, e
  <1>7. /\ d.type = e.type /\ d.interval = e.interval /\ d.timeout = e.timeout
        /\ d.rise = e.rise /\ d.fall = e.fall
    BY <1>1, <1>2, <1>6
  <1>8. \A t \in CheckTypes : TargetOf(t, d.blocks[t]) = TargetOf(t, e.blocks[t])
    <2>1. CASE e.blocks["listen"] = Nil
      BY <1>6, <2>1
    <2>2. CASE e.blocks["listen"] # Nil
      <3>1. d.blocks = [e.blocks EXCEPT !["listen"].procfs = OrText(@, procfs)]
        BY <1>1, <1>2, <1>6, <2>2
      <3>2. \A t \in CheckTypes : t # "listen" => d.blocks[t] = e.blocks[t]
        BY <1>5, <3>1
      <3>3. d.blocks["listen"] = [e.blocks["listen"] EXCEPT !.procfs = OrText(@, procfs)]
        BY <1>5, <3>1
      <3>4. d.blocks["listen"].host = e.blocks["listen"].host
        BY <3>3
      <3>5. QED BY <3>2, <3>4 DEF TargetOf
    <2>3. QED BY <2>1, <2>2
  <1>9. QED BY <1>2, <1>3, <1>4, <1>7, <1>8 DEF Filled

-----------------------------------------------------------------------------
(* What validation refuses.                                                *)

LEMMA HostDemanded ==
    ASSUME NEW b, NEW prefix
    PROVE  /\ validateHTTPCheck(b, prefix) = {} => ~NoHost(b.host, prefix)
           /\ validatePingCheck(b, prefix) = {} => ~NoHost(b.dstIP, prefix)
           /\ validatePortCheck(b, prefix) = {} => ~NoHost(b.host, prefix)
           /\ validateListenCheck(b, prefix) = {} => ~NoHost(b.host, prefix)
           /\ validateKafkaCheck(b, prefix) = {} => ~NoHost(b.host, prefix)
           /\ validateSQLCheck(b, prefix) = {} => ~NoHost(b.host, prefix)
           /\ validateGRPCCheck(b, prefix) = {} => ~NoHost(b.host, prefix)
  <1>1. Flag(NoHost(b.host, prefix), "host") \subseteq validateHTTPCheck(b, prefix)
    BY Zenon DEF validateHTTPCheck
  <1>2. Flag(NoHost(b.dstIP, prefix), "dstIP") \subseteq validatePingCheck(b, prefix)
    BY Zenon DEF validatePingCheck
  <1>3. Flag(NoHost(b.host, prefix), "host") \subseteq validatePortCheck(b, prefix)
    BY Zenon DEF validatePortCheck
  <1>4. validatePortCheck(b, prefix) \subseteq validateListenCheck(b, prefix)
    BY Zenon DEF validateListenCheck
  <1>5. Flag(NoHost(b.host, prefix), "host") \subseteq validateKafkaCheck(b, prefix)
    BY Zenon DEF validateKafkaCheck
  <1>6. Flag(NoHost(b.host, prefix), "host") \subseteq validateSQLCheck(b, prefix)
    BY Zenon DEF validateSQLCheck
  <1>7. validatePortCheck(b, prefix) \subseteq validateGRPCCheck(b, prefix)
    BY Zenon DEF validateGRPCCheck
  <1>8. \A S, T : S \subseteq T /\ T = {} => S = {}
    OBVIOUS
  <1>9. QED BY <1>1, <1>2, <1>3, <1>4, <1>5, <1>6, <1>7, <1>8, NoFlag

LEMMA CheckValidated ==
    ASSUME NEW c, NEW prefix, validateCheck(c, prefix) = {}
    PROVE  /\ c.type \in CheckTypes /\ c.blocks[c.type] # Nil
           /\ c.type # "dns" => ~NoHost(TargetOf(c.type, c.blocks[c.type]), prefix)
  <1>1. c.type \in CheckTypes /\ c.blocks[c.type] # Nil
    BY DEF validateCheck
  <1>2. QED BY <1>1, HostDemanded DEF validateCheck, TargetOf, CheckTypes

LEMMA ListedCheckValidated ==
    ASSUME NEW v, NEW i, NEW c, c = CheckList(v)[i], validateListedCheck(v, i) = {}
    PROVE  /\ \A j \in 1 .. (i - 1) : EffectiveName(CheckList(v)[j]) # EffectiveName(c)
           /\ ~(c.interval # Nil /\ c.timeout # Nil /\ c.timeout >= c.interval)
           /\ ~(c.rise # Nil /\ c.rise < 1) /\ ~(c.fall # Nil /\ c.fall < 1)
           /\ validateCheck(c, v.prefix) = {}
  <1>1. /\ Flag(\E j \in 1 .. (i - 1) : EffectiveName(CheckList(v)[j]) = EffectiveName(c), "name") \subseteq validateListedCheck(v, i)
        /\ Flag(c.interval # Nil /\ c.timeout # Nil /\ c.timeout >= c.interval, "timeout") \subseteq validateListedCheck(v, i)
        /\ Flag(c.rise # Nil /\ c.rise < 1, "rise") \subseteq validateListedCheck(v, i)
        /\ Flag(c.fall # Nil /\ c.fall < 1, "fall") \subseteq validateListedCheck(v, i)
        /\ validateCheck(c, v.prefix) \subseteq validateListedCheck(v, i)
    BY Zenon DEF validateListedCheck
  <1>2. \A S : S \subseteq validateListedCheck(v, i) => S = {}
    OBVIOUS
  <1>3. QED BY <1>1, <1>2, NoFlag

-----------------------------------------------------------------------------
(* Both together.                                                          *)

LEMMA CheckSound ==
    ASSUME NEW v, NEW i, NEW c, IsCheck(c), NEW procfs, NEW d,
           d = WithProcfs(applyCheckDefaults(c, v.prefix), procfs), d = CheckList(v)[i],
           validateListedCheck(v, i) = {}
    PROVE  SoundCheck(d)
  <1>1. Filled(c, v.prefix, d)
    BY Zenon, CheckFilled
  <1>2. /\ ~(d.interval # Nil /\ d.timeout # Nil /\ d.timeout >= d.interval)
        /\ ~(d.rise # Nil /\ d.rise < 1) /\ ~(d.fall # Nil /\ d.fall < 1)
        /\ validateCheck(d, v.prefix) = {}
    BY ListedCheckValidated
  <1>3. /\ d.type \in CheckTypes /\ d.blocks[d.type] # Nil
        /\ d.type # "dns" => ~NoHost(TargetOf(d.type, d.blocks[d.type]), v.prefix)
    BY <1>2, CheckValidated
  <1>4. /\ d.interval # Nil /\ d.timeout # Nil /\ d.timeout < d.interval
        /\ d.rise >= 1 /\ d.fall >= 1
    BY <1>1, <1>2, NilAssumption DEF Filled
  <1>5. ASSUME d.type # "dns" PROVE ~Blank(TargetOf(d.type, d.blocks[d.type]))
    <2> SUFFICES ASSUME Blank(TargetOf(d.type, d.blocks[d.type])) PROVE FALSE
      OBVIOUS
    <2>1. c.blocks[c.type] # Nil => DOMAIN c.blocks[c.type] = DOMAIN EmptyBlock[c.type]
      BY <1>1, <1>3 DEF IsCheck, Filled
    <2>2. Blank(vipHostIP(v.prefix))
      BY <1>1, <1>3, <1>5, <2>1, BlockTarget DEF Filled
    <2>3. ~isSingleHost(v.prefix)
      BY <2>2, HostFromPrefix
    <2>4. QED BY <1>3, <1>5, <2>3 DEF NoHost, Blank
  <1>6. d.type # "dns" => Target(d) = TargetOf(d.type, d.blocks[d.type])
    BY DEF Target, TargetOf
  <1>7. d.type # "dns" => ~Blank(Target(d))
    BY <1>5, <1>6
  <1>8. d.type # "dns" => Target(d) # ""
    BY Zenon, <1>7 DEF Blank
  <1>9. QED BY Zenon, <1>3, <1>4, <1>8 DEF SoundCheck

LEMMA PrependFilled ==
    ASSUME NEW b \in AttrsConfigs \cup {Nil}, NEW n \in Int
    PROVE  WithPrepend(b, n) # Nil /\ WithPrepend(b, n).prepend \in Int
  <1>1. OrNil(b, AttrsConfig) \in AttrsConfigs
    <2>1. AttrsConfig \in AttrsConfigs
      BY DEF AttrsConfig, AttrsConfigs
    <2>2. QED BY <2>1 DEF OrNil
  <1>2. PICK a \in AttrsConfigs : a = OrNil(b, AttrsConfig)
    BY <1>1
  <1>3. OrNil(a.prepend, n) \in Int
    BY NumberFilled DEF AttrsConfigs, IsNumber
  <1>4. /\ WithPrepend(b, n) = [a EXCEPT !.prepend = OrNil(@, n)]
        /\ WithPrepend(b, n).prepend = OrNil(a.prepend, n)
    BY <1>2 DEF WithPrepend, AttrsConfigs
  <1>5. WithPrepend(b, n) \in AttrsConfigs
    BY <1>3, <1>4 DEF AttrsConfigs
  <1>6. QED BY <1>3, <1>4, <1>5, NilAssumption

LEMMA AttrsValidated ==
    ASSUME NEW b, b # Nil, b.prepend \in Int, NEW least \in Int, validateAttrs(b, least) = {}
    PROVE  b.prepend \in least .. 16
  <1>1. Flag(b.prepend # Nil /\ b.prepend \notin least .. 16, "prepend") = {}
    BY DEF validateAttrs
  <1>2. QED BY <1>1, NoFlag, NilAssumption

LEMMA PolicySound ==
    ASSUME NEW p, IsPolicy(p), NEW q, q = applyPolicyDefaults(p), validatePolicy(q) = {}
    PROVE  SoundPolicy(q)
  <1>1. DOMAIN p = {"failAction", "lowerPriorityFile", "announce", "lowerPriority"}
    BY DEF IsPolicy, PolicyConfig
  <1>2. q.lowerPriority = WithPrepend(p.lowerPriority, 6) /\ q.announce = WithPrepend(p.announce, 0)
    BY <1>1 DEF applyPolicyDefaults
  <1>3. /\ q.lowerPriority # Nil /\ q.lowerPriority.prepend \in Int
        /\ q.announce # Nil /\ q.announce.prepend \in Int
    <2>1. p.lowerPriority \in AttrsConfigs \cup {Nil} /\ p.announce \in AttrsConfigs \cup {Nil}
      BY Zenon DEF IsPolicy
    <2>2. 6 \in Int /\ 0 \in Int
      OBVIOUS
    <2>3. QED BY Zenon, <1>2, <2>1, <2>2, PrependFilled
  <1>4. /\ Flag(q.failAction \notin {"withdraw", "lower_priority"}, "failAction") = {}
        /\ validateAttrs(q.lowerPriority, 1) = {} /\ validateAttrs(q.announce, 0) = {}
    BY DEF validatePolicy
  <1>5. q.failAction \in {"withdraw", "lower_priority"}
    BY Zenon, <1>4, NoFlag
  <1>6. 1 \in Int /\ 0 \in Int
    OBVIOUS
  <1>7. q.lowerPriority.prepend \in 1 .. 16 /\ q.announce.prepend \in 0 .. 16
    BY Zenon, <1>3, <1>4, <1>6, AttrsValidated
  <1>8. QED BY <1>5, <1>7 DEF SoundPolicy

-----------------------------------------------------------------------------
(* The VIPs.                                                               *)

LEMMA VIPValidated ==
    ASSUME NEW vips, NEW i, NEW v, v = vips[i], validateVIP(vips, i) = {}
    PROVE  /\ v.prefix \in DOMAIN CIDRs
           /\ \A j \in 1 .. (i - 1) : vips[j].name # v.name
           /\ \A j \in 1 .. (i - 1) : vips[j].prefix \in DOMAIN CIDRs =>
                    CIDRs[vips[j].prefix].canonical # CIDRs[v.prefix].canonical
           /\ \A k \in DOMAIN CheckList(v) : validateListedCheck(v, k) = {}
           /\ validateChecksPolicy(v) = {} /\ validatePolicy(v.policy) = {}
  <1> DEFINE repeated == v.name = "" \/ \E j \in 1 .. (i - 1) : vips[j].name = v.name
             overlaps == /\ v.prefix \in DOMAIN CIDRs
                         /\ \E j \in 1 .. (i - 1) :
                               /\ vips[j].prefix \in DOMAIN CIDRs
                               /\ CIDRs[vips[j].prefix].canonical = CIDRs[v.prefix].canonical
  <1>1. /\ Flag(repeated, "name") \subseteq validateVIP(vips, i)
        /\ Flag(v.prefix \notin DOMAIN CIDRs, "prefix") \subseteq validateVIP(vips, i)
        /\ Flag(overlaps, "prefix") \subseteq validateVIP(vips, i)
        /\ Flag(~hasCheck(v), "check") \subseteq validateVIP(vips, i)
        /\ validateChecks(v) \subseteq validateVIP(vips, i)
        /\ validateChecksPolicy(v) \subseteq validateVIP(vips, i)
        /\ validatePolicy(v.policy) \subseteq validateVIP(vips, i)
    <2>1. Flag(repeated, "name") \subseteq validateVIP(vips, i)
      BY Zenon DEF validateVIP
    <2>2. Flag(v.prefix \notin DOMAIN CIDRs, "prefix") \subseteq validateVIP(vips, i)
      BY Zenon DEF validateVIP
    <2>3. Flag(overlaps, "prefix") \subseteq validateVIP(vips, i)
      BY Zenon DEF validateVIP
    <2>4. Flag(~hasCheck(v), "check") \subseteq validateVIP(vips, i)
      BY Zenon DEF validateVIP
    <2>5. validateChecks(v) \subseteq validateVIP(vips, i)
      BY Zenon DEF validateVIP
    <2>6. validateChecksPolicy(v) \subseteq validateVIP(vips, i)
      BY Zenon DEF validateVIP
    <2>7. validatePolicy(v.policy) \subseteq validateVIP(vips, i)
      BY Zenon DEF validateVIP
    <2>8. QED BY <2>1, <2>2, <2>3, <2>4, <2>5, <2>6, <2>7
  <1>2. \A S : S \subseteq validateVIP(vips, i) => S = {}
    OBVIOUS
  <1> HIDE DEF repeated, overlaps
  <1>3. ~repeated /\ ~overlaps /\ v.prefix \in DOMAIN CIDRs /\ hasCheck(v)
    BY Zenon, <1>1, <1>2, NoFlag
  <1>4. /\ validateChecks(v) = {}
        /\ validateChecksPolicy(v) = {} /\ validatePolicy(v.policy) = {}
    BY Zenon, <1>1, <1>2, <1>3
  <1>5. \A k \in DOMAIN CheckList(v) : validateListedCheck(v, k) = {}
    BY <1>3, <1>4 DEF validateChecks
  <1>6. \A j \in 1 .. (i - 1) : vips[j].name # v.name
    BY Zenon, <1>3 DEF repeated
  <1>7. \A j \in 1 .. (i - 1) : vips[j].prefix \in DOMAIN CIDRs =>
                    CIDRs[vips[j].prefix].canonical # CIDRs[v.prefix].canonical
    BY Zenon, <1>3 DEF overlaps
  <1>8. QED BY <1>3, <1>4, <1>5, <1>6, <1>7

LEMMA VIPFilled ==
    ASSUME NEW raw, IsVIP(raw), NEW procfs, NEW v, v = applyVIPDefaults(raw, procfs),
           ~(raw.checks = <<>> /\ Blank(raw.check.type))
    PROVE  /\ v.policy = applyPolicyDefaults(raw.policy)
           /\ \E n \in Nat \ {0} : DOMAIN CheckList(v) = 1 .. n
           /\ \A k \in DOMAIN CheckList(v) :
                 \E c : IsCheck(c) /\ CheckList(v)[k] = WithProcfs(applyCheckDefaults(c, v.prefix), procfs)
  <1> DEFINE F(c) == WithProcfs(applyCheckDefaults(c, raw.prefix), procfs)
  <1>1. {"name", "prefix", "check", "checks", "checksPolicy", "policy"} \subseteq DOMAIN raw
    BY DEF IsVIP
  <1>2. v = [raw EXCEPT !.check = IF raw.checks = <<>> THEN F(@) ELSE @,
                       !.checks = [i \in DOMAIN @ |-> F(@[i])],
                       !.checksPolicy = OrText(@, "all"),
                       !.policy = applyPolicyDefaults(@)]
    BY Zenon DEF applyVIPDefaults, Blank
  <1> HIDE DEF F
  <1>3. /\ v.policy = applyPolicyDefaults(raw.policy) /\ v.prefix = raw.prefix
        /\ v.check = IF raw.checks = <<>> THEN F(raw.check) ELSE raw.check
        /\ v.checks = [i \in DOMAIN raw.checks |-> F(raw.checks[i])]
    BY <1>1, <1>2
  <1>4. CASE raw.checks = <<>>
    <2>1. v.checks = <<>> /\ v.check = F(raw.check)
      BY <1>3, <1>4
    <2>2. CheckList(v) = <<F(raw.check)>>
      BY <2>1 DEF CheckList
    <2>3. DOMAIN CheckList(v) = 1 .. 1 /\ CheckList(v)[1] = F(raw.check)
      BY <2>2
    <2>4. IsCheck(raw.check)
      BY DEF IsVIP
    <2>5. QED BY <1>3, <2>3, <2>4 DEF F
  <1>5. CASE raw.checks # <<>>
    <2>1. Len(raw.checks) \in Nat /\ DOMAIN raw.checks = 1 .. Len(raw.checks)
      BY DEF IsVIP, IsList
    <2>2. Len(raw.checks) # 0
      <3> SUFFICES ASSUME Len(raw.checks) = 0 PROVE FALSE
        OBVIOUS
      <3>1. raw.checks = [i \in 1 .. 0 |-> raw.checks[i]]
        BY DEF IsVIP, IsList
      <3>2. QED BY <1>5, <3>1
    <2>3. DOMAIN v.checks = 1 .. Len(raw.checks) /\ 1 \in DOMAIN v.checks
      BY <1>3, <2>1, <2>2
    <2>4. v.checks # <<>>
      BY <2>3
    <2>5. CheckList(v) = v.checks
      BY <2>4 DEF CheckList
    <2>6. \A k \in DOMAIN raw.checks : IsCheck(raw.checks[k])
      BY DEF IsVIP
    <2>7. \A k \in DOMAIN CheckList(v) : k \in DOMAIN raw.checks /\ CheckList(v)[k] = F(raw.checks[k])
      BY <1>3, <2>1, <2>3, <2>5
    <2>8. QED BY <1>3, <2>1, <2>2, <2>3, <2>5, <2>6, <2>7 DEF F
  <1>6. QED BY <1>4, <1>5

(* A VIP left unfilled has no check type, and that is refused.             *)
LEMMA UnfilledRefused ==
    ASSUME NEW v, v.checks = <<>>, Blank(v.check.type),
           \A k \in DOMAIN CheckList(v) : validateListedCheck(v, k) = {}
    PROVE  FALSE
  <1>1. CheckList(v) = <<v.check>>
    BY DEF CheckList
  <1>2. 1 \in DOMAIN CheckList(v) /\ CheckList(v)[1] = v.check
    BY <1>1
  <1>3. validateCheck(v.check, v.prefix) = {}
    BY <1>2, ListedCheckValidated
  <1>4. v.check.type \in CheckTypes
    BY <1>3, CheckValidated
  <1>5. QED BY Zenon, <1>4 DEF Blank, CheckTypes

LEMMA VIPSound ==
    ASSUME NEW raw, IsVIP(raw), NEW procfs, NEW vips, NEW i, NEW v, v = vips[i],
           v = applyVIPDefaults(raw, procfs), validateVIP(vips, i) = {}
    PROVE  SoundVIP(v)
  <1>1. /\ v.prefix \in DOMAIN CIDRs
        /\ \A k \in DOMAIN CheckList(v) : validateListedCheck(v, k) = {}
        /\ validateChecksPolicy(v) = {} /\ validatePolicy(v.policy) = {}
    BY Zenon, VIPValidated
  <1>2. ~(raw.checks = <<>> /\ Blank(raw.check.type))
    <2> SUFFICES ASSUME raw.checks = <<>>, Blank(raw.check.type) PROVE FALSE
      OBVIOUS
    <2>1. v = raw
      BY Zenon DEF applyVIPDefaults, Blank
    <2>2. QED BY Zenon, <1>1, <2>1, UnfilledRefused
  <1>3. /\ v.policy = applyPolicyDefaults(raw.policy)
        /\ \E n \in Nat \ {0} : DOMAIN CheckList(v) = 1 .. n
        /\ \A k \in DOMAIN CheckList(v) :
              \E c : IsCheck(c) /\ CheckList(v)[k] = WithProcfs(applyCheckDefaults(c, v.prefix), procfs)
    BY Zenon, <1>2, VIPFilled
  <1>4. SoundPolicy(v.policy)
    <2>1. IsPolicy(raw.policy)
      BY DEF IsVIP
    <2>2. QED BY Zenon, <1>1, <1>3, <2>1, PolicySound
  <1>5. \A k \in DOMAIN CheckList(v) : SoundCheck(CheckList(v)[k])
    BY Zenon, <1>1, <1>3, CheckSound
  <1>6. PICK n \in Nat \ {0} : DOMAIN CheckList(v) = 1 .. n
    BY <1>3
  <1>7. CheckList(v) # <<>>
    BY <1>6
  <1>8. \A k, l \in DOMAIN CheckList(v) :
           EffectiveName(CheckList(v)[k]) = EffectiveName(CheckList(v)[l]) => k = l
    <2>1. \A k \in DOMAIN CheckList(v) : \A l \in 1 .. (k - 1) :
             EffectiveName(CheckList(v)[l]) # EffectiveName(CheckList(v)[k])
      BY Zenon, <1>1, ListedCheckValidated
    <2>2. QED BY <1>6, <2>1
  <1>9. CompileChecksPolicy(v.checksPolicy, CheckNamesOf(v))
    <2>1. CASE v.checksPolicy \in {"", "all", "any"}
      BY Zenon, <2>1 DEF CompileChecksPolicy
    <2>2. CASE v.checksPolicy \notin {"", "all", "any"}
      <3>1. v.checks # <<>>
        <4> SUFFICES ASSUME v.checks = <<>> PROVE FALSE
          OBVIOUS
        <4>1. validateChecksPolicy(v) = {"checksPolicy"}
          BY Zenon, <2>2 DEF validateChecksPolicy
        <4>2. QED BY <1>1, <4>1
      <3>2. CheckList(v) = v.checks
        BY <3>1 DEF CheckList
      <3>3. Flag(/\ \A k, l \in DOMAIN v.checks :
                       EffectiveName(v.checks[k]) = EffectiveName(v.checks[l]) => k = l
                 /\ ~CompileChecksPolicy(v.checksPolicy, CheckNamesOf(v)), "checksPolicy") = {}
        BY Zenon, <1>1, <2>2, <3>1 DEF validateChecksPolicy
      <3>4. QED BY Zenon, <1>8, <3>2, <3>3, NoFlag
    <2>3. QED BY <2>1, <2>2
  <1>10. QED BY Zenon, <1>1, <1>4, <1>5, <1>7, <1>8, <1>9 DEF SoundVIP

-----------------------------------------------------------------------------
(* The whole config.                                                       *)

LEMMA RouterValidated ==
    ASSUME NEW cfg, validateRouter(cfg) = {}, hasIPv6VIP(cfg)
    PROVE  cfg.router.localAddressIPv6 \in V6
  <1>1. /\ Flag(cfg.router.localAddressIPv6 \notin V6 \cup {""}, "localAddressIPv6") = {}
        /\ Flag(hasIPv6VIP(cfg) /\ cfg.router.localAddressIPv6 = "", "localAddressIPv6") = {}
    <2>1. Flag(cfg.router.localAddressIPv6 \notin V6 \cup {""}, "localAddressIPv6") \subseteq validateRouter(cfg)
      BY Zenon DEF validateRouter
    <2>2. Flag(hasIPv6VIP(cfg) /\ cfg.router.localAddressIPv6 = "", "localAddressIPv6") \subseteq validateRouter(cfg)
      BY Zenon DEF validateRouter
    <2>3. \A S : S \subseteq validateRouter(cfg) => S = {}
      OBVIOUS
    <2>4. QED BY Zenon, <2>1, <2>2, <2>3
  <1>2. /\ cfg.router.localAddressIPv6 \in V6 \cup {""}
        /\ ~(hasIPv6VIP(cfg) /\ cfg.router.localAddressIPv6 = "")
    BY Zenon, <1>1, NoFlag
  <1>3. QED BY Zenon, <1>2

LEMMA ConfigValidated ==
    ASSUME NEW cfg, Validate(cfg) = {}
    PROVE  /\ cfg.vips # <<>> /\ cfg.bgp.neighbors # <<>>
           /\ validateRouter(cfg) = {}
           /\ \A i \in DOMAIN cfg.vips : validateVIP(cfg.vips, i) = {}
  <1> DEFINE listed == UNION {validateVIP(cfg.vips, i) : i \in DOMAIN cfg.vips}
  <1>1. Flag(cfg.vips = <<>>, "vips") \subseteq Validate(cfg)
    BY Zenon DEF Validate
  <1>2. Flag(cfg.bgp.neighbors = <<>>, "neighbors") \subseteq validateBGP(cfg.bgp)
    BY Zenon DEF validateBGP
  <1>3. validateBGP(cfg.bgp) \subseteq Validate(cfg)
    BY Zenon DEF Validate
  <1>4. validateRouter(cfg) \subseteq Validate(cfg)
    BY Zenon DEF Validate
  <1>5. listed \subseteq Validate(cfg)
    BY Zenon DEF Validate
  <1>6. \A S, T : S \subseteq T /\ T = {} => S = {}
    OBVIOUS
  <1>7. cfg.vips # <<>> /\ cfg.bgp.neighbors # <<>>
    BY Zenon, <1>1, <1>2, <1>3, <1>6, NoFlag
  <1>8. \A i \in DOMAIN cfg.vips : validateVIP(cfg.vips, i) = {}
    BY <1>5
  <1>9. QED BY Zenon, <1>4, <1>6, <1>7, <1>8

LEMMA ConfigSound ==
    ASSUME NEW raw, IsConfig(raw), NEW cfg, cfg = ApplyDefaults(raw), Validate(cfg) = {}
    PROVE  SoundConfig(cfg)
  <1> DEFINE procfs == applyPathsDefaults(raw.paths).procfs
  <1>1. "vips" \in DOMAIN raw
    BY DEF IsConfig
  <1>2. cfg.vips = [i \in DOMAIN raw.vips |-> applyVIPDefaults(raw.vips[i], procfs)]
    BY <1>1 DEF ApplyDefaults
  <1> HIDE DEF procfs
  <1>3. Len(raw.vips) \in Nat /\ DOMAIN raw.vips = 1 .. Len(raw.vips)
    BY DEF IsConfig, IsList
  <1>4. \A i \in DOMAIN cfg.vips : validateVIP(cfg.vips, i) = {}
    BY Zenon, ConfigValidated
  <1>5. \A i \in DOMAIN cfg.vips : SoundVIP(cfg.vips[i])
    <2> SUFFICES ASSUME NEW i \in DOMAIN cfg.vips PROVE SoundVIP(cfg.vips[i])
      OBVIOUS
    <2>1. cfg.vips[i] = applyVIPDefaults(raw.vips[i], procfs) /\ i \in DOMAIN raw.vips
      BY <1>2
    <2>2. IsVIP(raw.vips[i])
      BY <2>1 DEF IsConfig
    <2>3. QED BY Zenon, <1>4, <2>1, <2>2, VIPSound
  <1>6. \A i \in DOMAIN cfg.vips : \A j \in 1 .. (i - 1) :
           /\ cfg.vips[j].name # cfg.vips[i].name
           /\ cfg.vips[j].prefix \in DOMAIN CIDRs =>
                CIDRs[cfg.vips[j].prefix].canonical # CIDRs[cfg.vips[i].prefix].canonical
    <2> SUFFICES ASSUME NEW i \in DOMAIN cfg.vips
                 PROVE  \A j \in 1 .. (i - 1) :
                           /\ cfg.vips[j].name # cfg.vips[i].name
                           /\ cfg.vips[j].prefix \in DOMAIN CIDRs =>
                                CIDRs[cfg.vips[j].prefix].canonical # CIDRs[cfg.vips[i].prefix].canonical
      OBVIOUS
    <2>1. \A j \in 1 .. (i - 1) : cfg.vips[j].name # cfg.vips[i].name
      BY Zenon, <1>4, VIPValidated
    <2>2. \A j \in 1 .. (i - 1) : cfg.vips[j].prefix \in DOMAIN CIDRs =>
                CIDRs[cfg.vips[j].prefix].canonical # CIDRs[cfg.vips[i].prefix].canonical
      BY Zenon, <1>4, VIPValidated
    <2>3. QED BY Zenon, <2>1, <2>2
  <1>7. \A i \in DOMAIN cfg.vips : cfg.vips[i].prefix \in DOMAIN CIDRs
    BY Zenon, <1>5 DEF SoundVIP
  <1>8. DOMAIN cfg.vips = 1 .. Len(raw.vips)
    BY <1>2, <1>3
  <1>9. \A i, j \in DOMAIN cfg.vips :
           \/ cfg.vips[i].name = cfg.vips[j].name
           \/ CIDRs[cfg.vips[i].prefix].canonical = CIDRs[cfg.vips[j].prefix].canonical
           => i = j
    <2>1. \A i, j \in DOMAIN cfg.vips : i # j => j \in 1 .. (i - 1) \/ i \in 1 .. (j - 1)
      BY <1>3, <1>8
    <2>2. \A i, j \in DOMAIN cfg.vips : i \in 1 .. (j - 1) =>
             /\ cfg.vips[i].name # cfg.vips[j].name
             /\ CIDRs[cfg.vips[i].prefix].canonical # CIDRs[cfg.vips[j].prefix].canonical
      BY Zenon, <1>6, <1>7
    <2>3. QED BY <2>1, <2>2
  <1>10. cfg.vips # <<>> /\ cfg.bgp.neighbors # <<>> /\ (hasIPv6VIP(cfg) => cfg.router.localAddressIPv6 \in V6)
    BY Zenon, ConfigValidated, RouterValidated
  <1>11. QED BY Zenon, <1>5, <1>9, <1>10 DEF SoundConfig

(* Whatever the files say, the config that config.Load hands to the        *)
(* components is sound.                                                    *)
THEOREM LoadedConfigIsSound == Spec => []LoadedIsSound
  <1> DEFINE Inv == file \in Files /\ LoadedIsSound
  <1>1. Init => Inv
    BY DEF Init, LoadedIsSound
  <1>2. Inv /\ [Next]_vars => Inv'
    <2> SUFFICES ASSUME Inv, [Next]_vars PROVE Inv'
      OBVIOUS
    <2>1. CASE Load
      <3>1. file' = file /\ loaded' = LoadRaw(file)
        BY <2>1 DEF Load
      <3>2. ASSUME LoadRaw(file) # Nil PROVE SoundConfig(LoadRaw(file))
        <4>1. LoadRaw(file) = ApplyDefaults(file.config) /\ Validate(ApplyDefaults(file.config)) = {}
          BY Zenon, <3>2 DEF LoadRaw, loadBytes
        <4>2. IsConfig(file.config)
          BY FilesAssumption
        <4>3. QED BY Zenon, <4>1, <4>2, ConfigSound
      <3>3. QED BY <3>1, <3>2 DEF LoadedIsSound
    <2>2. CASE ~Load
      <3>1. file' = file /\ loaded' = loaded
        BY <2>2 DEF Next, vars, Command, UnknownVIP, UnknownCheck, Reject, Select, Report, Skip, Launch,
                    BuildFails, Goroutine, Guard, Probe, AddressesChange, Exited
      <3>2. QED BY <3>1 DEF LoadedIsSound
    <2>3. QED BY <2>1, <2>2
  <1>3. QED BY <1>1, <1>2, PTL DEF Spec
=============================================================================
