---------------------------- MODULE CheckCommand ----------------------------
(***************************************************************************)
(* `pathosd check` (cmd/pathosd/check.go): load the config, run the        *)
(* selected checks of the selected VIPs once, each in a goroutine of its   *)
(* own, combine them with each VIP's checks_policy and exit with 0, 1 or   *)
(* 200.  The host's addresses may change while the checks run.             *)
(***************************************************************************)
EXTENDS Checkers, LocalAddress, BgpConfig, FiniteSets

CONSTANTS
    Files,          \* the config files
    Options,        \* the process: --vip (a sequence), --check (a set) and
                    \* --skip-local-address of its command line, and the calls
                    \* into libraries that fail in its environment (broken)
    Locals,         \* the sets of addresses the host may have
    Answers         \* per check type what a target may do

ASSUME FilesAssumption == \A f \in Files : IsConfig(f.config)
ASSUME AnswersAssumption == \A t \in CheckTypes : Nil \notin Answers[t]

Causes == {"config", "vip", "check", "build", "output", "verdict"}
ASSUME ExitAssumption == Nil \notin [code : {0, 1, 200}, why : Causes]

VARIABLES
    opts, file,     \* the command line and the file it names
    loaded,         \* the loaded config, or Nil
    pc,             \* the command: "load", "select", "launch" or "done"
    job,            \* per <<selected VIP, check>>: "todo", "skipped" (not selected),
                    \* its goroutine at "guard" or "probe", or "finished"
    result,         \* the Ran and Success columns of the reports
    local,          \* the addresses configured on the host
    exit,           \* the exit code and what it is due to, or Nil
    seen            \* history: per job whether the VIP's address was there when
                    \* it looked, and the answer of its target

vars == <<opts, file, loaded, pc, job, result, local, exit, seen>>

-----------------------------------------------------------------------------
VIPNamed(name) == {i \in DOMAIN loaded.vips : loaded.vips[i].name = name}

(* The selected VIPs, in the order of the command line; a name may repeat. *)
selectVIPs ==
    IF opts.vips = <<>> THEN [i \in DOMAIN loaded.vips |-> i]
    ELSE [i \in DOMAIN opts.vips |-> CHOOSE k \in VIPNamed(opts.vips[i]) : TRUE]

SelectionFails == \E i \in DOMAIN opts.vips : VIPNamed(opts.vips[i]) = {}

VIPOf(p) == loaded.vips[selectVIPs[p[1]]]
CheckOf(p) == CheckList(VIPOf(p))[p[2]]

verifyCheckNames ==
    \A want \in opts.checks : \E i \in DOMAIN selectVIPs : want \in CheckNamesOf(loaded.vips[selectVIPs[i]])

Jobs == UNION {{i} \X DOMAIN CheckList(loaded.vips[selectVIPs[i]]) : i \in DOMAIN selectVIPs}

Guarded(p) == VIPOf(p).requireLocalAddress /\ ~opts.skipLocalAddress

GuardOf(p) == NewLocalAddressGuard(CIDRs[VIPOf(p).prefix].ip, VIPOf(p).localInterface)

(* build: the checker, and the guard, whose parser is the stricter one.    *)
build(p) == NewChecker(CheckOf(p), opts.broken) /\ (Guarded(p) => CIDRs[VIPOf(p).prefix].strict)

(* CompileChecksPolicy: what the policy engine evaluates.                  *)
Evaluator(v) ==
    LET policy == EffectiveChecksPolicy(v)
        names == CheckNamesOf(v)
    IN  [checks |-> names,
         checksPolicy |-> IF policy \in {"all", "any"} THEN policy ELSE "expr",
         expr |-> IF policy \in {"all", "any"} THEN {}
                  ELSE {s \in SUBSET names : (s \cap Exprs[policy].vars) \in Exprs[policy].sat}]

Healthy(i) ==
    LET v == loaded.vips[selectVIPs[i]]
        passed == {p \in DOMAIN result : p[1] = i /\ result[p].ran /\ result[p].success}
    IN  PE!Eval(Evaluator(v), {EffectiveName(CheckOf(p)) : p \in passed})

-----------------------------------------------------------------------------
Init ==
    /\ opts \in Options /\ file \in Files /\ local \in Locals
    /\ loaded = Nil /\ pc = "load" /\ exit = Nil
    /\ job = <<>> /\ result = <<>> /\ seen = <<>>

Exit(code, why) ==
    /\ exit' = [code |-> code, why |-> why]
    /\ pc' = "done"

Load ==
    /\ pc = "load"
    /\ loaded' = LoadRaw(file)
    /\ IF loaded' = Nil THEN Exit(200, "config") ELSE pc' = "select" /\ UNCHANGED exit
    /\ UNCHANGED <<opts, file, job, result, local, seen>>

Reject(why) ==
    /\ pc = "select"
    /\ Exit(200, why)
    /\ UNCHANGED <<opts, file, loaded, job, result, local, seen>>

UnknownVIP == Reject("vip") /\ SelectionFails
UnknownCheck == Reject("check") /\ ~SelectionFails /\ ~verifyCheckNames

Select ==
    /\ pc = "select"
    /\ ~SelectionFails
    /\ verifyCheckNames
    /\ job' = [p \in Jobs |-> "todo"]
    /\ result' = [p \in Jobs |-> [ran |-> FALSE, success |-> FALSE]]
    /\ seen' = [p \in Jobs |-> [address |-> FALSE, answer |-> Nil]]
    /\ pc' = "launch"
    /\ UNCHANGED <<opts, file, loaded, local, exit>>

(* The checks are built and started in order, while earlier ones run.      *)
Turn(p) ==
    /\ pc = "launch" /\ job[p] = "todo"
    /\ \A q \in DOMAIN job : q[1] < p[1] \/ (q[1] = p[1] /\ q[2] < p[2]) => job[q] # "todo"

Unselected(p) == opts.checks # {} /\ EffectiveName(CheckOf(p)) \notin opts.checks

Skip(p) ==
    /\ Turn(p) /\ Unselected(p)
    /\ job' = [job EXCEPT ![p] = "skipped"]
    /\ UNCHANGED <<opts, file, loaded, pc, result, local, exit, seen>>

Launch(p) ==
    /\ Turn(p) /\ ~Unselected(p) /\ build(p)
    /\ job' = [job EXCEPT ![p] = IF Guarded(p) THEN "guard" ELSE "probe"]
    /\ UNCHANGED <<opts, file, loaded, pc, result, local, exit, seen>>

BuildFails(p) ==
    /\ Turn(p) /\ ~Unselected(p) /\ ~build(p)
    /\ Exit(200, "build")
    /\ UNCHANGED <<opts, file, loaded, job, result, local, seen>>

Finish(p, success) ==
    /\ job' = [job EXCEPT ![p] = "finished"]
    /\ result' = [result EXCEPT ![p] = [ran |-> TRUE, success |-> success]]

(* guardedChecker.Check before the inner check; listing the addresses may  *)
(* fail.                                                                   *)
Guard(p) ==
    /\ pc = "launch" /\ job[p] = "guard"
    /\ seen' = [seen EXCEPT ![p].address = Assigned(GuardOf(p), local)]
    /\ \/ /\ Assigned(GuardOf(p), local)
          /\ job' = [job EXCEPT ![p] = "probe"]
          /\ UNCHANGED result
       \/ Finish(p, FALSE)
    /\ UNCHANGED <<opts, file, loaded, pc, local, exit>>

Probe(p) ==
    /\ pc = "launch" /\ job[p] = "probe"
    /\ \E a \in Answers[CheckOf(p).type] :
          /\ seen' = [seen EXCEPT ![p].answer = a]
          /\ Finish(p, Check(CheckOf(p), a))
    /\ UNCHANGED <<opts, file, loaded, pc, local, exit>>

(* Mutant: wg.Add inside the goroutine.                                    *)
WaitedForLaunch == \A p \in DOMAIN job : job[p] # "todo"

(* Mutant: wg.Add for unselected checks too.                               *)
WaitedForSkipped == \A p \in DOMAIN job : job[p] = "finished"

(* wg.Wait returned: combine, print (which may fail) and exit.             *)
Waited == \A p \in DOMAIN job : job[p] \in {"finished", "skipped"}

(* Mutant: the exit code counts the VIPs that fail.                        *)
ReportCount ==
    /\ pc = "launch" /\ Waited
    /\ Exit(Cardinality({i \in DOMAIN selectVIPs : ~Healthy(i)}), "verdict")
    /\ UNCHANGED <<opts, file, loaded, job, result, local, seen>>

Report ==
    /\ pc = "launch" /\ Waited
    /\ \/ Exit(IF \A i \in DOMAIN selectVIPs : Healthy(i) THEN 0 ELSE 1, "verdict")
       \/ Exit(200, "output")
    /\ UNCHANGED <<opts, file, loaded, job, result, local, seen>>

AddressesChange ==
    /\ pc = "launch"
    /\ local' \in Locals \ {local}
    /\ UNCHANGED <<opts, file, loaded, pc, job, result, exit, seen>>

Exited == pc = "done" /\ UNCHANGED vars

Goroutine(p) == Guard(p) \/ Probe(p)
Command ==
    \/ Load \/ UnknownVIP \/ UnknownCheck \/ Select \/ Report
    \/ \E p \in DOMAIN job : Skip(p) \/ Launch(p) \/ BuildFails(p)

Next == Command \/ (\E p \in DOMAIN job : Goroutine(p)) \/ AddressesChange \/ Exited

Spec == Init /\ [][Next]_vars

(* The command goes on, and a check ends at its timeout at the latest.     *)
FairSpec == Spec /\ WF_vars(Command) /\ WF_vars(\E p \in DOMAIN job : Goroutine(p))

-----------------------------------------------------------------------------
(* TypeOK: the command and its goroutines are where the code can be, and   *)
(* there is an exit code exactly when the command has returned.            *)
TypeOK ==
    /\ local \in Locals
    /\ pc \in {"load", "select", "launch", "done"}
    /\ \A p \in DOMAIN job : job[p] \in {"todo", "skipped", "guard", "probe", "finished"}
    /\ DOMAIN result = DOMAIN job /\ DOMAIN seen = DOMAIN job
    /\ (exit = Nil) = (pc # "done")
    /\ exit # Nil => exit.code \in {0, 1, 200}

(* Where a check connects to.                                              *)
Target(c) ==
    LET b == c.blocks[c.type]
    IN  IF c.type = "ping" THEN b.dstIP ELSE IF c.type = "dns" THEN b.resolver ELSE b.host

(* What the components behind a loaded config rely on.  A VIP has its own  *)
(* name and network, checks with distinct names, and a checks_policy that  *)
(* compiles over them (policy.Manager); a check has thresholds, a timeout  *)
(* below its interval and, but for DNS, a target: validation lets a        *)
(* missing host pass exactly where the defaults could fill it in           *)
(* (isSingleHost against vipHostIP); the attributes are set, and an IPv6   *)
(* VIP has a next hop (bgp.Manager).  Nobody asks for an interval above    *)
(* zero, though a scheduler's ticker needs one.                            *)
SoundCheck(c) ==
    /\ c.type \in CheckTypes /\ c.blocks[c.type] # Nil
    /\ c.interval # Nil /\ c.timeout # Nil /\ c.timeout < c.interval
    /\ c.rise >= 1 /\ c.fall >= 1
    /\ c.type # "dns" => Target(c) # ""

SoundPolicy(p) ==
    /\ p.failAction \in {"withdraw", "lower_priority"}
    /\ p.announce.prepend \in 0..16 /\ p.lowerPriority.prepend \in 1..16

SoundVIP(v) ==
    /\ v.prefix \in DOMAIN CIDRs
    /\ CheckList(v) # <<>>
    /\ \A i, j \in DOMAIN CheckList(v) :
          EffectiveName(CheckList(v)[i]) = EffectiveName(CheckList(v)[j]) => i = j
    /\ \A i \in DOMAIN CheckList(v) : SoundCheck(CheckList(v)[i])
    /\ CompileChecksPolicy(v.checksPolicy, CheckNamesOf(v))
    /\ SoundPolicy(v.policy)

SoundConfig(cfg) ==
    /\ cfg.vips # <<>> /\ cfg.bgp.neighbors # <<>>
    /\ \A i \in DOMAIN cfg.vips : SoundVIP(cfg.vips[i])
    /\ \A i, j \in DOMAIN cfg.vips :
          \/ cfg.vips[i].name = cfg.vips[j].name
          \/ CIDRs[cfg.vips[i].prefix].canonical = CIDRs[cfg.vips[j].prefix].canonical
          => i = j
    /\ hasIPv6VIP(cfg) => cfg.router.localAddressIPv6 \in V6

(* LoadedIsSound: whatever file is loaded, every VIP of it is sound, no    *)
(* two share a name or a network, and IPv6 has a next hop (config.Load).   *)
LoadedIsSound == loaded # Nil => SoundConfig(loaded)

(* The configs the files give.                                             *)
Loadable == {LoadRaw(f) : f \in Files} \ {Nil}

(* ReloadedRoutesFit: whatever config a daemon started with and whatever   *)
(* one it accepts later without a restart, the running bgp.Manager can     *)
(* originate every VIP of it, announced and pessimized, over a family its  *)
(* peers negotiated when they came up and with a next hop of the route's   *)
(* own family.  There are two exceptions, where validation reads a prefix  *)
(* differently from netip: one that netip refuses, and an IPv4-mapped one  *)
(* on a router without local_address_ipv6.  Neither has a path.  And the   *)
(* next hop is an IPv4-mapped address where the router id is written as    *)
(* one (buildPath, nextHopFor, wantsIPv6, RestartRequired, hasIPv6VIP).    *)
ReloadedRoutesFit ==
    pc = "select" =>
        LET candidates == {c \in Loadable : RestartRequired(loaded, c) = {}}
            Route(v) == [prefix |-> v.prefix, policy |-> v.policy]
            routes == UNION {{Route(c.vips[i]) : i \in DOMAIN c.vips} : c \in candidates}
        IN  \A v \in routes, state \in {"announced", "pessimized"} :
                LET net == CIDRs[v.prefix]
                    mapped == net.is6 /\ ~net.v6
                    path == originate(loaded, v, state)
                IN  /\ (path = Nil) = (~net.strict \/ (mapped /\ loaded.router.localAddressIPv6 = ""))
                    /\ path # Nil => /\ path.nextHop \in IF net.is6 THEN V6
                                                        ELSE (V4 \ Mapped) \cup {loaded.router.routerID}
                                     /\ path.family \in buildPeerAfiSafis(loaded)


(* BuildFailsForCause: a checker of a loaded config fails to build only    *)
(* for what validation does not look at: a CA file, the response_jq of an  *)
(* HTTP check, a prefix that the guard's parser refuses, or a library call *)
(* that fails in this process (build and the constructors).                *)
BuildFailsForCause ==
    exit # Nil /\ exit.why = "build" =>
        \E p \in DOMAIN job :
            LET c == CheckOf(p)
                b == c.blocks[c.type]
            IN  \/ c.type \in {"http", "grpc", "sql", "kafka"} /\ b.tlsCACert \notin CertFiles \cup {""}
                \/ c.type = "http" /\ b.responseJQ \in Malformed
                \/ Guarded(p) /\ ~CIDRs[VIPOf(p).prefix].strict
                \/ c.type = "http" /\ b.tlsCACert # "" /\ "certPool" \in opts.broken
                \/ c.type = "grpc" /\ "grpcClient" \in opts.broken
                \/ c.type = "sql" /\ (IF b.driver = "mysql" THEN "mysqlConnector" ELSE "pgEnvironment") \in opts.broken

(* The checks of the i-th selected VIP that were run, whose target gave an *)
(* answer the check accepts, with the VIP's address on the host when they  *)
(* looked (unless nobody asked for that).                                  *)
Earned(i) ==
    {EffectiveName(CheckOf(p)) : p \in {q \in DOMAIN job :
        /\ q[1] = i
        /\ seen[q].answer # Nil
        /\ Check(CheckOf(q), seen[q].answer)
        /\ VIPOf(q).requireLocalAddress => opts.skipLocalAddress \/ seen[q].address}}

(* ExitIsVerdict: a verdict is given when every check asked for has run to *)
(* its end.  Exit code 0 means that the checks_policy of every selected    *)
(* VIP holds over the checks that earned it, 1 that one does not, whatever *)
(* the order the goroutines ran in (the exit codes of check.go).           *)
ExitIsVerdict ==
    exit # Nil /\ exit.why = "verdict" =>
        /\ \A p \in Jobs : Unselected(p) \/ job[p] = "finished"
        /\ (exit.code = 0) = \A i \in DOMAIN selectVIPs :
                                 PE!Eval(Evaluator(loaded.vips[selectVIPs[i]]), Earned(i))

(* What a passing check has had from its target, where the checker asks    *)
(* for several things and counts: a packet, an answered name, a query that *)
(* ran, a broker.                                                          *)
Evidence(c, a) ==
    /\ c.type = "ping" => a.loss < 100
    /\ c.type = "dns" => \E n \in DOMAIN a.names : a.names[n].exchanged /\ a.names[n].answers > 0
    /\ c.type = "sql" => \E i \in DOMAIN a.queries : a.queries[i].runs
    /\ c.type = "kafka" => a.brokers > 0

(* PassedOnEvidence: no check passes for want of anything to fail.  The    *)
(* checkers only compare: a ping its loss with max_loss_ratio, DNS and SQL *)
(* every name and query on their lists, Kafka two counts of brokers.  That *)
(* a dead target does not pass follows from what validation and defaults   *)
(* leave (max_loss_ratio < 1, names, queries, min_brokers).                *)
PassedOnEvidence ==
    \A p \in DOMAIN job :
        job[p] = "finished" /\ result[p].success => Evidence(CheckOf(p), seen[p].answer)

(* CommandEnds: the command returns, whatever the targets do.              *)
CommandEnds == <>(pc = "done")
=============================================================================
