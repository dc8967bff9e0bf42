------------------------------- MODULE Daemon -------------------------------
(***************************************************************************)
(* The life of the process (internal/daemon) and what it reports about its *)
(* config: components start in order and stop in reverse (fx hooks), while *)
(* schedulers, the HTTP API, SIGHUP and the reloader's loop work.          *)
(*                                                                         *)
(* A reload is here what it tells about itself (outcome, file-changed      *)
(* flag, metrics, status line) and whom it waits for and calls.  What the  *)
(* diff of the two configs makes it do is any plan: System models which    *)
(* plan it is and what it does to VIPs and routes.                         *)
(***************************************************************************)
EXTENDS Integers, Sequences, FiniteSets

CONSTANTS
    Contents,   \* what the config file may hold: [readable, loads, fixed, text];
                \* fixed stands for the sections that need a restart
    Boot,       \* the content the daemon was started with
    SchedIds,   \* bound: schedulers that exist at a time
    Absent,
    NoHash,     \* the zeroed hash after a failed removal
    MaxEdits,   \* bound: edits of the file
    MaxAsks     \* bound: signals and HTTP requests

VARIABLES
    phase,      \* "starting", "running", "stopping" or "exited"
    up,         \* how many hooks are started
    failed,     \* a hook returned an error
    code,       \* how it ended: "ok" (0), "error" (1), "killed", or "" so far
    bgp,        \* GoBGP: "off", "on" or "stopped"
    server,     \* the HTTP API: "off", "serving", "failed" or "closed"
    notified,   \* the last state sent to systemd: "", "ready" or "stopping"
    started, sched, visible,    \* Registry
    awaited,    \* the schedulers Registry.Stop waits for
    disk,       \* the config file
    curHash,    \* the content whose hash is kept, or NoHash
    fixed,      \* the restart-only sections of the running config
    fileChanged, \* Reloader.fileChanged
    last,       \* the outcome of the last reload, or "none"
    staging,    \* the shadow scheduler of the staged VIP, if any
    gauge,      \* pathosd_config_last_reload_success, _file_changed and
                \* _reload_pending_vips
    mu,         \* who holds Reloader.mu: "hup", "http", "loop" or "nobody"
    todo,       \* what the holder has left to call
    errs,       \* its locals: a call failed (err), a removal failed (kept)
    at,         \* where the SIGHUP goroutine, the HTTP handler and the loop are
    target,     \* the scheduler the HTTP handler is about to run, if any
    raw,        \* the content each of them has read
    changed, next, \* pollFile's local, and where the loop goes after onChange
    hup,        \* the SIGHUP channel holds a signal
    cancelled,  \* the context of the loop and the SIGHUP goroutine
    line,       \* the config notice of the systemd status line
    late,       \* history: the calls into GoBGP while it was not running, each
                \* with the holder of Reloader.mu at that time
    edits, asks

lifeVars == <<phase, up, failed, code, bgp, server, notified>>
regVars == <<started, sched, visible>>
configVars == <<curHash, fixed, fileChanged, last, gauge>>
holderVars == <<mu, todo, errs>>
pollVars == <<target, raw, changed, next>>
budgetVars == <<edits, asks>>
vars == <<lifeVars, regVars, awaited, disk, configVars, staging, holderVars, at, pollVars,
          hup, cancelled, line, late, budgetVars>>

Reg == INSTANCE Registry
reg == [started |-> started, sched |-> sched, visible |-> visible]
SetReg(r) == started' = r.started /\ sched' = r.sched /\ visible' = r.visible

Alive == phase # "exited"
Live == {s \in SchedIds : sched[s] # Absent}
MuFree == mu = "nobody"

NoErrs == [err |-> FALSE, kept |-> FALSE]
NoGauge == [success |-> TRUE, changed |-> FALSE, pending |-> FALSE]
Nowhere == [a \in {"hup", "http", "loop"} |-> "off"]
NothingRead == [a \in {"hup", "http", "loop"} |-> NoHash]
NoSchedulers == [started |-> FALSE, sched |-> [s \in SchedIds |-> Absent], visible |-> [v \in {"vip"} |-> <<>>]]

(* A call into GoBGP: by the callback of a check, by the holder of         *)
(* Reloader.mu, or to list the peers for the status line.                  *)
CallBGP(caller) == late' = IF bgp = "on" THEN late ELSE late \cup {[caller |-> caller, mu |-> mu]}

-----------------------------------------------------------------------------
(* What is shown of the config.                                            *)
OK(outcome) == outcome \in {"applied", "unchanged"}

(* ConfigNotice of Status(): the parts of the notice.                      *)
ConfigNotice(outcome, differs, pending) ==
    [reload |-> IF outcome = "none" \/ OK(outcome) THEN "" ELSE outcome,
     changed |-> differs, pending |-> pending]

Status == ConfigNotice(last, fileChanged, staging # {})

(* statusReporter.Update: under its own mutex; GetPeerStates asks GoBGP,   *)
(* and Reloader.mu is needed to read the rest.                             *)
Update == MuFree /\ line' = Status /\ CallBGP("status")

-----------------------------------------------------------------------------
(***************************************************************************)
(* Start and stop.  fx runs the hooks one by one in the order in which     *)
(* they were appended.  When one fails to start, those before it are       *)
(* stopped.  A failing stop does not keep the others from stopping; the    *)
(* deadline of the whole stop does.                                        *)
(***************************************************************************)
(* Mutant: the schedulers run before BGP does.                             *)
HooksBGPAfterSchedulers ==
    <<"telemetry", "process", "schedulers", "bgp", "watcher", "http", "reload", "systemd">>
(* Mutant: READY=1 before the reloader is there.                           *)
HooksReadyBeforeReload ==
    <<"telemetry", "process", "bgp", "watcher", "schedulers", "http", "systemd", "reload">>

Hooks == <<"telemetry", "process", "bgp", "watcher", "schedulers", "http", "reload", "systemd">>

Turn(h) == phase = "starting" /\ Hooks[up + 1] = h
Started ==
    /\ up' = up + 1
    /\ phase' = IF up' = Len(Hooks) THEN "running" ELSE phase

(* Nothing of this state changes in these hooks.                           *)
StartOther ==
    /\ \E h \in {"telemetry", "process", "watcher"} : Turn(h)
    /\ Started
    /\ UNCHANGED <<failed, code, bgp, server, notified, regVars, awaited, disk, configVars, staging,
                   holderVars, at, pollVars, hup, cancelled, line, late, budgetVars>>

StartBGP ==
    /\ Turn("bgp") /\ Started
    /\ bgp' = "on"
    /\ UNCHANGED <<failed, code, server, notified, regVars, awaited, disk, configVars, staging,
                   holderVars, at, pollVars, hup, cancelled, line, late, budgetVars>>

StartSchedulers ==
    /\ Turn("schedulers") /\ Started
    /\ SetReg(Reg!Start([reg EXCEPT !.sched = [s \in SchedIds |->
           IF s \in Reg!Registered(reg) THEN [@[s] EXCEPT !.cb = "policy"] ELSE @[s]]]))
    /\ UNCHANGED <<failed, code, bgp, server, notified, awaited, disk, configVars, staging,
                   holderVars, at, pollVars, hup, cancelled, line, late, budgetVars>>

StartHTTP ==
    /\ Turn("http") /\ Started
    /\ server' = "serving"
    /\ at' = [at EXCEPT !["http"] = "select"]
    /\ UNCHANGED <<failed, code, bgp, notified, regVars, awaited, disk, configVars, staging,
                   holderVars, pollVars, hup, cancelled, line, late, budgetVars>>

StartReload ==
    /\ Turn("reload") /\ Started
    /\ at' = [at EXCEPT !["loop"] = "select", !["hup"] = "select"]
    /\ UNCHANGED <<failed, code, bgp, server, notified, regVars, awaited, disk, configVars, staging,
                   holderVars, pollVars, hup, cancelled, line, late, budgetVars>>

StartSystemd ==
    /\ Turn("systemd") /\ Started
    /\ Update
    /\ notified' = "ready"
    /\ UNCHANGED <<failed, code, bgp, server, regVars, awaited, disk, configVars, staging,
                   holderVars, at, pollVars, hup, cancelled, budgetVars>>

(* BGP may not start or not take its peers, and then is not stopped; the   *)
(* API may not get its port.                                               *)
StartFails ==
    /\ \/ Turn("bgp") /\ bgp' \in {"off", "on"}
       \/ Turn("http") /\ UNCHANGED bgp
    /\ phase' = "stopping"
    /\ failed' = TRUE
    /\ UNCHANGED <<up, code, server, notified, regVars, awaited, disk, configVars, staging,
                   holderVars, at, pollVars, hup, cancelled, line, late, budgetVars>>

(* The process ends as it is, and its memory is gone: of this state, the   *)
(* file and what systemd was told remain.                                  *)
Dies(c) ==
    /\ phase' = "exited" /\ code' = c /\ up' = 0 /\ failed' = FALSE
    /\ bgp' = "off" /\ server' = "off"
    /\ SetReg(NoSchedulers) /\ awaited' = {} /\ staging' = {} /\ target' = {}
    /\ curHash' = NoHash /\ fixed' = Boot.fixed /\ fileChanged' = FALSE /\ last' = "none" /\ gauge' = NoGauge
    /\ mu' = "nobody" /\ todo' = <<>> /\ errs' = NoErrs
    /\ at' = Nowhere /\ raw' = NothingRead /\ changed' = FALSE /\ next' = "select"
    /\ hup' = FALSE /\ cancelled' = FALSE
    /\ UNCHANGED <<notified, disk, line, late, edits>>

(* The deadline of the start passes: Run returns while a hook still runs.  *)
StartTimeout == phase = "starting" /\ Dies("error") /\ UNCHANGED asks

(* A signal, or the shutdown that a failed serve loop asks for.            *)
Shutdown ==
    /\ phase = "running"
    /\ phase' = "stopping"
    /\ UNCHANGED <<up, failed, code, bgp, server, notified, regVars, awaited, disk, configVars, staging,
                   holderVars, at, pollVars, hup, cancelled, line, late, budgetVars>>

ServeFails ==
    /\ server = "serving"
    /\ server' = "failed"
    /\ UNCHANGED <<phase, up, failed, code, bgp, notified, regVars, awaited, disk, configVars, staging,
                   holderVars, at, pollVars, hup, cancelled, line, late, budgetVars>>

StopTurn(h) == phase = "stopping" /\ up > 0 /\ Hooks[up] = h

StopOther ==
    /\ \E h \in {"process", "watcher"} : StopTurn(h)
    /\ up' = up - 1
    /\ UNCHANGED <<phase, failed, code, bgp, server, notified, regVars, awaited, disk, configVars, staging,
                   holderVars, at, pollVars, hup, cancelled, line, late, budgetVars>>

(* The exporters are flushed, which may fail.                              *)
StopTelemetry ==
    /\ StopTurn("telemetry") /\ up' = up - 1
    /\ failed' \in {failed, TRUE}
    /\ UNCHANGED <<phase, code, bgp, server, notified, regVars, awaited, disk, configVars, staging,
                   holderVars, at, pollVars, hup, cancelled, line, late, budgetVars>>

StopSystemd ==
    /\ StopTurn("systemd") /\ up' = up - 1
    /\ notified' = "stopping"
    /\ UNCHANGED <<phase, failed, code, bgp, server, regVars, awaited, disk, configVars, staging,
                   holderVars, at, pollVars, hup, cancelled, line, late, budgetVars>>

(* Mutant: the context is not cancelled.                                   *)
CancelReloadSignalsOnly == StopTurn("reload") /\ ~cancelled /\ UNCHANGED vars

(* signal.Stop and cancel; then the loop is waited for, the SIGHUP         *)
(* goroutine is not.                                                       *)
CancelReload ==
    /\ StopTurn("reload") /\ ~cancelled
    /\ cancelled' = TRUE
    /\ UNCHANGED <<lifeVars, regVars, awaited, disk, configVars, staging, holderVars, at, pollVars,
                   hup, line, late, budgetVars>>

StopReload ==
    /\ StopTurn("reload") /\ cancelled /\ at["loop"] = "gone"
    /\ up' = up - 1
    /\ UNCHANGED <<phase, failed, code, bgp, server, notified, regVars, awaited, disk, configVars, staging,
                   holderVars, at, pollVars, hup, cancelled, line, late, budgetVars>>

(* Server.Shutdown closes the listener and waits for the handlers; then    *)
(* the error of a failed serve loop is picked up.                          *)
CloseHTTP ==
    /\ StopTurn("http") /\ server = "serving"
    /\ server' = "closed"
    /\ UNCHANGED <<phase, up, failed, code, bgp, notified, regVars, awaited, disk, configVars, staging,
                   holderVars, at, pollVars, hup, cancelled, line, late, budgetVars>>

(* Mutant: a failed serve loop is forgotten.                               *)
StopHTTPDropsError ==
    /\ StopTurn("http") /\ server # "serving" /\ at["http"] = "select"
    /\ up' = up - 1
    /\ UNCHANGED <<phase, failed, code, bgp, server, notified, regVars, awaited, disk, configVars, staging,
                   holderVars, at, pollVars, hup, cancelled, line, late, budgetVars>>

StopHTTP ==
    /\ StopTurn("http") /\ server # "serving" /\ at["http"] = "select"
    /\ up' = up - 1
    /\ failed' = (failed \/ server = "failed")
    /\ UNCHANGED <<phase, code, bgp, server, notified, regVars, awaited, disk, configVars, staging,
                   holderVars, at, pollVars, hup, cancelled, line, late, budgetVars>>

StopRegistry ==
    /\ StopTurn("schedulers") /\ started
    /\ SetReg(Reg!Stop(reg))
    /\ awaited' = Reg!Launched(reg)
    /\ UNCHANGED <<lifeVars, disk, configVars, staging, holderVars, at, pollVars,
                   hup, cancelled, line, late, budgetVars>>

StopSchedulers ==
    /\ StopTurn("schedulers") /\ ~started
    /\ \A s \in awaited : Reg!Stopped(reg, s)
    /\ up' = up - 1
    /\ awaited' = {}
    /\ UNCHANGED <<phase, failed, code, bgp, server, notified, regVars, disk, configVars, staging,
                   holderVars, at, pollVars, hup, cancelled, line, late, budgetVars>>

StopBGP ==
    /\ StopTurn("bgp") /\ up' = up - 1
    /\ bgp' = "stopped"
    /\ UNCHANGED <<phase, failed, code, server, notified, regVars, awaited, disk, configVars, staging,
                   holderVars, at, pollVars, hup, cancelled, line, late, budgetVars>>

(* Run returns: every hook is stopped.                                     *)
Return ==
    /\ phase = "stopping" /\ up = 0
    /\ phase' = "exited"
    /\ code' = IF failed THEN "error" ELSE "ok"
    /\ UNCHANGED <<up, failed, bgp, server, notified, regVars, awaited, disk, configVars, staging,
                   holderVars, at, pollVars, hup, cancelled, line, late, budgetVars>>

(* The deadline of the stop passes before a hook has returned.             *)
StopTimeout == phase = "stopping" /\ up > 0 /\ Dies("error") /\ UNCHANGED asks

-----------------------------------------------------------------------------
(***************************************************************************)
(* The schedulers: a run ends with the callbacks.                          *)
(***************************************************************************)
RunBy(s, who) == sched' = [sched EXCEPT ![s].run = [at |-> "check", by |-> who]]

Tick(s) ==
    /\ sched[s].loop # "off" /\ sched[s].run = Reg!NoRun
    /\ RunBy(s, "loop")
    /\ UNCHANGED <<lifeVars, started, visible, awaited, disk, configVars, staging, holderVars, at,
                   pollVars, hup, cancelled, line, late, budgetVars>>

(* handleTriggerCheck: the handler has looked the scheduler up and gets    *)
(* runMu.                                                                  *)
Trigger(s) ==
    /\ at["http"] = "trigger" /\ s \in target /\ sched[s].run = Reg!NoRun
    /\ RunBy(s, "http")
    /\ target' = {}
    /\ UNCHANGED <<lifeVars, started, visible, awaited, disk, configVars, staging, holderVars, at,
                   raw, changed, next, hup, cancelled, line, late, budgetVars>>

(* A result: the policy manager may call BGP, a shadow may have a verdict. *)
Result(s) ==
    /\ sched[s].run.at = "check"
    /\ \E verdict \in BOOLEAN :
          sched' = [sched EXCEPT ![s].run = Reg!NoRun,
                                 ![s].reached = @ \/ (verdict /\ sched[s].cb = "watch")]
    /\ IF sched[s].cb = "policy" THEN CallBGP("check") ELSE UNCHANGED late
    /\ at' = IF sched[s].run.by = "http" THEN [at EXCEPT !["http"] = "select"] ELSE at
    /\ UNCHANGED <<lifeVars, started, visible, awaited, disk, configVars, staging, holderVars,
                   pollVars, hup, cancelled, line, budgetVars>>

LoopExits(s) ==
    /\ sched[s].loop = "cancelled" /\ sched[s].run.by # "loop"
    /\ sched' = [sched EXCEPT ![s].loop = "off"]
    /\ UNCHANGED <<lifeVars, started, visible, awaited, disk, configVars, staging, holderVars, at,
                   pollVars, hup, cancelled, line, late, budgetVars>>

-----------------------------------------------------------------------------
(***************************************************************************)
(* Who asks for a reload.                                                  *)
(***************************************************************************)
Go(who, place) == at' = [at EXCEPT ![who] = place]

(* Without a handler, before signal.Notify and after signal.Stop, SIGHUP   *)
(* ends the process.  The channel holds one signal; more are dropped.      *)
Hup ==
    /\ asks < MaxAsks /\ asks' = asks + 1
    /\ \/ /\ at["hup"] # "off" /\ ~cancelled
          /\ hup' = TRUE
          /\ UNCHANGED <<lifeVars, regVars, awaited, disk, configVars, staging, holderVars, at, pollVars,
                         cancelled, line, late, edits>>
       \/ /\ at["hup"] = "off" \/ cancelled
          /\ Dies("killed")

(* The goroutine's select may take the signal although ctx is done.        *)
TakeHup ==
    /\ at["hup"] = "select" /\ hup
    /\ hup' = FALSE
    /\ Go("hup", "lock")
    /\ UNCHANGED <<lifeVars, regVars, awaited, disk, configVars, staging, holderVars, pollVars,
                   cancelled, line, late, budgetVars>>

Gone(who) ==
    /\ at[who] = "select" /\ cancelled
    /\ Go(who, "gone")
    /\ UNCHANGED <<lifeVars, regVars, awaited, disk, configVars, staging, holderVars, pollVars,
                   hup, cancelled, line, late, budgetVars>>

(* A request: reload, or an ad-hoc check of a listed scheduler.            *)
Post ==
    /\ asks < MaxAsks /\ asks' = asks + 1
    /\ server = "serving" /\ at["http"] = "select"
    /\ \/ Go("http", "lock") /\ UNCHANGED target
       \/ /\ Go("http", "trigger")
          /\ \E s \in Reg!Registered(reg) : target' = {s}
    /\ UNCHANGED <<lifeVars, regVars, awaited, disk, configVars, staging, holderVars, raw, changed, next,
                   hup, cancelled, line, late, edits>>

EditFile ==
    /\ edits < MaxEdits /\ edits' = edits + 1
    /\ \E c \in Contents : disk' = c
    /\ UNCHANGED <<lifeVars, regVars, awaited, configVars, staging, holderVars, at, pollVars,
                   hup, cancelled, line, late, asks>>

(* onChange, after the unlock.                                             *)
Notify(who) ==
    /\ at[who] = "notify"
    /\ Update
    /\ Go(who, IF who = "loop" THEN next ELSE "select")
    /\ next' = IF who = "loop" THEN "select" ELSE next
    /\ UNCHANGED <<lifeVars, regVars, awaited, disk, configVars, staging, holderVars, target, raw, changed,
                   hup, cancelled, budgetVars>>

(* A VIP or a session changed state: the listener runs on a goroutine that *)
(* nobody waits for, whatever has stopped since; before the watcher is     *)
(* started nothing changes state.                                          *)
NotifyOther ==
    /\ up >= 4 \/ (phase = "stopping" /\ up = 3) \/ bgp = "stopped"
    /\ Update
    /\ UNCHANGED <<lifeVars, regVars, awaited, disk, configVars, staging, holderVars, at, pollVars,
                   hup, cancelled, budgetVars>>

-----------------------------------------------------------------------------
(***************************************************************************)
(* Reload.  recordLocked stores the outcome and sets the metrics.          *)
(***************************************************************************)
recordLocked(outcome) ==
    /\ last' = outcome
    /\ gauge' = [success |-> OK(outcome), changed |-> fileChanged', pending |-> staging' # {}]

(* A reload that ends without touching what runs is one step.              *)
Ends(who, outcome, differs) ==
    /\ at[who] = "lock" /\ MuFree
    /\ fileChanged' = differs
    /\ UNCHANGED <<staging, curHash, fixed>>
    /\ recordLocked(outcome)
    /\ Go(who, "notify")
    /\ UNCHANGED <<lifeVars, regVars, awaited, disk, holderVars, pollVars, hup, cancelled, line, late, budgetVars>>

Loads == disk.readable /\ disk.loads

LoadFails(who) == ~Loads /\ Ends(who, "rejected", fileChanged)
Unchanged(who) == Loads /\ disk = curHash /\ Ends(who, "unchanged", FALSE)
RestartRequired(who) ==
    Loads /\ disk # curHash /\ disk.fixed # fixed /\ Ends(who, "rejected", TRUE)

Applicable == Loads /\ disk # curHash /\ disk.fixed = fixed

(* A checker or guard of the new config cannot be built.                   *)
BuildFails(who) == Applicable /\ Ends(who, "rejected", TRUE)

(* What the diff may ask for, first to drop the shadow of an earlier       *)
(* staging: nothing for the VIP, its removal, the addition or both, a new  *)
(* check in shadow, a policy that is committed at once.                    *)
Step(op, s) == [op |-> op, s |-> s]
Listed == {visible["vip"][i] : i \in DOMAIN visible["vip"]}
Removals(S) == IF S = {} THEN <<>>
               ELSE LET s == CHOOSE s \in S : TRUE IN <<Step("remove", s), Step("wait", s)>>
Plans ==
    LET old == CHOOSE s \in Listed : TRUE
        drop == Removals(staging)
        gone == drop \o Removals(Listed) \o <<Step("withdraw", old)>>
        add == <<Step("add", Absent)>>
    IN  {drop} \cup (IF Listed = {} THEN {drop \o add}
                     ELSE {gone, gone \o add, drop \o <<Step("stage", Absent)>>, drop \o <<Step("commit", Absent)>>})

Apply(who) ==
    /\ at[who] = "lock" /\ MuFree /\ Applicable
    /\ mu' = who
    /\ \E plan \in Plans : todo' = plan
    /\ raw' = [raw EXCEPT ![who] = disk]
    /\ UNCHANGED <<lifeVars, regVars, awaited, disk, configVars, staging, errs, at, target, changed, next,
                   hup, cancelled, line, late, budgetVars>>

(* The reload has made its calls: what runs is the file that was read,     *)
(* except for a VIP whose removal failed.                                  *)
Applied ==
    /\ mu \in {"hup", "http"} /\ todo = <<>>
    /\ curHash' = IF errs.kept THEN NoHash ELSE raw[mu]
    /\ fixed' = raw[mu].fixed
    /\ fileChanged' = errs.kept
    /\ UNCHANGED staging
    /\ recordLocked(IF errs.err THEN "failed" ELSE "applied")
    /\ mu' = "nobody" /\ Go(mu, "notify")
    /\ raw' = [raw EXCEPT ![mu] = NoHash]
    /\ errs' = NoErrs
    /\ UNCHANGED <<lifeVars, regVars, awaited, disk, todo, target, changed, next,
                   hup, cancelled, line, late, budgetVars>>

-----------------------------------------------------------------------------
(***************************************************************************)
(* The calls of the holder of Reloader.mu.                                 *)
(***************************************************************************)
Call(op) == mu # "nobody" /\ todo # <<>> /\ Head(todo).op = op
Arg == Head(todo).s
Next1 == todo' = Tail(todo)

DoRemove ==
    /\ Call("remove") /\ Next1
    /\ SetReg(Reg!Remove(reg, Arg))
    /\ staging' = staging \ {Arg}
    /\ UNCHANGED <<lifeVars, awaited, disk, configVars, mu, errs, at, pollVars, hup, cancelled, line, late, budgetVars>>

DoWait ==
    /\ Call("wait") /\ Next1
    /\ Reg!Stopped(reg, Arg)
    /\ UNCHANGED <<lifeVars, regVars, awaited, disk, configVars, staging, mu, errs, at, pollVars,
                   hup, cancelled, line, late, budgetVars>>

(* policy.RemoveVIP; when the withdraw fails the checks are put back and   *)
(* the new definition of the VIP is not added.                             *)
DoWithdraw ==
    /\ Call("withdraw")
    /\ CallBGP("reload")
    /\ \/ Next1 /\ UNCHANGED <<errs, regVars>>
       \/ /\ errs' = [err |-> TRUE, kept |-> TRUE]
          /\ SetReg(Reg!Add(reg, Arg))
          /\ todo' = <<>>
    /\ UNCHANGED <<lifeVars, awaited, disk, configVars, staging, mu, at, pollVars, hup, cancelled, line, budgetVars>>

(* An id for a new scheduler: unused, or of one that is closed and done.   *)
Unused == {s \in SchedIds : \/ sched[s] = Absent
                            \/ /\ s \notin Listed \cup staging \cup target \cup awaited
                               /\ sched[s].loop = "off" /\ sched[s].run = Reg!NoRun
                               /\ \A i \in DOMAIN todo : todo[i].s # s}
Fresh == CHOOSE s \in Unused : \A t \in Unused : s <= t
With(cb) == [reg EXCEPT !.sched[Fresh] = [Reg!NewScheduler("vip", "check", "") EXCEPT !.cb = cb]]

DoAdd ==
    /\ Call("add") /\ Unused # {} /\ Next1
    /\ SetReg(Reg!Add(With("policy"), Fresh))
    /\ UNCHANGED <<lifeVars, awaited, disk, configVars, staging, mu, errs, at, pollVars,
                   hup, cancelled, line, late, budgetVars>>

DoStage ==
    /\ Call("stage") /\ Unused # {} /\ Next1
    /\ SetReg(Reg!AddShadow(With("watch"), Fresh))
    /\ staging' = {Fresh}
    /\ UNCHANGED <<lifeVars, awaited, disk, configVars, mu, errs, at, pollVars, hup, cancelled, line, late, budgetVars>>

(* policy.CommitVIP, by a reload or by the loop.                           *)
DoCommit ==
    /\ Call("commit") /\ Next1
    /\ CallBGP("reload")
    /\ \E err \in BOOLEAN : errs' = [errs EXCEPT !.err = @ \/ err]
    /\ UNCHANGED <<lifeVars, regVars, awaited, disk, configVars, staging, mu, at, pollVars,
                   hup, cancelled, line, budgetVars>>

-----------------------------------------------------------------------------
(***************************************************************************)
(* The reloader's loop: Run's select.                                      *)
(***************************************************************************)
loopFrame == <<lifeVars, regVars, awaited, disk, staging, hup, cancelled, line, late, budgetVars>>

(* A wake-up for the verdict of the staged shadow (System models the       *)
(* verdict queue itself).                                                  *)
Wake ==
    /\ at["loop"] = "select" /\ \E s \in staging : sched[s].reached
    /\ Go("loop", "ready")
    /\ UNCHANGED <<loopFrame, configVars, holderVars, pollVars>>

PollTick ==
    /\ at["loop"] = "select"
    /\ Go("loop", "expire")
    /\ UNCHANGED <<loopFrame, configVars, holderVars, pollVars>>

(* commitLocked of the staged VIP.                                         *)
commitLocked(then) ==
    /\ mu' = "loop"
    /\ todo' = LET s == CHOOSE s \in staging : TRUE
               IN  <<Step("promote", s)>> \o [i \in 1 .. Len(visible["vip"]) |-> Step("wait", visible["vip"][i])]
                   \o <<Step("commit", s), Step("attach", s)>>
    /\ next' = then
    /\ UNCHANGED <<loopFrame, configVars, errs, at, target, raw, changed>>

commitReady ==
    /\ at["loop"] = "ready" /\ MuFree
    /\ IF \E s \in staging : sched[s].reached
       THEN commitLocked("select")
       ELSE /\ Go("loop", "select")
            /\ gauge' = [gauge EXCEPT !.pending = staging # {}]
            /\ UNCHANGED <<loopFrame, curHash, fixed, fileChanged, last, holderVars, pollVars>>

(* A staged VIP may be past its deadline.                                  *)
expireStaged ==
    /\ at["loop"] = "expire" /\ MuFree
    /\ \/ staging # {} /\ commitLocked("read")
       \/ Go("loop", "read") /\ UNCHANGED <<loopFrame, configVars, holderVars, pollVars>>

(* Mutant: the VIP stays staged.                                           *)
PromoteKeepsStaging ==
    /\ Call("promote") /\ Next1
    /\ SetReg(Reg!Promote(reg, Arg))
    /\ UNCHANGED <<lifeVars, awaited, disk, configVars, staging, mu, errs, at, pollVars, hup, cancelled, line, late, budgetVars>>

DoPromote ==
    /\ Call("promote") /\ Next1
    /\ SetReg(Reg!Promote(reg, Arg))
    /\ staging' = {}
    /\ UNCHANGED <<lifeVars, awaited, disk, configVars, mu, errs, at, pollVars, hup, cancelled, line, late, budgetVars>>

(* The policy callbacks, and the final compare, which may report a flip.   *)
DoAttach ==
    /\ Call("attach") /\ Next1
    /\ sched' = [sched EXCEPT ![Arg].cb = "policy", ![Arg].reached = FALSE]
    /\ CallBGP("reload")
    /\ UNCHANGED <<lifeVars, started, visible, awaited, disk, configVars, staging, mu, errs, at, pollVars,
                   hup, cancelled, line, budgetVars>>

(* Mutant: a failed commit leaves the success gauge.                       *)
CommittedKeepsSuccess ==
    /\ mu = "loop" /\ todo = <<>>
    /\ last' = IF errs.err THEN "failed" ELSE last
    /\ gauge' = [gauge EXCEPT !.pending = staging # {}]
    /\ mu' = "nobody" /\ Go("loop", "notify")
    /\ errs' = NoErrs
    /\ UNCHANGED <<loopFrame, curHash, fixed, fileChanged, todo, pollVars>>

(* The end of commitLocked and of its caller: an error turns the outcome   *)
(* of the reload that staged the VIP into a failure.                       *)
Committed ==
    /\ mu = "loop" /\ todo = <<>>
    /\ last' = IF errs.err THEN "failed" ELSE last
    /\ gauge' = [gauge EXCEPT !.success = @ /\ ~errs.err, !.pending = staging # {}]
    /\ mu' = "nobody" /\ Go("loop", "notify")
    /\ errs' = NoErrs
    /\ UNCHANGED <<loopFrame, curHash, fixed, fileChanged, todo, pollVars>>

(* Mutant: an unreadable file counts as unchanged.                         *)
ReadFileSkipsUnreadable ==
    /\ at["loop"] = "read"
    /\ raw' = [raw EXCEPT !["loop"] = disk]
    /\ changed' = FALSE
    /\ Go("loop", IF disk.readable THEN "compare" ELSE "set")
    /\ UNCHANGED <<loopFrame, configVars, holderVars, target, next>>

(* pollFile: read without the lock, compare under it, set under it.        *)
ReadFile ==
    /\ at["loop"] = "read"
    /\ raw' = [raw EXCEPT !["loop"] = disk]
    /\ changed' = ~disk.readable
    /\ Go("loop", IF disk.readable THEN "compare" ELSE "set")
    /\ UNCHANGED <<loopFrame, configVars, holderVars, target, next>>

CompareFile ==
    /\ at["loop"] = "compare" /\ MuFree
    /\ changed' = (raw["loop"] # curHash)
    /\ raw' = [raw EXCEPT !["loop"] = NoHash]
    /\ Go("loop", "set")
    /\ UNCHANGED <<loopFrame, configVars, holderVars, target, next>>

(* Mutant: only a flag that is raised is announced.                        *)
SetFileChangedQuietly ==
    /\ at["loop"] = "set" /\ MuFree
    /\ fileChanged' = changed
    /\ gauge' = [gauge EXCEPT !.changed = changed]
    /\ Go("loop", IF changed /\ ~fileChanged THEN "notify" ELSE "select")
    /\ changed' = FALSE
    /\ UNCHANGED <<loopFrame, curHash, fixed, last, holderVars, target, raw, next>>

SetFileChanged ==
    /\ at["loop"] = "set" /\ MuFree
    /\ fileChanged' = changed
    /\ gauge' = [gauge EXCEPT !.changed = changed]
    /\ Go("loop", IF changed # fileChanged THEN "notify" ELSE "select")
    /\ changed' = FALSE
    /\ UNCHANGED <<loopFrame, curHash, fixed, last, holderVars, target, raw, next>>

-----------------------------------------------------------------------------
Init ==
    /\ phase = "starting" /\ up = 0 /\ failed = FALSE /\ code = ""
    /\ bgp = "off" /\ server = "off" /\ notified = ""
    /\ LET first == CHOOSE s \in SchedIds : \A t \in SchedIds : s <= t
           built == Reg!Add([NoSchedulers EXCEPT !.sched[first] = Reg!NewScheduler("vip", "check", "")], first)
       IN  started = built.started /\ sched = built.sched /\ visible = built.visible
    /\ awaited = {}
    /\ disk = Boot /\ curHash = Boot /\ fixed = Boot.fixed
    /\ fileChanged = FALSE /\ last = "none" /\ staging = {}
    /\ gauge = NoGauge
    /\ mu = "nobody" /\ todo = <<>> /\ errs = NoErrs
    /\ at = Nowhere
    /\ target = {} /\ raw = NothingRead
    /\ changed = FALSE /\ next = "select"
    /\ hup = FALSE /\ cancelled = FALSE /\ line = Absent /\ late = {}
    /\ edits = 0 /\ asks = 0

Main ==
    \/ StartOther \/ StartBGP \/ StartSchedulers \/ StartHTTP \/ StartReload \/ StartSystemd
    \/ StopOther \/ StopTelemetry \/ StopSystemd \/ CancelReload \/ StopReload
    \/ CloseHTTP \/ StopHTTP \/ StopRegistry \/ StopSchedulers \/ StopBGP \/ Return

Holder ==
    \/ DoRemove \/ DoWait \/ DoWithdraw \/ DoAdd \/ DoStage \/ DoCommit \/ DoPromote \/ DoAttach
    \/ Applied \/ Committed

Reloads(who) ==
    \/ LoadFails(who) \/ Unchanged(who) \/ RestartRequired(who) \/ BuildFails(who) \/ Apply(who)

Loop == Wake \/ PollTick \/ commitReady \/ expireStaged \/ ReadFile \/ CompareFile \/ SetFileChanged

Exited == ~Alive /\ UNCHANGED vars

Next ==
    \/ /\ Alive
       /\ \/ Main \/ StartFails \/ StartTimeout \/ Shutdown \/ ServeFails \/ StopTimeout
          \/ \E s \in Live : Tick(s) \/ Trigger(s) \/ Result(s) \/ LoopExits(s)
          \/ Hup \/ TakeHup \/ Post \/ EditFile \/ NotifyOther
          \/ \E who \in {"hup", "loop"} : Gone(who)
          \/ \E who \in {"hup", "http"} : Reloads(who)
          \/ \E who \in {"hup", "http", "loop"} : Notify(who)
          \/ Holder \/ Loop
    \/ Exited

Spec == Init /\ [][Next]_vars

(***************************************************************************)
(* Fairness: the goroutines go on; a check ends at its timeout; a mutex is *)
(* got in the end (sync.Mutex hands over to starving waiters) and select   *)
(* does not for ever prefer another case, hence strong fairness.  Nobody   *)
(* need ask for anything.                                                  *)
(***************************************************************************)
FairSpec ==
    /\ Spec
    /\ WF_vars(Alive /\ Main) /\ WF_vars(Alive /\ Holder)
    /\ WF_vars(Alive /\ server = "failed" /\ Shutdown)
    /\ \A s \in SchedIds : /\ WF_vars(Alive /\ s \in Live /\ Result(s))
                           /\ SF_vars(Alive /\ s \in Live /\ LoopExits(s))
    /\ SF_vars(Alive /\ (Reloads("http") \/ Notify("http") \/ \E s \in Live : Trigger(s)))
    /\ SF_vars(Alive /\ (Loop \/ Notify("loop")))
    /\ SF_vars(Alive /\ Gone("loop"))

-----------------------------------------------------------------------------
(* The types, and who may hold the mutex where.                            *)
TypeOK ==
    /\ phase \in {"starting", "running", "stopping", "exited"}
    /\ up \in 0 .. Len(Hooks) /\ failed \in BOOLEAN
    /\ code \in {"", "ok", "error", "killed"} /\ (code = "" <=> Alive)
    /\ bgp \in {"off", "on", "stopped"} /\ server \in {"off", "serving", "failed", "closed"}
    /\ notified \in {"", "ready", "stopping"}
    /\ Listed \subseteq Live /\ staging \subseteq Live \ Listed /\ awaited \subseteq Live
    /\ disk \in Contents /\ curHash \in Contents \cup {NoHash}
    /\ last \in {"none", "applied", "unchanged", "rejected", "failed"}
    /\ mu \in {"hup", "http"} => at[mu] = "lock"
    /\ mu = "loop" => at["loop"] \in {"ready", "expire"}

(***************************************************************************)
(* No route is touched while BGP does not run, but in a reload that SIGHUP *)
(* asked for: registerReloadLifecycle waits for the loop, the API for its  *)
(* handlers and Registry.Stop for the schedulers, before BGP stops.  The   *)
(* goroutine that serves SIGHUP is not waited for, nor is a scheduler that *)
(* its reload is about to remove.  The status line may read GoBGP's peers  *)
(* at any time.                                                            *)
(***************************************************************************)
OnlyHupTouchesLate == \A call \in late : call.caller # "status" => call.mu = "hup"

(***************************************************************************)
(* "Wait for in-flight checks so no callback reaches BGP after it stops"   *)
(* (registerSchedulersLifecycle).  Registry.Stop does not see a scheduler  *)
(* that a reload has taken out of the registry and whose check still runs. *)
(***************************************************************************)
NoCallbackAfterStop == \A call \in late : call.caller # "check"

(***************************************************************************)
(* Exit code 0 means that the daemon was fully started and went down in    *)
(* order: nothing serves, the loop and every scheduler it knew are gone,   *)
(* BGP is down, systemd was told; no hook and no serve loop had failed.    *)
(***************************************************************************)
OrderlyExit ==
    code = "ok" => /\ bgp = "stopped" /\ server = "closed" /\ notified = "stopping"
                /\ at["loop"] = "gone" /\ at["http"] = "select"
                /\ ~started /\ ~failed
                /\ \A s \in Listed : sched[s].loop = "off"

(* READY=1 stands only while every component is started: it is sent after  *)
(* all others and STOPPING=1 before any of them goes down.                 *)
ReadyMeansUp ==
    notified = "ready" /\ Alive =>
        up = Len(Hooks) /\ bgp = "on" /\ started /\ server \in {"serving", "failed"} /\ ~cancelled

(* The config notice of the status line is what Status() says, unless a    *)
(* goroutine is about to send it: no change is left unsent and no line     *)
(* overtakes a newer one.                                                  *)
LineIsCurrent ==
    Alive /\ notified # "" /\ MuFree /\ (\A who \in DOMAIN at : at[who] # "notify") => line = Status

(* The three config gauges agree with the reloader whenever its mutex is   *)
(* free, whichever of reload, commit, expiry and poll came last.           *)
GaugesAgree ==
    MuFree => /\ gauge.success = (last = "none" \/ OK(last))
              /\ gauge.changed = fileChanged
              /\ gauge.pending = (staging # {})

(* The file-changed flag is in the end right, although pollFile sets it    *)
(* from a comparison that a reload may have overtaken.                     *)
FlagSettles == <>[](phase # "running" \/ fileChanged = (disk # curHash))

(* A stop comes to its end without the deadline, whatever was under way,   *)
(* and a failed serve loop stops the daemon.                               *)
ShutdownEnds == (phase = "stopping" \/ server = "failed") ~> ~Alive
=============================================================================
