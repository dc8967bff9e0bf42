---------------------------- MODULE DaemonProofs ----------------------------
(***************************************************************************)
(* Daemon for any number of schedulers, edits, signals and requests and    *)
(* any contents of the config file.                                        *)
(***************************************************************************)
EXTENDS Daemon, TLAPS

(***************************************************************************)
(* The gauges.  Two of them are right at any time; the third follows the   *)
(* staging, which only the holder of Reloader.mu changes.                  *)
(***************************************************************************)
Gauges ==
    /\ gauge \in [success : BOOLEAN, changed : BOOLEAN, pending : BOOLEAN]
    /\ errs \in [err : BOOLEAN, kept : BOOLEAN]
    /\ fileChanged \in BOOLEAN /\ changed \in BOOLEAN
    /\ gauge.success = (last = "none" \/ OK(last))
    /\ gauge.changed = fileChanged
    /\ MuFree => gauge.pending = (staging # {})

gaugeVars == <<fileChanged, last, gauge, staging, mu, errs, changed>>

LEMMA GaugesFrame ==
    ASSUME Gauges, UNCHANGED gaugeVars
    PROVE  Gauges'
  BY DEF Gauges, gaugeVars, OK, MuFree

(* A process that dies leaves the initial gauges, and the config is gone.  *)
LEMMA DiesGauges ==
    ASSUME NEW c, Dies(c)
    PROVE  Gauges'
  BY DEF Dies, Gauges, NoGauge, NoErrs, OK, MuFree

LEMMA EndsGauges ==
    ASSUME Gauges, NEW who, NEW outcome, NEW differs \in BOOLEAN,
           outcome \in {"rejected", "unchanged"}, Ends(who, outcome, differs)
    PROVE  Gauges'
  <1>1. /\ fileChanged' = differs /\ last' = outcome
        /\ gauge' = [success |-> OK(outcome), changed |-> differs, pending |-> staging # {}]
        /\ staging' = staging /\ mu' = mu /\ errs' = errs /\ changed' = changed
    BY DEF Ends, recordLocked, holderVars, pollVars
  <1>2. OK(outcome) \in BOOLEAN /\ outcome # "none"
    BY DEF OK
  <1>3. gauge' \in [success : BOOLEAN, changed : BOOLEAN, pending : BOOLEAN]
    BY <1>1, <1>2
  <1>4. QED BY <1>1, <1>2, <1>3 DEF Gauges, OK, MuFree

(* Starting and stopping leaves the config alone.                          *)
LEMMA MainKeepsGauges == Main => UNCHANGED gaugeVars
  BY DEF Main, StartOther, StartBGP, StartSchedulers, StartHTTP, StartReload, StartSystemd,
         StopOther, StopTelemetry, StopSystemd, CancelReload, StopReload, CloseHTTP, StopHTTP,
         StopRegistry, StopSchedulers, StopBGP, Return,
         gaugeVars, configVars, holderVars, pollVars

LEMMA GaugesStep == Gauges /\ [Next]_vars => Gauges'
  <1> SUFFICES ASSUME Gauges, [Next]_vars PROVE Gauges'
    OBVIOUS
  <1> USE DEF configVars, holderVars, pollVars, loopFrame
  <1>1. CASE UNCHANGED vars
    BY <1>1, GaugesFrame DEF vars, gaugeVars
  <1>2. CASE Main
    BY <1>2, MainKeepsGauges, GaugesFrame
  <1>3. CASE StartFails \/ Shutdown \/ ServeFails
    BY <1>3, GaugesFrame DEF StartFails, Shutdown, ServeFails, gaugeVars
  <1>4. CASE StartTimeout \/ StopTimeout \/ Hup
    <2>1. ASSUME NEW c, Dies(c) PROVE Gauges'
      BY <2>1, DiesGauges
    <2>2. QED BY <1>4, <2>1, GaugesFrame DEF StartTimeout, StopTimeout, Hup, gaugeVars
  <1>5. CASE \E s \in Live : Tick(s) \/ Trigger(s) \/ Result(s) \/ LoopExits(s)
    BY <1>5, GaugesFrame DEF Tick, Trigger, Result, LoopExits, gaugeVars
  <1>6. CASE TakeHup \/ Post \/ EditFile \/ NotifyOther
    BY <1>6, GaugesFrame DEF TakeHup, Post, EditFile, NotifyOther, gaugeVars
  <1>7. CASE \E who \in {"hup", "loop"} : Gone(who)
    BY <1>7, GaugesFrame DEF Gone, gaugeVars
  <1>8. CASE \E who \in {"hup", "http", "loop"} : Notify(who)
    BY <1>8, GaugesFrame DEF Notify, gaugeVars
  <1>9. ASSUME NEW who \in {"hup", "http"}, Reloads(who) PROVE Gauges'
    <2>1. CASE LoadFails(who)
      BY <2>1, EndsGauges DEF LoadFails, Gauges
    <2>2. CASE Unchanged(who)
      BY <2>2, EndsGauges DEF Unchanged
    <2>3. CASE RestartRequired(who) \/ BuildFails(who)
      BY <2>3, EndsGauges DEF RestartRequired, BuildFails
    <2>4. CASE Apply(who)
      BY <2>4 DEF Apply, Gauges, MuFree, OK
    <2>5. QED BY <1>9, <2>1, <2>2, <2>3, <2>4 DEF Reloads
  <1>10. CASE DoRemove \/ DoWait \/ DoAdd \/ DoStage \/ DoPromote \/ DoAttach
    BY <1>10 DEF DoRemove, DoWait, DoAdd, DoStage, DoPromote, DoAttach, Call, Gauges, MuFree, OK
  <1>11. CASE DoWithdraw
    <2>1. errs' = errs \/ errs' = [err |-> TRUE, kept |-> TRUE]
      BY <1>11 DEF DoWithdraw
    <2>2. /\ errs \in [err : BOOLEAN, kept : BOOLEAN]
          /\ [err |-> TRUE, kept |-> TRUE] \in [err : BOOLEAN, kept : BOOLEAN]
      BY DEF Gauges
    <2>3. errs' \in [err : BOOLEAN, kept : BOOLEAN]
      BY <2>1, <2>2
    <2>4. QED BY <1>11, <2>3 DEF DoWithdraw, Call, Gauges, MuFree, OK
  <1>12. CASE DoCommit
    <2>1. PICK err \in BOOLEAN : errs' = [errs EXCEPT !.err = @ \/ err]
      BY <1>12 DEF DoCommit
    <2>2. /\ errs \in [err : BOOLEAN, kept : BOOLEAN]
          /\ [err |-> TRUE, kept |-> TRUE] \in [err : BOOLEAN, kept : BOOLEAN]
      BY DEF Gauges
    <2>3. errs' \in [err : BOOLEAN, kept : BOOLEAN]
      BY <2>1, <2>2
    <2>4. QED BY <1>12, <2>2 DEF DoCommit, Call, Gauges, MuFree, OK
  <1>13. CASE Applied
    <2>1. /\ fileChanged' = errs.kept /\ staging' = staging /\ changed' = changed
          /\ errs' = NoErrs
          /\ last' = IF errs.err THEN "failed" ELSE "applied"
          /\ gauge' = [success |-> OK(last'), changed |-> fileChanged', pending |-> staging # {}]
      BY <1>13 DEF Applied, recordLocked
    <2>2. OK(last') \in BOOLEAN /\ last' # "none"
      BY <2>1 DEF OK
    <2>3. fileChanged' \in BOOLEAN
      BY <2>1 DEF Gauges
    <2>4. gauge' \in [success : BOOLEAN, changed : BOOLEAN, pending : BOOLEAN]
      BY <2>1, <2>2, <2>3
    <2>5. QED BY <2>1, <2>2, <2>3, <2>4 DEF Gauges, OK, NoErrs
  <1>14. CASE Committed
    <2>1. /\ fileChanged' = fileChanged /\ staging' = staging /\ changed' = changed
          /\ errs' = NoErrs
          /\ last' = IF errs.err THEN "failed" ELSE last
          /\ gauge' = [gauge EXCEPT !.success = @ /\ ~errs.err, !.pending = staging # {}]
      BY <1>14 DEF Committed
    <2>2. /\ gauge' \in [success : BOOLEAN, changed : BOOLEAN, pending : BOOLEAN]
          /\ gauge'.success = (gauge.success /\ ~errs.err)
          /\ gauge'.changed = gauge.changed
          /\ gauge'.pending = (staging # {})
      BY <2>1 DEF Gauges
    <2>3. gauge'.success = (last' = "none" \/ OK(last'))
      BY <2>1, <2>2 DEF Gauges, OK
    <2>4. QED BY <2>1, <2>2, <2>3 DEF Gauges, OK, NoErrs
  <1>15. CASE Wake \/ PollTick
    BY <1>15, GaugesFrame DEF Wake, PollTick, gaugeVars
  <1>16. ASSUME NEW then, commitLocked(then) PROVE Gauges'
    BY <1>16 DEF commitLocked, Gauges, MuFree, OK
  <1>17. CASE commitReady
    <2>1. CASE \E s \in staging : sched[s].reached
      BY <1>17, <2>1, <1>16 DEF commitReady
    <2>2. CASE ~\E s \in staging : sched[s].reached
      <3>1. /\ gauge' = [gauge EXCEPT !.pending = staging # {}]
            /\ fileChanged' = fileChanged /\ last' = last /\ staging' = staging
            /\ errs' = errs /\ changed' = changed
        BY <1>17, <2>2 DEF commitReady
      <3>2. /\ gauge' \in [success : BOOLEAN, changed : BOOLEAN, pending : BOOLEAN]
            /\ gauge'.success = gauge.success
            /\ gauge'.changed = gauge.changed
            /\ gauge'.pending = (staging # {})
        BY <3>1 DEF Gauges
      <3>3. QED BY <3>1, <3>2 DEF Gauges, OK
    <2>3. QED BY <2>1, <2>2
  <1>18. CASE expireStaged
    BY <1>18, <1>16, GaugesFrame DEF expireStaged, gaugeVars
  <1>19. CASE ReadFile
    BY <1>19 DEF ReadFile, Gauges, MuFree, OK
  <1>20. CASE CompareFile
    BY <1>20 DEF CompareFile, Gauges, MuFree, OK
  <1>21. CASE SetFileChanged
    <2>1. /\ fileChanged' = changed /\ changed' = FALSE
          /\ gauge' = [gauge EXCEPT !.changed = changed]
          /\ last' = last /\ staging' = staging /\ errs' = errs /\ mu' = mu
      BY <1>21 DEF SetFileChanged
    <2>2. /\ gauge' \in [success : BOOLEAN, changed : BOOLEAN, pending : BOOLEAN]
          /\ gauge'.success = gauge.success
          /\ gauge'.changed = changed
          /\ gauge'.pending = gauge.pending
      BY <2>1 DEF Gauges
    <2>3. QED BY <2>1, <2>2 DEF Gauges, OK, MuFree
  <1>22. QED
    BY <1>1, <1>2, <1>3, <1>4, <1>5, <1>6, <1>7, <1>8, <1>9, <1>10, <1>11, <1>12, <1>13, <1>14,
       <1>15, <1>17, <1>18, <1>19, <1>20, <1>21
       DEF Next, Holder, Loop, Exited

(***************************************************************************)
(* The three config gauges agree with the reloader whenever its mutex is   *)
(* free, however many reloads, commits, expiries and polls there were.     *)
(***************************************************************************)
THEOREM GaugesAreRight == Spec => []GaugesAgree
  <1>1. Init => Gauges
    <2> SUFFICES ASSUME Init PROVE Gauges
      OBVIOUS
    <2>1. /\ gauge = NoGauge /\ errs = NoErrs /\ staging = {} /\ last = "none"
          /\ fileChanged = FALSE /\ changed = FALSE
      BY DEF Init
    <2>2. QED BY <2>1 DEF Gauges, NoGauge, NoErrs, OK
  <1>2. Gauges => GaugesAgree
    BY DEF Gauges, GaugesAgree
  <1>3. QED BY <1>1, <1>2, GaugesStep, PTL DEF Spec
-----------------------------------------------------------------------------
(***************************************************************************)
(* Start and stop.  Which components are up follows from the number of     *)
(* hooks that are started, and READY=1 is sent with the last one.          *)
(***************************************************************************)
Up == bgp = "on" /\ started = TRUE /\ server \in {"serving", "failed"} /\ cancelled = FALSE

Life ==
    /\ phase \in {"starting", "running", "stopping", "exited"}
    /\ up \in 0 .. 8
    /\ phase = "starting" =>
          /\ up < 8 /\ notified # "ready" /\ cancelled = FALSE
          /\ up >= 3 => bgp = "on"
          /\ up >= 5 => started = TRUE
          /\ up >= 6 => server \in {"serving", "failed"}
    /\ phase = "running" => notified = "ready"
    /\ phase = "stopping" /\ up = 8 => notified = "ready"
    /\ phase # "exited" /\ notified = "ready" => up = 8 /\ Up

(* The place of a hook in the order of Run.                                *)
LEMMA HookIndex ==
    ASSUME NEW i \in 1 .. 8
    PROVE  /\ Hooks[i] = "telemetry" <=> i = 1
           /\ Hooks[i] = "process" <=> i = 2
           /\ Hooks[i] = "bgp" <=> i = 3
           /\ Hooks[i] = "watcher" <=> i = 4
           /\ Hooks[i] = "schedulers" <=> i = 5
           /\ Hooks[i] = "http" <=> i = 6
           /\ Hooks[i] = "reload" <=> i = 7
           /\ Hooks[i] = "systemd" <=> i = 8
  <1>1. i = 1 \/ i = 2 \/ i = 3 \/ i = 4 \/ i = 5 \/ i = 6 \/ i = 7 \/ i = 8
    OBVIOUS
  <1>2. QED BY <1>1 DEF Hooks

LEMMA HookCount == Len(Hooks) = 8
  BY DEF Hooks

(* No method of the registry but Start and Stop touches its flag.          *)
LEMMA StartedKept ==
    ASSUME NEW s
    PROVE  /\ Reg!Remove(reg, s).started = started
           /\ Reg!Add(reg, s).started = started
           /\ Reg!Promote(reg, s).started = started
  BY DEF Reg!Remove, Reg!Cancelled, Reg!Add, Reg!launchLocked, Reg!Promote, reg

LEMMA StartedKeptByNew ==
    ASSUME NEW s, NEW cb
    PROVE  /\ Reg!Add(With(cb), s).started = started
           /\ Reg!AddShadow(With(cb), s).started = started
  BY DEF Reg!Add, Reg!AddShadow, Reg!launchLocked, With, reg

(* What Life speaks of.                                                    *)
lifeView == <<phase, up, notified, bgp, server, started, cancelled>>

LEMMA LifeFrame ==
    ASSUME Life, UNCHANGED lifeView
    PROVE  Life'
  BY DEF Life, Up, lifeView

LEMMA LifeStep == Life /\ [Next]_vars => Life'
  <1> SUFFICES ASSUME Life, [Next]_vars PROVE Life'
    OBVIOUS
  <1> USE DEF lifeVars, regVars, loopFrame
  <1>a. /\ \A h \in {"telemetry", "process", "watcher"} : Turn(h) => phase = "starting" /\ up \in {0, 1, 3}
        /\ Turn("bgp") => phase = "starting" /\ up = 2
        /\ Turn("schedulers") => phase = "starting" /\ up = 4
        /\ Turn("http") => phase = "starting" /\ up = 5
        /\ Turn("reload") => phase = "starting" /\ up = 6
        /\ Turn("systemd") => phase = "starting" /\ up = 7
    <2>1. up \in 0 .. 8 /\ (phase = "starting" => up < 8)
      BY DEF Life
    <2>2. QED BY <2>1, HookIndex DEF Turn
  <1>b. /\ \A h \in {"process", "watcher"} : StopTurn(h) => phase = "stopping" /\ up \in {2, 4}
        /\ StopTurn("telemetry") => phase = "stopping" /\ up = 1
        /\ StopTurn("bgp") => phase = "stopping" /\ up = 3
        /\ StopTurn("schedulers") => phase = "stopping" /\ up = 5
        /\ StopTurn("http") => phase = "stopping" /\ up = 6
        /\ StopTurn("reload") => phase = "stopping" /\ up = 7
        /\ StopTurn("systemd") => phase = "stopping" /\ up = 8
    <2>1. up \in 0 .. 8
      BY DEF Life
    <2>2. QED BY <2>1, HookIndex DEF StopTurn
  <1>1. CASE UNCHANGED vars
    BY <1>1, LifeFrame DEF vars, lifeView
  <1>2. CASE StartOther
    <2>1. /\ phase = "starting" /\ up \in {0, 1, 3} /\ phase' = phase /\ up' = up + 1
          /\ UNCHANGED <<notified, bgp, server, started, cancelled>>
      BY <1>2, <1>a, HookCount DEF StartOther, Started
    <2>2. QED BY <2>1 DEF Life, Up
  <1>3. CASE StartBGP
    <2>1. /\ phase = "starting" /\ up = 2 /\ phase' = phase /\ up' = 3 /\ bgp' = "on"
          /\ UNCHANGED <<notified, server, started, cancelled>>
      BY <1>3, <1>a, HookCount DEF StartBGP, Started
    <2>2. QED BY <2>1 DEF Life, Up
  <1>4. CASE StartSchedulers
    <2>1. /\ phase = "starting" /\ up = 4 /\ phase' = phase /\ up' = 5
          /\ UNCHANGED <<notified, bgp, server, cancelled>>
      BY <1>4, <1>a, HookCount DEF StartSchedulers, Started
    <2>2. started' = TRUE
      BY <1>4 DEF StartSchedulers, SetReg, Reg!Start, reg
    <2>3. QED BY <2>1, <2>2 DEF Life, Up
  <1>5. CASE StartHTTP
    <2>1. /\ phase = "starting" /\ up = 5 /\ phase' = phase /\ up' = 6 /\ server' = "serving"
          /\ UNCHANGED <<notified, bgp, started, cancelled>>
      BY <1>5, <1>a, HookCount DEF StartHTTP, Started
    <2>2. QED BY <2>1 DEF Life, Up
  <1>6. CASE StartReload
    <2>1. /\ phase = "starting" /\ up = 6 /\ phase' = phase /\ up' = 7
          /\ UNCHANGED <<notified, bgp, server, started, cancelled>>
      BY <1>6, <1>a, HookCount DEF StartReload, Started
    <2>2. QED BY <2>1 DEF Life, Up
  <1>7. CASE StartSystemd
    <2>1. /\ phase = "starting" /\ up = 7 /\ phase' = "running" /\ up' = 8 /\ notified' = "ready"
          /\ UNCHANGED <<bgp, server, started, cancelled>>
      BY <1>7, <1>a, HookCount DEF StartSystemd, Started
    <2>2. QED BY <2>1 DEF Life, Up
  <1>8. CASE StartFails
    <2>1. phase = "starting" /\ phase' = "stopping" /\ UNCHANGED <<up, notified>>
      BY <1>8 DEF StartFails, Turn
    <2>2. QED BY <2>1 DEF Life, Up
  <1>9. CASE Shutdown
    <2>1. phase = "running" /\ phase' = "stopping" /\ UNCHANGED <<up, notified, bgp, server, started, cancelled>>
      BY <1>9 DEF Shutdown
    <2>2. QED BY <2>1 DEF Life, Up
  <1>10. CASE ServeFails
    <2>1. server = "serving" /\ server' = "failed" /\ UNCHANGED <<phase, up, notified, bgp, started, cancelled>>
      BY <1>10 DEF ServeFails
    <2>2. QED BY <2>1 DEF Life, Up
  <1>11. CASE StopOther
    <2>1. phase = "stopping" /\ up \in {2, 4} /\ phase' = phase /\ up' = up - 1 /\ notified' = notified
      BY <1>11, <1>b DEF StopOther
    <2>2. QED BY <2>1 DEF Life, Up
  <1>12. CASE StopSystemd
    <2>1. phase = "stopping" /\ up = 8 /\ phase' = phase /\ up' = 7 /\ notified' = "stopping"
      BY <1>12, <1>b DEF StopSystemd
    <2>2. QED BY <2>1 DEF Life, Up
  <1>13. CASE CancelReload \/ CloseHTTP \/ StopRegistry
    <2>1. phase = "stopping" /\ up \in {5, 6, 7} /\ UNCHANGED <<phase, up, notified>>
      BY <1>13, <1>b DEF CancelReload, CloseHTTP, StopRegistry
    <2>2. QED BY <2>1 DEF Life, Up
  <1>14. CASE StopTelemetry \/ StopReload \/ StopHTTP \/ StopSchedulers \/ StopBGP
    <2>1. phase = "stopping" /\ up \in {1, 3, 5, 6, 7} /\ up' = up - 1 /\ UNCHANGED <<phase, notified>>
      BY <1>14, <1>b DEF StopTelemetry, StopReload, StopHTTP, StopSchedulers, StopBGP
    <2>2. QED BY <2>1 DEF Life, Up
  <1>15. CASE Return
    <2>1. phase' = "exited" /\ up' = up
      BY <1>15 DEF Return
    <2>2. QED BY <2>1 DEF Life
  <1>16. CASE StartTimeout \/ StopTimeout \/ Hup
    <2>1. ASSUME NEW c, Dies(c) PROVE Life'
      <3>1. phase' = "exited" /\ up' = 0
        BY <2>1 DEF Dies
      <3>2. QED BY <3>1 DEF Life
    <2>2. QED BY <1>16, <2>1, LifeFrame DEF StartTimeout, StopTimeout, Hup, lifeView
  <1>17. CASE \E s \in Live : Tick(s) \/ Trigger(s) \/ Result(s) \/ LoopExits(s)
    BY <1>17, LifeFrame DEF Tick, Trigger, Result, LoopExits, lifeView
  <1>18. CASE TakeHup \/ Post \/ EditFile \/ NotifyOther
    BY <1>18, LifeFrame DEF TakeHup, Post, EditFile, NotifyOther, lifeView
  <1>19. CASE \E who \in {"hup", "loop"} : Gone(who)
    BY <1>19, LifeFrame DEF Gone, lifeView
  <1>20. CASE \E who \in {"hup", "http", "loop"} : Notify(who)
    BY <1>20, LifeFrame DEF Notify, lifeView
  <1>21. CASE \E who \in {"hup", "http"} : Reloads(who)
    BY <1>21, LifeFrame DEF Reloads, LoadFails, Unchanged, RestartRequired, BuildFails, Ends, Apply, lifeView
  <1>22. CASE DoRemove \/ DoWithdraw \/ DoAdd \/ DoStage \/ DoPromote
    <2>1. started' = started
      <3>1. CASE DoRemove
        BY <3>1, StartedKept DEF DoRemove, SetReg
      <3>2. CASE DoWithdraw
        BY <3>2, StartedKept DEF DoWithdraw, SetReg
      <3>3. CASE DoAdd
        BY <3>3, StartedKeptByNew DEF DoAdd, SetReg
      <3>4. CASE DoStage
        BY <3>4, StartedKeptByNew DEF DoStage, SetReg
      <3>5. CASE DoPromote
        BY <3>5, StartedKept DEF DoPromote, SetReg
      <3>6. QED BY <1>22, <3>1, <3>2, <3>3, <3>4, <3>5
    <2>2. QED BY <1>22, <2>1, LifeFrame DEF DoRemove, DoWithdraw, DoAdd, DoStage, DoPromote, lifeView
  <1>23. CASE DoWait \/ DoCommit \/ DoAttach \/ Applied \/ Committed
    BY <1>23, LifeFrame DEF DoWait, DoCommit, DoAttach, Applied, Committed, lifeView
  <1>24. CASE Loop
    BY <1>24, LifeFrame DEF Loop, Wake, PollTick, commitReady, commitLocked, expireStaged,
                            ReadFile, CompareFile, SetFileChanged, lifeView
  <1>25. QED
    BY <1>1, <1>2, <1>3, <1>4, <1>5, <1>6, <1>7, <1>8, <1>9, <1>10, <1>11, <1>12, <1>13, <1>14,
       <1>15, <1>16, <1>17, <1>18, <1>19, <1>20, <1>21, <1>22, <1>23, <1>24
       DEF Next, Main, Holder, Exited

LEMMA InitLife == Init => Life
  <1>1. Init => phase = "starting" /\ up = 0 /\ notified # "ready" /\ cancelled = FALSE
    BY DEF Init
  <1>2. QED BY <1>1 DEF Life

(***************************************************************************)
(* READY=1 stands only while BGP, the schedulers, the API and the reload   *)
(* loop are all started, whenever start or stop are interrupted.           *)
(***************************************************************************)
THEOREM ReadyIsTrue == Spec => []ReadyMeansUp
  <1>1. Life => ReadyMeansUp
    BY HookCount DEF Life, Up, ReadyMeansUp, Alive
  <1>2. QED BY <1>1, InitLife, LifeStep, PTL DEF Spec
=============================================================================
