-------------------------------- MODULE Warp --------------------------------
(* The WARP tunnel: warp/manager.py with its health monitor, over the        *)
(* interface and the routes of the host and the row of warp_settings.  The    *)
(* calls of an administrator hold the manager's lock; stepsLeft is what is left of *)
(* the one that has it.  The monitor runs beside them, without the lock.      *)
EXTENDS Integers, Sequences, TLC

CONSTANTS FailThreshold, RecoverThreshold, MaxWarpCrashes

ASSUME WarpBounds ==
    FailThreshold \in Nat \ {0} /\ RecoverThreshold \in Nat \ {0} /\ MaxWarpCrashes \in Nat

VARIABLES stepsLeft, again,          \* steps left of the call; it is to end with the module running
          running,              \* WarpManager._running
          watch,                \* the monitor: off, sleep, flip, update
          belief, seen,         \* its _routes_active, and the answer of its last probe
          fails, oks,           \* its streaks, up to the thresholds
          enabled, config, row, \* warp_settings
          iface, routes, late,  \* the host, and route helpers nobody waits for any more
          alive,                \* whether a probe of the tunnel succeeds
          warpUp, resets,       \* the process runs; it resets the row when it starts
          warpCrashes,
          tunnelHurt, lost            \* history: a helper failed; a call ended by anything else

warpCall == <<stepsLeft, again>>
monitor == <<watch, belief, seen, fails, oks>>
warpDb == <<enabled, config, row>>
host == <<iface, routes, late>>
warpProcess == <<warpUp, resets, warpCrashes>>
warpVars == <<warpCall, running, monitor, warpDb, host, alive, warpProcess, tunnelHurt, lost>>

Down == [up |-> FALSE, routes |-> FALSE]

WarpInit ==
    /\ stepsLeft = <<>> /\ again = FALSE /\ running = FALSE
    /\ watch = "off" /\ belief = FALSE /\ seen = FALSE /\ fails = 0 /\ oks = 0
    /\ enabled = FALSE /\ config = FALSE /\ row = Down
    /\ iface = "down" /\ routes = FALSE /\ late = {} /\ alive = TRUE
    /\ warpUp = TRUE /\ resets \in BOOLEAN /\ warpCrashes = 0
    /\ tunnelHurt = FALSE /\ lost = FALSE

-----------------------------------------------------------------------------
(* The calls.                                                                *)

StartSteps == <<"check", "clean", "up", "add", "save", "watch">>
StopSteps == <<"cancel", "unroute", "down", "stopped">>
IfRunning(steps) == IF running THEN steps ELSE <<>>

StepsOf ==
    [start   |-> StartSteps,
     stop    |-> StopSteps,
     enable  |-> StartSteps \o <<"enabled">>,
     disable |-> StopSteps \o <<"disabled">>,
     restart |-> StopSteps \o StartSteps,
     install |-> IfRunning(StopSteps) \o <<"install", "config">> \o IfRunning(StartSteps),
     delete  |-> StopSteps \o <<"remove", "disabled", "clear">>]

AskWarp(name) ==
    /\ warpUp /\ stepsLeft = <<>>
    /\ stepsLeft' = StepsOf[name] /\ again' = (name = "install" /\ running)
    /\ UNCHANGED <<running, monitor, warpDb, host, alive, warpProcess, tunnelHurt, lost>>

AtStep(s) == stepsLeft # <<>> /\ Head(stepsLeft) = s
Go == stepsLeft' = Tail(stepsLeft) /\ UNCHANGED again

Raise == stepsLeft' = <<>> /\ again' = FALSE

\* A route helper does its work, or fails without it, or (a timeout) is left to do it later.
Route(op) ==
    \/ routes' = (op = "add" /\ iface = "up") /\ UNCHANGED <<late, tunnelHurt>>
    \/ tunnelHurt' = TRUE /\ UNCHANGED routes /\ late' \in {late, late \union {op}}

-----------------------------------------------------------------------------
(* _start_locked                                                             *)

\* Running already: the rest of the start is skipped.
CheckSetup ==
    /\ AtStep("check")
    /\ \/ running /\ stepsLeft' = SubSeq(stepsLeft, Len(StartSteps) + 1, Len(stepsLeft)) /\ UNCHANGED again
       \/ ~running /\ config /\ Go
       \/ ~running /\ ~config /\ Raise
    /\ UNCHANGED <<running, monitor, warpDb, host, alive, warpProcess, tunnelHurt, lost>>

\* What an earlier run left is taken down, and the answer not looked at.
Clean ==
    /\ AtStep("clean") /\ Go
    /\ \/ iface' = "down" /\ routes' = FALSE /\ UNCHANGED tunnelHurt
       \/ iface = "up" /\ tunnelHurt' = TRUE /\ UNCHANGED <<iface, routes>>
    /\ UNCHANGED <<running, monitor, warpDb, late, alive, warpProcess, lost>>

\* Mutant: an interface that came up half way stays so.
BringUpHalf ==
    /\ AtStep("up")
    /\ \/ iface = "down" /\ iface' = "up" /\ Go
       \/ iface = "down" /\ iface' = "half" /\ Raise
    /\ UNCHANGED <<running, monitor, warpDb, routes, late, alive, warpProcess, tunnelHurt, lost>>

BringUp ==
    /\ AtStep("up")
    /\ \/ iface = "down" /\ iface' = "up" /\ Go /\ UNCHANGED tunnelHurt
       \/ Raise /\ UNCHANGED <<iface, tunnelHurt>>
       \/ Raise /\ iface' = "up" /\ tunnelHurt' = TRUE
    /\ UNCHANGED <<running, monitor, warpDb, routes, late, alive, warpProcess, lost>>

AddRoutes ==
    /\ AtStep("add") /\ Go /\ Route("add")
    /\ running' = TRUE /\ belief' = routes'
    /\ UNCHANGED <<watch, seen, fails, oks, warpDb, iface, alive, warpProcess, lost>>

RowWriteRaised == Raise /\ lost' = TRUE

Save ==
    /\ AtStep("save")
    /\ \/ Go /\ row' = [up |-> TRUE, routes |-> belief] /\ UNCHANGED lost
       \/ RowWriteRaised /\ UNCHANGED row
    /\ UNCHANGED <<running, monitor, enabled, config, host, alive, warpProcess, tunnelHurt>>

StartMonitor ==
    /\ AtStep("watch") /\ Go
    /\ watch' = "sleep" /\ fails' = 0 /\ oks' = 0
    /\ UNCHANGED <<running, belief, seen, warpDb, host, alive, warpProcess, tunnelHurt, lost>>

-----------------------------------------------------------------------------
(* _stop_locked                                                              *)

\* What the monitor knew goes with it.
Forgotten == belief' = FALSE /\ seen' = FALSE /\ fails' = 0 /\ oks' = 0

\* Mutant: the monitor is cancelled and not awaited.
CancelNoAwait ==
    /\ AtStep("cancel") /\ Go
    /\ UNCHANGED <<running, monitor, warpDb, host, alive, warpProcess, tunnelHurt, lost>>

\* The monitor is cancelled and awaited.  A helper it was waiting for goes on.
CancelMonitor ==
    /\ AtStep("cancel") /\ Go /\ watch' = "off"
    /\ late' = late \union (IF watch = "flip" THEN {IF belief THEN "del" ELSE "add"} ELSE {})
    /\ tunnelHurt' = (tunnelHurt \/ watch = "flip")
    /\ row' \in {row} \union (IF watch = "update" THEN {[up |-> seen, routes |-> belief]} ELSE {})
    /\ Forgotten
    /\ UNCHANGED <<running, enabled, config, iface, routes, alive, warpProcess, lost>>

Unroute ==
    /\ AtStep("unroute") /\ Go
    /\ IF running THEN Route("del") ELSE UNCHANGED <<routes, late, tunnelHurt>>
    /\ UNCHANGED <<running, monitor, warpDb, iface, alive, warpProcess, lost>>

TakeDown ==
    /\ AtStep("down") /\ Go
    /\ \/ running /\ iface' = "down" /\ routes' = FALSE /\ UNCHANGED tunnelHurt
       \/ running /\ tunnelHurt' = TRUE /\ UNCHANGED <<iface, routes>>
       \/ ~running /\ UNCHANGED <<iface, routes, tunnelHurt>>
    /\ UNCHANGED <<running, monitor, warpDb, late, alive, warpProcess, lost>>

Stopped ==
    /\ AtStep("stopped") /\ running' = FALSE
    /\ \/ Go /\ row' = Down /\ UNCHANGED lost
       \/ RowWriteRaised /\ UNCHANGED row
    /\ UNCHANGED <<monitor, enabled, config, host, alive, warpProcess, tunnelHurt>>

-----------------------------------------------------------------------------
(* The rest of the calls.                                                    *)

SetEnabled ==
    /\ AtStep("enabled") \/ AtStep("disabled")
    /\ \/ Go /\ enabled' = AtStep("enabled") /\ UNCHANGED lost
       \/ RowWriteRaised /\ UNCHANGED enabled
    /\ UNCHANGED <<running, monitor, config, row, host, alive, warpProcess, tunnelHurt>>

\* When the helper refuses the config, a module that was running is started again; any
\* other failure (the staging file) leaves it stopped.
Install ==
    /\ AtStep("install")
    /\ \/ Go /\ UNCHANGED lost
       \/ stepsLeft' = (IF again THEN StartSteps ELSE <<>>) /\ UNCHANGED <<again, lost>>
       \/ RowWriteRaised
    /\ UNCHANGED <<running, monitor, warpDb, host, alive, warpProcess, tunnelHurt>>

\* update_config counts at least one route; clear_config sets the count to zero.
SetConfig ==
    /\ AtStep("config") \/ AtStep("clear")
    /\ \/ Go /\ config' = AtStep("config") /\ UNCHANGED lost
       \/ RowWriteRaised /\ UNCHANGED config
    /\ UNCHANGED <<running, monitor, enabled, row, host, alive, warpProcess, tunnelHurt>>

RemoveFiles ==
    /\ AtStep("remove") /\ (Go \/ Raise)
    /\ UNCHANGED <<running, monitor, warpDb, host, alive, warpProcess, tunnelHurt, lost>>

Step ==
    \/ CheckSetup \/ Clean \/ BringUp \/ AddRoutes \/ Save \/ StartMonitor
    \/ CancelMonitor \/ Unroute \/ TakeDown \/ Stopped
    \/ SetEnabled \/ Install \/ SetConfig \/ RemoveFiles

-----------------------------------------------------------------------------
(* WarpHealthMonitor: check_once, again and again.                           *)

Upto(n, bound) == IF n < bound THEN n + 1 ELSE bound

\* Mutant: the count of failed probes starts again with every probe.
ProbeForgets ==
    /\ watch = "sleep" /\ seen' = alive
    /\ fails' = (IF alive THEN 0 ELSE 1) /\ oks' = (IF alive THEN 1 ELSE 0)
    /\ watch' = IF \/ belief /\ fails' >= FailThreshold
                   \/ ~belief /\ oks' >= RecoverThreshold
                THEN "flip" ELSE "update"
    /\ UNCHANGED <<warpCall, running, belief, warpDb, host, alive, warpProcess, tunnelHurt, lost>>

Probe ==
    /\ watch = "sleep" /\ seen' = alive
    /\ fails' = (IF alive THEN 0 ELSE Upto(fails, FailThreshold))
    /\ oks' = (IF alive THEN Upto(oks, RecoverThreshold) ELSE 0)
    /\ watch' = IF \/ belief /\ fails' >= FailThreshold
                   \/ ~belief /\ oks' >= RecoverThreshold
                THEN "flip" ELSE "update"
    /\ UNCHANGED <<warpCall, running, belief, warpDb, host, alive, warpProcess, tunnelHurt, lost>>

\* Whatever the helper answers, the routes count as flipped.
Flip ==
    /\ watch = "flip" /\ watch' = "update" /\ belief' = ~belief
    /\ Route(IF belief THEN "del" ELSE "add")
    /\ UNCHANGED <<warpCall, running, seen, fails, oks, warpDb, iface, alive, warpProcess, lost>>

Update ==
    /\ watch = "update" /\ watch' = "sleep"
    /\ row' = [up |-> seen, routes |-> belief] \/ UNCHANGED row
    /\ UNCHANGED <<warpCall, running, belief, seen, fails, oks, enabled, config, host, alive,
                   warpProcess, tunnelHurt, lost>>

Monitor == Probe \/ Flip \/ Update

-----------------------------------------------------------------------------
(* The host and the process.                                                 *)

Land(op) ==
    /\ op \in late /\ late' = late \ {op}
    /\ routes' = (op = "add" /\ iface = "up")
    /\ UNCHANGED <<warpCall, running, monitor, warpDb, iface, alive, warpProcess, tunnelHurt, lost>>

TunnelChanges ==
    /\ alive' = ~alive
    /\ UNCHANGED <<warpCall, running, monitor, warpDb, host, warpProcess, tunnelHurt, lost>>

\* A call cut off half way, or a module started without being enabled (restart, a failed
\* set_enabled), leaves an interface that the next start does not look for.
WarpCrash ==
    /\ warpUp /\ warpCrashes < MaxWarpCrashes
    /\ warpUp' = FALSE /\ warpCrashes' = warpCrashes + 1
    /\ Raise /\ running' = FALSE /\ watch' = "off" /\ Forgotten
    /\ tunnelHurt' = (tunnelHurt \/ stepsLeft # <<>> \/ watch = "flip" \/ (running /\ ~enabled))
    /\ UNCHANGED <<warpDb, host, alive, resets, lost>>

\* main(): the row is reset only when the web app is served; then an enabled module starts.
Boot ==
    /\ ~warpUp /\ warpUp' = TRUE
    /\ row' = (IF resets THEN Down ELSE row)
    /\ lost' = (lost \/ ~resets)
    /\ stepsLeft' = (IF enabled THEN StartSteps ELSE <<>>)
    /\ UNCHANGED <<again, running, monitor, enabled, config, host, alive, resets, warpCrashes, tunnelHurt>>

WarpNext ==
    \/ \E name \in DOMAIN StepsOf : AskWarp(name)
    \/ Step \/ Monitor \/ \E op \in late : Land(op)
    \/ TunnelChanges \/ WarpCrash \/ Boot

WarpSpec == WarpInit /\ [][WarpNext]_warpVars
WarpFairness == WF_warpVars(Step) /\ WF_warpVars(Monitor) /\ WF_warpVars(Boot)

-----------------------------------------------------------------------------
(* Properties.                                                               *)

\* The values the state of the module takes; stepsLeft is the rest of one call.
WarpTypeOK ==
    /\ {again, running, belief, seen, enabled, config, routes, alive, warpUp, resets, tunnelHurt, lost}
          \subseteq BOOLEAN
    /\ watch \in {"off", "sleep", "flip", "update"} /\ iface \in {"down", "up"}
    /\ fails \in 0 .. FailThreshold /\ oks \in 0 .. RecoverThreshold
    /\ row \in [up : BOOLEAN, routes : BOOLEAN] /\ late \subseteq {"add", "del"}
    /\ warpCrashes \in 0 .. MaxWarpCrashes /\ Len(stepsLeft) <= Len(StopSteps \o StartSteps) + 2

AtRest == warpUp /\ stepsLeft = <<>>

\* After a stop, a crash and a start, in any order: as long as no helper has failed, a
\* module that does not run has left neither its interface nor its routes on the host.
StoppedIsDown == AtRest /\ ~running /\ ~tunnelHurt => iface = "down" /\ ~routes

\* A monitor that is being stopped writes nothing after the stop: the row of a module that
\* does not run says that it is down.
StoppedRowIsDown == AtRest /\ ~running /\ ~lost => row = Down

\* A running module is watched, and what its monitor believes of the routes is so.
BeliefIsTrue ==
    AtRest /\ running /\ ~lost =>
        watch # "off" /\ (watch # "flip" /\ ~tunnelHurt => (belief <=> routes) /\ iface = "up")

\* An upload to a running module ends with the module running, with the new config or (the
\* helper refused it) the old one, unless the interface cannot be brought up again.
InstallKeepsRunning == AtRest /\ again => running

\* The calls give the lock back.
WarpReturns == []<>(stepsLeft = <<>>)

\* When the tunnel stays dead, traffic comes off it: unless a helper fails, the routes of
\* a module nobody touches any more are taken away for good.
FallsBack == <>[](~alive /\ AtRest /\ running /\ ~tunnelHurt /\ ~lost) => <>[](~routes)

\* What holds of a WARP that is at rest, whichever calls, failures, ticks of the monitor and
\* crashes came before.
WarpAtRest == StoppedIsDown /\ StoppedRowIsDown /\ BeliefIsTrue /\ InstallKeepsRunning

\* Nothing of WARP hangs: the lock comes back and a dead tunnel is left.
WarpSettles == WarpReturns /\ FallsBack
=============================================================================
