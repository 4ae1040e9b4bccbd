------------------------------ MODULE LowPower ------------------------------
(***************************************************************************)
(* The low power manager of mod/lowpower: the Run goroutine that puts the  *)
(* node to sleep and wakes it, the wake trigger that listens on the SOCKS  *)
(* address while the node sleeps, the goroutines that hand the accepted    *)
(* connections over to SOCKS, WakeLowPower, and Close racing all of them.  *)
(*                                                                         *)
(* The node behind NodeControlInterface is reduced to what the manager can *)
(* tell apart: whether its components are up, the state of the channel     *)
(* socksReadyCh, and what a start over a running node leaves of it.  The   *)
(* inside of startComponents and stopComponents, and a core that hangs in  *)
(* them, are the subject of module Components; here they return, with the  *)
(* one exception of a rollback that waits for goroutines it did not stop.  *)
(***************************************************************************)
EXTENDS Integers

CONSTANTS
    Conns,          \* clients that may connect to the SOCKS address
    HasSocks,       \* ConfigObj.SocksAddr # ""
    IdleTimeout,    \* lowpower.ConfigObj.IdleTimeout, in seconds
    CheckInterval,  \* idleCheckInterval, in seconds
    MaxActive       \* bound on the tracked connections of the environment

ASSUME LowPowerAssumption ==
    /\ HasSocks \in BOOLEAN
    /\ IdleTimeout \in Nat \ {0}    \* NewManager replaces a value <= 0
    /\ CheckInterval \in Nat \ {0}
    /\ MaxActive \in Nat \ {0}

VARIABLES
    state,      \* ManagerObj.state
    run,        \* where the Run goroutine is
    wakeCh,     \* TRUE: the one-slot channel wakeCh holds a request
    ctxDone,    \* the manager's context is cancelled
    idle,       \* idleSeconds(), saturated one interval above IdleTimeout
    phase,      \* seconds since the ticker last fired
    tickC,      \* a tick is buffered in ticker.C
    listener,   \* wakeTrigger.listener # nil
    triggerErr, \* the last startWakeTrigger returned an error
    conn,       \* each client connection, from Accept to the end of its handler
    held,       \* the readiness channel the handler's select evaluated
    readyCh,    \* Obj.socksReadyCh
    up,         \* the node's components are running
    stray,      \* what is left of a node that another one was started over
    active,     \* connCounter: tracked connections
    waker,      \* a caller of WakeLowPower
    closer      \* the caller of Obj.Close

runVars  == <<state, run, wakeCh>>
timeVars == <<idle, phase, tickC>>
trigVars == <<listener, triggerErr>>
connVars == <<conn, held>>
nodeVars == <<readyCh, up, stray, active>>
vars == <<state, run, wakeCh, ctxDone, idle, phase, tickC, listener,
          triggerErr, conn, held, readyCh, up, stray, active, waker, closer>>

States == {"FullPower", "Stopping", "LowPower", "Starting"}
RunPCs == {"select", "stopping", "trigger", "restart", "restarting", "drain",
           "waking", "start", "starting", "rollback", "retrigger", "exit"}

\* "accepted": returned by Accept of the current listener, not yet checked;
\* "stale": the same, but that listener has since been closed.
ConnPCs == {"out", "accepted", "stale", "signal", "fetch", "wait", "dial", "proxy"}

\* A channel a handler waits on is nil, already closed, the node's current one,
\* or an earlier one that was never closed and never will be.
Channels == {"none", "nil", "closed", "current", "orphan"}

\* A start over a running node overwrites Obj.Core: nobody stops that core and its
\* netstack any more.  The monitor and the mappings of the old generation keep
\* running, unless they have ended of themselves or there were none.
Strays == {"none", "core", "goroutines"}

\* The connections counted by wakeTrigger.wg.
Handling == {"signal", "fetch", "wait", "dial", "proxy"}

SocksUp == up /\ HasSocks

IsLowPower == state \in {"LowPower", "Stopping"}

Init ==
    /\ state = "FullPower"
    /\ run = "select"
    /\ wakeCh = FALSE
    /\ ctxDone = FALSE
    /\ idle = 0
    /\ phase = 0
    /\ tickC = FALSE
    /\ listener = FALSE
    /\ triggerErr = FALSE
    /\ conn = [c \in Conns |-> "out"]
    /\ held = [c \in Conns |-> "none"]
    /\ readyCh = "nil"        \* New does not create the channel
    /\ up = TRUE
    /\ stray = "none"
    /\ active = 0
    /\ waker = "idle"
    /\ closer = "open"

-----------------------------------------------------------------------------
(* The operations of the node and of the wake trigger that several         *)
(* goroutines call.                                                        *)

\* startComponents replaces the readiness channel ...
StartComponentsBegin ==
    /\ readyCh' = IF HasSocks THEN "open" ELSE readyCh
    /\ held' = [c \in Conns |-> IF HasSocks /\ held[c] = "current"
                                THEN "orphan" ELSE held[c]]
    /\ UNCHANGED <<up, stray, active>>

\* ... and StartSocks closes it once it listens.  The address must be free.
StartComponentsOk ==
    /\ ~SocksUp
    /\ up' = TRUE
    /\ readyCh' = IF HasSocks THEN "closed" ELSE readyCh
    /\ held' = [c \in Conns |-> IF held[c] = "current" THEN "closed" ELSE held[c]]
    /\ UNCHANGED <<stray, active>>

\* A failed start rolls back what the fields of Obj name and cancels the context
\* of its own generation.  Over a running node that closes the old SOCKS listener,
\* and leaves the old core and what serves the old generation.
StartComponentsFail ==
    /\ up' = FALSE
    /\ stray' \in IF up THEN {"core", "goroutines"} ELSE {stray}
    /\ UNCHANGED <<readyCh, held, active>>

\* Only Close stops components with goroutines of an earlier generation about: it
\* has cancelled o.ctx, and it closes the listeners registered with AddCloser.
StopComponents ==
    /\ up' = FALSE
    /\ stray' = IF stray = "goroutines" THEN "core" ELSE stray
    /\ UNCHANGED <<readyCh, held, active>>

StartWakeTrigger ==
    /\ listener' = TRUE
    /\ triggerErr' = FALSE

StartWakeTriggerFails ==
    /\ triggerErr' = TRUE
    /\ UNCHANGED listener

CloseWakeListener ==
    /\ listener' = FALSE
    /\ conn' = [c \in Conns |-> IF conn[c] = "accepted" THEN "stale" ELSE conn[c]]
    /\ UNCHANGED triggerErr

-----------------------------------------------------------------------------
(* Run: the select loop.                                                   *)

\* The head of doTransitionToFullPower.
BeginWake ==
    /\ state' = "Starting"
    /\ run' = "waking"

RunExit ==
    /\ run = "select" /\ ctxDone
    /\ run' = "exit"
    /\ UNCHANGED <<state, wakeCh, ctxDone, timeVars, trigVars, connVars, nodeVars,
                   waker, closer>>

\* Mutant: the request is served without looking at the state.
RunWakeAlways ==
    /\ run = "select" /\ wakeCh
    /\ wakeCh' = FALSE
    /\ BeginWake
    /\ UNCHANGED <<ctxDone, timeVars, trigVars, connVars, nodeVars, waker, closer>>

RunWake ==
    /\ run = "select" /\ wakeCh
    /\ wakeCh' = FALSE
    /\ IF state # "FullPower" THEN BeginWake ELSE UNCHANGED <<state, run>>
    /\ UNCHANGED <<ctxDone, timeVars, trigVars, connVars, nodeVars, waker, closer>>

TakeTick ==
    /\ run = "select" /\ tickC
    /\ tickC' = FALSE
    /\ UNCHANGED <<phase, wakeCh, ctxDone, trigVars, connVars, nodeVars, waker, closer>>

TickAsleep ==
    /\ TakeTick
    /\ state # "FullPower"
    /\ UNCHANGED <<state, run, idle>>

\* Mutant: the tick that sees a connection does not call touchActivity.
TickBusyNoTouch ==
    /\ TakeTick
    /\ state = "FullPower"
    /\ active > 0
    /\ UNCHANGED <<state, run, idle>>

TickBusy ==
    /\ TakeTick
    /\ state = "FullPower"
    /\ active > 0
    /\ idle' = 0
    /\ UNCHANGED <<state, run>>

TickEarly ==
    /\ TakeTick
    /\ state = "FullPower"
    /\ active = 0
    /\ idle < IdleTimeout
    /\ UNCHANGED <<state, run, idle>>

\* Mutant: the comparison with IdleTimeout is strict, idleSeconds() > IdleTimeout.
TickSleepStrict ==
    /\ TakeTick
    /\ state = "FullPower"
    /\ active = 0
    /\ IF idle > IdleTimeout
       THEN state' = "Stopping" /\ run' = "stopping"
       ELSE UNCHANGED <<state, run>>
    /\ UNCHANGED idle

\* The decision to sleep and the head of transitionToLowPower.
TickSleep ==
    /\ TakeTick
    /\ state = "FullPower"
    /\ active = 0
    /\ idle >= IdleTimeout
    /\ state' = "Stopping"
    /\ run' = "stopping"
    /\ UNCHANGED idle

-----------------------------------------------------------------------------
(* Run: transitionToLowPower.                                              *)

SleepStop ==
    /\ run = "stopping"
    /\ StopComponents
    /\ IF HasSocks
       THEN run' = "trigger" /\ UNCHANGED state
       ELSE run' = "drain" /\ state' = "LowPower"
    /\ UNCHANGED <<wakeCh, ctxDone, timeVars, trigVars, conn, waker, closer>>

SleepTrigger ==
    /\ run = "trigger"
    /\ \/ /\ StartWakeTrigger
          /\ state' = "LowPower"
          /\ run' = "drain"
       \/ /\ StartWakeTriggerFails
          /\ run' = "restart"
          /\ UNCHANGED state
    /\ UNCHANGED <<wakeCh, ctxDone, timeVars, connVars, nodeVars, waker, closer>>

RestartBegin ==
    /\ run = "restart"
    /\ StartComponentsBegin
    /\ run' = "restarting"
    /\ UNCHANGED <<state, wakeCh, ctxDone, timeVars, trigVars, conn, waker, closer>>

\* Mutant: the error of StartComponents is logged and ignored.
RestartEndIgnoresError ==
    /\ run = "restarting"
    /\ StartComponentsOk \/ StartComponentsFail
    /\ state' = "FullPower" /\ idle' = 0
    /\ run' = "drain"
    /\ UNCHANGED <<wakeCh, ctxDone, phase, tickC, trigVars, conn, waker, closer>>

RestartEnd ==
    /\ run = "restarting"
    /\ \/ StartComponentsOk /\ state' = "FullPower" /\ idle' = 0
       \/ StartComponentsFail /\ state' = "LowPower" /\ UNCHANGED idle
    /\ run' = "drain"
    /\ UNCHANGED <<wakeCh, ctxDone, phase, tickC, trigVars, conn, waker, closer>>

\* Mutant: a request that came in while stopping is thrown away.
DrainDropsRequest ==
    /\ run = "drain"
    /\ wakeCh' = FALSE
    /\ run' = "select"
    /\ UNCHANGED <<state, ctxDone, timeVars, trigVars, connVars, nodeVars, waker, closer>>

\* Back in the tick case of Run: a request that came in while stopping.
Drain ==
    /\ run = "drain"
    /\ wakeCh' = FALSE
    /\ IF wakeCh THEN BeginWake ELSE run' = "select" /\ UNCHANGED state
    /\ UNCHANGED <<ctxDone, timeVars, trigVars, connVars, nodeVars, waker, closer>>

-----------------------------------------------------------------------------
(* Run: doTransitionToFullPower.                                           *)

\* Mutant: the components are started before the wake trigger lets go.
WakeKeepsListener ==
    /\ run = "waking"
    /\ run' = "start"
    /\ UNCHANGED <<state, wakeCh, ctxDone, timeVars, trigVars, connVars, nodeVars, waker, closer>>

WakeListenerClose ==
    /\ run = "waking"
    /\ CloseWakeListener
    /\ run' = "start"
    /\ UNCHANGED <<state, wakeCh, ctxDone, timeVars, held, nodeVars, waker, closer>>

WakeBegin ==
    /\ run = "start"
    /\ StartComponentsBegin
    /\ run' = "starting"
    /\ UNCHANGED <<state, wakeCh, ctxDone, timeVars, trigVars, conn, waker, closer>>

WakeOk ==
    /\ run = "starting"
    /\ StartComponentsOk
    /\ state' = "FullPower"
    /\ idle' = 0
    /\ run' = "select"
    /\ UNCHANGED <<wakeCh, ctxDone, phase, tickC, trigVars, conn, waker, closer>>

WakeFail ==
    /\ run = "starting"
    /\ StartComponentsFail
    /\ run' = "rollback"
    /\ UNCHANGED <<state, wakeCh, ctxDone, timeVars, trigVars, conn, waker, closer>>

\* The failed start returns once componentsWg.Wait does.  The goroutines of its own
\* generation end, as their context is cancelled; those of a running node it was
\* started over do not.
WakeRolledBack ==
    /\ run = "rollback"
    /\ stray # "goroutines"
    /\ run' = "retrigger"
    /\ UNCHANGED <<state, wakeCh, ctxDone, timeVars, trigVars, connVars, nodeVars, waker, closer>>

\* Mutant: a failed start goes back to sleep without a wake trigger.
RetriggerForgotten ==
    /\ run = "retrigger"
    /\ state' = "LowPower"
    /\ run' = "select"
    /\ UNCHANGED <<wakeCh, ctxDone, timeVars, trigVars, connVars, nodeVars, waker, closer>>

Retrigger ==
    /\ run = "retrigger"
    /\ IF HasSocks THEN StartWakeTrigger \/ StartWakeTriggerFails
                   ELSE UNCHANGED trigVars
    /\ state' = "LowPower"
    /\ run' = "select"
    /\ UNCHANGED <<wakeCh, ctxDone, timeVars, connVars, nodeVars, waker, closer>>

-----------------------------------------------------------------------------
(* The wake trigger: accept loop and handleWakeConnection.                 *)

\* One goroutine per listener accepts, so it holds one unchecked connection.
Accept(c) ==
    /\ listener
    /\ conn[c] = "out"
    /\ \A d \in Conns : conn[d] # "accepted"
    /\ conn' = [conn EXCEPT ![c] = "accepted"]
    /\ UNCHANGED <<runVars, ctxDone, timeVars, trigVars, held, nodeVars, waker, closer>>

\* The check under wakeTrigger.mu before wg.Add.
CheckListener(c) ==
    /\ conn[c] \in {"accepted", "stale"}
    /\ conn' = [conn EXCEPT ![c] = IF listener THEN "signal" ELSE "out"]
    /\ UNCHANGED <<runVars, ctxDone, timeVars, trigVars, held, nodeVars, waker, closer>>

HandlerSignal(c) ==
    /\ conn[c] = "signal"
    /\ wakeCh' = TRUE
    /\ conn' = [conn EXCEPT ![c] = "fetch"]
    /\ UNCHANGED <<state, run, ctxDone, timeVars, trigVars, held, nodeVars, waker, closer>>

\* The select evaluates SocksReadyCh() once, without a lock.
HandlerFetch(c) ==
    /\ conn[c] = "fetch"
    /\ held' = [held EXCEPT ![c] = CASE readyCh = "nil"    -> "nil"
                                     [] readyCh = "open"   -> "current"
                                     [] readyCh = "closed" -> "closed"]
    /\ conn' = [conn EXCEPT ![c] = "wait"]
    /\ UNCHANGED <<runVars, ctxDone, timeVars, trigVars, nodeVars, waker, closer>>

HandlerReady(c) ==
    /\ conn[c] = "wait" /\ held[c] = "closed"
    /\ conn' = [conn EXCEPT ![c] = "dial"]
    /\ held' = [held EXCEPT ![c] = "none"]
    /\ UNCHANGED <<runVars, ctxDone, timeVars, trigVars, nodeVars, waker, closer>>

\* Mutant: the select has no timeout case.
HandlerWaitsForever(c) ==
    /\ conn[c] = "wait" /\ ctxDone
    /\ conn' = [conn EXCEPT ![c] = "out"]
    /\ held' = [held EXCEPT ![c] = "none"]
    /\ UNCHANGED <<runVars, ctxDone, timeVars, trigVars, nodeVars, waker, closer>>

\* time.After(socksWaitTimeout), or m.ctx.Done(): the connection is dropped.
HandlerGiveUp(c) ==
    /\ conn[c] = "wait"
    /\ conn' = [conn EXCEPT ![c] = "out"]
    /\ held' = [held EXCEPT ![c] = "none"]
    /\ UNCHANGED <<runVars, ctxDone, timeVars, trigVars, nodeVars, waker, closer>>

\* The dial reaches SOCKS; or the wake trigger, when that listens again on the
\* same address, and Accept may take the handler's own connection; or nobody.
HandlerDial(c) ==
    /\ conn[c] = "dial"
    /\ conn' = [conn EXCEPT ![c] = IF SocksUp \/ listener THEN "proxy" ELSE "out"]
    /\ UNCHANGED <<runVars, ctxDone, timeVars, trigVars, held, nodeVars, waker, closer>>

\* ProxyTCP returns: one end closed, or the watcher closed both on ctx.Done().
ProxyEnd(c) ==
    /\ conn[c] = "proxy"
    /\ conn' = [conn EXCEPT ![c] = "out"]
    /\ UNCHANGED <<runVars, ctxDone, timeVars, trigVars, held, nodeVars, waker, closer>>

\* Mutant: nothing closes the connections of a proxy when the context ends.
HandlerStepNoWatcher(c) ==
    \/ CheckListener(c)
    \/ HandlerSignal(c)
    \/ HandlerFetch(c)
    \/ HandlerReady(c)
    \/ HandlerGiveUp(c)
    \/ HandlerDial(c)

\* What a handler does of itself; the last disjunct is the goroutine that closes
\* both connections when the context is cancelled.
HandlerStep(c) ==
    \/ CheckListener(c)
    \/ HandlerSignal(c)
    \/ HandlerFetch(c)
    \/ HandlerReady(c)
    \/ HandlerGiveUp(c)
    \/ HandlerDial(c)
    \/ ctxDone /\ ProxyEnd(c)

-----------------------------------------------------------------------------
(* Obj.WakeLowPower, Obj.Close, tracked connections and the clock.         *)

WakeLowPowerCheck ==
    /\ waker = "idle" /\ IsLowPower
    /\ waker' = "send"
    /\ UNCHANGED <<runVars, ctxDone, timeVars, trigVars, connVars, nodeVars, closer>>

TransitionToFullPower ==
    /\ waker = "send"
    /\ waker' = "idle"
    /\ wakeCh' = TRUE
    /\ UNCHANGED <<state, run, ctxDone, timeVars, trigVars, connVars, nodeVars, closer>>

\* Close cancels the context (or the caller's context is cancelled and the
\* goroutine waiting for it calls Close), then stops the manager, then the node.
CloseCancel ==
    /\ closer = "open"
    /\ ctxDone' = TRUE
    /\ closer' = "stop"
    /\ UNCHANGED <<runVars, timeVars, trigVars, connVars, nodeVars, waker>>

CloseStopTrigger ==
    /\ closer = "stop"
    /\ CloseWakeListener
    /\ closer' = "wait"
    /\ UNCHANGED <<runVars, ctxDone, timeVars, held, nodeVars, waker>>

CloseWaitHandlers ==
    /\ closer = "wait"
    /\ \A c \in Conns : conn[c] \notin Handling
    /\ closer' = "comps"
    /\ UNCHANGED <<runVars, ctxDone, timeVars, trigVars, connVars, nodeVars, waker>>

\* startComponents holds componentsMu until it fails, and lets go of it to wait.
CloseStopComponents ==
    /\ closer = "comps"
    /\ run \notin {"starting", "restarting"}
    /\ StopComponents
    /\ closer' = "done"
    /\ UNCHANGED <<runVars, ctxDone, timeVars, trigVars, conn, waker>>

\* A mapping that is left running fetched its netstack when it was started.
ConnectionOpened ==
    /\ up \/ stray = "goroutines"
    /\ active < MaxActive
    /\ active' = active + 1
    /\ UNCHANGED <<runVars, ctxDone, timeVars, trigVars, connVars, readyCh, up, stray, waker, closer>>

\* Mutant: Close of a tracked connection decrements each time it is called.
ConnectionClosedAgain ==
    /\ active' = active - 1
    /\ UNCHANGED <<runVars, ctxDone, timeVars, trigVars, connVars, readyCh, up, stray, waker, closer>>

ConnectionClosed ==
    /\ active > 0
    /\ active' = active - 1
    /\ UNCHANGED <<runVars, ctxDone, timeVars, trigVars, connVars, readyCh, up, stray, waker, closer>>

\* The goroutines that were left running end of themselves: an Accept fails for good.
StrayEnds ==
    /\ stray = "goroutines"
    /\ stray' = "core"
    /\ UNCHANGED <<runVars, ctxDone, timeVars, trigVars, connVars, readyCh, up, active, waker, closer>>

\* A second passes.  Stopping and starting the node take time; the rest of Run
\* does not: a buffered tick is taken before another second is over.
Pass ==
    /\ ~(run = "select" /\ tickC)
    /\ run # "drain"
    /\ phase' = IF phase + 1 < CheckInterval THEN phase + 1 ELSE 0
    /\ tickC' = (tickC \/ phase' = 0)
    /\ idle' = IF idle < IdleTimeout + CheckInterval THEN idle + 1 ELSE idle
    /\ UNCHANGED <<runVars, ctxDone, trigVars, connVars, nodeVars, waker, closer>>

-----------------------------------------------------------------------------
RunTick == TickAsleep \/ TickBusy \/ TickEarly \/ TickSleep

RunTransition ==
    \/ SleepStop \/ SleepTrigger \/ RestartBegin \/ RestartEnd \/ Drain
    \/ WakeListenerClose \/ WakeBegin \/ WakeOk \/ WakeFail
    \/ WakeRolledBack \/ Retrigger

Untimed ==
    \/ RunExit \/ RunWake \/ RunTick \/ RunTransition
    \/ \E c \in Conns : Accept(c) \/ HandlerStep(c) \/ ProxyEnd(c)
    \/ WakeLowPowerCheck \/ TransitionToFullPower
    \/ CloseCancel \/ CloseStopTrigger \/ CloseWaitHandlers \/ CloseStopComponents
    \/ ConnectionOpened \/ ConnectionClosed \/ StrayEnds

Next == Untimed \/ Pass

Spec == Init /\ [][Next]_vars

\* Goroutines that can run do run; select picks at random among its ready
\* cases, so a case that is ready again and again is taken; time passes; the
\* Done that brings wakeTrigger.wg to zero releases Wait.
Fairness ==
    /\ SF_vars(RunExit) /\ WF_vars(RunWake) /\ WF_vars(RunTick)
    /\ WF_vars(RunTransition)
    /\ \A c \in Conns : WF_vars(HandlerStep(c))
    /\ WF_vars(TransitionToFullPower)
    /\ WF_vars(CloseStopTrigger) /\ SF_vars(CloseWaitHandlers)
    /\ SF_vars(CloseStopComponents)
    /\ WF_vars(Pass)

FairSpec == Spec /\ Fairness

-----------------------------------------------------------------------------
(* Properties.                                                             *)

ManagerTypeOK ==
    /\ state \in States
    /\ run \in RunPCs
    /\ wakeCh \in BOOLEAN
    /\ ctxDone \in BOOLEAN
    /\ tickC \in BOOLEAN
    /\ listener \in BOOLEAN
    /\ triggerErr \in BOOLEAN
    /\ waker \in {"idle", "send"}
    /\ closer \in {"open", "stop", "wait", "comps", "done"}

TimeTypeOK ==
    /\ idle \in 0..(IdleTimeout + CheckInterval)
    /\ phase \in 0..(CheckInterval - 1)

NodeTypeOK ==
    /\ conn \in [Conns -> ConnPCs]
    /\ held \in [Conns -> Channels]
    /\ readyCh \in {"nil", "open", "closed"}
    /\ up \in BOOLEAN
    /\ stray \in Strays
    /\ active \in 0..MaxActive

\* Every variable keeps its type; in particular the connection counter never
\* goes below zero and the clock never above its bounds.
TypeOK == ManagerTypeOK /\ TimeTypeOK /\ NodeTypeOK

\* Between two cases of Run's select the state tells the truth about the node:
\* full power means that its components run, unless Close has stopped them, and
\* low power that neither they nor the goroutines of an earlier node serve anybody,
\* whatever failed on the way there (manager.go, transitionToLowPower and
\* doTransitionToFullPower).  It does not say that the core of a node that was
\* started over is stopped: that one is lost (stray = "core").
StateMatchesComponents ==
    run = "select" =>
        /\ state \in {"FullPower", "LowPower"}
        /\ state = "FullPower" => up \/ closer = "done"
        /\ state = "LowPower" => ~up /\ stray # "goroutines"

\* A sleeping node with a SOCKS address can be woken by connecting to it, unless
\* the operating system refused the last wake trigger or the node is closing:
\* every path into StateLowPower leaves a listener (manager.go:150-158).
AsleepIsWakeable ==
    (run = "select" /\ state = "LowPower" /\ HasSocks /\ closer = "open")
        => listener \/ triggerErr

\* SOCKS and the wake trigger never hold the address at once, so neither makes
\* the other's net.Listen fail: transitions hand the address over, whatever the
\* handlers, WakeLowPower and Close do meanwhile (closeWakeListener).
AddressExclusive == ~(SocksUp /\ listener)

\* The components are started over a node that is up in one case only: the wake
\* trigger could not listen, Run brought the node back up, and a request that came
\* in meanwhile is drained without a look at the state (manager.go:97-100).  The
\* wakeCh case of the select, however late its token, never does that.
StartOverRunningNode == run = "starting" /\ up => triggerErr

\* A wake request that finds the node asleep or going to sleep is never lost: Run
\* starts the components, or the node is closing, or it is back at full power
\* because it could not sleep.  The request is a token in
\* wakeCh, a caller of WakeLowPower past its check, or a handler about to signal.
WakeServed ==
    (IsLowPower /\ (wakeCh \/ waker = "send" \/ \E c \in Conns : conn[c] = "signal"))
        ~> (run \in {"starting", "exit"} \/ state = "FullPower")

\* A handler either drops its connection or hands it over: it waits for no more
\* than socksWaitTimeout, whichever channel it holds (handleWakeConnection).
HandlersFinish ==
    \A c \in Conns : conn[c] = "signal" ~> conn[c] \in {"out", "proxy"}

\* Once the context is cancelled Run returns and Close returns, but for what Run
\* does behind Close's back (see NothingRunsAfterClose): another wake trigger, whose
\* connections may keep Stop waiting, or components that are then started over, whose
\* mappings nobody closes any more.
ShutdownCompletes ==
    ctxDone ~> /\ run = "exit" \/ (closer = "done" /\ run = "rollback" /\ stray = "goroutines")
               /\ closer = "done" \/ (closer = "wait" /\ listener)

-----------------------------------------------------------------------------
(* What the repository says of the manager and the code does not do: a     *)
(* run that TLC must find violated.                                        *)

\* After Close the components are down (yggstack.go:122) and nothing listens on
\* the SOCKS address (manager_test.go:383).  Nobody waits for Run: it may start the
\* components, or open a wake trigger, after Close has closed the last of either.
NothingRunsAfterClose == closer = "done" => ~up /\ ~listener

=============================================================================
