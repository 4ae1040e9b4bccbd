--------------------------- MODULE LowPowerProofs ---------------------------
(***************************************************************************)
(* Proofs about LowPower, and about what IdleDetection says of it, for any *)
(* set of clients, any IdleTimeout and any CheckInterval, with and without *)
(* a SOCKS address.                                                        *)
(***************************************************************************)
EXTENDS IdleDetection, TLAPS

\* Where Run is decides what it has left of the node and of the wake trigger.
\* The invariants below speak of Run at one place, or of no place at all;
\* none is inductive without the places in between.
Control ==
    /\ run \in {"select", "drain"} =>
           /\ state \in {"FullPower", "LowPower"}
           /\ state = "FullPower" => (up \/ closer = "done") /\ ~listener
           /\ state = "LowPower" => ~up
           /\ (state = "LowPower" /\ HasSocks /\ closer = "open")
                  => listener \/ triggerErr
    /\ run = "drain" /\ state = "FullPower" => triggerErr
    /\ run = "stopping" => state = "Stopping" /\ ~listener
    /\ run \in {"trigger", "restart", "restarting"} =>
           state = "Stopping" /\ ~up /\ ~listener
    /\ run \in {"restart", "restarting"} => triggerErr
    /\ run \in {"waking", "start", "starting", "rollback", "retrigger"} => state = "Starting"
    /\ run \in {"waking", "start", "starting"} /\ up => triggerErr
    /\ run \in {"start", "starting", "rollback", "retrigger"} => ~listener
    /\ run \in {"rollback", "retrigger"} => ~up
    /\ stray = "goroutines" => run = "rollback"
    /\ listener => ~SocksUp

Inv == TypeOK /\ Control

-----------------------------------------------------------------------------
\* The initial states satisfy the inductive invariant.
LEMMA InitInv == Init => Inv
<1> SUFFICES ASSUME Init PROVE Inv
  OBVIOUS
<1>1. ManagerTypeOK
  BY Zenon DEF Init, ManagerTypeOK, States, RunPCs
<1>2. TimeTypeOK
  BY LowPowerAssumption DEF Init, TimeTypeOK
<1>3. NodeTypeOK
  BY LowPowerAssumption DEF Init, NodeTypeOK, ConnPCs, Channels, Strays
<1>4. Control
  BY Zenon DEF Init, Control
<1> QED
  BY <1>1, <1>2, <1>3, <1>4 DEF Inv, TypeOK

\* The variables of the manager, the wake trigger and Close keep their types.
LEMMA ManagerStep == TypeOK /\ [Next]_vars => ManagerTypeOK'
<1> SUFFICES ASSUME TypeOK, [Next]_vars PROVE ManagerTypeOK'
  OBVIOUS
<1> USE DEF TypeOK, ManagerTypeOK, States, RunPCs,
        runVars, timeVars, trigVars, connVars, nodeVars
<1>1. ASSUME RunTick PROVE ManagerTypeOK'
  <2>1. /\ tickC' = FALSE /\ UNCHANGED <<wakeCh, ctxDone, trigVars, waker, closer>>
        /\ \/ UNCHANGED <<state, run>>
           \/ state' = "Stopping" /\ run' = "stopping"
    BY <1>1 DEF RunTick, TickAsleep, TickBusy, TickEarly, TickSleep, TakeTick
  <2> QED
    BY <2>1
<1>2. ASSUME RunExit \/ RunWake PROVE ManagerTypeOK'
  BY <1>2 DEF RunExit, RunWake, BeginWake
<1>3. ASSUME SleepStop \/ SleepTrigger PROVE ManagerTypeOK'
  <2>1. CASE SleepStop
    BY <2>1 DEF SleepStop
  <2>2. CASE SleepTrigger
    BY <2>2 DEF SleepTrigger, StartWakeTrigger, StartWakeTriggerFails
  <2> QED
    BY <1>3, <2>1, <2>2
<1>4. ASSUME RestartBegin \/ RestartEnd PROVE ManagerTypeOK'
  <2>1. CASE RestartBegin
    BY <2>1 DEF RestartBegin
  <2>2. CASE RestartEnd
    BY <2>2 DEF RestartEnd
  <2> QED
    BY <1>4, <2>1, <2>2
<1>5. ASSUME Drain \/ WakeListenerClose \/ WakeBegin PROVE ManagerTypeOK'
  BY <1>5 DEF Drain, BeginWake, WakeListenerClose, CloseWakeListener, WakeBegin,
         StartComponentsBegin
<1>6. ASSUME WakeOk \/ WakeFail \/ WakeRolledBack \/ Retrigger PROVE ManagerTypeOK'
  BY <1>6 DEF WakeOk, WakeFail, WakeRolledBack, Retrigger, StartComponentsOk, StartComponentsFail,
         StartWakeTrigger, StartWakeTriggerFails
<1>7. ASSUME NEW c \in Conns, Accept(c) \/ HandlerStep(c) \/ ProxyEnd(c) PROVE ManagerTypeOK'
  <2>1. CASE Accept(c) \/ ProxyEnd(c)
    BY <2>1 DEF Accept, ProxyEnd
  <2>2. CASE CheckListener(c) \/ HandlerSignal(c)
    BY <2>2 DEF CheckListener, HandlerSignal
  <2>3. CASE HandlerFetch(c) \/ HandlerReady(c)
    BY <2>3 DEF HandlerFetch, HandlerReady
  <2>4. CASE HandlerGiveUp(c) \/ HandlerDial(c)
    BY <2>4 DEF HandlerGiveUp, HandlerDial
  <2> QED
    BY <1>7, <2>1, <2>2, <2>3, <2>4 DEF HandlerStep
<1>8. ASSUME WakeLowPowerCheck \/ TransitionToFullPower PROVE ManagerTypeOK'
  BY <1>8 DEF WakeLowPowerCheck, TransitionToFullPower
<1>9. ASSUME CloseCancel \/ CloseStopTrigger PROVE ManagerTypeOK'
  BY <1>9 DEF CloseCancel, CloseStopTrigger, CloseWakeListener
<1>10. ASSUME CloseWaitHandlers \/ CloseStopComponents PROVE ManagerTypeOK'
  BY <1>10 DEF CloseWaitHandlers, CloseStopComponents, StopComponents
<1>11. ASSUME ConnectionOpened \/ ConnectionClosed \/ StrayEnds \/ Pass PROVE ManagerTypeOK'
  BY <1>11 DEF ConnectionOpened, ConnectionClosed, StrayEnds, Pass
<1>12. ASSUME UNCHANGED vars PROVE ManagerTypeOK'
  BY <1>12 DEF vars
<1> QED
  BY <1>1, <1>2, <1>3, <1>4, <1>5, <1>6, <1>7, <1>8, <1>9, <1>10, <1>11, <1>12
  DEF Next, Untimed, RunTransition

\* The clock, the ticker and the idle time keep their types.
LEMMA TimeStep == TypeOK /\ [Next]_vars => TimeTypeOK'
<1> SUFFICES ASSUME TypeOK, [Next]_vars PROVE TimeTypeOK'
  OBVIOUS
<1> USE LowPowerAssumption DEF TypeOK, TimeTypeOK, NodeTypeOK,
        runVars, timeVars, trigVars, connVars, nodeVars
<1>1. ASSUME RunTick PROVE TimeTypeOK'
  BY <1>1 DEF RunTick, TickAsleep, TickBusy, TickEarly, TickSleep, TakeTick
<1>2. ASSUME RunExit \/ RunWake PROVE TimeTypeOK'
  BY <1>2 DEF RunExit, RunWake, BeginWake
<1>3. ASSUME SleepStop \/ SleepTrigger PROVE TimeTypeOK'
  BY <1>3 DEF SleepStop, SleepTrigger, StopComponents, StartWakeTrigger, StartWakeTriggerFails
<1>4. ASSUME RestartBegin \/ RestartEnd PROVE TimeTypeOK'
  BY <1>4 DEF RestartBegin, RestartEnd, StartComponentsBegin, StartComponentsOk,
         StartComponentsFail
<1>5. ASSUME Drain \/ WakeListenerClose \/ WakeBegin PROVE TimeTypeOK'
  BY <1>5 DEF Drain, BeginWake, WakeListenerClose, CloseWakeListener, WakeBegin,
         StartComponentsBegin
<1>6. ASSUME WakeOk \/ WakeFail \/ WakeRolledBack \/ Retrigger PROVE TimeTypeOK'
  BY <1>6 DEF WakeOk, WakeFail, WakeRolledBack, Retrigger, StartComponentsOk, StartComponentsFail,
         StartWakeTrigger, StartWakeTriggerFails
<1>7. ASSUME NEW c \in Conns, Accept(c) \/ HandlerStep(c) \/ ProxyEnd(c) PROVE TimeTypeOK'
  BY <1>7 DEF Accept, HandlerStep, CheckListener, HandlerSignal, HandlerFetch, HandlerReady,
         HandlerGiveUp, HandlerDial, ProxyEnd
<1>8. ASSUME WakeLowPowerCheck \/ TransitionToFullPower PROVE TimeTypeOK'
  BY <1>8 DEF WakeLowPowerCheck, TransitionToFullPower
<1>9. ASSUME CloseCancel \/ CloseStopTrigger PROVE TimeTypeOK'
  BY <1>9 DEF CloseCancel, CloseStopTrigger, CloseWakeListener
<1>10. ASSUME CloseWaitHandlers \/ CloseStopComponents PROVE TimeTypeOK'
  BY <1>10 DEF CloseWaitHandlers, CloseStopComponents, StopComponents
<1>11. ASSUME ConnectionOpened \/ ConnectionClosed \/ StrayEnds \/ Pass PROVE TimeTypeOK'
  BY <1>11 DEF ConnectionOpened, ConnectionClosed, StrayEnds, Pass
<1>12. ASSUME UNCHANGED vars PROVE TimeTypeOK'
  BY <1>12 DEF vars
<1> QED
  BY <1>1, <1>2, <1>3, <1>4, <1>5, <1>6, <1>7, <1>8, <1>9, <1>10, <1>11, <1>12
  DEF Next, Untimed, RunTransition

\* The handlers' and the node's variables keep their types.
LEMMA NodeStep == TypeOK /\ [Next]_vars => NodeTypeOK'
<1> SUFFICES ASSUME TypeOK, [Next]_vars PROVE NodeTypeOK'
  OBVIOUS
<1> USE LowPowerAssumption DEF TypeOK, NodeTypeOK, ConnPCs, Channels, Strays,
        runVars, timeVars, trigVars, connVars, nodeVars
<1>1. ASSUME RunTick PROVE NodeTypeOK'
  BY <1>1 DEF RunTick, TickAsleep, TickBusy, TickEarly, TickSleep, TakeTick
<1>2. ASSUME RunExit \/ RunWake PROVE NodeTypeOK'
  BY <1>2 DEF RunExit, RunWake, BeginWake
<1>3. ASSUME SleepStop \/ SleepTrigger PROVE NodeTypeOK'
  BY <1>3 DEF SleepStop, SleepTrigger, StopComponents, StartWakeTrigger, StartWakeTriggerFails
<1>4. ASSUME RestartBegin \/ RestartEnd PROVE NodeTypeOK'
  BY <1>4 DEF RestartBegin, RestartEnd, StartComponentsBegin, StartComponentsOk,
         StartComponentsFail
<1>5. ASSUME Drain \/ WakeListenerClose \/ WakeBegin PROVE NodeTypeOK'
  BY <1>5 DEF Drain, BeginWake, WakeListenerClose, CloseWakeListener, WakeBegin,
         StartComponentsBegin
<1>6. ASSUME WakeOk \/ WakeFail \/ WakeRolledBack \/ Retrigger PROVE NodeTypeOK'
  BY <1>6 DEF WakeOk, WakeFail, WakeRolledBack, Retrigger, StartComponentsOk, StartComponentsFail,
         StartWakeTrigger, StartWakeTriggerFails
<1>7. ASSUME NEW c \in Conns, Accept(c) \/ HandlerStep(c) \/ ProxyEnd(c) PROVE NodeTypeOK'
  BY <1>7 DEF Accept, HandlerStep, CheckListener, HandlerSignal, HandlerFetch, HandlerReady,
         HandlerGiveUp, HandlerDial, ProxyEnd
<1>8. ASSUME WakeLowPowerCheck \/ TransitionToFullPower PROVE NodeTypeOK'
  BY <1>8 DEF WakeLowPowerCheck, TransitionToFullPower
<1>9. ASSUME CloseCancel \/ CloseStopTrigger PROVE NodeTypeOK'
  BY <1>9 DEF CloseCancel, CloseStopTrigger, CloseWakeListener
<1>10. ASSUME CloseWaitHandlers \/ CloseStopComponents PROVE NodeTypeOK'
  BY <1>10 DEF CloseWaitHandlers, CloseStopComponents, StopComponents
<1>11. ASSUME ConnectionOpened \/ ConnectionClosed \/ StrayEnds \/ Pass PROVE NodeTypeOK'
  BY <1>11 DEF ConnectionOpened, ConnectionClosed, StrayEnds, Pass
<1>12. ASSUME UNCHANGED vars PROVE NodeTypeOK'
  BY <1>12 DEF vars
<1> QED
  BY <1>1, <1>2, <1>3, <1>4, <1>5, <1>6, <1>7, <1>8, <1>9, <1>10, <1>11, <1>12
  DEF Next, Untimed, RunTransition

\* Every step keeps what Control says of the place it leads to.
LEMMA ControlStep == Inv /\ [Next]_vars => Control'
<1> SUFFICES ASSUME Inv, [Next]_vars PROVE Control'
  OBVIOUS
<1> USE DEF Inv, Control, TypeOK, ManagerTypeOK, NodeTypeOK, SocksUp,
        runVars, timeVars, trigVars, connVars, nodeVars
<1>1. ASSUME RunTick PROVE Control'
  BY <1>1 DEF RunTick, TickAsleep, TickBusy, TickEarly, TickSleep, TakeTick
<1>2. ASSUME RunExit \/ RunWake PROVE Control'
  BY <1>2 DEF RunExit, RunWake, BeginWake
<1>3. ASSUME SleepStop \/ SleepTrigger PROVE Control'
  BY <1>3 DEF SleepStop, SleepTrigger, StopComponents, StartWakeTrigger, StartWakeTriggerFails
<1>4. ASSUME RestartBegin \/ RestartEnd PROVE Control'
  BY <1>4 DEF RestartBegin, RestartEnd, StartComponentsBegin, StartComponentsOk,
         StartComponentsFail
<1>5. ASSUME Drain \/ WakeListenerClose \/ WakeBegin PROVE Control'
  BY <1>5 DEF Drain, BeginWake, WakeListenerClose, CloseWakeListener, WakeBegin,
         StartComponentsBegin
<1>6. ASSUME WakeOk \/ WakeFail \/ WakeRolledBack \/ Retrigger PROVE Control'
  BY <1>6 DEF WakeOk, WakeFail, WakeRolledBack, Retrigger, StartComponentsOk, StartComponentsFail,
         StartWakeTrigger, StartWakeTriggerFails
<1>7. ASSUME NEW c \in Conns, Accept(c) \/ HandlerStep(c) \/ ProxyEnd(c) PROVE Control'
  BY <1>7 DEF Accept, HandlerStep, CheckListener, HandlerSignal, HandlerFetch, HandlerReady,
         HandlerGiveUp, HandlerDial, ProxyEnd
<1>8. ASSUME WakeLowPowerCheck \/ TransitionToFullPower PROVE Control'
  BY <1>8 DEF WakeLowPowerCheck, TransitionToFullPower
<1>9. ASSUME CloseCancel \/ CloseStopTrigger PROVE Control'
  BY <1>9 DEF CloseCancel, CloseStopTrigger, CloseWakeListener
<1>10. ASSUME CloseWaitHandlers \/ CloseStopComponents PROVE Control'
  BY <1>10 DEF CloseWaitHandlers, CloseStopComponents, StopComponents
<1>11. ASSUME ConnectionOpened \/ ConnectionClosed \/ StrayEnds \/ Pass PROVE Control'
  BY <1>11 DEF ConnectionOpened, ConnectionClosed, StrayEnds, Pass
<1>12. ASSUME UNCHANGED vars PROVE Control'
  BY <1>12 DEF vars
<1> QED
  BY <1>1, <1>2, <1>3, <1>4, <1>5, <1>6, <1>7, <1>8, <1>9, <1>10, <1>11, <1>12
  DEF Next, Untimed, RunTransition

\* Control and the types together are inductive.
LEMMA InvStep == Inv /\ [Next]_vars => Inv'
  BY ManagerStep, TimeStep, NodeStep, ControlStep DEF Inv, TypeOK

\* The invariant holds throughout every behaviour.
LEMMA AlwaysInv == Spec => []Inv
  BY InitInv, InvStep, PTL DEF Spec

-----------------------------------------------------------------------------
\* Every variable of the manager, the handlers and the node keeps its type, for
\* any number of clients: the counter of tracked connections stays in its range,
\* and a handler never waits on a channel that does not exist.
THEOREM TypeCorrect == Spec => []TypeOK
<1>1. Inv => TypeOK
  BY DEF Inv
<1> QED
  BY <1>1, AlwaysInv, PTL

\* Whenever Run is at its select, full power means that the node's components
\* run (unless Close has stopped them) and low power that neither they nor goroutines
\* of a node that was started over run, whichever of stop, wake trigger and start
\* failed before (manager.go:112-167).
THEOREM StateTruthful == Spec => []StateMatchesComponents
<1>1. Inv => StateMatchesComponents
  BY DEF Inv, Control, StateMatchesComponents
<1> QED
  BY <1>1, AlwaysInv, PTL

\* A node that sleeps on a SOCKS address listens on it, unless net.Listen refused
\* the last wake trigger or Close has begun (manager.go:125-158).
THEOREM SleeperListens == Spec => []AsleepIsWakeable
<1>1. Inv => AsleepIsWakeable
  BY DEF Inv, Control, AsleepIsWakeable
<1> QED
  BY <1>1, AlwaysInv, PTL

\* SOCKS and the wake trigger hand the address over to each other and never hold
\* it together, for any interleaving with handlers, WakeLowPower and Close.
THEOREM AddressHandover == Spec => []AddressExclusive
<1>1. Inv => AddressExclusive
  BY DEF Inv, Control, AddressExclusive
<1> QED
  BY <1>1, AlwaysInv, PTL

\* Components are started over running ones only after a wake trigger that could
\* not listen: a request left in wakeCh from an earlier sleep never does it, as the
\* select looks at the state first (manager.go:80-84).
THEOREM StartsWhenDown == Spec => []StartOverRunningNode
<1>1. Inv => StartOverRunningNode
  BY DEF Inv, Control, StartOverRunningNode
<1> QED
  BY <1>1, AlwaysInv, PTL

\* A request leaves the one slot of wakeCh only by waking the node, or over a node
\* whose components run, or after Close: the safety half of WakeServed.
RequestNotDropped ==
    [][wakeCh /\ ~wakeCh' => run' = "waking" \/ up \/ closer = "done"]_vars

\* Only Run empties wakeCh, and when it ignores what it took, at full power, the
\* state it relies on is true of the node (manager.go:80-84, 97-100).
THEOREM NoRequestDropped == Spec => RequestNotDropped
<1>1. Inv /\ [Next]_vars => [wakeCh /\ ~wakeCh' => run' = "waking" \/ up \/ closer = "done"]_vars
  <2> SUFFICES ASSUME Inv, Next, wakeCh, ~wakeCh'
               PROVE  run' = "waking" \/ up \/ closer = "done"
    OBVIOUS
  <2>1. ASSUME NEW c \in Conns, Accept(c) \/ HandlerStep(c) \/ ProxyEnd(c) PROVE FALSE
    BY <2>1 DEF Accept, HandlerStep, CheckListener, HandlerSignal, HandlerFetch, HandlerReady,
           HandlerGiveUp, HandlerDial, ProxyEnd, runVars
  <2>2. ~(RunTick \/ RunExit \/ SleepStop \/ SleepTrigger \/ RestartBegin \/ RestartEnd)
    BY DEF RunTick, TickAsleep, TickBusy, TickEarly, TickSleep, TakeTick, RunExit, SleepStop,
           SleepTrigger, RestartBegin, RestartEnd
  <2>3. ~(WakeListenerClose \/ WakeBegin \/ WakeOk \/ WakeFail \/ WakeRolledBack \/ Retrigger)
    BY DEF WakeListenerClose, WakeBegin, WakeOk, WakeFail, WakeRolledBack, Retrigger
  <2>4. ~(\/ WakeLowPowerCheck \/ TransitionToFullPower \/ CloseCancel \/ CloseStopTrigger
          \/ CloseWaitHandlers \/ CloseStopComponents \/ ConnectionOpened \/ ConnectionClosed
          \/ StrayEnds \/ Pass)
    BY DEF WakeLowPowerCheck, TransitionToFullPower, CloseCancel, CloseStopTrigger,
           CloseWaitHandlers, CloseStopComponents, ConnectionOpened, ConnectionClosed, StrayEnds,
           Pass, runVars
  <2>5. RunWake \/ Drain
    BY <2>1, <2>2, <2>3, <2>4 DEF Next, Untimed, RunTransition
  <2> QED
    BY <2>5 DEF RunWake, Drain, BeginWake, Inv, Control
<1> QED
  BY <1>1, AlwaysInv, PTL DEF Spec, RequestNotDropped

-----------------------------------------------------------------------------
(* Idle detection.                                                         *)

\* Run may decide to sleep, now or after its next case.
Watching == state = "FullPower" /\ run \in {"select", "drain"}

\* The connections of a steady second are there at its tick: once they have been
\* tracked for longer than the last tick is ago, Run has seen them and idle counts
\* from that tick; a tick that is still buffered may add one interval.  So idle
\* leads the time since the last steady traffic by one interval at most.
Sampling ==
    /\ steady \in 0..(CheckInterval + 1)
    /\ sinceSteady \in 0..IdleTimeout
    /\ active = 0 => steady = 0
    /\ Watching =>
          /\ ~tickC /\ steady > phase => idle <= phase
          /\ steady > CheckInterval => idle <= CheckInterval
          /\ idle - sinceSteady <= CheckInterval

\* At a tick that is taken, idle is short of IdleTimeout or Run goes to sleep; from
\* there it grows with the phase, up to the next tick, which cannot be overtaken.
\* And idle counts from a moment at which there was a connection, or before it.
Punctual ==
    /\ quiet \in 0..(IdleTimeout + CheckInterval)
    /\ Watching =>
          /\ quiet <= idle
          /\ idle < IdleTimeout + CheckInterval
          /\ ~tickC => idle < IdleTimeout + phase

IdleInv == Inv /\ Sampling /\ Punctual

\* What a step that takes no time does to what Run samples: it starts idle afresh,
\* with a connection or on reaching full power, leaves everything as it was, or takes
\* a tick that finds no connection and too little idle time.
LEMMA UntimedEffect ==
    ASSUME Inv, Untimed, Watching'
    PROVE  /\ phase' = phase
           /\ \/ idle' = 0 /\ (active' > 0 \/ state # "FullPower")
              \/ Watching /\ idle' = idle /\ tickC' = tickC
              \/ Watching /\ idle' = idle /\ active = 0 /\ active' = 0 /\ idle < IdleTimeout
<1> DEFINE Effect == /\ phase' = phase
                     /\ \/ idle' = 0 /\ (active' > 0 \/ state # "FullPower")
                        \/ Watching /\ idle' = idle /\ tickC' = tickC
                        \/ /\ Watching /\ idle' = idle /\ active = 0 /\ active' = 0
                           /\ idle < IdleTimeout
<1> USE DEF Watching, Inv, Control, runVars, timeVars, trigVars, connVars, nodeVars
<1>1. ASSUME RunTick PROVE Effect
  BY <1>1 DEF RunTick, TickAsleep, TickBusy, TickEarly, TickSleep, TakeTick
<1>2. ASSUME RunExit \/ RunWake PROVE Effect
  BY <1>2 DEF RunExit, RunWake, BeginWake
<1>3. ASSUME SleepStop \/ SleepTrigger PROVE Effect
  BY <1>3 DEF SleepStop, SleepTrigger
<1>4. ASSUME RestartBegin \/ RestartEnd PROVE Effect
  BY <1>4 DEF RestartBegin, RestartEnd
<1>5. ASSUME Drain \/ WakeListenerClose \/ WakeBegin PROVE Effect
  BY <1>5 DEF Drain, BeginWake, WakeListenerClose, WakeBegin
<1>6. ASSUME WakeOk \/ WakeFail \/ WakeRolledBack \/ Retrigger PROVE Effect
  BY <1>6 DEF WakeOk, WakeFail, WakeRolledBack, Retrigger
<1>7. ASSUME NEW c \in Conns, Accept(c) \/ HandlerStep(c) \/ ProxyEnd(c) PROVE Effect
  BY <1>7 DEF Accept, HandlerStep, CheckListener, HandlerSignal, HandlerFetch, HandlerReady,
         HandlerGiveUp, HandlerDial, ProxyEnd
<1>8. ASSUME WakeLowPowerCheck \/ TransitionToFullPower PROVE Effect
  BY <1>8 DEF WakeLowPowerCheck, TransitionToFullPower
<1>9. ASSUME \/ CloseCancel \/ CloseStopTrigger \/ CloseWaitHandlers \/ CloseStopComponents
      PROVE  Effect
  BY <1>9 DEF CloseCancel, CloseStopTrigger, CloseWaitHandlers, CloseStopComponents
<1>10. ASSUME ConnectionOpened \/ ConnectionClosed \/ StrayEnds PROVE Effect
  BY <1>10 DEF ConnectionOpened, ConnectionClosed, StrayEnds
<1> QED
  BY <1>1, <1>2, <1>3, <1>4, <1>5, <1>6, <1>7, <1>8, <1>9, <1>10 DEF Untimed, RunTransition

\* A difference of naturals is no more than what it is taken from.
LEMMA Difference == \A x, y, c \in Nat : x <= c => x - y <= c
  OBVIOUS

\* A step without duration keeps the relation.
LEMMA UntimedSampling == IdleInv /\ Inv' /\ Untimed /\ History(0) => Sampling'
<1> SUFFICES ASSUME IdleInv, Inv', Untimed, History(0) PROVE Sampling'
  OBVIOUS
<1> USE LowPowerAssumption
<1>1. /\ CheckInterval \in Nat /\ IdleTimeout \in Nat
      /\ phase \in Nat /\ phase' \in Nat /\ phase < CheckInterval
      /\ idle \in Nat /\ active' \in Nat /\ steady \in Nat /\ sinceSteady \in Nat
  BY DEF IdleInv, Inv, TypeOK, TimeTypeOK, NodeTypeOK, Sampling
<1>2. steady' \in 0..(CheckInterval + 1) /\ sinceSteady' \in 0..IdleTimeout
  BY DEF History, IdleInv, Sampling
<1>3. steady' = IF active' = 0 THEN 0 ELSE steady
  BY DEF History, IdleInv, Sampling
<1>4. ASSUME Watching'
      PROVE  /\ ~tickC' /\ steady' > phase' => idle' <= phase'
             /\ steady' > CheckInterval => idle' <= CheckInterval
             /\ idle' - sinceSteady' <= CheckInterval
  <2>1. CASE idle' = 0
    <3>1. idle' <= phase' /\ idle' <= CheckInterval
      BY <1>1, <2>1
    <3>2. idle' \in Nat /\ sinceSteady' \in Nat
      BY <1>1, <1>2, <2>1
    <3>3. idle' - sinceSteady' <= CheckInterval
      BY <1>1, <3>1, <3>2, Difference
    <3> QED
      BY <3>1, <3>3
  <2>2. CASE Watching /\ idle' = idle /\ (tickC' = tickC \/ active' = 0)
    <3>1. /\ ~tickC /\ steady > phase => idle <= phase
          /\ steady > CheckInterval => idle <= CheckInterval
          /\ idle - sinceSteady <= CheckInterval
      BY <2>2 DEF IdleInv, Sampling
    <3>2. sinceSteady' = IF steady' > CheckInterval THEN 0 ELSE sinceSteady
      BY <1>4, <2>2 DEF History, Watching, IdleInv, Sampling
    <3>3. phase' = phase
      BY <1>4, UntimedEffect DEF IdleInv
    <3>4. steady' > CheckInterval => idle' <= CheckInterval
      BY <1>1, <1>3, <2>2, <3>1
    <3>5. idle' - sinceSteady' <= CheckInterval
      BY <1>1, <2>2, <3>1, <3>2, <3>4
    <3>6. ~tickC' /\ steady' > phase' => idle' <= phase'
      <4>1. CASE active' = 0
        <5>1. ~(steady' > phase')
          BY <1>1, <1>3, <4>1
        <5> QED
          BY <5>1
      <4>2. CASE tickC' = tickC /\ active' # 0
        BY <1>3, <2>2, <3>1, <3>3, <4>2
      <4> QED
        BY <2>2, <4>1, <4>2
    <3> QED
      BY <3>4, <3>5, <3>6
  <2> QED
    BY <1>4, <2>1, <2>2, UntimedEffect DEF IdleInv
<1> QED
  BY <1>2, <1>3, <1>4 DEF Sampling

\* A second that passes keeps the relation: its tick cannot be overtaken.
LEMMA PassSampling == IdleInv /\ Inv' /\ Pass /\ History(1) => Sampling'
<1> SUFFICES ASSUME IdleInv, Inv', Pass, History(1) PROVE Sampling'
  OBVIOUS
<1> USE LowPowerAssumption DEF IdleInv, Inv, TypeOK, TimeTypeOK, NodeTypeOK, Sampling
<1>1. /\ steady' \in 0..(CheckInterval + 1) /\ sinceSteady' \in 0..IdleTimeout
      /\ active' = 0 => steady' = 0
      /\ steady' = IF active' = 0 THEN 0
                   ELSE IF steady + 1 <= CheckInterval THEN steady + 1 ELSE CheckInterval + 1
  BY DEF History
<1>2. ASSUME Watching'
      PROVE  /\ ~tickC' /\ steady' > phase' => idle' <= phase'
             /\ steady' > CheckInterval => idle' <= CheckInterval
             /\ idle' - sinceSteady' <= CheckInterval
  <2>1. Watching /\ ~tickC /\ state' = state
    BY <1>2 DEF Pass, Watching, runVars
  <2>2. idle' = IF idle < IdleTimeout + CheckInterval THEN idle + 1 ELSE idle
    BY DEF Pass
  <2>3. ~tickC' => phase' = phase + 1
    BY <2>1 DEF Pass
  <2>4. steady' > CheckInterval => idle' <= CheckInterval
    <3>1. steady' > CheckInterval => steady >= CheckInterval
      BY <1>1
    <3>2. steady >= CheckInterval => idle <= CheckInterval - 1
      BY <2>1
    <3> QED
      BY <2>2, <3>1, <3>2
  <2>5. ~tickC' /\ steady' > phase' => idle' <= phase'
    BY <1>1, <2>1, <2>2, <2>3
  <2>6. sinceSteady' = IF steady' > CheckInterval THEN 0
                       ELSE IF sinceSteady + 1 < IdleTimeout THEN sinceSteady + 1 ELSE IdleTimeout
    BY <1>2, <2>1 DEF History, Watching
  <2>7. idle' - sinceSteady' <= CheckInterval
    BY <2>1, <2>2, <2>4, <2>6, <1>1
  <2> QED
    BY <2>4, <2>5, <2>7
<1> QED
  BY <1>1, <1>2

\* A step without duration keeps idle in time.
LEMMA UntimedPunctual == IdleInv /\ Inv' /\ Untimed /\ History(0) => Punctual'
<1> SUFFICES ASSUME IdleInv, Inv', Untimed, History(0) PROVE Punctual'
  OBVIOUS
<1> USE LowPowerAssumption
<1>1. /\ IdleTimeout \in Nat \ {0} /\ CheckInterval \in Nat \ {0}
      /\ idle \in Nat /\ phase \in Nat /\ phase < CheckInterval /\ active' \in Nat
      /\ quiet \in 0..(IdleTimeout + CheckInterval)
  BY DEF IdleInv, Inv, TypeOK, TimeTypeOK, NodeTypeOK, Punctual
<1>2. /\ quiet' \in 0..(IdleTimeout + CheckInterval)
      /\ quiet' = 0 \/ quiet' = quiet
  BY <1>1 DEF History
<1>3. ASSUME Watching'
      PROVE  /\ quiet' <= idle'
             /\ idle' < IdleTimeout + CheckInterval
             /\ ~tickC' => idle' < IdleTimeout + phase'
  <2>1. /\ phase' = phase
        /\ \/ idle' = 0 /\ (active' > 0 \/ state # "FullPower")
           \/ Watching /\ idle' = idle /\ tickC' = tickC
           \/ Watching /\ idle' = idle /\ active = 0 /\ active' = 0 /\ idle < IdleTimeout
    BY <1>3, UntimedEffect DEF IdleInv
  <2>2. CASE idle' = 0 /\ (active' > 0 \/ state # "FullPower")
    <3>1. quiet' = 0
      BY <1>3, <2>2 DEF History, Watching
    <3> QED
      BY <1>1, <2>1, <2>2, <3>1
  <2>3. CASE Watching /\ idle' = idle
    BY <1>1, <1>2, <2>1, <2>3 DEF IdleInv, Punctual
  <2> QED
    BY <2>1, <2>2, <2>3
<1> QED
  BY <1>2, <1>3 DEF Punctual

\* A second that passes keeps idle in time, as Run has taken the last tick.
LEMMA PassPunctual == IdleInv /\ Pass /\ History(1) => Punctual'
<1> SUFFICES ASSUME IdleInv, Pass, History(1) PROVE Punctual'
  OBVIOUS
<1> USE LowPowerAssumption DEF IdleInv, Inv, TypeOK, TimeTypeOK, NodeTypeOK, Punctual
<1>1. /\ quiet' \in 0..(IdleTimeout + CheckInterval)
      /\ quiet' <= quiet + 1
  BY DEF History
<1>2. ASSUME Watching'
      PROVE  /\ quiet' <= idle'
             /\ idle' < IdleTimeout + CheckInterval
             /\ ~tickC' => idle' < IdleTimeout + phase'
  <2>1. Watching /\ ~tickC
    BY <1>2 DEF Pass, Watching, runVars
  <2>2. idle' = idle + 1 /\ idle < IdleTimeout + phase
    BY <2>1 DEF Pass
  <2>3. ~tickC' => phase' = phase + 1
    BY <2>1 DEF Pass
  <2> QED
    BY <1>1, <2>1, <2>2, <2>3
<1> QED
  BY <1>1, <1>2

\* The relation between the samples and the history is inductive.
LEMMA IdleInvHolds == IdleSpec => []IdleInv
<1>1. IdleInit => IdleInv
  <2> SUFFICES ASSUME IdleInit PROVE IdleInv
    OBVIOUS
  <2>1. Inv
    BY InitInv DEF IdleInit
  <2>2. steady = 0 /\ sinceSteady = 0 /\ quiet = 0 /\ idle = 0 /\ phase = 0
    BY DEF IdleInit, Init
  <2>3. Sampling /\ Punctual
    BY <2>2, LowPowerAssumption DEF Sampling, Punctual
  <2> QED
    BY <2>1, <2>3 DEF IdleInv
<1>2. IdleInv /\ [IdleNext]_<<vars, historyVars>> => IdleInv'
  <2> SUFFICES ASSUME IdleInv, [IdleNext]_<<vars, historyVars>> PROVE IdleInv'
    OBVIOUS
  <2>1. [Next]_vars
    BY DEF IdleNext, Next
  <2>2. Inv'
    BY <2>1, InvStep DEF IdleInv
  <2>3. CASE IdleNext
    <3>1. Sampling'
      BY <2>2, <2>3, UntimedSampling, PassSampling DEF IdleNext
    <3>2. Punctual'
      BY <2>2, <2>3, UntimedPunctual, PassPunctual DEF IdleNext
    <3> QED
      BY <2>2, <3>1, <3>2 DEF IdleInv
  <2>4. CASE UNCHANGED <<vars, historyVars>>
    BY <2>2, <2>4 DEF vars, historyVars, IdleInv, Sampling, Punctual, Watching
  <2> QED
    BY <2>3, <2>4
<1> QED
  BY <1>1, <1>2, PTL DEF IdleSpec

\* Run's sampling misses no connection that outlasts the check interval, whatever
\* the timeout and the interval: the node sleeps no earlier than IdleTimeout less
\* one interval after such traffic ended (manager.go, the tick case of Run).
THEOREM SteadyTrafficNoticed == IdleSpec => SteadyTrafficKeepsAwake
<1>1. IdleInv /\ [IdleNext]_<<vars, historyVars>> =>
          [GoesToSleep => sinceSteady >= IdleTimeout - CheckInterval]_<<vars, historyVars>>
  <2> SUFFICES ASSUME IdleInv, IdleNext, GoesToSleep
               PROVE  sinceSteady >= IdleTimeout - CheckInterval
    OBVIOUS
  <2>1. TickSleep
    BY DEF IdleNext, GoesToSleep, Untimed, RunTransition, RunTick, RunExit, RunWake, BeginWake,
           TickAsleep, TickBusy, TickEarly, SleepStop, SleepTrigger, RestartBegin, RestartEnd,
           Drain, WakeListenerClose, WakeBegin, WakeOk, WakeFail, Retrigger, Accept, HandlerStep,
           CheckListener, HandlerSignal, HandlerFetch, HandlerReady, HandlerGiveUp, HandlerDial,
           ProxyEnd, WakeLowPowerCheck, TransitionToFullPower, CloseCancel, CloseStopTrigger,
           CloseWaitHandlers, CloseStopComponents, ConnectionOpened, ConnectionClosed, StrayEnds,
           WakeRolledBack, Pass, runVars
  <2>2. Watching /\ idle >= IdleTimeout
    BY <2>1 DEF TickSleep, TakeTick, Watching
  <2> QED
    BY <2>2, LowPowerAssumption DEF IdleInv, Inv, Sampling, TypeOK, TimeTypeOK
<1> QED
  BY <1>1, IdleInvHolds, PTL DEF IdleSpec, SteadyTrafficKeepsAwake

\* A node at full power without connections has been so for less than IdleTimeout
\* and one check interval, whatever the two are: no tick at which the time is up is
\* let pass (manager.go:95).
THEOREM SleepPunctual == IdleSpec => []SleepsInTime
<1>1. IdleInv => SleepsInTime
  BY LowPowerAssumption
  DEF IdleInv, Inv, TypeOK, TimeTypeOK, Punctual, Watching, SleepsInTime
<1> QED
  BY <1>1, IdleInvHolds, PTL

\* The history variables only watch: what is proved of the manager above also
\* holds of the behaviours IdleDetection speaks of.
THEOREM HistoryOnlyWatches == IdleSpec => Spec
<1>1. IdleInit => Init
  BY DEF IdleInit
<1>2. [IdleNext]_<<vars, historyVars>> => [Next]_vars
  BY DEF IdleNext, Next
<1> QED
  BY <1>1, <1>2, PTL DEF IdleSpec, Spec

=============================================================================
