----------------------------- MODULE Components -----------------------------
(***************************************************************************)
(* The components of a node (mod/yggstack): how New and startComponents    *)
(* bring them up, how stopComponents and rollbackComponents take them      *)
(* down, and the goroutines they own: the peer monitor, the SOCKS server   *)
(* and one per port mapping.  The low power manager starts and stops the   *)
(* components over and over; Close stops them at any moment.               *)
(*                                                                         *)
(* The manager itself is the subject of module LowPower.                   *)
(***************************************************************************)
EXTENDS Naturals, Sequences

CONSTANTS
    Mappings,       \* the port mappings of ConfigObj.Mapping
    HasSocks,       \* ConfigObj.SocksAddr # ""
    HasMonitor,     \* ConfigObj.PeerChangeCallback # nil
    CoreMayHang     \* core.Stop may not return; CoreStopTimeout is then set

ASSUME ComponentsAssumption ==
    /\ HasSocks \in BOOLEAN
    /\ HasMonitor \in BOOLEAN
    /\ CoreMayHang \in BOOLEAN

VARIABLES
    pc,         \* where the manager and the caller of Close are
    isNew,      \* New has not returned yet
    step,       \* the initialisation step in progress
    mu,         \* the writer of componentsMu, or "free"
    comps,      \* the components whose field in Obj is not nil
    leaked,     \* components that run although Obj no longer points to them
    hung,       \* some core.Stop ran into CoreStopTimeout
    monitor,    \* the goroutine of the peer monitor
    socks,      \* the goroutine of the SOCKS server
    mapping,    \* the goroutine of each mapping
    cancelled,  \* goroutines whose components' context is cancelled
    closers,    \* the mappings whose listener is in Obj.closers
    shut        \* the mappings whose listener has been closed

goVars   == <<monitor, socks, mapping>>
ctxVars  == <<cancelled, closers, shut>>
nodeVars == <<comps, leaked, hung>>
vars == <<pc, isNew, step, mu, comps, leaked, hung, monitor, socks, mapping,
          cancelled, closers, shut>>

Threads == {"manager", "closer"}

\* The order of initCore, initAdmin, initMulticast and initNetworking.
Order == <<"core", "admin", "multicast", "monitor", "netstack", "socks">>

Owners == Mappings \cup {"monitor"}

Configured(c) ==
    /\ c = "socks" => HasSocks
    /\ c = "monitor" => HasMonitor

Closing == pc["closer"] # "open"

\* componentsWg is zero.
Idle ==
    /\ monitor = "none"
    /\ socks = "none"
    /\ \A m \in Mappings : mapping[m] = "none"

Init ==
    /\ pc = [t \in Threads |-> IF t = "manager" THEN "init" ELSE "open"]
    /\ isNew = TRUE
    /\ step = 1
    /\ mu = "free"
    /\ comps = {}
    /\ leaked = {}
    /\ hung = FALSE
    /\ monitor = "none"
    /\ socks = "none"
    /\ mapping = [m \in Mappings |-> "none"]
    /\ cancelled = {}
    /\ closers = {}
    /\ shut = {}

Goto(t, place) == pc' = [pc EXCEPT ![t] = place]

-----------------------------------------------------------------------------
(* startComponents, and the same steps in New.                             *)

StartBegin ==
    /\ pc["manager"] = "down" /\ mu = "free"
    /\ mu' = "manager"
    /\ step' = 1
    /\ Goto("manager", "init")
    /\ UNCHANGED <<isNew, nodeVars, goVars, ctxVars>>

\* The context of a new generation is a child of Obj.ctx, which Close cancels.
Spawn(owners) ==
    cancelled' = IF Closing THEN cancelled \cup owners ELSE cancelled \ owners

InitStep ==
    /\ pc["manager"] = "init" /\ step <= Len(Order)
    /\ LET c == Order[step]
       IN  IF Configured(c)
           THEN /\ comps' = comps \cup {c}
                /\ monitor' = IF c = "monitor" THEN "spawned" ELSE monitor
                /\ socks' = IF c = "socks" THEN "serving" ELSE socks
                /\ IF c = "monitor" THEN Spawn({"monitor"}) ELSE UNCHANGED cancelled
           ELSE UNCHANGED <<comps, monitor, socks, cancelled>>
    /\ step' = step + 1
    /\ UNCHANGED <<pc, isNew, mu, leaked, hung, mapping, closers, shut>>

\* Any step but the creation of the monitor may fail.
InitFails ==
    /\ pc["manager"] = "init" /\ step <= Len(Order)
    /\ Order[step] # "monitor" /\ Configured(Order[step])
    /\ Goto("manager", "rollback")
    /\ UNCHANGED <<isNew, step, mu, nodeVars, goVars, ctxVars>>

\* The last step starts the goroutines of the mappings and cannot fail.
InitMappings ==
    /\ pc["manager"] = "init" /\ step > Len(Order)
    /\ mapping' = [m \in Mappings |-> "spawned"]
    /\ Spawn(Mappings)
    /\ shut' = {}
    /\ mu' = "free"
    /\ isNew' = FALSE
    /\ Goto("manager", "up")
    /\ UNCHANGED <<step, nodeVars, monitor, socks, closers>>

\* Obj forgets the core and the netstack.  Stopping the core may run into
\* CoreStopTimeout; closing the netstack, which waits for it, then does too.
ForgetNode(closesStack) ==
    \E hangs \in BOOLEAN :
        /\ hangs => CoreMayHang /\ "core" \in comps
        /\ hung' = (hung \/ hangs)
        /\ leaked' = leaked \cup {c \in comps \cap {"core", "netstack"} :
                                     hangs \/ (c = "netstack" /\ ~closesStack)}

\* Mutant: the rollback forgets the core without stopping it.
RollbackCoreKept ==
    /\ pc["manager"] = "rollback"
    /\ leaked' = leaked \cup (comps \cap {"core", "netstack"})
    /\ comps' = {}
    /\ cancelled' = Owners
    /\ mu' = "free"
    /\ Goto("manager", IF isNew THEN "failed" ELSE "rollbackWait")
    /\ UNCHANGED <<isNew, step, hung, goVars, closers, shut>>

\* rollbackComponents.  startComponents has already emptied netstackPtr, so that
\* there is no netstack left for it to close; it then waits for the goroutines.
\* New does neither.
Rollback ==
    /\ pc["manager"] = "rollback"
    /\ ForgetNode(isNew)
    /\ comps' = {}
    /\ cancelled' = Owners
    /\ mu' = "free"
    /\ Goto("manager", IF isNew THEN "failed" ELSE "rollbackWait")
    /\ UNCHANGED <<isNew, step, goVars, closers, shut>>

RollbackWait ==
    /\ pc["manager"] = "rollbackWait"
    /\ Goto("manager", IF Idle THEN "relock" ELSE "rollbackWaiting")
    /\ UNCHANGED <<isNew, step, mu, nodeVars, goVars, ctxVars>>

Relock ==
    /\ pc["manager"] = "relock" /\ mu = "free"
    /\ Goto("manager", "down")
    /\ UNCHANGED <<isNew, step, mu, nodeVars, goVars, ctxVars>>

-----------------------------------------------------------------------------
(* stopComponents, called by the manager and by Close.                     *)

ManagerStops ==
    /\ pc["manager"] = "up"
    /\ Goto("manager", "stop")
    /\ UNCHANGED <<isNew, step, mu, nodeVars, goVars, ctxVars>>

\* Run returns once its context is cancelled.
ManagerExits ==
    /\ pc["manager"] \in {"up", "down"} /\ Closing
    /\ Goto("manager", "exit")
    /\ UNCHANGED <<isNew, step, mu, nodeVars, goVars, ctxVars>>

\* Close: the cancellation of Obj.ctx reaches every generation.
CloseBegin ==
    /\ ~isNew /\ pc["closer"] = "open"
    /\ Goto("closer", "stop")
    /\ cancelled' = Owners
    /\ UNCHANGED <<isNew, step, mu, nodeVars, goVars, closers, shut>>

\* Phase 1: cancel the generation, close SOCKS and the registered listeners.
StopSignal(t) ==
    /\ pc[t] = "stop" /\ mu = "free"
    /\ cancelled' = Owners
    /\ comps' = comps \ {"socks"}
    /\ shut' = shut \cup closers
    /\ closers' = {}
    /\ Goto(t, "wait")
    /\ UNCHANGED <<isNew, step, mu, leaked, hung, goVars>>

\* Mutant: phase 2 does not wait for the goroutines.
StopWaitSkipped(t) ==
    /\ pc[t] = "wait"
    /\ Goto(t, "teardown")
    /\ UNCHANGED <<isNew, step, mu, nodeVars, goVars, ctxVars>>

\* Mutant: componentsMu is kept while waiting for the goroutines.
StopWaitLocked(t) ==
    /\ pc[t] = "wait" /\ mu = "free"
    /\ mu' = IF Idle THEN "free" ELSE t
    /\ Goto(t, IF Idle THEN "teardown" ELSE "waiting")
    /\ UNCHANGED <<isNew, step, nodeVars, goVars, ctxVars>>

\* Wait returns at once when the counter is zero; otherwise see GoroutineEnds.
StopWait(t) ==
    /\ pc[t] = "wait"
    /\ Goto(t, IF Idle THEN "teardown" ELSE "waiting")
    /\ UNCHANGED <<isNew, step, mu, nodeVars, goVars, ctxVars>>

\* Mutant: phase 2 does not take componentsMu.
TeardownUnlocked(t) ==
    /\ pc[t] = "teardown"
    /\ comps' = comps \ {"monitor", "multicast", "admin"}
    /\ Goto(t, "core")
    /\ UNCHANGED <<isNew, step, mu, leaked, hung, goVars, ctxVars>>

\* Phase 2: the monitor, multicast and admin, under the lock ...
Teardown(t) ==
    /\ pc[t] = "teardown" /\ mu = "free"
    /\ mu' = t
    /\ comps' = comps \ {"monitor", "multicast", "admin"}
    /\ Goto(t, "core")
    /\ UNCHANGED <<isNew, step, leaked, hung, goVars, ctxVars>>

\* ... then the core, then the netstack.
TeardownCore(t) ==
    /\ pc[t] = "core"
    /\ comps' = comps \ {"core", "netstack"}
    /\ ForgetNode(TRUE)
    /\ mu' = "free"
    /\ Goto(t, IF t = "manager" THEN "down" ELSE "done")
    /\ UNCHANGED <<isNew, step, goVars, ctxVars>>

-----------------------------------------------------------------------------
(* The goroutines.                                                         *)

\* The Done that brings componentsWg to zero releases everyone in Wait.
GoroutineEnds ==
    pc' = [t \in Threads |->
              CASE pc[t] = "waiting" /\ Idle'         -> "teardown"
                [] pc[t] = "rollbackWaiting" /\ Idle' -> "relock"
                [] OTHER                              -> pc[t]]

\* The goroutine reads the field peerMonitor when it first runs.
MonitorRuns ==
    /\ monitor = "spawned"
    /\ monitor' = IF "monitor" \in comps THEN "polling" ELSE "crashed"
    /\ UNCHANGED <<pc, isNew, step, mu, nodeVars, socks, mapping, ctxVars>>

\* Poll reports a change or none.
MonitorPolls ==
    /\ monitor = "polling"
    /\ \/ monitor' = "select"
       \/ "monitor" \notin cancelled /\ monitor' = "callback"
    /\ UNCHANGED <<pc, isNew, step, mu, nodeVars, socks, mapping, ctxVars>>

\* The callback may call a method that takes componentsMu.RLock.
MonitorReports ==
    /\ monitor = "callback" /\ mu = "free"
    /\ monitor' = "select"
    /\ UNCHANGED <<pc, isNew, step, mu, nodeVars, socks, mapping, ctxVars>>

MonitorTick ==
    /\ monitor = "select" /\ "monitor" \notin cancelled
    /\ monitor' = "polling"
    /\ UNCHANGED <<pc, isNew, step, mu, nodeVars, socks, mapping, ctxVars>>

MonitorEnds ==
    /\ monitor = "select" /\ "monitor" \in cancelled
    /\ monitor' = "none"
    /\ UNCHANGED <<socks, mapping>>
    /\ GoroutineEnds
    /\ UNCHANGED <<isNew, step, mu, nodeVars, ctxVars>>

\* Serve returns when its listener is closed.
SocksEnds ==
    /\ socks = "serving" /\ "socks" \notin comps
    /\ socks' = "none"
    /\ UNCHANGED <<monitor, mapping>>
    /\ GoroutineEnds
    /\ UNCHANGED <<isNew, step, mu, nodeVars, ctxVars>>

MappingListens(m) ==
    /\ mapping[m] = "spawned"
    /\ mapping' = [mapping EXCEPT ![m] = "listening"]
    /\ UNCHANGED <<pc, isNew, step, mu, nodeVars, monitor, socks, ctxVars>>

\* AddCloser, after which the goroutine blocks in Accept or ReadFrom.
AddCloser(m) ==
    /\ mapping[m] = "listening"
    /\ mapping' = [mapping EXCEPT ![m] = "serving"]
    /\ closers' = closers \cup {m}
    /\ UNCHANGED <<pc, isNew, step, mu, nodeVars, monitor, socks, cancelled, shut>>

MappingEnded(m) ==
    /\ mapping' = [mapping EXCEPT ![m] = "none"]
    /\ UNCHANGED <<monitor, socks>>
    /\ GoroutineEnds
    /\ UNCHANGED <<isNew, step, mu, nodeVars, ctxVars>>

MappingEnds(m) ==
    /\ mapping[m] = "serving" /\ m \in shut
    /\ MappingEnded(m)

\* The address is taken, or Accept fails for good.
MappingFails(m) ==
    /\ mapping[m] \in {"spawned", "serving"} /\ m \notin shut
    /\ MappingEnded(m)

-----------------------------------------------------------------------------
Stop(t) == StopSignal(t) \/ StopWait(t) \/ Teardown(t) \/ TeardownCore(t)

Starting == StartBegin \/ InitStep \/ InitFails \/ InitMappings \/ Rollback \/ RollbackWait \/ Relock

MonitorStep == MonitorRuns \/ MonitorPolls \/ MonitorReports \/ MonitorTick \/ MonitorEnds

\* A listener opened after the sweep of phase 1, whether by a goroutine of that
\* generation or by a generation started since: its goroutine's context is
\* cancelled, but that does not wake Accept, and nobody will close it.
Stranded ==
    \/ socks = "serving" /\ "socks" \in comps /\ Closing
    \/ \E m \in Mappings : mapping[m] = "serving" /\ m \in closers /\ m \in cancelled

\* New failed, everything has ended, the process has crashed, or a caller of
\* stopComponents waits for a stranded goroutine.
Halted ==
    /\ \/ pc["manager"] = "failed"
       \/ pc["manager"] = "exit" /\ pc["closer"] = "done"
       \/ monitor = "crashed"
       \/ Stranded /\ \E t \in Threads : pc[t] = "waiting"
    /\ UNCHANGED vars

Next ==
    \/ Starting
    \/ ManagerStops \/ ManagerExits \/ CloseBegin
    \/ \E t \in Threads : Stop(t)
    \/ MonitorStep \/ SocksEnds
    \/ \E m \in Mappings : \/ MappingListens(m) \/ AddCloser(m)
                           \/ MappingEnds(m) \/ MappingFails(m)
    \/ Halted

Spec == Init /\ [][Next]_vars

\* Goroutines run, and a mutex is granted to whoever asks again and again.
Fairness ==
    /\ WF_vars(Starting) /\ SF_vars(ManagerExits)
    /\ \A t \in Threads : SF_vars(Stop(t))
    /\ SF_vars(MonitorRuns \/ MonitorPolls) /\ SF_vars(MonitorReports) /\ WF_vars(MonitorEnds)
    /\ WF_vars(SocksEnds)
    /\ \A m \in Mappings : WF_vars(MappingListens(m) \/ AddCloser(m) \/ MappingEnds(m))

FairSpec == Spec /\ Fairness

-----------------------------------------------------------------------------
StopPlaces == {"stop", "wait", "waiting", "teardown", "core"}

\* Every variable keeps its type.
TypeOK ==
    /\ pc["manager"] \in StopPlaces \cup {"init", "rollback", "rollbackWait", "relock",
                                          "rollbackWaiting", "up", "down", "failed", "exit"}
    /\ pc["closer"] \in StopPlaces \cup {"open", "done"}
    /\ isNew \in BOOLEAN
    /\ step \in 1..(Len(Order) + 1)
    /\ mu \in Threads \cup {"free"}
    /\ comps \subseteq {Order[n] : n \in 1..Len(Order)}
    /\ leaked \subseteq {"core", "netstack"}
    /\ hung \in BOOLEAN
    /\ monitor \in {"none", "spawned", "polling", "callback", "select", "crashed"}
    /\ socks \in {"none", "serving"}
    /\ mapping \in [Mappings -> {"none", "spawned", "listening", "serving"}]
    /\ cancelled \subseteq Owners
    /\ closers \subseteq Mappings
    /\ shut \subseteq Mappings

\* Until Close, a node that the manager has put to sleep, or failed to wake, is down:
\* no field points to a component, no goroutine of a component is left, and every
\* core has been stopped, unless one ran into CoreStopTimeout (stopComponents,
\* startComponents).  A New that failed leaves no SOCKS and no mapping and, again
\* unless a core hangs, nothing that runs unseen; only it does not wait for the monitor.
\* A failed wake may leave its netstack open, although func.go:163 says that what was
\* initialized is stopped: func.go:30 empties netstackPtr before the rollback.
DownIsDown ==
    ~Closing =>
        /\ pc["manager"] = "down" => comps = {} /\ Idle /\ ("core" \in leaked => hung)
        /\ pc["manager"] = "failed" =>
              /\ comps = {}
              /\ socks = "none" /\ \A m \in Mappings : mapping[m] = "none"
              /\ leaked = {} \/ hung

\* While one caller of stopComponents takes the core and the netstack down, the
\* other does not, and no start or rollback touches the components: Close may race
\* the manager at every step but this one (func.go:14-15, 92-115).
TeardownAlone ==
    \A t \in Threads : pc[t] = "core" =>
        \A u \in Threads \ {t} : pc[u] \notin {"core", "init", "rollback"}

\* Until Close, the goroutines of SOCKS and the mappings never outlive the core
\* and the netstack they use: phase 2 comes after the wait (func.go:89-91).  The
\* monitor's goroutine finds its field empty, and crashes, only after a rollback.
GoroutinesHaveNode ==
    ~Closing =>
        /\ socks # "none" \/ (\E m \in Mappings : mapping[m] # "none")
              => {"core", "netstack"} \subseteq comps
        /\ monitor = "crashed"
              => pc["manager"] \in {"rollbackWait", "rollbackWaiting", "failed"}

\* Both callers of stopComponents get through it, in spite of callbacks that take
\* the lock and a core that does not stop, unless a goroutine is stranded or
\* the process has crashed: the monitor's goroutine may first run after a rollback
\* and then call Run of a nil pointer (func_init.go:100-103).
StopReturns ==
    \A t \in Threads :
        pc[t] = "stop" ~> \/ pc[t] \in {"down", "done"}
                          \/ monitor = "crashed"
                          \/ pc[t] = "waiting" /\ Stranded

-----------------------------------------------------------------------------
(* What the repository says of the components and the code does not do.    *)

\* Close returns (yggstack.go:122-125; func.go:62).  A mapping goroutine that
\* registers its listener after phase 1 blocks in Accept for ever.
CloseReturns == Closing ~> pc["closer"] = "done" \/ monitor = "crashed"

=============================================================================
