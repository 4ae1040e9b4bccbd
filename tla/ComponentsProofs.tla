-------------------------- MODULE ComponentsProofs --------------------------
(***************************************************************************)
(* Proofs about Components for any set of port mappings and any            *)
(* configuration: the variables keep their types, a node that sleeps is    *)
(* wholly down, and the goroutines of SOCKS and the mappings never outlive *)
(* the core and the netstack.                                              *)
(***************************************************************************)
EXTENDS Components, TLAPS

Names == {"core", "admin", "multicast", "monitor", "netstack", "socks"}

ManagerPlaces == StopPlaces \cup {"init", "rollback", "rollbackWait", "relock",
                                  "rollbackWaiting", "up", "down", "failed", "exit"}
CloserPlaces == StopPlaces \cup {"open", "done"}

\* TypeOK, with pc a function, in two groups: the callers, the node.
CallerTypes ==
    /\ pc \in [Threads -> ManagerPlaces \cup CloserPlaces]
    /\ pc["manager"] \in ManagerPlaces
    /\ pc["closer"] \in CloserPlaces
    /\ isNew \in BOOLEAN
    /\ step \in 1..7
    /\ mu \in Threads \cup {"free"}

NodeTypes ==
    /\ comps \subseteq Names
    /\ leaked \subseteq {"core", "netstack"}
    /\ hung \in BOOLEAN
    /\ monitor \in {"none", "spawned", "polling", "callback", "select", "crashed"}
    /\ socks \in {"none", "serving"}
    /\ mapping \in [Mappings -> {"none", "spawned", "listening", "serving"}]
    /\ cancelled \subseteq Owners
    /\ closers \subseteq Mappings
    /\ shut \subseteq Mappings

\* No goroutine uses the node's netstack.
Quiet == socks = "none" /\ \A m \in Mappings : mapping[m] = "none"

\* Until Close the manager alone starts and stops the components.  What its place
\* says of them: the start brings up core and netstack before what uses them, and
\* fails only before that; the stop waits before it takes them down.  The field of
\* the monitor is there as long as its goroutine is, except after a rollback.
Managed ==
    /\ pc["manager"] = "init" =>
          /\ \A m \in Mappings : mapping[m] = "none"
          /\ step <= 6 => socks = "none" /\ "socks" \notin comps
          /\ step > 1 => "core" \in comps
          /\ step > 5 => "netstack" \in comps
    /\ pc["manager"] \in {"rollback", "rollbackWait", "rollbackWaiting", "relock", "failed"}
          => Quiet
    /\ pc["manager"] \in {"rollbackWait", "rollbackWaiting", "relock", "failed", "down"}
          => comps = {}
    /\ pc["manager"] \in {"relock", "down", "teardown", "core"} => Idle
    /\ pc["manager"] \in {"up", "stop", "wait", "waiting"}
          => {"core", "netstack"} \subseteq comps
    /\ pc["manager"] \in {"wait", "waiting", "teardown"} => "socks" \notin comps
    /\ pc["manager"] = "core" => comps \subseteq {"core", "netstack"}
    /\ pc["manager"] \in {"init", "rollback", "up", "stop", "wait", "waiting"}
          => (monitor # "none" => "monitor" \in comps /\ monitor # "crashed")
    /\ pc["manager"] # "exit"

\* A core runs unseen only after a stop that hung.  Until New has returned the same
\* goes for a netstack: only startComponents forgets to close one.
Leaks ==
    /\ "core" \in leaked => hung
    /\ isNew => leaked = {} \/ hung
    /\ pc["manager"] = "failed" => isNew

Inv == CallerTypes /\ NodeTypes /\ Leaks /\ (pc["closer"] = "open" => Managed)

-----------------------------------------------------------------------------
\* The order of the initialisation, entry by entry.
LEMMA OrderIs ==
    /\ Len(Order) = 6
    /\ Order[1] = "core" /\ Order[2] = "admin" /\ Order[3] = "multicast"
    /\ Order[4] = "monitor" /\ Order[5] = "netstack" /\ Order[6] = "socks"
  BY DEF Order

\* The initial state satisfies the inductive invariant.
LEMMA InitInv == Init => Inv
<1> SUFFICES ASSUME Init PROVE Inv
  OBVIOUS
<1> USE DEF Init
<1>1. CallerTypes
  BY DEF CallerTypes, ManagerPlaces, CloserPlaces, Threads
<1>2. NodeTypes
  BY DEF NodeTypes
<1>3. Managed
  BY DEF Managed, Threads
<1>4. Leaks
  BY DEF Leaks, Threads
<1> QED
  BY <1>1, <1>2, <1>3, <1>4 DEF Inv

\* Every step of New, startComponents and rollbackComponents keeps the invariant.
LEMMA StartingInv == Inv /\ Starting => Inv'
<1> SUFFICES ASSUME Inv, Starting PROVE Inv'
  OBVIOUS
<1> USE OrderIs
    DEF Inv, CallerTypes, NodeTypes, Leaks, Managed, Quiet, Idle, Closing, Goto, Threads,
        ManagerPlaces, CloserPlaces, StopPlaces, goVars, ctxVars, nodeVars
<1>1. ASSUME StartBegin PROVE Inv'
  BY <1>1 DEF StartBegin
<1>2. ASSUME InitStep PROVE Inv'
  <2> DEFINE c == Order[step]
  <2>1. c \in Names /\ (c = "monitor" => {"monitor"} \subseteq Owners)
    BY <1>2 DEF InitStep, Names, Owners
  <2>2. comps' \in {comps, comps \cup {c}} /\ cancelled' \subseteq Owners
    BY <1>2, <2>1 DEF InitStep, Spawn
  <2>3. CallerTypes' /\ NodeTypes'
    BY <1>2, <2>1, <2>2 DEF InitStep
  <2>4. pc["closer"] = "open" => Managed'
    BY <1>2 DEF InitStep, Configured
  <2> QED
    BY <1>2, <2>3, <2>4 DEF InitStep
<1>3. ASSUME InitFails PROVE Inv'
  BY <1>3 DEF InitFails
<1>4. ASSUME InitMappings PROVE Inv'
  <2>1. cancelled' \subseteq Owners
    BY <1>4 DEF InitMappings, Spawn, Owners
  <2>2. CallerTypes'
    BY <1>4 DEF InitMappings
  <2>3. NodeTypes'
    BY <1>4, <2>1 DEF InitMappings
  <2>4. pc["closer"] = "open" => Managed'
    BY <1>4 DEF InitMappings
  <2> QED
    BY <1>4, <2>2, <2>3, <2>4 DEF InitMappings
<1>5. ASSUME Rollback PROVE Inv'
  BY <1>5 DEF Rollback, ForgetNode
<1>6. ASSUME RollbackWait PROVE Inv'
  BY <1>6 DEF RollbackWait
<1>7. ASSUME Relock PROVE Inv'
  BY <1>7 DEF Relock
<1> QED
  BY <1>1, <1>2, <1>3, <1>4, <1>5, <1>6, <1>7 DEF Starting

\* Every step of stopComponents and its callers keeps the invariant.
LEMMA StoppingInv ==
    Inv /\ (ManagerStops \/ ManagerExits \/ CloseBegin \/ \E t \in Threads : Stop(t)) => Inv'
<1> SUFFICES ASSUME Inv, ManagerStops \/ ManagerExits \/ CloseBegin \/ \E t \in Threads : Stop(t)
             PROVE  Inv'
  OBVIOUS
<1> USE DEF Inv, CallerTypes, NodeTypes, Leaks, Managed, Quiet, Idle, Closing, Goto, Threads,
            ManagerPlaces, CloserPlaces, StopPlaces, goVars, ctxVars, nodeVars
<1>1. ASSUME ManagerStops PROVE Inv'
  BY <1>1 DEF ManagerStops
<1>2. ASSUME ManagerExits PROVE Inv'
  BY <1>2 DEF ManagerExits
<1>3. ASSUME CloseBegin PROVE Inv'
  BY <1>3 DEF CloseBegin
<1>4. ASSUME NEW t \in Threads, StopSignal(t) PROVE Inv'
  BY <1>4 DEF StopSignal
<1>5. ASSUME NEW t \in Threads, StopWait(t) PROVE Inv'
  BY <1>5 DEF StopWait
<1>6. ASSUME NEW t \in Threads, Teardown(t) PROVE Inv'
  BY <1>6 DEF Teardown, Names
<1>7. ASSUME NEW t \in Threads, TeardownCore(t) PROVE Inv'
  BY <1>7 DEF TeardownCore, ForgetNode
<1> QED
  BY <1>1, <1>2, <1>3, <1>4, <1>5, <1>6, <1>7 DEF Stop

\* Every step of a goroutine keeps the invariant; its end moves a waiting caller
\* on only when no goroutine is left.
LEMMA GoroutineInv ==
    Inv /\ (\/ MonitorStep \/ SocksEnds
            \/ \E m \in Mappings : \/ MappingListens(m) \/ AddCloser(m)
                                   \/ MappingEnds(m) \/ MappingFails(m)) => Inv'
<1> SUFFICES ASSUME Inv,
                    \/ MonitorStep \/ SocksEnds
                    \/ \E m \in Mappings : \/ MappingListens(m) \/ AddCloser(m)
                                           \/ MappingEnds(m) \/ MappingFails(m)
             PROVE  Inv'
  OBVIOUS
<1> USE DEF Inv, CallerTypes, NodeTypes, Leaks, Managed, Quiet, Idle, Threads,
            ManagerPlaces, CloserPlaces, StopPlaces, goVars, ctxVars, nodeVars
<1>1. ASSUME MonitorRuns \/ MonitorPolls \/ MonitorReports \/ MonitorTick PROVE Inv'
  <2>1. monitor # "none" /\ UNCHANGED <<pc, isNew, step, mu, nodeVars, socks, mapping, ctxVars>>
    BY <1>1 DEF MonitorRuns, MonitorPolls, MonitorReports, MonitorTick
  <2>2. /\ monitor' \in {"none", "spawned", "polling", "callback", "select", "crashed"}
        /\ monitor' = "crashed" => "monitor" \notin comps
    BY <1>1 DEF MonitorRuns, MonitorPolls, MonitorReports, MonitorTick
  <2> QED
    BY <2>1, <2>2
<1>2. ASSUME MonitorEnds PROVE Inv'
  BY <1>2 DEF MonitorEnds, GoroutineEnds
<1>3. ASSUME SocksEnds PROVE Inv'
  BY <1>3 DEF SocksEnds, GoroutineEnds
<1>4. ASSUME NEW m \in Mappings, MappingListens(m) \/ AddCloser(m) PROVE Inv'
  <2>1. /\ mapping[m] # "none" /\ closers' \subseteq Mappings
        /\ mapping' \in [Mappings -> {"none", "spawned", "listening", "serving"}]
        /\ UNCHANGED <<pc, isNew, step, mu, nodeVars, monitor, socks, cancelled, shut>>
    BY <1>4 DEF MappingListens, AddCloser
  <2>2. CallerTypes' /\ NodeTypes'
    BY <2>1
  <2>3. pc["closer"] = "open" => Managed'
    BY <2>1
  <2> QED
    BY <2>1, <2>2, <2>3
<1>5. ASSUME NEW m \in Mappings, MappingEnds(m) \/ MappingFails(m) PROVE Inv'
  BY <1>5 DEF MappingEnds, MappingFails, MappingEnded, GoroutineEnds
<1> QED
  BY <1>1, <1>2, <1>3, <1>4, <1>5 DEF MonitorStep

\* The invariant holds in every state.
LEMMA InvHolds == Spec => []Inv
<1>1. Inv /\ UNCHANGED vars => Inv'
  BY DEF Inv, CallerTypes, NodeTypes, Leaks, Managed, Quiet, Idle, vars
<1>2. Inv /\ [Next]_vars => Inv'
  BY <1>1, StartingInv, StoppingInv, GoroutineInv DEF Next, Halted
<1> QED
  BY <1>2, InitInv, PTL DEF Spec

-----------------------------------------------------------------------------
\* Every variable keeps its type for any set of mappings, also while the manager
\* and Close are both inside stopComponents.
THEOREM TypeCorrect == Spec => []TypeOK
<1>1. {Order[n] : n \in 1..Len(Order)} = Names
  BY OrderIs DEF Names
<1>2. Inv => TypeOK
  BY <1>1, OrderIs DEF Inv, CallerTypes, NodeTypes, ManagerPlaces, CloserPlaces, TypeOK
<1> QED
  BY <1>2, InvHolds, PTL

\* A node the manager has put to sleep, or failed to wake, has no component and no
\* goroutine left and its cores are stopped, except one that hangs, for any set of
\* mappings; a failed New leaves no more than a hanging core (stopComponents,
\* startComponents, rollbackComponents).
THEOREM SleepIsDown == Spec => []DownIsDown
<1>1. Inv => DownIsDown
  BY DEF Inv, Leaks, Managed, Quiet, DownIsDown, Closing
<1> QED
  BY <1>1, InvHolds, PTL

\* Until Close, SOCKS and the mappings never run without the core and the
\* netstack: phase 2 of stopComponents comes after its wait, and a start fails
\* only before they run.  Only a rollback takes the field of the monitor from
\* under its goroutine.
THEOREM NodeOutlivesGoroutines == Spec => []GoroutinesHaveNode
<1>1. Inv => GoroutinesHaveNode
  BY DEF Inv, CallerTypes, NodeTypes, Leaks, Managed, Quiet, Idle, ManagerPlaces, StopPlaces,
         GoroutinesHaveNode, Closing
<1> QED
  BY <1>1, InvHolds, PTL

-----------------------------------------------------------------------------
(* componentsMu, also once Close has begun.                                *)

\* Who takes the core down holds the lock, and so does who starts components; New
\* does not, but Close comes only after it.
Locked ==
    /\ pc["manager"] = "core" => mu = "manager"
    /\ pc["closer"] = "core" => mu = "closer"
    /\ pc["manager"] \in {"init", "rollback"} /\ ~isNew => mu = "manager"
    /\ isNew => pc["manager"] \in {"init", "rollback", "failed"} /\ pc["closer"] = "open"

\* Every step keeps the lock with its holder.
LEMMA LockedStep == Inv /\ Locked /\ [Next]_vars => Locked'
<1> SUFFICES ASSUME Inv, Locked, [Next]_vars PROVE Locked'
  OBVIOUS
<1> USE DEF Inv, CallerTypes, Locked, Threads, Goto
<1>1. ASSUME StartBegin PROVE Locked'
  BY <1>1 DEF StartBegin
<1>2. ASSUME InitStep PROVE Locked'
  BY <1>2 DEF InitStep
<1>3. ASSUME InitFails PROVE Locked'
  BY <1>3 DEF InitFails
<1>4. ASSUME InitMappings PROVE Locked'
  BY <1>4 DEF InitMappings
<1>5. ASSUME Rollback PROVE Locked'
  BY <1>5 DEF Rollback
<1>6. ASSUME RollbackWait \/ Relock \/ ManagerStops \/ ManagerExits \/ CloseBegin PROVE Locked'
  BY <1>6 DEF RollbackWait, Relock, ManagerStops, ManagerExits, CloseBegin
<1>7. ASSUME NEW t \in Threads, StopSignal(t) \/ StopWait(t) PROVE Locked'
  BY <1>7 DEF StopSignal, StopWait
<1>8. ASSUME NEW t \in Threads, Teardown(t) PROVE Locked'
  BY <1>8 DEF Teardown
<1>9. ASSUME NEW t \in Threads, TeardownCore(t) PROVE Locked'
  BY <1>9 DEF TeardownCore
<1>10. ASSUME GoroutineEnds, UNCHANGED <<isNew, mu>> PROVE Locked'
  <2>1. \A t \in Threads : pc'[t] = pc[t] \/ (pc[t] = "waiting" /\ pc'[t] = "teardown")
                                          \/ (pc[t] = "rollbackWaiting" /\ pc'[t] = "relock")
    BY <1>10 DEF GoroutineEnds
  <2> QED
    BY <1>10, <2>1
<1>11. ASSUME UNCHANGED <<pc, isNew, mu>> PROVE Locked'
  BY <1>11
<1>12. ASSUME MonitorStep \/ SocksEnds PROVE Locked'
  <2>1. UNCHANGED <<isNew, mu>> /\ (GoroutineEnds \/ UNCHANGED pc)
    BY <1>12 DEF MonitorStep, MonitorRuns, MonitorPolls, MonitorReports, MonitorTick, MonitorEnds,
           SocksEnds
  <2> QED
    BY <1>10, <1>11, <2>1
<1>13. ASSUME NEW m \in Mappings,
              MappingListens(m) \/ AddCloser(m) \/ MappingEnds(m) \/ MappingFails(m)
       PROVE  Locked'
  <2>1. UNCHANGED <<isNew, mu>> /\ (GoroutineEnds \/ UNCHANGED pc)
    BY <1>13 DEF MappingListens, AddCloser, MappingEnds, MappingFails, MappingEnded
  <2> QED
    BY <1>10, <1>11, <2>1
<1>14. ASSUME Halted \/ UNCHANGED vars PROVE Locked'
  BY <1>11, <1>14 DEF Halted, vars
<1>15. ASSUME Starting \/ ManagerStops \/ ManagerExits \/ CloseBegin PROVE Locked'
  BY <1>1, <1>2, <1>3, <1>4, <1>5, <1>6, <1>15 DEF Starting
<1>16. ASSUME NEW t \in Threads, Stop(t) PROVE Locked'
  BY <1>7, <1>8, <1>9, <1>16 DEF Stop
<1> QED
  BY <1>12, <1>13, <1>14, <1>15, <1>16 DEF Next

\* The teardown of the core and the netstack is exclusive, for any set of mappings
\* and also while Close and the manager are both inside stopComponents.
THEOREM TeardownExclusive == Spec => []TeardownAlone
<1>1. Init => Locked
  BY DEF Init, Locked, Threads
<1>2. Inv /\ Locked => TeardownAlone
  BY DEF Inv, CallerTypes, CloserPlaces, StopPlaces, Locked, TeardownAlone, Threads
<1> QED
  BY <1>1, <1>2, LockedStep, InvHolds, PTL DEF Spec

=============================================================================
