---------------------------- MODULE MobileProofs ----------------------------
(***************************************************************************)
(* Proofs about Mobile for any number of threads of the application, any   *)
(* set of peers and any number of deliveries under way: the variables keep *)
(* their types, the binding owns the one node that runs, and the           *)
(* configuration does not change under it.                                 *)
(***************************************************************************)
EXTENDS Mobile, FiniteSetTheorems, TLAPS

\* TypeOK but for the number of cores, which NodeOwned gives, in groups: the
\* binding and its threads, the cores given up, what is told of the node.
BindingTypes ==
    /\ mu \in Threads \cup {"free"}
    /\ call \in [Threads -> {"idle", "starting", "stopping", "trigger"}]
    /\ ref \in [Threads -> {"none", "alive", "closed"}]
    /\ node \in BOOLEAN
    /\ hangs \in BOOLEAN
    /\ registered \in BOOLEAN
    /\ peers \subseteq URIs
    /\ connected \subseteq corePeers /\ corePeers \subseteq URIs

GivenUpType == givenUp \in 0..MaxGivenUp

EventTypes ==
    /\ monitor \in {"none", "polling", "select"}
    /\ last \in Counts
    /\ flight \in [Slots -> Counts \cup {NoEvent}]
    /\ shown \in Counts

\* Start and Stop hold mu from the check of node to its assignment, so that at
\* most one of them is under way and what it has checked stays true.
Locked ==
    \A t \in Threads :
        /\ call[t] \in {"starting", "stopping"} => mu = t
        /\ call[t] = "starting" => ~node
        /\ call[t] = "stopping" => node

Inv == BindingTypes /\ GivenUpType /\ Locked /\ NodeOwned

-----------------------------------------------------------------------------
\* What the monitor and TriggerPeerUpdate count is a pair of sizes.
LEMMA CountType == BindingTypes => Count \in Counts /\ <<0, 0>> \in Counts
<1> SUFFICES ASSUME BindingTypes PROVE Count \in Counts /\ <<0, 0>> \in Counts
  OBVIOUS
<1>1. Cardinality(URIs) \in Nat
  BY MobileAssumption, FS_CardinalityType
<1>2. corePeers \in SUBSET URIs /\ connected \in SUBSET URIs
  BY DEF BindingTypes
<1>3. Cardinality(corePeers) \in Sizes /\ Cardinality(connected) \in Sizes
  BY <1>1, <1>2, MobileAssumption, FS_Subset, FS_CardinalityType DEF Sizes
<1> QED
  BY <1>1, <1>3 DEF Count, Counts, Sizes

\* The initial states satisfy the inductive invariant.
LEMMA InitInv == Init => Inv /\ EventTypes
<1> SUFFICES ASSUME Init PROVE Inv /\ EventTypes
  OBVIOUS
<1> USE MobileAssumption DEF Init
<1>1. BindingTypes
  BY DEF BindingTypes
<1>2. GivenUpType /\ Locked /\ NodeOwned
  BY DEF GivenUpType, Locked, NodeOwned
<1>3. EventTypes
  BY <1>1, CountType DEF EventTypes
<1> QED
  BY <1>1, <1>2, <1>3 DEF Inv

\* The invariant is inductive.
LEMMA InvStep == Inv /\ [Next]_vars => Inv'
<1> SUFFICES ASSUME Inv, [Next]_vars PROVE Inv'
  OBVIOUS
<1> USE MobileAssumption
    DEF Inv, BindingTypes, GivenUpType, Locked, NodeOwned, Locks, appVars, coreVars, monVars
<1>1. ASSUME NEW t \in Threads, LoadConfigJSON(t) PROVE Inv'
  BY <1>1 DEF LoadConfigJSON
<1>2. ASSUME NEW t \in Threads, NEW u \in URIs, AddPeer(t, u) PROVE Inv'
  BY <1>2 DEF AddPeer, CoreAddPeer
<1>3. ASSUME NEW t \in Threads, NEW u \in URIs, RemovePeer(t, u) PROVE Inv'
  BY <1>3 DEF RemovePeer, CoreRemovePeer
<1>4. ASSUME NEW t \in Threads, StartBegin(t) PROVE Inv'
  BY <1>4 DEF StartBegin
<1>5. ASSUME NEW t \in Threads, StopBegin(t) PROVE Inv'
  BY <1>5 DEF StopBegin
<1>6. ASSUME NEW t \in Threads, FetchNode(t) PROVE Inv'
  BY <1>6 DEF FetchNode
<1>7. ASSUME NEW t \in Threads, StartOk(t) PROVE Inv'
  BY <1>7 DEF StartOk, Return
<1>8. ASSUME NEW t \in Threads, StartFails(t) PROVE Inv'
  BY <1>8 DEF StartFails, GiveUp, Return
<1>9. ASSUME NEW t \in Threads, StopEnd(t) PROVE Inv'
  <2>1. \A r \in Threads \ {t} : call[r] \notin {"starting", "stopping"}
    BY <1>9 DEF StopEnd
  <2>2. BindingTypes'
    BY <1>9 DEF StopEnd, Return
  <2>3. Locked'
    BY <1>9, <2>1 DEF StopEnd, Return
  <2>4. GivenUpType' /\ NodeOwned'
    BY <1>9 DEF StopEnd, GiveUp
  <2> QED
    BY <2>2, <2>3, <2>4
<1>10. ASSUME NEW t \in Threads, TriggerPeerUpdate(t) PROVE Inv'
  BY <1>10 DEF TriggerPeerUpdate
<1>11. ASSUME SetPeerChangeCallback PROVE Inv'
  BY <1>11 DEF SetPeerChangeCallback
<1>12. ASSUME Poll \/ MonitorTick \/ MonitorEnds PROVE Inv'
  BY <1>12 DEF Poll, MonitorTick, MonitorEnds
<1>13. ASSUME NEW s \in Slots, Deliver(s) PROVE Inv'
  BY <1>13 DEF Deliver
<1>14. ASSUME NEW u \in URIs, LinkUp(u) \/ LinkDown(u) PROVE Inv'
  BY <1>14 DEF LinkUp, LinkDown
<1>15. ASSUME NEW t \in Threads, NodeHangs(t) PROVE Inv'
  BY <1>15 DEF NodeHangs
<1>16. ASSUME HangEnds PROVE Inv'
  BY <1>16 DEF HangEnds
<1>17. ASSUME GivenUpStops PROVE Inv'
  BY <1>17 DEF GivenUpStops
<1>18. ASSUME UNCHANGED vars PROVE Inv'
  BY <1>18 DEF vars
<1> QED
  BY <1>1, <1>2, <1>3, <1>4, <1>5, <1>6, <1>7, <1>8, <1>9, <1>10, <1>11, <1>12,
     <1>13, <1>14, <1>15, <1>16, <1>17, <1>18
  DEF Next, Configure, Returns

\* A report of a pair of sizes leaves the deliveries well-typed.
LEMMA ReportType ==
    ASSUME flight \in [Slots -> Counts \cup {NoEvent}], NEW c \in Counts,
           OnPeerCountChanged(c)
    PROVE  flight' \in [Slots -> Counts \cup {NoEvent}]
  BY DEF OnPeerCountChanged

\* What the monitor remembers, what is under way and what has been told are
\* counts of peers, in every state.
LEMMA EventStep == Inv /\ EventTypes /\ [Next]_vars => EventTypes'
<1> SUFFICES ASSUME Inv, EventTypes, [Next]_vars PROVE EventTypes'
  OBVIOUS
<1>1. Count \in Counts /\ <<0, 0>> \in Counts
  BY CountType DEF Inv
<1> USE DEF EventTypes, appVars, monVars
<1>2. ASSUME NEW t \in Threads, NEW u \in URIs,
             LoadConfigJSON(t) \/ AddPeer(t, u) \/ RemovePeer(t, u)
      PROVE  EventTypes'
  BY <1>2 DEF LoadConfigJSON, AddPeer, RemovePeer
<1>3. ASSUME NEW t \in Threads,
             \/ LoadConfigJSON(t) \/ StartBegin(t) \/ StopBegin(t) \/ FetchNode(t)
             \/ StartFails(t) \/ StopEnd(t) \/ NodeHangs(t)
      PROVE  EventTypes'
  BY <1>3 DEF LoadConfigJSON, StartBegin, StopBegin, FetchNode, StartFails, StopEnd,
              NodeHangs
<1>4. ASSUME NEW t \in Threads, StartOk(t) PROVE EventTypes'
  BY <1>1, <1>4 DEF StartOk
<1>5. ASSUME NEW t \in Threads, TriggerPeerUpdate(t) PROVE EventTypes'
  <2>1. (IF ref[t] = "alive" THEN Count ELSE <<0, 0>>) \in Counts
    BY <1>1
  <2>2. flight' \in [Slots -> Counts \cup {NoEvent}]
    BY <1>5, <2>1, ReportType DEF TriggerPeerUpdate
  <2> QED
    BY <1>5, <2>2 DEF TriggerPeerUpdate
<1>6. ASSUME Poll PROVE EventTypes'
  <2>1. flight' \in [Slots -> Counts \cup {NoEvent}]
    BY <1>1, <1>6, ReportType DEF Poll
  <2> QED
    BY <1>1, <1>6, <2>1 DEF Poll
<1>7. ASSUME \/ MonitorTick \/ MonitorEnds \/ SetPeerChangeCallback
             \/ HangEnds \/ GivenUpStops
      PROVE  EventTypes'
  BY <1>7 DEF MonitorTick, MonitorEnds, SetPeerChangeCallback, HangEnds, GivenUpStops
<1>8. ASSUME NEW s \in Slots, Deliver(s) PROVE EventTypes'
  BY <1>8 DEF Deliver
<1>9. ASSUME NEW u \in URIs, LinkUp(u) \/ LinkDown(u) PROVE EventTypes'
  BY <1>9 DEF LinkUp, LinkDown
<1>10. ASSUME UNCHANGED vars PROVE EventTypes'
  BY <1>10 DEF vars
<1> QED
  BY <1>2, <1>3, <1>4, <1>5, <1>6, <1>7, <1>8, <1>9, <1>10 DEF Next, Configure, Returns

\* Both hold in every state.
LEMMA InvHolds == Spec => [](Inv /\ EventTypes)
  BY InitInv, InvStep, EventStep, PTL DEF Spec

-----------------------------------------------------------------------------
\* However many threads call Start and Stop, at most one core runs, that of the
\* node the binding's field points to, but for the cores whose Stop was given up.
THEOREM NodeIsOwned == Spec => []NodeOwned
<1>1. Inv => NodeOwned
  BY DEF Inv
<1> QED
  BY <1>1, InvHolds, PTL

\* Every variable keeps its type; in particular a link that is up belongs to a
\* peer of the core, across AddPeer, RemovePeer and restarts.
THEOREM TypeCorrect == Spec => []TypeOK
<1>1. Inv /\ EventTypes => TypeOK
  <2> SUFFICES ASSUME Inv, EventTypes PROVE TypeOK
    OBVIOUS
  <2>1. cores \in 0..(MaxGivenUp + 1)
    BY MobileAssumption DEF Inv, GivenUpType, NodeOwned
  <2> QED
    BY <2>1 DEF Inv, BindingTypes, GivenUpType, EventTypes, TypeOK
<1> QED
  BY <1>1, InvHolds, PTL

\* No call of any thread changes the configuration between the moment Start has
\* read it and the end of Stop.
THEOREM ConfigIsFrozen == Spec => ConfigFrozen
<1>1. Inv /\ [Next]_vars =>
          [node \/ (\E t \in Threads : call[t] = "starting") => peers' = peers]_vars
  <2> SUFFICES ASSUME Inv, Next, node \/ (\E t \in Threads : call[t] = "starting")
               PROVE  peers' = peers
    OBVIOUS
  <2>1. ASSUME NEW t \in Threads, Configure(t) PROVE peers' = peers
    <3>1. mu = "free"
      BY <2>1 DEF Configure, LoadConfigJSON, AddPeer, RemovePeer, Locks
    <3>2. node
      BY <3>1, MobileAssumption DEF Inv, Locked
    <3> QED
      BY <2>1, <3>2 DEF Configure, LoadConfigJSON, AddPeer, RemovePeer
  <2>2. ASSUME NEW t \in Threads,
               \/ StartBegin(t) \/ StopBegin(t) \/ FetchNode(t) \/ Returns(t)
               \/ NodeHangs(t)
        PROVE  peers' = peers
    BY <2>2 DEF StartBegin, StopBegin, FetchNode, Returns, StartOk, StartFails, StopEnd,
                TriggerPeerUpdate, NodeHangs
  <2>3. ASSUME \/ HangEnds \/ GivenUpStops
               \/ SetPeerChangeCallback \/ Poll \/ MonitorTick \/ MonitorEnds
               \/ \E s \in Slots : Deliver(s)
               \/ \E u \in URIs : LinkUp(u) \/ LinkDown(u)
        PROVE  peers' = peers
    BY <2>3 DEF HangEnds, GivenUpStops, SetPeerChangeCallback, Poll, MonitorTick, MonitorEnds,
                Deliver, LinkUp, LinkDown
  <2> QED
    BY <2>1, <2>2, <2>3 DEF Next
<1> QED
  BY <1>1, InvHolds, PTL DEF Spec, ConfigFrozen

=============================================================================
