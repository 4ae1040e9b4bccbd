-------------------------- MODULE UDPSessionsProofs --------------------------
(***************************************************************************)
(* Proofs about UDPSessions for any set of source addresses, any number of *)
(* sessions and any timeout: it implements Activity, its variables keep    *)
(* their types, and what leaves the session map has been closed.           *)
(***************************************************************************)
EXTENDS UDPSessions, FiniteSetTheorems, TLAPS

\* TypeOK but for the bound of the counter, which Counting gives, in three
\* groups: the sessions, the loop, the cleaner.
SessionTypes ==
    /\ sessions \in [Keys -> Ids \cup {None}]
    /\ created \in 0..MaxSessions
    /\ status \in [Ids -> {"none", "open", "closing", "closed"}]
    /\ age \in [Ids -> 0..(Timeout + 1)]
    /\ proxy \in [Ids -> {"none", "running", "ended"}]
    /\ counter \in Int
    /\ ctxDone \in BOOLEAN /\ connClosed \in BOOLEAN

LoopTypes == loop \in LoopPCs /\ lkey \in Keys /\ lsess \in Ids \cup {None}

CleanerTypes ==
    /\ cleaner \in CleanerPCs /\ snapshot \subseteq (Keys \X Ids)
    /\ ckey \in Keys /\ csess \in Ids \cup {None}

Shape == SessionTypes /\ LoopTypes /\ CleanerTypes

LoopHolds == {"store", "write", "close", "closing", "delete"}
CleanerHolds == {"close", "closing", "delete", "lastClose", "lastClosing"}
CleanerInside == {"closing", "lastClosing"}

\* Sessions are numbered as they are opened; those in the map, in the snapshot
\* and in hand have been opened.
Known ==
    /\ \A i \in Ids : status[i] = "none" <=> i > created
    /\ \A k \in Keys : sessions[k] # None => status[sessions[k]] # "none"
    /\ \A p \in snapshot : status[p[2]] # "none"
    /\ loop \in LoopHolds => lsess \in Ids /\ status[lsess] # "none"
    /\ cleaner \in CleanerHolds => csess \in Ids /\ status[csess] # "none"

\* Whoever is inside CloseOnce of a session is there alone.
Once ==
    /\ loop = "closing" => status[lsess] = "closing"
    /\ cleaner \in CleanerInside => status[csess] = "closing"
    /\ loop = "closing" /\ cleaner \in CleanerInside => lsess # csess

\* From the lookup that finds no session to the store there is none.
Vacant == loop \in {"dial", "store"} => sessions[lkey] = None

Counting == counter = Cardinality(Live)

Inv == Shape /\ Known /\ Once /\ Vacant

-----------------------------------------------------------------------------
\* The initial states satisfy the inductive invariant.
LEMMA InitInv == Init => Inv
<1> SUFFICES ASSUME Init PROVE Inv
  OBVIOUS
<1> USE UDPSessionsAssumption DEF Init
<1>1. SessionTypes
  <2>1. ctxDone \in BOOLEAN /\ connClosed \in BOOLEAN
    OBVIOUS
  <2>2. sessions \in [Keys -> Ids \cup {None}] /\ created \in 0..MaxSessions /\ counter \in Int
    BY DEF None
  <2>3. /\ status \in [Ids -> {"none", "open", "closing", "closed"}]
        /\ age \in [Ids -> 0..(Timeout + 1)]
        /\ proxy \in [Ids -> {"none", "running", "ended"}]
    OBVIOUS
  <2> QED
    BY <2>1, <2>2, <2>3 DEF SessionTypes
<1>2. LoopTypes /\ CleanerTypes
  BY DEF LoopTypes, CleanerTypes, LoopPCs, CleanerPCs
<1>3. Known
  BY DEF Known, LoopHolds, CleanerHolds, Ids
<1>4. Once /\ Vacant
  BY DEF Once, Vacant, CleanerInside
<1> QED
  BY <1>1, <1>2, <1>3, <1>4 DEF Inv, Shape

\* The steps of the loop keep the invariant.
LEMMA LoopStepInv == Inv /\ (LoopStep \/ \E k \in Keys : LoopRead(k)) => Inv'
<1> SUFFICES ASSUME Inv, LoopStep \/ \E k \in Keys : LoopRead(k) PROVE Inv'
  OBVIOUS
<1> USE UDPSessionsAssumption
    DEF Inv, Shape, SessionTypes, LoopTypes, CleanerTypes, Known, Once, Vacant,
        LoopHolds, CleanerHolds, CleanerInside, LoopPCs, CleanerPCs, Ids, None,
        loopVars, cleanerVars, stopVars
<1>1. ASSUME NEW k \in Keys, LoopRead(k) PROVE Inv'
  BY <1>1 DEF LoopRead
<1>2. ASSUME LoopExit PROVE Inv'
  BY <1>2 DEF LoopExit
<1>3. ASSUME LoopDial PROVE Inv'
  <2>1. CASE UNCHANGED <<created, lsess, status, counter>> /\ loop' = "read"
    BY <1>3, <2>1 DEF LoopDial
  <2>2. CASE /\ created < MaxSessions /\ created' = created + 1 /\ lsess' = created'
             /\ status' = [status EXCEPT ![created'] = "open"]
             /\ counter' = counter + 1 /\ loop' = "store"
    <3>1. created + 1 \in Ids /\ status[created + 1] = "none"
      BY <2>2
    <3>2. Shape'
      <4>1. UNCHANGED <<sessions, age, proxy, lkey, cleanerVars, stopVars>>
        BY <1>3 DEF LoopDial
      <4>2. status' \in [Ids -> {"none", "open", "closing", "closed"}] /\ lsess' \in Ids
        BY <2>2, <3>1
      <4>3. created' \in 0..MaxSessions /\ counter' \in Int
        BY <2>2
      <4> QED
        BY <2>2, <4>1, <4>2, <4>3
    <3>3. Known'
      BY <1>3, <2>2, <3>1 DEF LoopDial
    <3>4. (Once /\ Vacant)'
      BY <1>3, <2>2, <3>1 DEF LoopDial
    <3> QED
      BY <3>2, <3>3, <3>4
  <2> QED
    BY <1>3, <2>1, <2>2 DEF LoopDial
<1>4. ASSUME LoopStore PROVE Inv'
  BY <1>4 DEF LoopStore
<1>5. ASSUME LoopWrite PROVE Inv'
  <2>1. /\ UNCHANGED <<sessions, created, status, lsess, lkey, snapshot, cleaner, csess>>
        /\ loop = "write" /\ loop' \in {"read", "close"}
    BY <1>5 DEF LoopWrite
  <2>2. Shape'
    BY <1>5, <2>1 DEF LoopWrite
  <2>3. (Known /\ Once /\ Vacant)'
    BY <2>1
  <2> QED
    BY <2>2, <2>3
<1>6. ASSUME LoopClose PROVE Inv'
  <2>1. /\ lsess \in Ids /\ status[lsess] # "none"
        /\ UNCHANGED <<sessions, created, lsess, lkey, snapshot, cleaner, csess>>
    BY <1>6 DEF LoopClose
  <2>2. CASE status[lsess] = "open"
    <3>1. loop' = "closing" /\ status' = [status EXCEPT ![lsess] = "closing"]
      BY <1>6, <2>2 DEF LoopClose, CloseEnter
    <3>2. Shape'
      BY <1>6, <2>1, <3>1 DEF LoopClose
    <3>3. Known'
      BY <2>1, <3>1
    <3>4. (Once /\ Vacant)'
      BY <2>1, <2>2, <3>1
    <3> QED
      BY <3>2, <3>3, <3>4
  <2>3. CASE status[lsess] # "open"
    <3>1. loop' = "delete" /\ UNCHANGED status
      BY <1>6, <2>3 DEF LoopClose, CloseEnter
    <3>2. Shape'
      BY <1>6, <2>1, <3>1 DEF LoopClose
    <3>3. (Known /\ Once /\ Vacant)'
      BY <2>1, <3>1
    <3> QED
      BY <3>2, <3>3
  <2> QED
    BY <2>2, <2>3
<1>7. ASSUME LoopClosed PROVE Inv'
  <2>1. lsess \in Ids
    BY <1>7 DEF LoopClosed
  <2>2. Shape'
    BY <1>7, <2>1 DEF LoopClosed, CloseLeave
  <2>3. Known'
    BY <1>7, <2>1 DEF LoopClosed, CloseLeave
  <2>4. (Once /\ Vacant)'
    BY <1>7, <2>1 DEF LoopClosed, CloseLeave
  <2> QED
    BY <2>2, <2>3, <2>4
<1>8. ASSUME LoopDelete PROVE Inv'
  BY <1>8 DEF LoopDelete
<1> QED
  BY <1>1, <1>2, <1>3, <1>4, <1>5, <1>6, <1>7, <1>8 DEF LoopStep

\* The steps of the cleaner keep the invariant.
LEMMA CleanerStepInv == Inv /\ (CleanerTick \/ CleanerLast \/ CleanerWork) => Inv'
<1> SUFFICES ASSUME Inv, CleanerTick \/ CleanerLast \/ CleanerWork PROVE Inv'
  OBVIOUS
<1> USE UDPSessionsAssumption
    DEF Inv, Shape, SessionTypes, LoopTypes, CleanerTypes, Known, Once, Vacant,
        LoopHolds, CleanerHolds, CleanerInside, LoopPCs, CleanerPCs, Ids, None,
        loopVars, cleanerVars, stopVars
<1>1. ASSUME CleanerTick PROVE Inv'
  BY <1>1 DEF CleanerTick, Mapped
<1>2. ASSUME CleanerLast PROVE Inv'
  BY <1>2 DEF CleanerLast, Mapped
<1>3. ASSUME NEW p \in snapshot, CleanerVisit(p[1], p[2]) PROVE Inv'
  BY <1>3 DEF CleanerVisit
<1>4. ASSUME CleanerRangeEnd PROVE Inv'
  BY <1>4 DEF CleanerRangeEnd
<1>5. ASSUME CleanerClose PROVE Inv'
  <2>1. /\ csess \in Ids /\ status[csess] # "none"
        /\ UNCHANGED <<sessions, created, lsess, lkey, loop, snapshot, csess>>
    BY <1>5 DEF CleanerClose
  <2>2. CASE status[csess] = "open"
    <3>1. /\ cleaner' \in {"closing", "lastClosing"}
          /\ status' = [status EXCEPT ![csess] = "closing"]
      BY <1>5, <2>2 DEF CleanerClose, CloseEnter
    <3>2. Shape'
      BY <1>5, <2>1, <3>1 DEF CleanerClose
    <3>3. Known'
      BY <2>1, <3>1
    <3>4. (Once /\ Vacant)'
      BY <2>1, <2>2, <3>1
    <3> QED
      BY <3>2, <3>3, <3>4
  <2>3. CASE status[csess] # "open"
    <3>1. cleaner' \in {"delete", "last"} /\ UNCHANGED status
      BY <1>5, <2>3 DEF CleanerClose, CloseEnter
    <3>2. Shape'
      BY <1>5, <2>1, <3>1 DEF CleanerClose
    <3>3. (Known /\ Once /\ Vacant)'
      BY <2>1, <3>1
    <3> QED
      BY <3>2, <3>3
  <2> QED
    BY <2>2, <2>3
<1>6. ASSUME CleanerClosed PROVE Inv'
  <2>1. csess \in Ids
    BY <1>6 DEF CleanerClosed
  <2>2. Shape'
    BY <1>6, <2>1 DEF CleanerClosed, CloseLeave
  <2>3. Known'
    BY <1>6, <2>1 DEF CleanerClosed, CloseLeave
  <2>4. (Once /\ Vacant)'
    BY <1>6, <2>1 DEF CleanerClosed, CloseLeave
  <2> QED
    BY <2>2, <2>3, <2>4
<1>7. ASSUME CleanerDelete PROVE Inv'
  BY <1>7 DEF CleanerDelete
<1>8. ASSUME CleanerLastVisit PROVE Inv'
  BY <1>8 DEF CleanerLastVisit
<1> QED
  BY <1>1, <1>2, <1>3, <1>4, <1>5, <1>6, <1>7, <1>8 DEF CleanerWork

\* The invariant is inductive.
LEMMA InvStep == Inv /\ [Next]_vars => Inv'
<1> SUFFICES ASSUME Inv, [Next]_vars PROVE Inv'
  OBVIOUS
<1>1. ASSUME NEW i \in Ids, ProxyStops(i) \/ ProxyFails(i) PROVE Inv'
  BY <1>1 DEF ProxyStops, ProxyFails, Inv, Shape, SessionTypes, LoopTypes, CleanerTypes,
         Known, Once, Vacant, loopVars, cleanerVars, stopVars
<1>2. ASSUME Cancel \/ CloseConn PROVE Inv'
  <2>1. /\ UNCHANGED <<sessions, created, status, age, proxy, counter>>
        /\ UNCHANGED <<loop, lkey, lsess, cleaner, snapshot, ckey, csess>>
    BY <1>2 DEF Cancel, CloseConn, loopVars, cleanerVars
  <2>2. ctxDone' \in BOOLEAN /\ connClosed' \in BOOLEAN
    BY <1>2, Zenon DEF Cancel, CloseConn, Inv, Shape, SessionTypes
  <2>3. Shape'
    BY <2>1, <2>2 DEF Inv, Shape, SessionTypes, LoopTypes, CleanerTypes
  <2>4. (Known /\ Once /\ Vacant)'
    BY <2>1 DEF Inv, Known, Once, Vacant
  <2> QED
    BY <2>3, <2>4 DEF Inv
<1>3. ASSUME Pass PROVE Inv'
  BY <1>3, UDPSessionsAssumption
  DEF Pass, Inv, Shape, SessionTypes, LoopTypes, CleanerTypes,
      Known, Once, Vacant, loopVars, cleanerVars, stopVars
<1>4. ASSUME UNCHANGED vars PROVE Inv'
  BY <1>4 DEF vars, Inv, Shape, SessionTypes, LoopTypes, CleanerTypes,
         Known, Once, Vacant, loopVars, cleanerVars, stopVars
<1> QED
  BY <1>1, <1>2, <1>3, <1>4, LoopStepInv, CleanerStepInv DEF Next, Stopped

-----------------------------------------------------------------------------
(* The refinement.                                                         *)

Finished == {i \in Ids : status[i] = "closed"}

\* What a step that changes one session's status does to the sets Activity sees.
LEMMA Moved ==
    ASSUME Inv, NEW i \in Ids, NEW s, status' = [status EXCEPT ![i] = s]
    PROVE  /\ Live' = IF s \in {"open", "closing"} THEN Live \cup {i} ELSE Live \ {i}
           /\ Finished' = IF s = "closed" THEN Finished \cup {i} ELSE Finished \ {i}
  BY DEF Inv, Shape, SessionTypes, Live, Finished

\* Entering CloseOnce leaves the abstract state as it is.
LEMMA EnterStutters ==
    ASSUME Inv, NEW i \in Ids, NEW inside, NEW after, NEW pc,
           CloseEnter(i, inside, after, pc), UNCHANGED counter
    PROVE  UNCHANGED A!vars
<1>1. CASE UNCHANGED status
  BY <1>1 DEF A!vars, Live
<1>2. CASE status[i] = "open" /\ status' = [status EXCEPT ![i] = "closing"]
  <2>1. i \in Live /\ i \notin Finished
    BY <1>2 DEF Live, Finished
  <2>2. Live' = Live \cup {i} /\ Finished' = Finished \ {i}
    BY <1>2, Moved
  <2>3. Live' = Live /\ Finished' = Finished
    BY <2>1, <2>2
  <2> QED
    BY <2>3 DEF A!vars, Finished
<1> QED
  BY <1>1, <1>2 DEF CloseEnter

\* Leaving CloseOnce is Activity's Closed: only one caller is inside.
LEMMA LeaveCloses ==
    ASSUME Inv, NEW i \in Ids, status[i] = "closing", CloseLeave(i)
    PROVE  A!Next
<1>1. i \in Live
  BY DEF Live
<1>2. Live' = Live \ {i} /\ Finished' = Finished \cup {i}
  BY Moved DEF CloseLeave
<1>3. A!Closed(i)
  BY <1>1, <1>2 DEF A!Closed, CloseLeave, Finished
<1> QED
  BY <1>3 DEF A!Next

\* LoopDial is the only step that creates, the one out of CloseOnce the only one
\* that closes; every other step leaves the abstract state as it is.
LEMMA ActivityStep == Inv /\ [Next]_vars => [A!Next]_(A!vars)
<1> SUFFICES ASSUME Inv, [Next]_vars PROVE [A!Next]_(A!vars)
  OBVIOUS
<1>1. ASSUME UNCHANGED <<status, counter>> PROVE UNCHANGED A!vars
  BY <1>1 DEF A!vars, Live
<1>2. ASSUME LoopDial PROVE [A!Next]_(A!vars)
  <2>1. CASE UNCHANGED <<status, counter>>
    BY <1>1, <2>1
  <2>2. CASE /\ created < MaxSessions /\ created' = created + 1
             /\ status' = [status EXCEPT ![created'] = "open"] /\ counter' = counter + 1
    <3>1. created + 1 \in Ids /\ status[created + 1] = "none"
      BY <2>2, UDPSessionsAssumption DEF Inv, Shape, SessionTypes, Known, Ids
    <3>2. created + 1 \notin Live /\ created + 1 \notin Finished
      BY <3>1 DEF Live, Finished
    <3>3. /\ Live' = Live \cup {created + 1}
          /\ Finished' = Finished \ {created + 1}
      BY <2>2, <3>1, Moved
    <3>4. Finished' = Finished
      BY <3>2, <3>3
    <3>5. A!Created(created + 1)
      BY <2>2, <3>2, <3>3, <3>4 DEF A!Created, Finished
    <3> QED
      BY <3>1, <3>5 DEF A!Next
  <2> QED
    BY <1>2, <2>1, <2>2 DEF LoopDial
<1>3. ASSUME LoopClose PROVE UNCHANGED A!vars
  <2>1. lsess \in Ids
    BY <1>3 DEF LoopClose, Inv, Known, LoopHolds
  <2> QED
    BY <1>3, <2>1, EnterStutters DEF LoopClose
<1>4. ASSUME CleanerClose PROVE UNCHANGED A!vars
  <2>1. csess \in Ids
    BY <1>4 DEF CleanerClose, Inv, Known, CleanerHolds
  <2> QED
    BY <1>4, <2>1, EnterStutters DEF CleanerClose
<1>5. ASSUME LoopClosed PROVE A!Next
  <2>1. lsess \in Ids /\ status[lsess] = "closing"
    BY <1>5 DEF LoopClosed, Inv, Known, Once, LoopHolds
  <2> QED
    BY <1>5, <2>1, LeaveCloses DEF LoopClosed
<1>6. ASSUME CleanerClosed PROVE A!Next
  <2>1. csess \in Ids /\ status[csess] = "closing"
    BY <1>6 DEF CleanerClosed, Inv, Known, Once, CleanerHolds, CleanerInside
  <2> QED
    BY <1>6, <2>1, LeaveCloses DEF CleanerClosed
<1>7. ASSUME \/ \E k \in Keys : LoopRead(k)
             \/ LoopExit \/ LoopStore \/ LoopWrite \/ LoopDelete
      PROVE  UNCHANGED <<status, counter>>
  BY <1>7 DEF LoopRead, LoopExit, LoopStore, LoopWrite, LoopDelete
<1>8. ASSUME \/ CleanerTick \/ CleanerLast \/ CleanerRangeEnd \/ CleanerDelete
             \/ CleanerLastVisit \/ \E p \in snapshot : CleanerVisit(p[1], p[2])
      PROVE  UNCHANGED <<status, counter>>
  BY <1>8 DEF CleanerTick, CleanerLast, CleanerRangeEnd, CleanerDelete, CleanerLastVisit,
              CleanerVisit
<1>9. ASSUME \/ \E i \in Ids : ProxyStops(i) \/ ProxyFails(i)
             \/ Cancel \/ CloseConn \/ Pass \/ UNCHANGED vars
      PROVE  UNCHANGED <<status, counter>>
  BY <1>9 DEF ProxyStops, ProxyFails, Cancel, CloseConn, Pass, vars
<1> QED
  BY <1>1, <1>2, <1>3, <1>4, <1>5, <1>6, <1>7, <1>8, <1>9
  DEF Next, LoopStep, CleanerWork, Stopped

\* The initial states of a mapping are initial states of Activity.
LEMMA ActivityInit == Init => A!Init
  BY DEF Init, A!Init, Live

\* The mapping implements Activity: in whatever order the loop and the cleaner
\* come to close a session, it is counted once (CloseUDPSession's CloseOnce).
THEOREM ImplementsActivity == Spec => TracksActivity
<1>1. Spec => []Inv
  BY InitInv, InvStep, PTL DEF Spec
<1> QED
  BY <1>1, ActivityInit, ActivityStep, PTL DEF Spec, TracksActivity, A!Spec

-----------------------------------------------------------------------------
(* The counter.                                                            *)

\* There are finitely many sessions.
LEMMA LiveFinite == IsFiniteSet(Live) /\ Cardinality(Live) \in 0..MaxSessions
<1>1. IsFiniteSet(Ids) /\ Cardinality(Ids) = MaxSessions
  BY UDPSessionsAssumption, FS_Interval DEF Ids
<1>2. Live \in SUBSET Ids
  BY DEF Live
<1> QED
  BY <1>1, <1>2, FS_Subset, FS_CardinalityType, UDPSessionsAssumption

\* A step of Activity keeps the counter equal to the number of live sessions.
LEMMA CountingStep == Counting /\ [A!Next]_(A!vars) => Counting'
<1> SUFFICES ASSUME Counting, [A!Next]_(A!vars) PROVE Counting'
  OBVIOUS
<1>1. ASSUME NEW c \in Ids, A!Created(c) PROVE Counting'
  BY <1>1, LiveFinite, FS_AddElement DEF A!Created, Counting
<1>2. ASSUME NEW c \in Ids, A!Closed(c) PROVE Counting'
  BY <1>2, LiveFinite, FS_RemoveElement DEF A!Closed, Counting
<1>3. ASSUME UNCHANGED A!vars PROVE Counting'
  BY <1>3 DEF A!vars, Counting
<1> QED
  BY <1>1, <1>2, <1>3 DEF A!Next

\* The counter starts at zero over no sessions.
LEMMA CountingInit == Init => Counting
  BY ActivityInit, FS_EmptySet DEF A!Init, Counting

\* The counter is the number of the live sessions, in every state.
LEMMA CountIsExact == Spec => [](Inv /\ Counting)
<1>1. Inv /\ Counting /\ [Next]_vars => (Inv /\ Counting)'
  BY InvStep, ActivityStep, CountingStep
<1> QED
  BY <1>1, InitInv, CountingInit, PTL DEF Spec

\* Every variable keeps its type for any number of sessions: the counter is
\* never negative, and the map, the snapshot and the age hold what they may.
THEOREM TypeCorrect == Spec => []TypeOK
<1>1. Inv /\ Counting => TypeOK
  BY LiveFinite DEF Inv, Shape, SessionTypes, LoopTypes, CleanerTypes, Counting, TypeOK
<1> QED
  BY <1>1, CountIsExact, PTL

-----------------------------------------------------------------------------
(* What leaves the map.                                                    *)

CleanerVisits == {"close", "closing", "delete"}

\* Under the key of the packet in hand there is the session in hand or none; under
\* a key the cleaner has copied there is no older session than its copy; and
\* both delete only after CloseUDPSession, which returns with the session closed.
Latest ==
    /\ loop = "store" => lsess = created
    /\ loop \in {"write", "close", "closing", "delete"} => sessions[lkey] \in {None, lsess}
    /\ loop = "delete" => status[lsess] = "closed"
    /\ cleaner = "delete" => status[csess] = "closed"
    /\ \A p \in snapshot : sessions[p[1]] # None => p[2] <= sessions[p[1]]
    /\ cleaner \in CleanerVisits /\ sessions[ckey] # None => csess <= sessions[ckey]

\* The steps of the loop keep the order of the sessions under a key.
LEMMA LatestLoop == Inv /\ Latest /\ (LoopStep \/ \E k \in Keys : LoopRead(k)) => Latest'
<1> SUFFICES ASSUME Inv, Latest, LoopStep \/ \E k \in Keys : LoopRead(k) PROVE Latest'
  OBVIOUS
<1> USE UDPSessionsAssumption
    DEF Latest, CleanerVisits, None, loopVars, cleanerVars, stopVars
<1>1. ASSUME NEW k \in Keys, LoopRead(k) PROVE Latest'
  BY <1>1 DEF LoopRead
<1>2. ASSUME LoopExit \/ LoopWrite PROVE Latest'
  BY <1>2 DEF LoopExit, LoopWrite
<1>3. ASSUME LoopDial PROVE Latest'
  <2>1. loop' \in {"read", "store"} /\ (loop' = "store" => lsess' = created')
    BY <1>3 DEF LoopDial
  <2>2. \A i \in Ids : status[i] = "closed" => status'[i] = "closed"
    BY <1>3 DEF LoopDial, Inv, Shape, SessionTypes, Known, Ids
  <2>3. cleaner = "delete" => csess \in Ids
    BY DEF Inv, Known, CleanerHolds
  <2> QED
    BY <1>3, <2>1, <2>2, <2>3 DEF LoopDial
<1>4. ASSUME LoopStore PROVE Latest'
  <2>1. sessions \in [Keys -> Ids \cup {None}] /\ lkey \in Keys /\ ckey \in Keys
    BY DEF Inv, Shape, SessionTypes, LoopTypes, CleanerTypes
  <2>2. \A k \in Keys : sessions'[k] = IF k = lkey THEN created ELSE sessions[k]
    BY <1>4, <2>1 DEF LoopStore
  <2>3. \A p \in snapshot : p[1] \in Keys /\ p[2] <= created
    BY DEF Inv, Shape, CleanerTypes, SessionTypes, Known, Ids
  <2>4. cleaner \in CleanerVisits => csess <= created
    BY DEF Inv, Known, CleanerHolds, Shape, SessionTypes, Ids
  <2>5. loop' = "write" /\ UNCHANGED <<status, lsess, lkey, created, snapshot, cleaner, ckey, csess>>
    BY <1>4 DEF LoopStore
  <2>6. sessions'[lkey] = lsess
    BY <1>4, <2>1, <2>2 DEF LoopStore
  <2> QED
    BY <2>1, <2>2, <2>3, <2>4, <2>5, <2>6
<1>5. ASSUME LoopClose PROVE Latest'
  <2>1. loop' \in {"closing", "delete"} /\ (loop' = "delete" => status[lsess] = "closed")
    BY <1>5 DEF LoopClose, CloseEnter, Inv, Shape, SessionTypes, Known, LoopHolds
  <2>2. \A i \in Ids : status[i] = "closed" => status'[i] = "closed"
    BY <1>5 DEF LoopClose, CloseEnter, Inv, Shape, SessionTypes
  <2>3. (cleaner = "delete" => csess \in Ids) /\ lsess \in Ids
    BY <1>5 DEF LoopClose, Inv, Known, CleanerHolds, LoopHolds
  <2> QED
    BY <1>5, <2>1, <2>2, <2>3 DEF LoopClose
<1>6. ASSUME LoopClosed PROVE Latest'
  <2>1. lsess \in Ids /\ (cleaner = "delete" => csess \in Ids)
    BY <1>6 DEF LoopClosed, Inv, Known, CleanerHolds, LoopHolds
  <2>2. status'[lsess] = "closed" /\ \A i \in Ids : status[i] = "closed" => status'[i] = "closed"
    BY <1>6, <2>1 DEF LoopClosed, CloseLeave, Inv, Shape, SessionTypes
  <2> QED
    BY <1>6, <2>1, <2>2 DEF LoopClosed
<1>7. ASSUME LoopDelete PROVE Latest'
  <2>1. \A k \in Keys : sessions'[k] \in {None, sessions[k]}
    BY <1>7 DEF LoopDelete, Inv, Shape, SessionTypes
  <2>2. ckey \in Keys /\ \A p \in snapshot : p[1] \in Keys
    BY DEF Inv, Shape, CleanerTypes
  <2> QED
    BY <1>7, <2>1, <2>2 DEF LoopDelete
<1> QED
  BY <1>1, <1>2, <1>3, <1>4, <1>5, <1>6, <1>7 DEF LoopStep

\* The steps of the cleaner keep the order of the sessions under a key.
LEMMA LatestCleaner ==
    Inv /\ Latest /\ (CleanerTick \/ CleanerLast \/ CleanerWork) => Latest'
<1> SUFFICES ASSUME Inv, Latest, CleanerTick \/ CleanerLast \/ CleanerWork PROVE Latest'
  OBVIOUS
<1> USE UDPSessionsAssumption
    DEF Latest, CleanerVisits, None, loopVars, cleanerVars, stopVars
<1>1. ASSUME CleanerTick \/ CleanerLast PROVE Latest'
  <2>1. /\ \A p \in snapshot' : p[1] \in Keys /\ p[2] = sessions[p[1]] /\ p[2] \in Ids
        /\ cleaner' \in {"range", "last"}
        /\ UNCHANGED <<sessions, status, created, loop, lkey, lsess>>
    BY <1>1 DEF CleanerTick, CleanerLast, Mapped, Inv, Shape, SessionTypes
  <2>2. \A i \in Ids : i <= i
    BY DEF Ids
  <2> QED
    BY <2>1, <2>2
<1>2. ASSUME NEW p \in snapshot, CleanerVisit(p[1], p[2]) PROVE Latest'
  BY <1>2 DEF CleanerVisit
<1>3. ASSUME CleanerRangeEnd PROVE Latest'
  BY <1>3 DEF CleanerRangeEnd
<1>4. ASSUME CleanerClose PROVE Latest'
  <2>1. csess \in Ids /\ (loop = "delete" => lsess \in Ids)
    BY <1>4 DEF CleanerClose, Inv, Known, CleanerHolds, LoopHolds
  <2>2. /\ cleaner' = "delete" => cleaner = "close" /\ status[csess] = "closed"
        /\ cleaner' = "closing" => cleaner = "close"
        /\ cleaner' # "close"
    BY <1>4 DEF CleanerClose, CloseEnter, Inv, Shape, SessionTypes, Known, CleanerHolds
  <2>3. \A i \in Ids : status[i] = "closed" => status'[i] = "closed"
    BY <1>4 DEF CleanerClose, CloseEnter, Inv, Shape, SessionTypes
  <2> QED
    BY <1>4, <2>1, <2>2, <2>3 DEF CleanerClose
<1>5. ASSUME CleanerClosed PROVE Latest'
  <2>1. csess \in Ids /\ (loop = "delete" => lsess \in Ids)
    BY <1>5 DEF CleanerClosed, Inv, Known, CleanerHolds, LoopHolds
  <2>2. status'[csess] = "closed" /\ \A i \in Ids : status[i] = "closed" => status'[i] = "closed"
    BY <1>5, <2>1 DEF CleanerClosed, CloseLeave, Inv, Shape, SessionTypes
  <2> QED
    BY <1>5, <2>1, <2>2 DEF CleanerClosed
<1>6. ASSUME CleanerDelete PROVE Latest'
  <2>1. \A k \in Keys : sessions'[k] \in {None, sessions[k]}
    BY <1>6 DEF CleanerDelete, Inv, Shape, SessionTypes
  <2>2. lkey \in Keys /\ \A p \in snapshot : p[1] \in Keys
    BY DEF Inv, Shape, CleanerTypes, LoopTypes
  <2> QED
    BY <1>6, <2>1, <2>2 DEF CleanerDelete
<1>7. ASSUME CleanerLastVisit PROVE Latest'
  BY <1>7 DEF CleanerLastVisit
<1> QED
  BY <1>1, <1>2, <1>3, <1>4, <1>5, <1>6, <1>7 DEF CleanerWork

\* Latest is inductive relative to the invariant above.
LEMMA LatestStep == Inv /\ Latest /\ [Next]_vars => Latest'
<1> SUFFICES ASSUME Inv, Latest, [Next]_vars PROVE Latest'
  OBVIOUS
<1>1. ASSUME \/ \E i \in Ids : ProxyStops(i) \/ ProxyFails(i)
             \/ Cancel \/ CloseConn \/ Pass \/ UNCHANGED vars
      PROVE  Latest'
  <2>1. UNCHANGED <<sessions, status, created, loop, lkey, lsess, cleaner, snapshot, ckey, csess>>
    BY <1>1 DEF ProxyStops, ProxyFails, Cancel, CloseConn, Pass, vars, loopVars, cleanerVars
  <2> QED
    BY <2>1 DEF Latest
<1> QED
  BY <1>1, LatestLoop, LatestCleaner DEF Next, Stopped

\* The loop and the cleaner take only closed sessions out of the map, and the loop
\* stores over none, for any sources and any number of sessions; but the cleaner's
\* Delete may hit a session newer than the one it closed (udp.go:174).
THEOREM ClosedBeforeUnmapped == Spec => LeavesMapClosed
<1> DEFINE Leaves(k) ==
        sessions[k] # None /\ sessions'[k] # sessions[k]
            => /\ sessions'[k] = None
               /\ \/ status[sessions[k]] = "closed"
                  \/ cleaner = "delete" /\ k = ckey /\ sessions[k] > csess
<1>1. ASSUME Inv, Latest, [Next]_vars, NEW k \in Keys PROVE Leaves(k)
  <2> SUFFICES ASSUME sessions'[k] # sessions[k]
               PROVE  Leaves(k)
    OBVIOUS
  <2>1. sessions \in [Keys -> Ids \cup {None}] /\ lkey \in Keys /\ ckey \in Keys
    BY <1>1 DEF Inv, Shape, SessionTypes, LoopTypes, CleanerTypes
  <2>2. LoopStore \/ LoopDelete \/ CleanerDelete
    BY <1>1 DEF Next, LoopRead, LoopStep, LoopExit, LoopDial, LoopWrite, LoopClose, LoopClosed,
           CleanerTick, CleanerLast, CleanerWork, CleanerVisit, CleanerRangeEnd, CleanerClose,
           CleanerClosed, CleanerLastVisit, ProxyStops, ProxyFails, Cancel, CloseConn, Pass,
           Stopped, vars
  <2>3. CASE LoopStore
    BY <1>1, <2>1, <2>3 DEF LoopStore, Inv, Vacant
  <2>4. CASE LoopDelete
    BY <1>1, <2>1, <2>4 DEF LoopDelete, Latest
  <2>5. CASE CleanerDelete
    <3>1. k = ckey /\ sessions'[k] = None /\ cleaner = "delete"
      BY <2>1, <2>5 DEF CleanerDelete
    <3>2. csess \in Ids /\ status[csess] = "closed"
      BY <1>1, <3>1 DEF Inv, Known, CleanerHolds, Latest
    <3>3. sessions[k] # None => sessions[k] = csess \/ sessions[k] > csess
      BY <1>1, <2>1, <3>1, <3>2, UDPSessionsAssumption DEF Latest, CleanerVisits, Ids
    <3> QED
      BY <3>1, <3>2, <3>3
  <2> QED
    BY <2>2, <2>3, <2>4, <2>5
<1>2. Init => Latest
  BY DEF Init, Latest, CleanerVisits
<1>3. Inv /\ Latest /\ [Next]_vars => [\A k \in Keys : Leaves(k)]_vars
  BY <1>1
<1> QED
  BY <1>2, <1>3, InitInv, InvStep, LatestStep, PTL DEF Spec, LeavesMapClosed

=============================================================================
