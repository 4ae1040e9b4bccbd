-------------------------- MODULE TCPMappingProofs --------------------------
(***************************************************************************)
(* Proofs about TCPMapping for any number of connections and any retry     *)
(* delays: it implements Activity, its variables keep their types, and the *)
(* counter is zero only over closed connections.                           *)
(***************************************************************************)
EXTENDS TCPMapping, FiniteSetTheorems, TLAPS

ProxyPCs == {"none", "copy", "end1", "count1", "end2", "count2", "drain", "returned"}

\* TypeOK but for the bound of the counter, which Counting gives.
Shape ==
    /\ kind \in {"local", "remote"}
    /\ limited \in BOOLEAN
    /\ phase \in {"up", "cancelled", "unlistened", "hung", "down"}
    /\ loop \in {"accept", "retry", "dial", "track", "exit"}
    /\ delay \in {0} \cup RetryInitial..RetryMax
    /\ accepted \in 0..MaxConns
    /\ opened \in [Conns -> SUBSET Ends]
    /\ main \in [Conns -> ProxyPCs]
    /\ copied \in [Conns -> SUBSET Ends]
    /\ aborted \subseteq Conns
    /\ stranded \subseteq Conns
    /\ counter \in Int

\* A connection the loop is still setting up has no proxy, one it has not
\* accepted has nothing, only the tracked end is decremented, and the netstack
\* goes after the loop.
Places ==
    /\ phase \in {"hung", "down"} => loop = "exit"
    /\ loop \in {"dial", "track"} => accepted \in Conns /\ main[accepted] = "none"
    /\ \A i \in Conns : i > accepted => main[i] = "none" /\ opened[i] = {}
    /\ \A i \in Conns : main[i] = "count1" => kind = "remote"
    /\ \A i \in Conns : main[i] = "count2" => kind = "local"

\* The tracked end of a connection is open only while the loop sets it up or
\* before ProxyTCP closes it, where it is counted.
Held ==
    \A i \in Conns : Tracked \in opened[i] =>
        \/ i = accepted /\ loop \in {"dial", "track"}
        \/ main[i] \in {"copy", "end1"}
        \/ main[i] = "end2" /\ kind = "local"

Counting == counter = Cardinality(Counted)

Inv == Shape /\ Places /\ Held

-----------------------------------------------------------------------------
\* The initial states satisfy the inductive invariant.
LEMMA InitInv == Init => Inv
<1> SUFFICES ASSUME Init PROVE Inv
  OBVIOUS
<1>1. Shape
  BY TCPMappingAssumption DEF Init, Shape, Conns, Ends, ProxyPCs
<1>2. Places
  BY TCPMappingAssumption DEF Init, Places, Conns
<1>3. Held
  BY DEF Init, Held
<1> QED
  BY <1>1, <1>2, <1>3 DEF Inv

\* Every step keeps the types: the doubled delay stays below its cap, and no
\* more connections are accepted than the bound allows.
LEMMA ShapeStep == Inv /\ [Next]_vars => Shape'
<1> SUFFICES ASSUME Inv, [Next]_vars PROVE Shape'
  OBVIOUS
<1> USE TCPMappingAssumption DEF Inv, Shape, Conns, Ends, ProxyPCs, loopVars, proxyVars, confVars, fateVars
<1>1. ASSUME Accept PROVE Shape'
  BY <1>1 DEF Accept
<1>2. ASSUME AcceptFails PROVE Shape'
  BY <1>2 DEF AcceptFails, NextDelay
<1>3. ASSUME Retry PROVE Shape'
  BY <1>3 DEF Retry
<1>4. ASSUME Dial PROVE Shape'
  BY <1>4 DEF Dial, Places
<1>5. ASSUME Track PROVE Shape'
  BY <1>5 DEF Track, Places
<1>6. ASSUME NEW i \in Conns, FirstDirection(i) PROVE Shape'
  BY <1>6 DEF FirstDirection
<1>7. ASSUME NEW i \in Conns, Return(i) PROVE Shape'
  BY <1>7 DEF Return
<1>8. ASSUME NEW i \in Conns, NEW e \in Ends, CloseEnd(i, e) PROVE Shape'
  BY <1>8 DEF CloseEnd, EndPC, CountPC, After
<1>9. ASSUME NEW i \in Conns, NEW e \in Ends, Decrement(i, e) PROVE Shape'
  BY <1>9 DEF Decrement, CountPC, After
<1>10. ASSUME NEW i \in Conns, NEW e \in Ends, CopyEnds(i, e) PROVE Shape'
  BY <1>10 DEF CopyEnds
<1>11. ASSUME Cancel \/ CloseListener \/ NetstackDown \/ NetstackHangs \/ HangEnds \/ Restart PROVE Shape'
  BY <1>11 DEF Cancel, CloseListener, NetstackDown, NetstackHangs, HangEnds, Restart
<1>12. ASSUME UNCHANGED vars PROVE Shape'
  BY <1>12 DEF vars
<1> QED
  BY <1>1, <1>2, <1>3, <1>4, <1>5, <1>6, <1>7, <1>8, <1>9, <1>10, <1>11, <1>12
  DEF Next, LoopWork, Proxy

\* Every step keeps what each place of the loop and of the proxies implies.
LEMMA PlacesStep == Inv /\ [Next]_vars => (Places /\ Held)'
<1> SUFFICES ASSUME Inv, [Next]_vars PROVE (Places /\ Held)'
  OBVIOUS
<1> USE TCPMappingAssumption
    DEF Inv, Shape, Places, Held, Tracked, Conns, Ends, ProxyPCs, loopVars, proxyVars, confVars, fateVars
<1>1. ASSUME Accept PROVE (Places /\ Held)'
  BY <1>1 DEF Accept
<1>2. ASSUME AcceptFails \/ Retry PROVE (Places /\ Held)'
  BY <1>2 DEF AcceptFails, Retry
<1>4. ASSUME Dial PROVE (Places /\ Held)'
  BY <1>4 DEF Dial
<1>5. ASSUME Track PROVE (Places /\ Held)'
  BY <1>5 DEF Track
<1>6. ASSUME NEW i \in Conns, FirstDirection(i) PROVE (Places /\ Held)'
  BY <1>6 DEF FirstDirection
<1>7. ASSUME NEW i \in Conns, Return(i) PROVE (Places /\ Held)'
  BY <1>7 DEF Return
<1>8. ASSUME NEW i \in Conns, NEW e \in Ends, CloseEnd(i, e) PROVE (Places /\ Held)'
  BY <1>8 DEF CloseEnd, EndPC, CountPC, After
<1>9. ASSUME NEW i \in Conns, NEW e \in Ends, Decrement(i, e) PROVE (Places /\ Held)'
  BY <1>9 DEF Decrement, CountPC, After
<1>10. ASSUME NEW i \in Conns, NEW e \in Ends, CopyEnds(i, e) PROVE (Places /\ Held)'
  BY <1>10 DEF CopyEnds
<1>11. ASSUME Cancel \/ CloseListener \/ NetstackDown \/ NetstackHangs \/ HangEnds \/ Restart PROVE (Places /\ Held)'
  BY <1>11 DEF Cancel, CloseListener, NetstackDown, NetstackHangs, HangEnds, Restart
<1>12. ASSUME UNCHANGED vars PROVE (Places /\ Held)'
  BY <1>12 DEF vars
<1> QED
  BY <1>1, <1>2, <1>4, <1>5, <1>6, <1>7, <1>8, <1>9, <1>10, <1>11, <1>12
  DEF Next, LoopWork, Proxy

\* The invariant is inductive.
LEMMA InvStep == Inv /\ [Next]_vars => Inv'
  BY ShapeStep, PlacesStep DEF Inv

-----------------------------------------------------------------------------
(* The refinement.                                                         *)

\* What a step that moves one connection to another place of ProxyTCP does to
\* the set of the counted ones.
LEMMA Moved ==
    ASSUME Inv, Inv', UNCHANGED kind, NEW i \in Conns, NEW l,
           main' = [main EXCEPT ![i] = l]
    PROVE  /\ \A j \in Conns \ {i} : j \in Counted' <=> j \in Counted
           /\ \A j \in Conns \ {i} : main'[j] = main[j]
           /\ main'[i] = l
  BY DEF Inv, Shape, Counted, CountPC, Tracked, Ends

\* Track is the only step that creates, the Decrement of the tracked end the only
\* one that closes; every other step leaves the abstract state as it is.
LEMMA ActivityStep == Inv /\ Inv' /\ [Next]_vars => [A!Next]_(A!vars)
<1> SUFFICES ASSUME Inv, Inv', [Next]_vars PROVE [A!Next]_(A!vars)
  OBVIOUS
<1> DEFINE Finished == {i \in Conns : main[i] # "none"} \ Counted
<1>1. ASSUME UNCHANGED <<kind, main, counter>> PROVE UNCHANGED A!vars
  BY <1>1 DEF A!vars, Counted, CountPC, Tracked, Ends
<1>2. ASSUME Track PROVE A!Next
  <2>1. accepted \in Conns /\ main[accepted] = "none"
    BY <1>2 DEF Track, Inv, Places
  <2>2. main' = [main EXCEPT ![accepted] = "copy"] /\ kind' = kind /\ counter' = counter + 1
    BY <1>2 DEF Track, confVars
  <2>3. /\ \A j \in Conns \ {accepted} : j \in Counted' <=> j \in Counted
        /\ \A j \in Conns \ {accepted} : main'[j] = main[j]
        /\ main'[accepted] = "copy"
    BY <2>1, <2>2, Moved
  <2>4. accepted \in Counted' /\ accepted \notin Counted
    BY <2>1, <2>3, <2>2 DEF Counted, CountPC, Tracked, Ends
  <2>5. Counted' = Counted \cup {accepted}
    BY <2>1, <2>3, <2>4 DEF Counted
  <2>6. Finished' = Finished /\ accepted \notin Finished
    BY <2>1, <2>3, <2>4, <2>5
  <2>7. A!Created(accepted)
    BY <2>2, <2>4, <2>5, <2>6 DEF A!Created
  <2> QED
    BY <2>1, <2>7 DEF A!Next
<1>3. ASSUME NEW i \in Conns, NEW e \in Ends, Decrement(i, e) PROVE A!Next
  <2>1. main[i] = CountPC[e] /\ e = Tracked
    BY <1>3 DEF Decrement, Inv, Places, CountPC, Tracked, Ends
  <2>2. main' = [main EXCEPT ![i] = After[e]] /\ kind' = kind /\ counter' = counter - 1
    BY <1>3 DEF Decrement, confVars
  <2>3. /\ \A j \in Conns \ {i} : j \in Counted' <=> j \in Counted
        /\ \A j \in Conns \ {i} : main'[j] = main[j]
        /\ main'[i] = After[e]
    BY <2>2, Moved
  <2>4. i \in Counted /\ i \notin Counted' /\ main'[i] # "none"
    BY <2>1, <2>2, <2>3 DEF Counted, CountPC, After, Tracked, Ends
  <2>5. Counted' = Counted \ {i}
    BY <2>3, <2>4 DEF Counted
  <2>6. Finished' = Finished \cup {i}
    BY <2>3, <2>4, <2>5 DEF Counted
  <2>7. A!Closed(i)
    BY <2>2, <2>4, <2>5, <2>6 DEF A!Closed
  <2> QED
    BY <2>7 DEF A!Next
<1>4. ASSUME NEW i \in Conns, NEW l, main[i] # "none", l # "none",
             main' = [main EXCEPT ![i] = l], UNCHANGED <<kind, counter>>,
             i \in Counted <=> i \in Counted'
      PROVE  UNCHANGED A!vars
  <2>1. /\ \A j \in Conns \ {i} : j \in Counted' <=> j \in Counted
        /\ \A j \in Conns \ {i} : main'[j] = main[j]
        /\ main'[i] = l
    BY <1>4, Moved
  <2>2. Counted' = Counted
    BY <1>4, <2>1 DEF Counted
  <2>3. Finished' = Finished
    BY <1>4, <2>1, <2>2
  <2> QED
    BY <1>4, <2>2, <2>3 DEF A!vars
<1>5. ASSUME NEW i \in Conns, FirstDirection(i) PROVE UNCHANGED A!vars
  <2>1. i \in Counted /\ i \in Counted'
    BY <1>5 DEF FirstDirection, confVars, Counted, CountPC, Tracked, Ends, Inv, Shape
  <2> QED
    BY <1>5, <1>4, <2>1 DEF FirstDirection, confVars
<1>6. ASSUME NEW i \in Conns, Return(i) PROVE UNCHANGED A!vars
  <2>1. i \notin Counted /\ i \notin Counted'
    BY <1>6 DEF Return, confVars, Counted, CountPC, Tracked, Ends, Inv, Shape
  <2> QED
    BY <1>6, <1>4, <2>1 DEF Return, confVars
<1>7. ASSUME NEW i \in Conns, NEW e \in Ends, CloseEnd(i, e) PROVE UNCHANGED A!vars
  <2> DEFINE l == IF e = Tracked THEN CountPC[e] ELSE After[e]
  <2>1. /\ main[i] = EndPC[e] /\ main' = [main EXCEPT ![i] = l]
        /\ kind' = kind /\ counter' = counter
    BY <1>7 DEF CloseEnd, confVars
  <2>2. main[i] # "none" /\ l # "none"
    BY <2>1 DEF EndPC, CountPC, After, Ends
  <2>3. main'[i] = l
    BY <2>1 DEF Inv, Shape
  <2>4. i \in Counted <=> i \in Counted'
    BY <2>1, <2>3 DEF Counted, EndPC, CountPC, After, Tracked, Ends, Inv, Shape
  <2> HIDE DEF l
  <2> QED
    BY <2>1, <2>2, <2>4, <1>4
<1>8. ASSUME NEW i \in Conns, NEW e \in Ends, CopyEnds(i, e)
      PROVE  UNCHANGED <<kind, main, counter>>
  BY <1>8 DEF CopyEnds, confVars
<1>9. ASSUME Accept \/ AcceptFails \/ Retry \/ Dial PROVE UNCHANGED <<kind, main, counter>>
  BY <1>9 DEF Accept, AcceptFails, Retry, Dial, proxyVars, confVars
<1>10. ASSUME Cancel \/ CloseListener \/ NetstackDown \/ NetstackHangs \/ HangEnds \/ Restart
       PROVE  UNCHANGED <<kind, main, counter>>
  BY <1>10 DEF Cancel, CloseListener, NetstackDown, NetstackHangs, HangEnds, Restart, proxyVars, confVars
<1>11. ASSUME UNCHANGED vars PROVE UNCHANGED <<kind, main, counter>>
  BY <1>11 DEF vars, proxyVars, confVars
<1> QED
  BY <1>1, <1>2, <1>3, <1>5, <1>6, <1>7, <1>8, <1>9, <1>10, <1>11
  DEF Next, LoopWork, Proxy

\* The initial states of a mapping are initial states of Activity.
LEMMA ActivityInit == Init => A!Init
  BY DEF Init, A!Init, Counted, CountPC, Tracked, Ends

\* The mapping implements Activity: however the directions of its connections
\* end, and whatever stop or restart falls in between, each is counted once.
THEOREM ImplementsActivity == Spec => TracksActivity
<1>1. Spec => []Inv
  BY InitInv, InvStep, PTL DEF Spec
<1> QED
  BY <1>1, ActivityInit, ActivityStep, PTL DEF Spec, TracksActivity, A!Spec

-----------------------------------------------------------------------------
(* The counter.                                                            *)

\* There are finitely many connections.
LEMMA CountedFinite ==
    /\ IsFiniteSet(Counted)
    /\ Cardinality(Counted) \in 0..MaxConns
<1>1. IsFiniteSet(Conns) /\ Cardinality(Conns) = MaxConns
  BY TCPMappingAssumption, FS_Interval DEF Conns
<1>2. Counted \in SUBSET Conns
  BY DEF Counted
<1> QED
  BY <1>1, <1>2, FS_Subset, FS_CardinalityType, TCPMappingAssumption

\* A step of Activity keeps the counter equal to the number of active connections.
LEMMA CountingStep == Counting /\ [A!Next]_(A!vars) => Counting'
<1> SUFFICES ASSUME Counting, [A!Next]_(A!vars) PROVE Counting'
  OBVIOUS
<1>1. ASSUME NEW c \in Conns, A!Created(c) PROVE Counting'
  BY <1>1, CountedFinite, FS_AddElement DEF A!Created, Counting
<1>2. ASSUME NEW c \in Conns, A!Closed(c) PROVE Counting'
  BY <1>2, CountedFinite, FS_RemoveElement DEF A!Closed, Counting
<1>3. ASSUME UNCHANGED A!vars PROVE Counting'
  BY <1>3 DEF A!vars, Counting
<1> QED
  BY <1>1, <1>2, <1>3 DEF A!Next

\* The counter starts at zero over no connections.
LEMMA CountingInit == Init => Counting
  BY ActivityInit, FS_EmptySet DEF A!Init, Counting

\* The counter is the number of the counted connections, in every state.
LEMMA CountIsExact == Spec => [](Inv /\ Counting)
<1>1. Inv /\ Counting /\ [Next]_vars => (Inv /\ Counting)'
  BY InvStep, ActivityStep, CountingStep
<1> QED
  BY <1>1, InitInv, CountingInit, PTL DEF Spec

\* Every variable keeps its type for any number of connections: the counter is
\* never negative and the retry delay stays between its constants.
THEOREM TypeCorrect == Spec => []TypeOK
<1>1. Inv /\ Counting => TypeOK
  BY CountedFinite DEF Inv, Shape, Counting, TypeOK, ProxyPCs
<1> QED
  BY <1>1, CountIsExact, PTL

\* The counter that lets the node sleep is zero only when the Yggdrasil end of
\* every connection is closed, but for the one the loop is setting up.
THEOREM QuietIsClosed == Spec => []QuietMeansClosed
<1>1. Inv /\ Counting => QuietMeansClosed
  <2> SUFFICES ASSUME Inv, Counting, counter = 0, NEW i \in Conns, Tracked \in opened[i]
               PROVE  i = accepted /\ loop \in {"dial", "track"}
    BY DEF QuietMeansClosed
  <2>1. Counted = {}
    BY CountedFinite, FS_EmptySet DEF Counting
  <2>2. i \notin Counted
    BY <2>1
  <2> QED
    BY <2>2 DEF Inv, Held, Counted
<1> QED
  BY <1>1, CountIsExact, PTL

-----------------------------------------------------------------------------
(* What a stop leaves behind.                                              *)

\* While the netstack is down, or its close hangs, what is open was open when that
\* began; a connection goes down with its stack or stays with it, and not both.
Aborting ==
    /\ phase \in {"hung", "down"} =>
          \A i \in Conns : Tracked \in opened[i] => i \in aborted \cup stranded
    /\ aborted \cap stranded = {}

\* Nothing opens an end while the netstack is down, and closing one opens none.
LEMMA AbortingStep == Inv /\ Aborting /\ [Next]_vars => Aborting'
<1> SUFFICES ASSUME Inv, Aborting, [Next]_vars PROVE Aborting'
  OBVIOUS
<1> USE DEF confVars, fateVars
<1>1. ASSUME NetstackDown \/ NetstackHangs PROVE Aborting'
  BY <1>1 DEF NetstackDown, NetstackHangs, Aborting, Tracked
<1>2. ASSUME HangEnds PROVE Aborting'
  BY <1>2 DEF HangEnds, Aborting, Tracked
<1>3. ASSUME NEW i \in Conns, NEW e \in Ends, CloseEnd(i, e) PROVE Aborting'
  <2>1. \A j \in Conns : opened'[j] \subseteq opened[j]
    BY <1>3 DEF CloseEnd, Inv, Shape
  <2>2. UNCHANGED <<kind, phase, aborted, stranded>>
    BY <1>3 DEF CloseEnd
  <2> QED
    BY <2>1, <2>2 DEF Aborting, Tracked
<1>4. ASSUME UNCHANGED <<kind, phase, aborted, stranded, opened>> PROVE Aborting'
  BY <1>4 DEF Aborting, Tracked
<1>5. ASSUME Accept \/ Dial \/ Cancel \/ CloseListener \/ Restart PROVE Aborting'
  <2>1. phase' \notin {"hung", "down"} /\ UNCHANGED <<aborted, stranded>>
    BY <1>5 DEF Accept, Dial, Cancel, CloseListener, Restart, Inv, Places
  <2> QED
    BY <2>1 DEF Aborting
<1>6. ASSUME AcceptFails \/ Retry \/ Track
      PROVE  UNCHANGED <<kind, phase, aborted, stranded, opened>>
  BY <1>6 DEF AcceptFails, Retry, Track
<1>7. ASSUME NEW i \in Conns, NEW e \in Ends,
             FirstDirection(i) \/ Return(i) \/ Decrement(i, e) \/ CopyEnds(i, e)
      PROVE  UNCHANGED <<kind, phase, aborted, stranded, opened>>
  BY <1>7 DEF FirstDirection, Return, Decrement, CopyEnds
<1>8. ASSUME UNCHANGED vars PROVE UNCHANGED <<kind, phase, aborted, stranded, opened>>
  BY <1>8 DEF vars
<1>9. Ends # {}
  BY DEF Ends
<1> QED
  BY <1>1, <1>2, <1>3, <1>4, <1>5, <1>6, <1>7, <1>8, <1>9 DEF Next, LoopWork, Proxy

\* For any number of connections and of generations, the only connections a stop
\* leaves whose proxies would go on as if nothing had happened are those on a
\* netstack whose close hangs; a stack that was closed aborts all of its own.
THEOREM StopAborts == Spec => []StopLeavesAborted
<1>1. Init => Aborting
  BY DEF Init, Aborting
<1>2. Inv /\ Aborting => StopLeavesAborted
  BY DEF Inv, Aborting, Places, Held, StopLeavesAborted, Counted
<1> QED
  BY <1>1, <1>2, InitInv, InvStep, AbortingStep, PTL DEF Spec

=============================================================================
