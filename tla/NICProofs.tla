----------------------------- MODULE NICProofs -----------------------------
(***************************************************************************)
(* Proofs about NIC for any number of writing goroutines, any capacity of  *)
(* the queue and any number of late packets: no reference on a packet is   *)
(* lost or released twice, and the variables keep their types.             *)
(***************************************************************************)
EXTENDS NIC, FiniteSetTheorems, TLAPS

\* TypeOK but for the sign of refs, which RefsExact gives.
Shape ==
    /\ reader \in {"off", "read", "deliver", "exit"}
    /\ sender \in [Writers -> {"idle", "send"}]
    /\ queue \in 0..QueueSize
    /\ refs \in Int
    /\ rst \in {"off", "select", "write", "drain", "exit"}
    /\ done \in BOOLEAN
    /\ core \in {"running", "hung", "stopped"}
    /\ closer \in {"new", "created", "failed", "open", "rwc", "waitRead", "waitRST", "removed"}
    /\ late \in 0..MaxLate

Sending == {w \in Writers : sender[w] = "send"}

\* RefsExact, with the writers that hold a packet by name.
Holders == refs = queue + Cardinality(Sending) + (IF rst = "write" THEN 1 ELSE 0)

\* The RST goroutine holds nothing when NewYggdrasilNIC starts it.
Fresh == closer = "new" => rst = "off"

Inv == Shape /\ Holders /\ Fresh

-----------------------------------------------------------------------------
\* There are finitely many writers.
LEMMA SendingFinite == IsFiniteSet(Sending) /\ Cardinality(Sending) \in Nat
<1>1. IsFiniteSet(Writers)
  BY NICAssumption, FS_AddElement DEF Writers
<1>2. Sending \in SUBSET Writers
  BY DEF Sending
<1> QED
  BY <1>1, <1>2, FS_Subset, FS_CardinalityType

\* A writer that begins to send is one more that holds a packet.
LEMMA Begins ==
    ASSUME Shape, NEW w \in Writers, sender[w] = "idle",
           sender' = [sender EXCEPT ![w] = "send"]
    PROVE  Cardinality(Sending') = Cardinality(Sending) + 1
<1>1. w \notin Sending /\ Sending' = Sending \cup {w}
  BY DEF Shape, Sending
<1> QED
  BY <1>1, SendingFinite, FS_AddElement

\* A writer that has sent is one less.
LEMMA Ends ==
    ASSUME Shape, NEW w \in Writers, sender[w] = "send",
           sender' = [sender EXCEPT ![w] = "idle"]
    PROVE  Cardinality(Sending') = Cardinality(Sending) - 1
<1>1. w \in Sending /\ Sending' = Sending \ {w}
  BY DEF Shape, Sending
<1> QED
  BY <1>1, SendingFinite, FS_RemoveElement

-----------------------------------------------------------------------------
\* The initial state satisfies the inductive invariant.
LEMMA InitInv == Init => Inv
<1> SUFFICES ASSUME Init PROVE Inv
  OBVIOUS
<1>1. /\ reader \in {"off", "read", "deliver", "exit"}
      /\ sender \in [Writers -> {"idle", "send"}]
      /\ rst \in {"off", "select", "write", "drain", "exit"}
      /\ done \in BOOLEAN /\ core \in {"running", "hung", "stopped"}
      /\ closer \in {"new", "created", "failed", "open", "rwc", "waitRead", "waitRST", "removed"}
  BY DEF Init
<1>2. queue \in 0..QueueSize /\ refs \in Int /\ late \in 0..MaxLate
  BY NICAssumption DEF Init
<1>3. Sending = {}
  BY DEF Init, Sending
<1>4. Holders
  BY <1>3, FS_EmptySet DEF Init, Holders
<1> QED
  BY <1>1, <1>2, <1>4 DEF Init, Inv, Shape, Fresh

\* WritePackets takes a reference, and the select that follows hands it to the
\* queue or releases it.
LEMMA WriterStep == Inv /\ (\E w \in Writers : WriteRST(w) \/ Enqueue(w)) => Inv'
<1> SUFFICES ASSUME Inv, NEW w \in Writers, WriteRST(w) \/ Enqueue(w) PROVE Inv'
  OBVIOUS
<1> USE NICAssumption, SendingFinite DEF Inv, Shape, Holders, Fresh
<1>1. CASE WriteRST(w)
  <2>1. Shape'
    BY <1>1 DEF WriteRST, Ending
  <2>2. Cardinality(Sending') = Cardinality(Sending) + 1
    BY <1>1, Begins DEF WriteRST
  <2>3. Holders' /\ Fresh'
    BY <1>1, <2>2 DEF WriteRST
  <2> QED
    BY <2>1, <2>3
<1>2. CASE Enqueue(w)
  <2>1. Shape'
    BY <1>2 DEF Enqueue
  <2>2. Cardinality(Sending') = Cardinality(Sending) - 1
    BY <1>2, Ends DEF Enqueue
  <2>3. Holders' /\ Fresh'
    BY <1>2, <2>2 DEF Enqueue
  <2> QED
    BY <2>1, <2>3
<1> QED
  BY <1>1, <1>2

\* The other goroutines leave the writers alone.
LEMMA OtherStep ==
    ASSUME Inv,
           \/ Create \/ AddAddress \/ StopCore \/ HangEnds
           \/ ReadPacket \/ Delivered \/ ReadFails
           \/ TakeRST \/ SendRST \/ RSTDone \/ Drain
           \/ CloseDone \/ CloseStep \/ UNCHANGED vars
    PROVE  Inv'
<1> USE NICAssumption, SendingFinite DEF Inv, Shape, Holders, Fresh
<1>1. sender' = sender
  BY DEF Create, AddAddress, StopCore, HangEnds, ReadPacket, Delivered, ReadFails,
         TakeRST, SendRST, RSTDone, Drain, CloseDone, CloseStep, CloseRWC, CloseWaitsForReader,
         CloseWaitsForRST, vars
<1>2. Sending' = Sending
  BY <1>1 DEF Sending
<1>3. CASE Create \/ AddAddress \/ StopCore \/ HangEnds
  BY <1>1, <1>2, <1>3 DEF Create, AddAddress, StopCore, HangEnds
<1>4. CASE ReadPacket \/ Delivered \/ ReadFails
  BY <1>1, <1>2, <1>4 DEF ReadPacket, Delivered, ReadFails
<1>5. CASE TakeRST \/ SendRST
  BY <1>1, <1>2, <1>5 DEF TakeRST, SendRST
<1>6. CASE RSTDone \/ Drain
  BY <1>1, <1>2, <1>6 DEF RSTDone, Drain
<1>7. CASE CloseDone \/ CloseStep
  BY <1>1, <1>2, <1>7 DEF CloseDone, CloseStep, CloseRWC, CloseWaitsForReader, CloseWaitsForRST
<1>8. CASE UNCHANGED vars
  BY <1>2, <1>8 DEF vars
<1> QED
  BY <1>3, <1>4, <1>5, <1>6, <1>7, <1>8

\* The invariant holds in every state.
LEMMA InvHolds == Spec => []Inv
<1>1. Inv /\ [Next]_vars => Inv'
  BY WriterStep, OtherStep DEF Next, Closed
<1> QED
  BY <1>1, InitInv, PTL DEF Spec

-----------------------------------------------------------------------------
\* Every reference WritePackets takes is held by exactly one writer, place of the
\* queue or the RST goroutine, for any number of goroutines of the stack.
THEOREM ReferencesExact == Spec => []RefsExact
<1>1. Inv => RefsExact
  BY DEF Inv, Holders, RefsExact, Sending
<1> QED
  BY <1>1, InvHolds, PTL

\* Every variable keeps its type: rstPackets never holds more than its capacity,
\* and no reference is released that is not held.
THEOREM TypeCorrect == Spec => []TypeOK
<1>1. Inv => TypeOK
  BY SendingFinite, NICAssumption DEF Inv, Shape, Holders, TypeOK
<1> QED
  BY <1>1, InvHolds, PTL

-----------------------------------------------------------------------------
(* Close.                                                                  *)

\* What Close has closed and waited for, place by place; the reading goroutine is
\* inside WritePackets only during a delivery.
Order ==
    /\ closer = "new" => reader = "off"
    /\ sender["reader"] = "send" => reader = "deliver"
    /\ done <=> closer \in {"rwc", "waitRead", "waitRST", "removed"}
    /\ closer \in {"waitRead", "waitRST", "removed"} => core = "stopped"
    /\ closer \in {"waitRST", "removed"} => reader = "exit"
    /\ closer = "removed" => rst = "exit"
    /\ rst \in {"drain", "exit"} => done

\* RemoveNIC comes when nothing uses the interface any more: the core has stopped,
\* both goroutines have ended, and no delivery is inside the stack, so that
\* only goroutines of the stack itself may still hold a packet (yggdrasil.go,
\* Close); and until Close, the RST goroutine does not give up the queue.
RemovedIsQuiet ==
    /\ closer = "removed" => /\ core = "stopped"
                             /\ reader = "exit" /\ rst = "exit"
                             /\ sender["reader"] = "idle"
    /\ rst \in {"drain", "exit"} => done

\* Every step keeps the order.
LEMMA OrderStep == Inv /\ Order /\ [Next]_vars => Order'
<1> SUFFICES ASSUME Inv, Order, [Next]_vars PROVE Order'
  OBVIOUS
<1> USE NICAssumption DEF Inv, Shape, Fresh, Order
<1>1. ASSUME NEW w \in Writers, WriteRST(w) \/ Enqueue(w) PROVE Order'
  <2>1. UNCHANGED <<reader, rst, done, core, closer>>
    BY <1>1 DEF WriteRST, Enqueue
  <2>2. sender'["reader"] = "send" => reader = "deliver"
    BY <1>1 DEF WriteRST, Enqueue, Writers
  <2> QED
    BY <2>1, <2>2
<1>2. ASSUME Create \/ AddAddress \/ StopCore \/ HangEnds PROVE Order'
  BY <1>2 DEF Create, AddAddress, StopCore, HangEnds
<1>3. ASSUME ReadPacket \/ Delivered \/ ReadFails PROVE Order'
  BY <1>3 DEF ReadPacket, Delivered, ReadFails
<1>4. ASSUME TakeRST \/ SendRST \/ RSTDone \/ Drain PROVE Order'
  BY <1>4 DEF TakeRST, SendRST, RSTDone, Drain
<1>5. ASSUME CloseDone \/ CloseStep PROVE Order'
  BY <1>5 DEF CloseDone, CloseStep, CloseRWC, CloseWaitsForReader, CloseWaitsForRST
<1>6. ASSUME UNCHANGED vars PROVE Order'
  BY <1>6 DEF vars
<1> QED
  BY <1>1, <1>2, <1>3, <1>4, <1>5, <1>6 DEF Next, Closed

\* For any number of goroutines of the stack, RemoveNIC finds the interface quiet.
THEOREM CloseIsOrderly == Spec => []RemovedIsQuiet
<1>1. Init => Order
  BY DEF Init, Order, Writers
<1>2. Inv /\ Order => RemovedIsQuiet
  BY DEF Inv, Shape, Order, RemovedIsQuiet, Writers
<1> QED
  BY <1>1, <1>2, OrderStep, InvHolds, PTL DEF Spec

=============================================================================
