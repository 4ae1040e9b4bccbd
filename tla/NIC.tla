-------------------------------- MODULE NIC --------------------------------
(***************************************************************************)
(* The network interface that joins the Yggdrasil core to the gVisor stack *)
(* (src/netstack/yggdrasil.go): its creation, the goroutine that delivers  *)
(* what the core receives, the bounded queue of deferred RST packets and   *)
(* the goroutine that sends them, and Close.  The stack calls WritePackets *)
(* from goroutines of its own and from inside a delivery; stopComponents   *)
(* and rollbackComponents stop the core under it.                          *)
(*                                                                         *)
(* A packet is reduced to the reference that the interface holds on it.    *)
(***************************************************************************)
EXTENDS Integers, FiniteSets

CONSTANTS
    Senders,    \* goroutines of the stack that call WritePackets
    QueueSize,  \* capacity of rstPackets
    MaxLate     \* bound on the RST packets the stack writes after Close or a failed creation

ASSUME NICAssumption ==
    /\ IsFiniteSet(Senders) /\ "reader" \notin Senders
    /\ QueueSize \in Nat \ {0}
    /\ MaxLate \in Nat

VARIABLES
    reader,     \* the goroutine that reads from ipv6rwc
    sender,     \* each goroutine that may be inside WritePackets
    queue,      \* the number of packets in rstPackets
    refs,       \* references taken by WritePackets and not yet released
    rst,        \* the goroutine that sends RST packets
    done,       \* the channel done is closed
    core,       \* the core behind ipv6rwc: "hung" if a Stop of it does not return,
                \* "stopped" once it has, and Read and Write fail
    closer,     \* where NewYggdrasilNIC and then Close are
    late        \* RST packets written since Close began or the creation failed

vars == <<reader, sender, queue, refs, rst, done, core, closer, late>>

Writers == Senders \cup {"reader"}

Init ==
    /\ reader = "off"
    /\ sender = [w \in Writers |-> "idle"]
    /\ queue = 0
    /\ refs = 0
    /\ rst = "off"
    /\ done = FALSE
    /\ core = "running"
    /\ closer = "new"
    /\ late = 0

-----------------------------------------------------------------------------
(* NewYggdrasilNIC, and the core it is given.                              *)

\* CreateNIC attaches the interface; then both goroutines start.
Create ==
    /\ closer = "new"
    /\ \/ closer' = "created" /\ reader' = "read" /\ rst' = "select"
       \/ closer' = "failed" /\ UNCHANGED <<reader, rst>>
    /\ UNCHANGED <<sender, queue, refs, done, core, late>>

\* The route and the address of the node.  On an error nobody is left to close
\* the interface: CreateYggdrasilNetstack drops it.
AddAddress ==
    /\ closer = "created"
    /\ closer' \in {"open", "failed"}
    /\ UNCHANGED <<reader, sender, queue, refs, rst, done, core, late>>

\* core.Stop, before Close in stopComponents and after a failed creation in
\* rollbackComponents, makes Read and Write of ipv6rwc fail, or hangs.  Without a
\* CoreStopTimeout stopComponents then never gets to Close, with one it does.
StopCore ==
    /\ closer \in {"open", "failed"} /\ core = "running"
    /\ core' \in {"stopped", "hung"}
    /\ UNCHANGED <<reader, sender, queue, refs, rst, done, closer, late>>

\* A core that hangs may still stop after all.
HangEnds ==
    /\ core = "hung"
    /\ core' = "stopped"
    /\ UNCHANGED <<reader, sender, queue, refs, rst, done, closer, late>>

-----------------------------------------------------------------------------
(* The reading goroutine.                                                  *)

ReadPacket ==
    /\ reader = "read" /\ core # "stopped"
    /\ reader' = "deliver"
    /\ UNCHANGED <<sender, queue, refs, rst, done, core, closer, late>>

\* DeliverNetworkPacket returns once the stack has written its answers.
Delivered ==
    /\ reader = "deliver" /\ sender["reader"] = "idle"
    /\ reader' = "read"
    /\ UNCHANGED <<sender, queue, refs, rst, done, core, closer, late>>

ReadFails ==
    /\ reader = "read" /\ core = "stopped"
    /\ reader' = "exit"
    /\ UNCHANGED <<sender, queue, refs, rst, done, core, closer, late>>

-----------------------------------------------------------------------------
(* WritePackets, for a RST packet without data.  Other packets go straight *)
(* to writePacket and leave no trace here.                                 *)

\* A delivery writes so many packets and no more.
Ending == done \/ closer = "failed"

\* IncRef.  The reading goroutine writes only from inside a delivery.
WriteRST(w) ==
    /\ sender[w] = "idle"
    /\ IF w = "reader" THEN reader = "deliver" ELSE closer # "new"
    /\ Ending => late < MaxLate
    /\ sender' = [sender EXCEPT ![w] = "send"]
    /\ refs' = refs + 1
    /\ late' = IF Ending THEN late + 1 ELSE late
    /\ UNCHANGED <<reader, queue, rst, done, core, closer>>

\* Mutant: the packet that does not fit keeps its reference.
EnqueueLeaks(w) ==
    /\ sender[w] = "send"
    /\ sender' = [sender EXCEPT ![w] = "idle"]
    /\ queue' = IF queue < QueueSize THEN queue + 1 ELSE queue
    /\ UNCHANGED <<reader, refs, rst, done, core, closer, late>>

\* Mutant: the send to rstPackets blocks while the queue is full.
EnqueueBlocks(w) ==
    /\ sender[w] = "send" /\ queue < QueueSize
    /\ sender' = [sender EXCEPT ![w] = "idle"]
    /\ queue' = queue + 1
    /\ UNCHANGED <<reader, refs, rst, done, core, closer, late>>

\* The select with a default: a packet that does not fit is dropped.
Enqueue(w) ==
    /\ sender[w] = "send"
    /\ sender' = [sender EXCEPT ![w] = "idle"]
    /\ \/ queue < QueueSize /\ queue' = queue + 1 /\ UNCHANGED refs
       \/ queue = QueueSize /\ refs' = refs - 1 /\ UNCHANGED queue
    /\ UNCHANGED <<reader, rst, done, core, closer, late>>

-----------------------------------------------------------------------------
(* The RST goroutine.                                                      *)

TakeRST ==
    /\ rst = "select" /\ queue > 0
    /\ queue' = queue - 1
    /\ rst' = "write"
    /\ UNCHANGED <<reader, sender, refs, done, core, closer, late>>

\* Mutant: the sent packet is released twice.
SendRSTTwice ==
    /\ rst = "write"
    /\ refs' = refs - 2
    /\ rst' = "select"
    /\ UNCHANGED <<reader, sender, queue, done, core, closer, late>>

\* writePacket, whose panics are recovered and errors ignored, and DecRef.
SendRST ==
    /\ rst = "write"
    /\ refs' = refs - 1
    /\ rst' = "select"
    /\ UNCHANGED <<reader, sender, queue, done, core, closer, late>>

RSTDone ==
    /\ rst = "select" /\ done
    /\ rst' = "drain"
    /\ UNCHANGED <<reader, sender, queue, refs, done, core, closer, late>>

Drain ==
    /\ rst = "drain"
    /\ \/ queue > 0 /\ queue' = queue - 1 /\ refs' = refs - 1 /\ UNCHANGED rst
       \/ queue = 0 /\ rst' = "exit" /\ UNCHANGED <<queue, refs>>
    /\ UNCHANGED <<reader, sender, done, core, closer, late>>

-----------------------------------------------------------------------------
(* Close.                                                                  *)

CloseDone ==
    /\ closer = "open"
    /\ done' = TRUE
    /\ closer' = "rwc"
    /\ UNCHANGED <<reader, sender, queue, refs, rst, core, late>>

\* ipv6rwc.Close, which stops the core, again if need be, and so ends the pending
\* Read.  It returns when the core has stopped and hangs with it.
CloseRWC ==
    /\ closer = "rwc"
    /\ \/ core = "running" /\ core' = "hung" /\ UNCHANGED closer
       \/ core # "hung" /\ core' = "stopped" /\ closer' = "waitRead"
    /\ UNCHANGED <<reader, sender, queue, refs, rst, done, late>>

CloseWaitsForReader ==
    /\ closer = "waitRead" /\ reader = "exit"
    /\ closer' = "waitRST"
    /\ UNCHANGED <<reader, sender, queue, refs, rst, done, core, late>>

\* The second wait, and RemoveNIC.
CloseWaitsForRST ==
    /\ closer = "waitRST" /\ rst = "exit"
    /\ closer' = "removed"
    /\ UNCHANGED <<reader, sender, queue, refs, rst, done, core, late>>

\* Nothing more need happen.
Closed == closer \in {"removed", "failed"} /\ UNCHANGED vars

-----------------------------------------------------------------------------
CloseStep == CloseRWC \/ CloseWaitsForReader \/ CloseWaitsForRST

Next ==
    \/ Create \/ AddAddress \/ StopCore \/ HangEnds
    \/ ReadPacket \/ Delivered \/ ReadFails
    \/ \E w \in Writers : WriteRST(w) \/ Enqueue(w)
    \/ TakeRST \/ SendRST \/ RSTDone \/ Drain
    \/ CloseDone \/ CloseStep \/ Closed

Spec == Init /\ [][Next]_vars

\* Goroutines run, and a select that sees done again and again takes it.  The
\* rollback of a failed creation stops the core, which may hang for good.  The
\* stack need not write anything, and nobody need close the interface.
Fairness ==
    /\ WF_vars(Delivered) /\ WF_vars(ReadFails)
    /\ \A w \in Writers : WF_vars(Enqueue(w))
    /\ WF_vars(SendRST) /\ SF_vars(RSTDone) /\ WF_vars(Drain)
    /\ WF_vars(CloseStep)
    /\ WF_vars(closer = "failed" /\ StopCore)

FairSpec == Spec /\ Fairness

-----------------------------------------------------------------------------
\* Every variable keeps its type: the queue its bound, the references no less
\* than none.
TypeOK ==
    /\ reader \in {"off", "read", "deliver", "exit"}
    /\ sender \in [Writers -> {"idle", "send"}]
    /\ queue \in 0..QueueSize
    /\ refs \in Nat
    /\ rst \in {"off", "select", "write", "drain", "exit"}
    /\ done \in BOOLEAN
    /\ core \in {"running", "hung", "stopped"}
    /\ closer \in {"new", "created", "failed", "open", "rwc", "waitRead", "waitRST", "removed"}
    /\ late \in 0..MaxLate

\* Every reference that WritePackets takes is held by exactly one of a writer
\* about to enqueue, the queue and the RST goroutine, also when the queue is
\* full and while it is drained.
RefsExact ==
    refs = queue + Cardinality({w \in Writers : sender[w] = "send"})
                 + (IF rst = "write" THEN 1 ELSE 0)

\* The interface comes to an end.  Close returns, although the stack writes from
\* inside a delivery while the RST goroutine is no longer emptying the queue; and
\* after a creation that failed with the goroutines already running, where done
\* is never closed, the reading one still ends with the core.  (The RST goroutine
\* does not.)  Both wait for core.Stop and so for as long as that hangs.
InterfaceEnds ==
    /\ closer = "rwc" ~> closer = "removed" \/ core = "hung"
    /\ closer = "failed" ~> reader \in {"off", "exit"} \/ core = "hung"

=============================================================================
