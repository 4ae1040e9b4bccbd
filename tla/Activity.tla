------------------------------- MODULE Activity -------------------------------
(***************************************************************************)
(* What mod/activity promises to the low power manager, whoever uses it:   *)
(* every tracked connection is counted once, from OnConnectionCreated to   *)
(* the first Close, and never again.  CounterObj is the number of the      *)
(* connections between the two.  UDPSessions and TCPMapping implement this *)
(* specification, LowPower relies on it.                                   *)
(***************************************************************************)
EXTENDS Integers

CONSTANT Conns      \* connection identifiers, GenerateConnId gives each one once

VARIABLES
    active,     \* connections created and not closed
    finished,   \* connections that have been closed
    count       \* CounterObj.active

vars == <<active, finished, count>>

Init ==
    /\ active = {}
    /\ finished = {}
    /\ count = 0

\* OnConnectionCreated and Increment.
Created(c) ==
    /\ c \notin active \cup finished
    /\ active' = active \cup {c}
    /\ count' = count + 1
    /\ UNCHANGED finished

\* TrackedConnObj.Close, or CloseUDPSession, the first time.
Closed(c) ==
    /\ c \in active
    /\ active' = active \ {c}
    /\ finished' = finished \cup {c}
    /\ count' = count - 1

Next == \E c \in Conns : Created(c) \/ Closed(c)

Spec == Init /\ [][Next]_vars

=============================================================================
