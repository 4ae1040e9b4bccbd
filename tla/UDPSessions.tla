----------------------------- MODULE UDPSessions -----------------------------
(***************************************************************************)
(* One UDP port mapping of mod/mapping: runUDPLoop, which opens a session  *)
(* for every source address it hears from, CleanupUDPSessions, which       *)
(* closes the idle ones, and the ReverseProxyUDP goroutine of every        *)
(* session.  The loop and the cleaner share the session map and race to    *)
(* close the same sessions.                                                *)
(***************************************************************************)
EXTENDS Integers

CONSTANTS
    Keys,           \* source addresses
    MaxSessions,    \* bound on the sessions the loop ever opens
    Timeout         \* UDPSessionTimeout, in units of the clock

ASSUME UDPSessionsAssumption ==
    /\ MaxSessions \in Nat \ {0}
    /\ Timeout \in Nat \ {0}

Ids == 1..MaxSessions
None == 0

VARIABLES
    sessions,   \* UDPSessionMapObj.data: the session of each key, or None
    created,    \* how many sessions have been opened: the last one's number
    status,     \* CloseOnce of each session: "open", "closing" inside, "closed"
    age,        \* now - LastActivity, saturated above Timeout
    proxy,      \* the ReverseProxyUDP goroutine of each session
    counter,    \* connCounter, as far as this mapping changes it
    loop,       \* where runUDPLoop is
    lkey,       \* the source address of the packet in hand
    lsess,      \* the session of the packet in hand
    cleaner,    \* where CleanupUDPSessions is
    snapshot,   \* what its Range has copied and not yet visited
    ckey,       \* the key it is visiting
    csess,      \* the session it is visiting
    ctxDone,    \* the components' context is cancelled
    connClosed  \* the listening socket is closed

loopVars    == <<loop, lkey, lsess>>
cleanerVars == <<cleaner, snapshot, ckey, csess>>
stopVars    == <<ctxDone, connClosed>>
vars == <<sessions, created, status, age, proxy, counter, loopVars, cleanerVars,
          stopVars>>

LoopPCs == {"read", "dial", "store", "write", "close", "closing", "delete", "exit"}
CleanerPCs == {"select", "range", "close", "closing", "delete",
               "last", "lastClose", "lastClosing", "exit"}

Init ==
    /\ sessions = [k \in Keys |-> None]
    /\ created = 0
    /\ status = [i \in Ids |-> "none"]
    /\ age = [i \in Ids |-> 0]
    /\ proxy = [i \in Ids |-> "none"]
    /\ counter = 0
    /\ loop = "read" /\ lkey \in Keys /\ lsess = None
    /\ cleaner = "select" /\ snapshot = {} /\ ckey \in Keys /\ csess = None
    /\ ctxDone = FALSE
    /\ connClosed = FALSE

Mapped == {<<k, sessions[k]>> : k \in {x \in Keys : sessions[x] # None}}

-----------------------------------------------------------------------------
(* CloseUDPSession.  CloseOnce makes a second caller wait for the first,   *)
(* which cancels and closes before it reports and decrements.              *)

\* Mutant: a flag read before the close and set after it replaces CloseOnce.
CloseTwice(i, inside, after, pc) ==
    IF status[i] = "closed"
    THEN pc = after /\ UNCHANGED status
    ELSE pc = inside /\ status' = [status EXCEPT ![i] = "closing"]

CloseEnter(i, inside, after, pc) ==
    /\ status[i] # "closing"
    /\ IF status[i] = "open"
       THEN pc = inside /\ status' = [status EXCEPT ![i] = "closing"]
       ELSE pc = after /\ UNCHANGED status

CloseLeave(i) ==
    /\ status' = [status EXCEPT ![i] = "closed"]
    /\ counter' = counter - 1

-----------------------------------------------------------------------------
(* runUDPLoop.                                                             *)

\* Mutant: the loop opens a session without looking for one.
LoopReadBlind(k) ==
    /\ loop = "read" /\ ~connClosed
    /\ lkey' = k
    /\ lsess' = None
    /\ loop' = "dial"
    /\ UNCHANGED <<sessions, created, status, age, proxy, counter, cleanerVars, stopVars>>

\* A packet from k, and the lookup of its session.
LoopRead(k) ==
    /\ loop = "read" /\ ~connClosed
    /\ lkey' = k
    /\ lsess' = sessions[k]
    /\ loop' = IF sessions[k] = None THEN "dial" ELSE "write"
    /\ UNCHANGED <<sessions, created, status, age, proxy, counter, cleanerVars, stopVars>>

\* ReadFrom fails.  Before ctx is cancelled the loop just goes on reading.
LoopExit ==
    /\ loop = "read" /\ ctxDone
    /\ loop' = "exit"
    /\ UNCHANGED <<sessions, created, status, age, proxy, counter, lkey, lsess,
                   cleanerVars, stopVars>>

\* Mutant: a new session is reported but not counted.
LoopDialUncounted ==
    /\ loop = "dial"
    /\ \/ /\ created < MaxSessions
          /\ created' = created + 1
          /\ lsess' = created'
          /\ status' = [status EXCEPT ![created'] = "open"]
          /\ loop' = "store"
       \/ /\ loop' = "read"
          /\ UNCHANGED <<created, lsess, status>>
    /\ UNCHANGED <<sessions, age, proxy, counter, lkey, cleanerVars, stopVars>>

\* The session exists and is counted before it is in the map.
LoopDial ==
    /\ loop = "dial"
    /\ \/ /\ created < MaxSessions
          /\ created' = created + 1
          /\ lsess' = created'
          /\ status' = [status EXCEPT ![created'] = "open"]
          /\ counter' = counter + 1
          /\ loop' = "store"
       \/ /\ loop' = "read"
          /\ UNCHANGED <<created, lsess, status, counter>>
    /\ UNCHANGED <<sessions, age, proxy, lkey, cleanerVars, stopVars>>

LoopStore ==
    /\ loop = "store"
    /\ sessions' = [sessions EXCEPT ![lkey] = lsess]
    /\ proxy' = [proxy EXCEPT ![lsess] = "running"]
    /\ age' = [age EXCEPT ![lsess] = 0]
    /\ loop' = "write"
    /\ UNCHANGED <<created, status, counter, lkey, lsess, cleanerVars, stopVars>>

\* Writing to a closed connection fails; writing to an open one may.
LoopWrite ==
    /\ loop = "write"
    /\ age' = [age EXCEPT ![lsess] = 0]
    /\ \/ status[lsess] # "closed" /\ loop' = "read"
       \/ loop' = "close"
    /\ UNCHANGED <<sessions, created, status, proxy, counter, lkey, lsess,
                   cleanerVars, stopVars>>

LoopClose ==
    /\ loop = "close"
    /\ CloseEnter(lsess, "closing", "delete", loop')
    /\ UNCHANGED <<sessions, created, age, proxy, counter, lkey, lsess,
                   cleanerVars, stopVars>>

LoopClosed ==
    /\ loop = "closing"
    /\ CloseLeave(lsess)
    /\ loop' = "delete"
    /\ UNCHANGED <<sessions, created, age, proxy, lkey, lsess, cleanerVars, stopVars>>

LoopDelete ==
    /\ loop = "delete"
    /\ sessions' = [sessions EXCEPT ![lkey] = None]
    /\ loop' = "read"
    /\ UNCHANGED <<created, status, age, proxy, counter, lkey, lsess,
                   cleanerVars, stopVars>>

-----------------------------------------------------------------------------
(* CleanupUDPSessions.  Range copies the map and visits the copy.          *)

CleanerTick ==
    /\ cleaner = "select"
    /\ snapshot' = Mapped
    /\ cleaner' = "range"
    /\ UNCHANGED <<sessions, created, status, age, proxy, counter, loopVars,
                   ckey, csess, stopVars>>

CleanerVisit(k, i) ==
    /\ cleaner = "range" /\ <<k, i>> \in snapshot
    /\ snapshot' = snapshot \ {<<k, i>>}
    /\ ckey' = k /\ csess' = i
    /\ cleaner' = IF age[i] > Timeout THEN "close" ELSE "range"
    /\ UNCHANGED <<sessions, created, status, age, proxy, counter, loopVars, stopVars>>

CleanerRangeEnd ==
    /\ cleaner = "range" /\ snapshot = {}
    /\ cleaner' = "select"
    /\ UNCHANGED <<sessions, created, status, age, proxy, counter, loopVars,
                   snapshot, ckey, csess, stopVars>>

CleanerClose ==
    /\ \/ cleaner = "close" /\ CloseEnter(csess, "closing", "delete", cleaner')
       \/ cleaner = "lastClose" /\ CloseEnter(csess, "lastClosing", "last", cleaner')
    /\ UNCHANGED <<sessions, created, age, proxy, counter, loopVars,
                   snapshot, ckey, csess, stopVars>>

CleanerClosed ==
    /\ \/ cleaner = "closing" /\ cleaner' = "delete"
       \/ cleaner = "lastClosing" /\ cleaner' = "last"
    /\ CloseLeave(csess)
    /\ UNCHANGED <<sessions, created, age, proxy, loopVars, snapshot, ckey, csess, stopVars>>

\* Mutant: an idle session is closed and stays in the map.
CleanerDeleteForgotten ==
    /\ cleaner = "delete"
    /\ cleaner' = "range"
    /\ UNCHANGED <<sessions, created, status, age, proxy, counter, loopVars,
                   snapshot, ckey, csess, stopVars>>

\* Delete takes the key, whatever session it leads to by now.
CleanerDelete ==
    /\ cleaner = "delete"
    /\ sessions' = [sessions EXCEPT ![ckey] = None]
    /\ cleaner' = "range"
    /\ UNCHANGED <<created, status, age, proxy, counter, loopVars,
                   snapshot, ckey, csess, stopVars>>

\* ctx.Done(): one last Range closes what is in the map.
CleanerLast ==
    /\ cleaner = "select" /\ ctxDone
    /\ snapshot' = Mapped
    /\ cleaner' = "last"
    /\ UNCHANGED <<sessions, created, status, age, proxy, counter, loopVars,
                   ckey, csess, stopVars>>

\* Mutant: the cleaner never returns to CleanupUDPSessions' caller.
CleanerLastVisitStuck ==
    /\ cleaner = "last" /\ snapshot # {}
    /\ \E p \in snapshot : /\ snapshot' = snapshot \ {p}
                           /\ ckey' = p[1] /\ csess' = p[2]
                           /\ cleaner' = "lastClose"
    /\ UNCHANGED <<sessions, created, status, age, proxy, counter, loopVars, stopVars>>

\* Mutant: the last Range applies the test of an ordinary tick.
CleanerLastVisitIdle ==
    /\ cleaner = "last"
    /\ \/ \E p \in snapshot : /\ snapshot' = snapshot \ {p}
                              /\ ckey' = p[1] /\ csess' = p[2]
                              /\ cleaner' = IF age[p[2]] > Timeout THEN "lastClose" ELSE "last"
       \/ /\ snapshot = {}
          /\ cleaner' = "exit"
          /\ UNCHANGED <<snapshot, ckey, csess>>
    /\ UNCHANGED <<sessions, created, status, age, proxy, counter, loopVars, stopVars>>

CleanerLastVisit ==
    /\ cleaner = "last"
    /\ \/ \E p \in snapshot : /\ snapshot' = snapshot \ {p}
                              /\ ckey' = p[1] /\ csess' = p[2]
                              /\ cleaner' = "lastClose"
       \/ /\ snapshot = {}
          /\ cleaner' = "exit"
          /\ UNCHANGED <<snapshot, ckey, csess>>
    /\ UNCHANGED <<sessions, created, status, age, proxy, counter, loopVars, stopVars>>

-----------------------------------------------------------------------------
(* ReverseProxyUDP, stopComponents and the clock.                          *)

\* The watcher's read deadline ends the proxy once its context is done, which a
\* cancelled components' context implies; any I/O error ends it as well.
ProxyStops(i) ==
    /\ proxy[i] = "running" /\ (ctxDone \/ status[i] # "open")
    /\ proxy' = [proxy EXCEPT ![i] = "ended"]
    /\ UNCHANGED <<sessions, created, status, age, counter, loopVars, cleanerVars, stopVars>>

ProxyFails(i) ==
    /\ proxy[i] = "running" /\ status[i] = "open" /\ ~ctxDone
    /\ proxy' = [proxy EXCEPT ![i] = "ended"]
    /\ UNCHANGED <<sessions, created, status, age, counter, loopVars, cleanerVars, stopVars>>

Cancel ==
    /\ ~ctxDone
    /\ ctxDone' = TRUE
    /\ UNCHANGED <<sessions, created, status, age, proxy, counter, loopVars,
                   cleanerVars, connClosed>>

CloseConn ==
    /\ ctxDone /\ ~connClosed
    /\ connClosed' = TRUE
    /\ UNCHANGED <<sessions, created, status, age, proxy, counter, loopVars,
                   cleanerVars, ctxDone>>

\* Time passes while the loop reads or dials and the cleaner waits for a tick,
\* not between two statements of theirs; a Range judges ages by the time of its
\* tick.
Pass ==
    /\ cleaner \in {"select", "exit"} /\ loop \in {"read", "dial", "exit"}
    /\ age' = [i \in Ids |-> IF status[i] # "none" /\ age[i] <= Timeout
                             THEN age[i] + 1 ELSE age[i]]
    /\ UNCHANGED <<sessions, created, status, proxy, counter, loopVars,
                   cleanerVars, stopVars>>

\* Everything has ended: the only state in which nothing more happens.
Stopped ==
    /\ loop = "exit" /\ cleaner = "exit" /\ connClosed
    /\ \A i \in Ids : proxy[i] # "running"
    /\ UNCHANGED vars

-----------------------------------------------------------------------------
LoopStep == LoopExit \/ LoopDial \/ LoopStore \/ LoopWrite \/ LoopClose \/ LoopClosed \/ LoopDelete

CleanerWork ==
    \/ \E p \in snapshot : CleanerVisit(p[1], p[2])
    \/ CleanerRangeEnd \/ CleanerClose \/ CleanerClosed \/ CleanerDelete
    \/ CleanerLastVisit

Next ==
    \/ \E k \in Keys : LoopRead(k)
    \/ LoopStep
    \/ CleanerTick \/ CleanerLast \/ CleanerWork
    \/ \E i \in Ids : ProxyStops(i) \/ ProxyFails(i)
    \/ Cancel \/ CloseConn \/ Pass \/ Stopped

Spec == Init /\ [][Next]_vars

\* Goroutines run; the ticker fires; the select that sees ctx.Done() again and
\* again takes it; stopComponents closes the listener after it cancels.
Fairness ==
    /\ WF_vars(LoopStep)
    /\ WF_vars(CleanerTick) /\ SF_vars(CleanerLast) /\ WF_vars(CleanerWork)
    /\ \A i \in Ids : WF_vars(ProxyStops(i))
    /\ WF_vars(CloseConn)

FairSpec == Spec /\ Fairness

-----------------------------------------------------------------------------
Live == {i \in Ids : status[i] \in {"open", "closing"}}

\* Every variable keeps its type; in particular no close decrements the counter
\* below zero, whoever closes a session (CloseUDPSession).
TypeOK ==
    /\ sessions \in [Keys -> Ids \cup {None}]
    /\ created \in 0..MaxSessions
    /\ status \in [Ids -> {"none", "open", "closing", "closed"}]
    /\ age \in [Ids -> 0..(Timeout + 1)]
    /\ proxy \in [Ids -> {"none", "running", "ended"}]
    /\ counter \in 0..MaxSessions
    /\ loop \in LoopPCs /\ lkey \in Keys /\ lsess \in Ids \cup {None}
    /\ cleaner \in CleanerPCs /\ snapshot \subseteq (Keys \X Ids)
    /\ ckey \in Keys /\ csess \in Ids \cup {None}
    /\ ctxDone \in BOOLEAN /\ connClosed \in BOOLEAN

A == INSTANCE Activity
        WITH Conns <- Ids,
             active <- Live,
             finished <- {i \in Ids : status[i] = "closed"},
             count <- counter

\* Each session is reported and counted once when it is opened and once when it
\* is closed, although the loop and the cleaner may both close it, so that the
\* counter idle detection reads stays exact (CloseUDPSession, Activity).
TracksActivity == A!Spec

\* What leaves the map is closed, and nothing is stored over what is in it, in
\* whatever order the loop and the cleaner find a session dead: Load, dial and
\* Store are three steps, and Delete takes a key (udp.go:102-121, 174).  There is one
\* exception: the cleaner closes a session, the loop notices, deletes it and
\* stores a newer one, and the cleaner's Delete then hits that one.
LeavesMapClosed ==
    [][\A k \in Keys :
          sessions[k] # None /\ sessions'[k] # sessions[k]
              => /\ sessions'[k] = None
                 /\ \/ status[sessions[k]] = "closed"
                    \/ cleaner = "delete" /\ k = ckey /\ sessions[k] > csess]_vars

\* A session that is in the map and has had no traffic for longer than the
\* timeout leaves the map (CleanupUDPSessions), unless the node is stopping.
ExpiredUnmapped ==
    \A k \in Keys, i \in Ids :
        (sessions[k] = i /\ age[i] > Timeout)
            ~> (sessions[k] # i \/ age[i] <= Timeout \/ ctxDone)

\* What is in the map when the cleaner makes its last Range is closed, also when
\* the loop is closing the same session.  A session the loop stores later is not
\* (udp.go:156 says all remaining sessions are).
LastSweepCloses ==
    \A i \in Ids :
        (cleaner = "last" /\ \E k \in Keys : <<k, i>> \in snapshot) ~> status[i] = "closed"

\* Cancelling the components' context ends the loop, the cleaner and every
\* reverse proxy, also those of sessions the cleaner does not know.
GoroutinesEnd ==
    ctxDone ~> /\ loop = "exit" /\ cleaner = "exit"
               /\ \A i \in Ids : proxy[i] # "running"

=============================================================================
