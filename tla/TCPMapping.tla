------------------------------ MODULE TCPMapping ------------------------------
(***************************************************************************)
(* One TCP port mapping of mod/mapping, local or remote: the accept loop   *)
(* of StartLocalTCP or StartRemoteTCP with its retry delay, the dial it    *)
(* makes before it accepts again, the tracked connection it hands to       *)
(* ProxyTCP, and the two copying goroutines of every proxied connection.   *)
(* stopComponents ends the loop and takes the netstack down, but does not  *)
(* wait for the proxies, and the next start runs beside them.              *)
(*                                                                         *)
(* The listener is registered before a stop begins (Components has the     *)
(* other order), and the application has set an ActivityCallback, without  *)
(* which nothing is counted.                                               *)
(***************************************************************************)
EXTENDS Integers

CONSTANTS
    MaxConns,       \* bound on the connections ever accepted
    RetryInitial,   \* acceptRetryInitial, in milliseconds
    RetryMax        \* acceptRetryMax

ASSUME TCPMappingAssumption ==
    /\ MaxConns \in Nat \ {0}
    /\ RetryInitial \in Nat \ {0}
    /\ RetryMax \in Nat /\ RetryInitial <= RetryMax

Conns == 1..MaxConns
Ends == {1, 2}      \* c1, the accepted end, and c2, the dialled one

VARIABLES
    kind,       \* a "local" mapping (StartLocalTCP) or a "remote" one
    limited,    \* CoreStopTimeout # 0: a close that hangs is given up
    phase,      \* stopComponents: "up", "cancelled", "unlistened", "down", or
                \* "hung" where it waits for a close that has no time limit
    loop,       \* where the accept loop is
    delay,      \* retryDelay
    accepted,   \* how many connections have been accepted
    opened,     \* the ends of each connection that are open
    main,       \* where ProxyTCP is, for each connection
    copied,     \* the directions, named by the end they read, that have ended
    aborted,    \* connections whose Yggdrasil end went down with its netstack
    stranded,   \* connections on a netstack whose close hangs
    counter     \* connCounter, as far as this mapping changes it

loopVars  == <<loop, delay, accepted>>
proxyVars == <<main, copied>>
fateVars  == <<aborted, stranded>>
confVars  == <<kind, limited>>
vars == <<confVars, phase, loopVars, opened, proxyVars, fateVars, counter>>

\* The end that is wrapped in a TrackedConnObj is the Yggdrasil one.
Tracked == IF kind = "local" THEN 2 ELSE 1

Init ==
    /\ kind \in {"local", "remote"}
    /\ limited \in BOOLEAN
    /\ phase = "up"
    /\ loop = "accept" /\ delay = 0 /\ accepted = 0
    /\ opened = [i \in Conns |-> {}]
    /\ main = [i \in Conns |-> "none"]
    /\ copied = [i \in Conns |-> {}]
    /\ aborted = {}
    /\ stranded = {}
    /\ counter = 0

-----------------------------------------------------------------------------
(* The accept loop.                                                        *)

Accept ==
    /\ loop = "accept" /\ phase \in {"up", "cancelled"}
    /\ accepted < MaxConns
    /\ accepted' = accepted + 1
    /\ opened' = [opened EXCEPT ![accepted'] = {1}]
    /\ delay' = 0
    /\ loop' = "dial"
    /\ UNCHANGED <<confVars, phase, proxyVars, fateVars, counter>>

\* Mutant: the doubled delay is not capped.
NextDelayUncapped == IF delay = 0 THEN RetryInitial ELSE 2 * delay

NextDelay ==
    IF delay = 0 THEN RetryInitial
    ELSE IF 2 * delay > RetryMax THEN RetryMax ELSE 2 * delay

\* Accept returns an error; a closed listener makes it.  isTransientAcceptError
\* may call the error transient.
AcceptFails ==
    /\ loop = "accept"
    /\ \/ phase = "up" /\ delay' = NextDelay /\ loop' = "retry"
       \/ loop' = "exit" /\ UNCHANGED delay
    /\ UNCHANGED <<confVars, phase, accepted, opened, proxyVars, fateVars, counter>>

Retry ==
    /\ loop = "retry"
    /\ \/ loop' = "accept"
       \/ phase # "up" /\ loop' = "exit"
    /\ UNCHANGED <<confVars, phase, delay, accepted, opened, proxyVars, fateVars, counter>>

\* The dial takes no context: it returns in its own time, also during a stop.
Dial ==
    /\ loop = "dial"
    /\ \/ /\ opened' = [opened EXCEPT ![accepted] = {1, 2}]
          /\ loop' = "track"
       \/ /\ opened' = [opened EXCEPT ![accepted] = {}]
          /\ loop' = "accept"
    /\ UNCHANGED <<confVars, phase, delay, accepted, proxyVars, fateVars, counter>>

\* OnConnectionCreated, Increment and go ProxyTCP(c1, c2).
Track ==
    /\ loop = "track"
    /\ counter' = counter + 1
    /\ main' = [main EXCEPT ![accepted] = "copy"]
    /\ loop' = "accept"
    /\ UNCHANGED <<confVars, phase, delay, accepted, opened, copied, fateVars>>

-----------------------------------------------------------------------------
(* ProxyTCP.  copied is what the copies have sent to errCh.                *)

\* io.Copy from end e returns: at the end of its stream, on an error of either
\* end, or because an end was closed.
CopyEnds(i, e) ==
    /\ main[i] # "none" /\ e \notin copied[i]
    /\ copied' = [copied EXCEPT ![i] = @ \cup {e}]
    /\ UNCHANGED <<confVars, phase, loopVars, opened, main, fateVars, counter>>

\* Mutant: ProxyTCP waits for both directions before it closes anything.
FirstDirectionBoth(i) ==
    /\ main[i] = "copy" /\ copied[i] = Ends
    /\ main' = [main EXCEPT ![i] = "end1"]
    /\ UNCHANGED <<confVars, phase, loopVars, opened, copied, fateVars, counter>>

\* The first receive from errCh.
FirstDirection(i) ==
    /\ main[i] = "copy" /\ copied[i] # {}
    /\ main' = [main EXCEPT ![i] = "end1"]
    /\ UNCHANGED <<confVars, phase, loopVars, opened, copied, fateVars, counter>>

EndPC   == [e \in Ends |-> IF e = 1 THEN "end1" ELSE "end2"]
CountPC == [e \in Ends |-> IF e = 1 THEN "count1" ELSE "count2"]
After   == [e \in Ends |-> IF e = 1 THEN "end2" ELSE "drain"]

\* Mutant: the tracked end is decremented first and closed afterwards.
CloseEndLate(i, e) ==
    /\ main[i] \in {EndPC[e], CountPC[e]}
    /\ IF e = Tracked /\ main[i] = EndPC[e]
       THEN /\ counter' = counter - 1
            /\ main' = [main EXCEPT ![i] = CountPC[e]]
            /\ UNCHANGED opened
       ELSE /\ opened' = [opened EXCEPT ![i] = @ \ {e}]
            /\ main' = [main EXCEPT ![i] = After[e]]
            /\ UNCHANGED counter
    /\ UNCHANGED <<confVars, phase, loopVars, copied, fateVars>>

\* c1.Close() or c2.Close(); TrackedConnObj.Close calls back and closes the
\* connection it wraps before it decrements.
CloseEnd(i, e) ==
    /\ main[i] = EndPC[e]
    /\ opened' = [opened EXCEPT ![i] = @ \ {e}]
    /\ main' = [main EXCEPT ![i] = IF e = Tracked THEN CountPC[e] ELSE After[e]]
    /\ UNCHANGED <<confVars, phase, loopVars, copied, fateVars, counter>>

\* Mutant: Close returns the error of the wrapped Close before it decrements.
DecrementForgotten(i, e) ==
    /\ main[i] = CountPC[e]
    /\ counter' \in {counter, counter - 1}
    /\ main' = [main EXCEPT ![i] = After[e]]
    /\ UNCHANGED <<confVars, phase, loopVars, opened, copied, fateVars>>

\* The deferred Decrement of TrackedConnObj.Close.
Decrement(i, e) ==
    /\ main[i] = CountPC[e]
    /\ counter' = counter - 1
    /\ main' = [main EXCEPT ![i] = After[e]]
    /\ UNCHANGED <<confVars, phase, loopVars, opened, copied, fateVars>>

\* The second receive, or proxyTCPCloseTimeout.
Return(i) ==
    /\ main[i] = "drain"
    /\ main' = [main EXCEPT ![i] = "returned"]
    /\ UNCHANGED <<confVars, phase, loopVars, opened, copied, fateVars, counter>>

-----------------------------------------------------------------------------
(* stopComponents and the next startComponents.                            *)

Cancel ==
    /\ phase = "up"
    /\ phase' = "cancelled"
    /\ UNCHANGED <<confVars, loopVars, opened, proxyVars, fateVars, counter>>

CloseListener ==
    /\ phase = "cancelled"
    /\ phase' = "unlistened"
    /\ UNCHANGED <<confVars, loopVars, opened, proxyVars, fateVars, counter>>


\* Mutant: the netstack goes down without a wait for the loop.
NetstackDownUnwaited ==
    /\ phase = "unlistened"
    /\ phase' = "down"
    /\ aborted' = aborted \cup {i \in Conns : Tracked \in opened[i] /\ i \notin stranded}
    /\ UNCHANGED <<confVars, loopVars, opened, proxyVars, stranded, counter>>

\* componentsWg.Wait returns with the loop; ns.Close destroys the stack, which
\* aborts its endpoints.
NetstackDown ==
    /\ phase = "unlistened" /\ loop = "exit"
    /\ phase' = "down"
    /\ aborted' = aborted \cup {i \in Conns : Tracked \in opened[i] /\ i \notin stranded}
    /\ UNCHANGED <<confVars, loopVars, opened, proxyVars, stranded, counter>>

\* The core does not stop, so ns.Close hangs before it destroys the stack, whose
\* endpoints stay alive.  closeWithTimeout gives up, or waits if there is no limit.
NetstackHangs ==
    /\ phase = "unlistened" /\ loop = "exit"
    /\ phase' = IF limited THEN "down" ELSE "hung"
    /\ stranded' = stranded \cup {i \in Conns : Tracked \in opened[i] /\ i \notin aborted}
    /\ UNCHANGED <<confVars, loopVars, opened, proxyVars, aborted, counter>>

\* A close that hung comes to its end after all, for the connections of one stack.
HangEnds ==
    /\ \E conns \in SUBSET stranded : /\ stranded' = stranded \ conns
                                      /\ aborted' = aborted \cup conns
    /\ phase' = IF phase = "hung" THEN "down" ELSE phase
    /\ phase = "hung" => stranded' = {}
    /\ UNCHANGED <<confVars, loopVars, opened, proxyVars, counter>>

\* startComponents: a new context, listener and loop beside the old proxies.
Restart ==
    /\ phase = "down"
    /\ phase' = "up"
    /\ loop' = "accept" /\ delay' = 0
    /\ UNCHANGED <<confVars, accepted, opened, proxyVars, fateVars, counter>>

-----------------------------------------------------------------------------
LoopWork == AcceptFails \/ Retry \/ Dial \/ Track

Proxy(i) ==
    \/ FirstDirection(i) \/ Return(i)
    \/ \E e \in Ends : CloseEnd(i, e) \/ Decrement(i, e)

Next ==
    \/ Accept \/ LoopWork
    \/ \E i \in Conns : Proxy(i) \/ \E e \in Ends : CopyEnds(i, e)
    \/ Cancel \/ CloseListener \/ NetstackDown \/ NetstackHangs \/ HangEnds \/ Restart

Spec == Init /\ [][Next]_vars

\* A copy that reads a closed or an aborted end returns.
CopyUnblocked(i, e) ==
    /\ e \notin opened[i] \/ (i \in aborted /\ e = Tracked)
    /\ CopyEnds(i, e)

\* Goroutines run, dials end, Accept on a closed listener fails, a wait for the
\* retry ends, and a stop that began goes on: ns.Close returns, or its time is up, or
\* it hangs.  That a close which hung ends is not assumed.
Fairness ==
    /\ WF_vars(Dial \/ Track)
    /\ WF_vars(phase = "unlistened" /\ AcceptFails)
    /\ WF_vars(Retry)
    /\ \A i \in Conns : WF_vars(Proxy(i))
    /\ \A i \in Conns, e \in Ends : WF_vars(CopyUnblocked(i, e))
    /\ WF_vars(CloseListener) /\ WF_vars(NetstackDown \/ NetstackHangs)

FairSpec == Spec /\ Fairness

-----------------------------------------------------------------------------
\* The connections Track has counted and Decrement has not uncounted.
Counted ==
    {i \in Conns : main[i] \in {"copy", "end1", CountPC[Tracked]}
                        \cup (IF kind = "local" THEN {"end2"} ELSE {})}

\* Every variable keeps its type; retryDelay stays between its two constants.
TypeOK ==
    /\ kind \in {"local", "remote"}
    /\ limited \in BOOLEAN
    /\ phase \in {"up", "cancelled", "unlistened", "hung", "down"}
    /\ loop \in {"accept", "retry", "dial", "track", "exit"}
    /\ delay \in {0} \cup RetryInitial..RetryMax
    /\ accepted \in 0..MaxConns
    /\ opened \in [Conns -> SUBSET Ends]
    /\ main \in [Conns -> {"none", "copy", "end1", "count1", "end2", "count2",
                           "drain", "returned"}]
    /\ copied \in [Conns -> SUBSET Ends]
    /\ aborted \subseteq Conns
    /\ stranded \subseteq Conns
    /\ counter \in 0..MaxConns

\* The counter that lets the node sleep is zero only when the Yggdrasil end of
\* every connection is closed, but for the one the loop is still setting up:
\* TrackedConnObj.Close decrements after it has closed.
QuietMeansClosed ==
    counter = 0 =>
        \A i \in Conns : Tracked \in opened[i] => i = accepted /\ loop \in {"dial", "track"}

A == INSTANCE Activity
        WITH active <- Counted,
             finished <- {i \in Conns : main[i] # "none"} \ Counted,
             count <- counter

\* The mapping counts each of its connections once, however its two directions
\* end and whatever stop or restart falls in between (Activity).
TracksActivity == A!Spec

\* When one direction of a proxied connection has ended, both ends are closed,
\* the other direction ends and ProxyTCP returns.
ProxyEnds ==
    \A i \in Conns :
        copied[i] # {} ~> (opened[i] = {} /\ copied[i] = Ends /\ main[i] = "returned")


\* Once stopComponents has taken the netstack down, the loop is gone and every
\* Yggdrasil end that is still open belongs to a proxy that will close it, as it has
\* been aborted with its stack, or is stranded on a stack whose close hangs: the
\* reason why a stop, which waits for no proxy, still drains (tcp.go:94,
\* tcpproxy.go:25-34, func.go:113-115).
StopLeavesAborted ==
    phase = "down" =>
        /\ loop = "exit"
        /\ \A i \in Conns :
              Tracked \in opened[i] => i \in aborted \cup stranded /\ i \in Counted
        /\ aborted \cap stranded = {}

=============================================================================
