------------------------------- MODULE Mobile -------------------------------
(***************************************************************************)
(* The gomobile binding (cmd/embedded/mobile): an application that calls   *)
(* Start, Stop, AddPeer and the getters from several threads, the node it  *)
(* owns, the peer monitor of that node, and the bridge that delivers each  *)
(* change of the peer count on a goroutine of its own.                     *)
(*                                                                         *)
(* The node is reduced to its peers and to whether its New or Close hangs. *)
(* Its key, log output, other timeouts, port mappings and the getters that *)
(* only read it are left out: no property here depends on them.            *)
(***************************************************************************)
EXTENDS Naturals, FiniteSets

CONSTANTS
    Threads,            \* threads of the application
    URIs,               \* peer URIs
    CoreStopTimeout,    \* whether SetCoreStopTimeout was called before Start
    MaxInFlight,        \* bound on the deliveries under way
    MaxGivenUp          \* bound on the cores that have been given up

ASSUME MobileAssumption ==
    /\ IsFiniteSet(Threads) /\ "free" \notin Threads
    /\ IsFiniteSet(URIs)
    /\ CoreStopTimeout \in BOOLEAN
    /\ MaxInFlight \in Nat \ {0}
    /\ MaxGivenUp \in Nat

VARIABLES
    mu,         \* the holder of Yggstack.mu, or "free"
    call,       \* the call each thread is in the middle of
    ref,        \* the node a getter has read under mu: alive or since closed
    node,       \* Yggstack.node # nil
    hangs,      \* the New or Close that mu is held across does not return
    cores,      \* the number of cores that run
    givenUp,    \* those among them whose Stop hung until CoreStopTimeout
    peers,      \* nodeCfg.Peers; empty when nodeCfg is nil
    corePeers,  \* the peers of the running core
    connected,  \* those of them whose link is up
    monitor,    \* the goroutine of the node's peer monitor
    last,       \* MonitorObj.lastConn and lastTotal
    registered, \* peerBridgeObj.cb # nil
    flight,     \* the goroutines that are to call cb.OnPeerCountChanged
    shown       \* what the application has been told last

appVars  == <<registered, flight, shown>>
coreVars == <<hangs, cores, givenUp, corePeers, connected>>
monVars  == <<monitor, last>>
vars == <<mu, call, ref, node, hangs, cores, givenUp, peers, corePeers, connected,
          monitor, last, registered, flight, shown>>

Slots   == 1..MaxInFlight
NoEvent == <<>>
Sizes   == 0..Cardinality(URIs)
Counts  == Sizes \X Sizes

\* What Poll and TriggerPeerUpdate count.
Count == <<Cardinality(connected), Cardinality(corePeers)>>

Init ==
    /\ mu = "free"
    /\ call = [t \in Threads |-> "idle"]
    /\ ref = [t \in Threads |-> "none"]
    /\ node = FALSE
    /\ hangs = FALSE
    /\ cores = 0
    /\ givenUp = 0
    /\ peers = {}
    /\ corePeers = {}
    /\ connected = {}
    /\ monitor = "none"
    /\ last = <<0, 0>>
    /\ registered \in BOOLEAN       \* the callback may be set before anything else
    /\ flight = [s \in Slots |-> NoEvent]
    /\ shown = <<0, 0>>

\* A method that takes mu.
Locks(t) == mu = "free" /\ call[t] = "idle"

-----------------------------------------------------------------------------
(* Configuration.                                                          *)

\* Mutant: the configuration is replaced without looking at node.
LoadConfigJSONAlways(t) ==
    /\ call[t] = "idle"
    /\ \E loaded \in SUBSET URIs : peers' = loaded
    /\ UNCHANGED <<mu, call, ref, node, coreVars, monVars, appVars>>

\* Replaces nodeCfg; malformed JSON, like a running node, leaves it alone.
LoadConfigJSON(t) ==
    /\ Locks(t) /\ ~node
    /\ \E loaded \in SUBSET URIs : peers' = loaded
    /\ UNCHANGED <<mu, call, ref, node, coreVars, monVars, appVars>>

SetPeerChangeCallback ==
    /\ \E isSet \in BOOLEAN : registered' = isSet
    /\ UNCHANGED <<mu, call, ref, node, peers, coreVars, monVars, flight, shown>>

\* Obj.AddPeer and Obj.RemovePeer reach the core and nothing else.
CoreAddPeer(u) ==
    /\ corePeers' = corePeers \cup {u}
    /\ UNCHANGED connected

CoreRemovePeer(u) ==
    /\ corePeers' = corePeers \ {u}
    /\ connected' = connected \ {u}

\* To the running core only, or to the configuration only.
AddPeer(t, u) ==
    /\ Locks(t)
    /\ \/ node /\ CoreAddPeer(u) /\ UNCHANGED peers
       \/ ~node /\ peers' = peers \cup {u} /\ UNCHANGED <<corePeers, connected>>
    /\ UNCHANGED <<mu, call, ref, node, hangs, cores, givenUp, monVars, appVars>>

RemovePeer(t, u) ==
    /\ Locks(t)
    /\ \/ node /\ CoreRemovePeer(u) /\ UNCHANGED peers
       \/ ~node /\ peers' = peers \ {u} /\ UNCHANGED <<corePeers, connected>>
    /\ UNCHANGED <<mu, call, ref, node, hangs, cores, givenUp, monVars, appVars>>

-----------------------------------------------------------------------------
(* Start and Stop hold mu for as long as New and Close take.               *)

\* Mutant: mu is released between the check of node and its assignment.
StartBeginUnlocked(t) ==
    /\ Locks(t) /\ ~node
    /\ call' = [call EXCEPT ![t] = "starting"]
    /\ UNCHANGED <<mu, ref, node, peers, coreVars, monVars, appVars>>

StartBegin(t) ==
    /\ Locks(t) /\ ~node
    /\ mu' = t
    /\ call' = [call EXCEPT ![t] = "starting"]
    /\ UNCHANGED <<ref, node, peers, coreVars, monVars, appVars>>

Return(t) ==
    /\ mu' = "free"
    /\ call' = [call EXCEPT ![t] = "idle"]

\* The monitor of a new node begins at zero of zero peers.
StartOk(t) ==
    /\ call[t] = "starting" /\ ~hangs
    /\ node' = TRUE
    /\ cores' = cores + 1
    /\ corePeers' = peers
    /\ connected' = {}
    /\ monitor' = "polling"
    /\ last' = <<0, 0>>
    /\ Return(t)
    /\ UNCHANGED <<ref, hangs, givenUp, peers, appVars>>

\* stopCoreWithTimeout has waited long enough for a core that goes on running.
GiveUp == CoreStopTimeout /\ givenUp < MaxGivenUp /\ givenUp' = givenUp + 1

\* The rollback in New stops a core that has been started, or gives it up.
StartFails(t) ==
    /\ call[t] = "starting" /\ ~hangs
    /\ \/ UNCHANGED <<cores, givenUp>>
       \/ GiveUp /\ cores' = cores + 1
    /\ Return(t)
    /\ UNCHANGED <<ref, node, peers, hangs, corePeers, connected, monVars, appVars>>

\* Close cancels the node's context, then waits for the monitor ...
StopBegin(t) ==
    /\ Locks(t) /\ node
    /\ mu' = t
    /\ call' = [call EXCEPT ![t] = "stopping"]
    /\ UNCHANGED <<ref, node, peers, coreVars, monVars, appVars>>

Cancelled == \E t \in Threads : call[t] = "stopping"

\* ... and stops the core, or gives it up.  Either way Obj.Core is nil then for
\* whoever holds the node.
StopEnd(t) ==
    /\ call[t] = "stopping" /\ monitor = "none" /\ ~hangs
    /\ node' = FALSE
    /\ \/ cores' = cores - 1 /\ UNCHANGED givenUp
       \/ GiveUp /\ UNCHANGED cores
    /\ corePeers' = {}
    /\ connected' = {}
    /\ ref' = [r \in Threads |-> IF ref[r] = "alive" THEN "closed" ELSE ref[r]]
    /\ Return(t)
    /\ UNCHANGED <<peers, hangs, monVars, appVars>>

\* core.Stop does not return, and there is no CoreStopTimeout; or componentsWg.Wait
\* does not, for a mapping whose Accept nobody interrupts.
NodeHangs(t) ==
    /\ call[t] \in {"starting", "stopping"} /\ ~hangs
    /\ hangs' = TRUE
    /\ UNCHANGED <<mu, call, ref, node, cores, givenUp, peers, corePeers, connected,
                   monVars, appVars>>

\* The core stops after all, or the Accept returns with a connection.
HangEnds ==
    /\ hangs
    /\ hangs' = FALSE
    /\ UNCHANGED <<mu, call, ref, node, cores, givenUp, peers, corePeers, connected,
                   monVars, appVars>>

\* So may a core that has been given up.
GivenUpStops ==
    /\ givenUp > 0
    /\ givenUp' = givenUp - 1
    /\ cores' = cores - 1
    /\ UNCHANGED <<mu, call, ref, node, hangs, peers, corePeers, connected,
                   monVars, appVars>>

-----------------------------------------------------------------------------
(* A getter reads node under mu and uses it after it has released mu.      *)

FetchNode(t) ==
    /\ Locks(t) /\ node
    /\ ref' = [ref EXCEPT ![t] = "alive"]
    /\ call' = [call EXCEPT ![t] = "trigger"]
    /\ UNCHANGED <<mu, node, peers, coreVars, monVars, appVars>>

\* peerBridgeObj.OnPeerCountChanged: one more goroutine, if there is a callback.
OnPeerCountChanged(count) ==
    IF registered
    THEN \E s \in Slots : flight[s] = NoEvent /\ flight' = [flight EXCEPT ![s] = count]
    ELSE UNCHANGED flight

\* A node that has since been closed has no peers.
TriggerPeerUpdate(t) ==
    /\ call[t] = "trigger"
    /\ call' = [call EXCEPT ![t] = "idle"]
    /\ ref' = [ref EXCEPT ![t] = "none"]
    /\ OnPeerCountChanged(IF ref[t] = "alive" THEN Count ELSE <<0, 0>>)
    /\ UNCHANGED <<mu, node, peers, coreVars, monVars, registered, shown>>

-----------------------------------------------------------------------------
(* The peer monitor, the deliveries and the links.                         *)

\* Mutant: a change of only one of the two numbers goes unnoticed.
ChangedBoth == Count[1] # last[1] /\ Count[2] # last[2]

Changed == Count # last


\* Poll; it returns early when its first look at the context finds it cancelled.
Poll ==
    /\ monitor = "polling"
    /\ monitor' = "select"
    /\ \/ Cancelled /\ UNCHANGED <<last, flight>>
       \/ /\ last' = IF Changed THEN Count ELSE last
          /\ IF Changed THEN OnPeerCountChanged(Count) ELSE UNCHANGED flight
    /\ UNCHANGED <<mu, call, ref, node, peers, coreVars, registered, shown>>

\* The select of Run may take the tick although the context is cancelled too.
MonitorTick ==
    /\ monitor = "select"
    /\ monitor' = "polling"
    /\ UNCHANGED <<mu, call, ref, node, peers, coreVars, last, appVars>>

MonitorEnds ==
    /\ monitor = "select" /\ Cancelled
    /\ monitor' = "none"
    /\ UNCHANGED <<mu, call, ref, node, peers, coreVars, last, appVars>>

\* The goroutines of the bridge run in any order.
Deliver(s) ==
    /\ flight[s] # NoEvent
    /\ shown' = flight[s]
    /\ flight' = [flight EXCEPT ![s] = NoEvent]
    /\ UNCHANGED <<mu, call, ref, node, peers, coreVars, monVars, registered>>

LinkUp(u) ==
    /\ u \in corePeers \ connected
    /\ connected' = connected \cup {u}
    /\ UNCHANGED <<mu, call, ref, node, peers, hangs, cores, givenUp, corePeers,
                   monVars, appVars>>

LinkDown(u) ==
    /\ u \in connected
    /\ connected' = connected \ {u}
    /\ UNCHANGED <<mu, call, ref, node, peers, hangs, cores, givenUp, corePeers,
                   monVars, appVars>>

-----------------------------------------------------------------------------
Configure(t) ==
    \/ LoadConfigJSON(t)
    \/ \E u \in URIs : AddPeer(t, u) \/ RemovePeer(t, u)

Returns(t) ==
    \/ StartOk(t) \/ StartFails(t) \/ StopEnd(t)
    \/ TriggerPeerUpdate(t)

Next ==
    \/ \E t \in Threads :
           \/ Configure(t)
           \/ StartBegin(t) \/ StopBegin(t) \/ FetchNode(t)
           \/ Returns(t)
    \/ \E t \in Threads : NodeHangs(t)
    \/ HangEnds \/ GivenUpStops
    \/ SetPeerChangeCallback
    \/ Poll \/ MonitorTick \/ MonitorEnds
    \/ \E s \in Slots : Deliver(s)
    \/ \E u \in URIs : LinkUp(u) \/ LinkDown(u)

Spec == Init /\ [][Next]_vars

\* Goroutines run, and select picks at random among its ready cases.  Nothing
\* makes a New or Close that hangs go on.
Fairness ==
    /\ \A t \in Threads : SF_vars(Returns(t))
    /\ SF_vars(Poll) /\ WF_vars(MonitorTick) /\ SF_vars(MonitorEnds)
    /\ \A s \in Slots : WF_vars(Deliver(s))

FairSpec == Spec /\ Fairness

-----------------------------------------------------------------------------
(* Properties.                                                             *)

\* Every variable keeps its type; a link that is up belongs to a peer of the core.
TypeOK ==
    /\ mu \in Threads \cup {"free"}
    /\ call \in [Threads -> {"idle", "starting", "stopping", "trigger"}]
    /\ ref \in [Threads -> {"none", "alive", "closed"}]
    /\ node \in BOOLEAN
    /\ hangs \in BOOLEAN
    /\ givenUp \in 0..MaxGivenUp
    /\ cores \in 0..(MaxGivenUp + 1)
    /\ peers \subseteq URIs
    /\ connected \subseteq corePeers /\ corePeers \subseteq URIs
    /\ monitor \in {"none", "polling", "select"}
    /\ last \in Counts
    /\ registered \in BOOLEAN
    /\ flight \in [Slots -> Counts \cup {NoEvent}]
    /\ shown \in Counts

\* However Start and Stop of several threads interleave, there is never more than
\* one node, and none that the binding has lost: a core runs exactly while the
\* field points to its node (Start and Stop hold mu across New and Close), except
\* for the cores that stopCoreWithTimeout has given up.
NodeOwned == cores = (IF node THEN 1 ELSE 0) + givenUp

\* From the moment Start has read it until Stop has returned the configuration
\* does not change under the node (LoadConfigJSON, AddPeer and RemovePeer).
ConfigFrozen ==
    [][node \/ (\E t \in Threads : call[t] = "starting") => peers' = peers]_vars


\* A change of the peer count that lasts is not only noticed by the monitor but
\* told to the application, through a goroutine of its own (Poll, the bridge's
\* OnPeerCountChanged), unless a Stop begins or the callback is taken back.
\* An older report may still arrive after it, and a count that equals what the
\* monitor saw last, as on a restart without peers, is not reported.
ChangeReported ==
    \A c \in Counts :
        (node /\ registered /\ Count = c /\ last # c)
            ~> (shown = c \/ Count # c \/ ~registered \/ Cancelled)

=============================================================================
