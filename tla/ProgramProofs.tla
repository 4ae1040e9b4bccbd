--------------------------- MODULE ProgramProofs ---------------------------
(***************************************************************************)
(* Proofs about Program for any number of processes that share the path:   *)
(* only a crash leaves a socket file behind, and a start whose probe told  *)
(* the truth never removes the file of the instance it found listening.    *)
(***************************************************************************)
EXTENDS Program, TLAPS

PCs == {"off", "failed", "dispatch", "listen", "probe", "lstat", "remove",
        "relisten", "bound", "up"}

Shape ==
    /\ path \in Procs \cup {None, Stale, Symlink}
    /\ pc \in [Procs -> PCs]
    /\ sock \in [Procs -> {"none", "bound", "listening"}]
    /\ sig \in [Procs -> BOOLEAN]
    /\ closing \in [Procs -> {"no", "unlinked", "closed", "done"}]
    /\ elder \in [Procs -> Procs \cup {None}]
    /\ misled \in [Procs -> BOOLEAN]
    /\ crashed \in BOOLEAN

\* A process has its socket from the bind to the close, and no other time; once
\* it has begun to close, the path is not its own any more.
Sockets ==
    \A p \in Procs :
        /\ pc[p] = "bound" <=> sock[p] = "bound"
        /\ sock[p] = "listening" <=> pc[p] = "up" /\ closing[p] \in {"no", "unlinked"}
        /\ closing[p] # "no" => pc[p] = "up" /\ path # p

\* An elder is up for as long as it is remembered, so that a process that has
\* probed the path and was not misled finds a path that is not the elder's, or an elder
\* that has stopped listening, until it removes the path.
Elders ==
    \A p \in Procs : elder[p] \in Procs =>
        /\ pc[elder[p]] = "up"
        /\ pc[p] \in {"lstat", "remove"} /\ path = elder[p] /\ ~misled[p]
            => sock[elder[p]] # "listening"

Inv == Shape /\ Sockets /\ Elders /\ StaleOnlyAfterCrash

-----------------------------------------------------------------------------
\* The initial states satisfy the inductive invariant.
LEMMA InitInv == Init => Inv
<1> SUFFICES ASSUME Init PROVE Inv
  OBVIOUS
<1> USE ProgramAssumption DEF Init
<1>1. Shape
  BY DEF Shape, PCs
<1>2. Sockets /\ StaleOnlyAfterCrash
  BY DEF Sockets, StaleOnlyAfterCrash
<1>3. Elders
  BY DEF Elders
<1> QED
  BY <1>1, <1>2, <1>3 DEF Inv

\* The invariant is inductive.
LEMMA InvStep == Inv /\ [Next]_vars => Inv'
<1> SUFFICES ASSUME Inv, [Next]_vars PROVE Inv'
  OBVIOUS
<1> USE ProgramAssumption
    DEF Inv, Shape, PCs, Sockets, Elders, StaleOnlyAfterCrash, Goto
<1>1. ASSUME NEW p \in Procs, Start(p) PROVE Inv'
  BY <1>1 DEF Start
<1>2. ASSUME NEW p \in Procs, Signal(p) PROVE Inv'
  BY <1>2 DEF Signal
<1>3. ASSUME NEW p \in Procs, Dispatch(p) PROVE Inv'
  BY <1>3 DEF Dispatch
<1>4. ASSUME NEW p \in Procs, Listen(p) PROVE Inv'
  <2>1. CASE path = None
    BY <1>4, <2>1 DEF Listen, Bind
  <2>2. CASE path # None
    BY <1>4, <2>2 DEF Listen
  <2> QED
    BY <2>1, <2>2
<1>5. ASSUME NEW p \in Procs, Probe(p) PROVE Inv'
  <2>1. Shape'
    BY <1>5 DEF Probe
  <2>2. Sockets' /\ StaleOnlyAfterCrash'
    BY <1>5 DEF Probe
  <2>3. Elders'
    BY <1>5 DEF Probe
  <2> QED
    BY <2>1, <2>2, <2>3
<1>6. ASSUME NEW p \in Procs, Lstat(p) PROVE Inv'
  BY <1>6 DEF Lstat
<1>7. ASSUME NEW p \in Procs, Remove(p) PROVE Inv'
  BY <1>7 DEF Remove
<1>8. ASSUME NEW p \in Procs, Relisten(p) PROVE Inv'
  <2>1. CASE path = None
    BY <1>8, <2>1 DEF Relisten, Bind
  <2>2. CASE path # None
    BY <1>8, <2>2 DEF Relisten
  <2> QED
    BY <2>1, <2>2
<1>9. ASSUME NEW p \in Procs, Serve(p) PROVE Inv'
  BY <1>9 DEF Serve
<1>10. ASSUME NEW p \in Procs, Unlink(p) PROVE Inv'
  BY <1>10 DEF Unlink
<1>11. ASSUME NEW p \in Procs, CloseSocket(p) PROVE Inv'
  BY <1>11 DEF CloseSocket
<1>12. ASSUME NEW p \in Procs, RemoveAgain(p) PROVE Inv'
  BY <1>12 DEF RemoveAgain
<1>13. ASSUME NEW p \in Procs, Return(p) PROVE Inv'
  BY <1>13 DEF Return, Gone
<1>14. ASSUME NEW p \in Procs, Crash(p) PROVE Inv'
  BY <1>14 DEF Crash, Gone
<1>15. ASSUME UNCHANGED vars PROVE Inv'
  BY <1>15 DEF vars
<1> QED
  BY <1>1, <1>2, <1>3, <1>4, <1>5, <1>6, <1>7, <1>8, <1>9, <1>10, <1>11, <1>12,
     <1>13, <1>14, <1>15
  DEF Next, Run

-----------------------------------------------------------------------------
\* Whatever the processes do, and in whichever of main and the watcher Close
\* runs, a file without a socket behind it is the work of a crash.
THEOREM NoLeftover == Spec => []StaleOnlyAfterCrash
<1>1. Inv => StaleOnlyAfterCrash
  BY DEF Inv
<1> QED
  BY <1>1, InitInv, InvStep, PTL DEF Spec

\* removeUnixSocket never takes the file of the instance that StartSocks found
\* listening, however many processes start, stop and crash meanwhile, unless the
\* dial of the probe failed although that instance listened.
THEOREM ElderSafe == Spec => ElderKeepsPath
<1>1. Spec => []Inv
  BY InitInv, InvStep, PTL DEF Spec
<1>2. Inv => \A p \in Procs :
                Remove(p) /\ path \in Procs /\ path = elder[p] /\ ~misled[p]
                    => sock[path] # "listening"
  BY DEF Inv, Elders, Remove
<1> QED
  BY <1>1, <1>2, PTL DEF ElderKeepsPath

=============================================================================
