------------------------------- MODULE Program -------------------------------
(***************************************************************************)
(* The command line program with a UNIX socket for SOCKS: main, StartSocks *)
(* with the probe of a socket file that is already there, and Close, which *)
(* main and the context's watcher both call after a signal.  Several       *)
(* processes share one path in the file system, start, stop and crash at   *)
(* any time, and each of their system calls is a step of its own.  They    *)
(* may all write to the directory of the path.                             *)
(*                                                                         *)
(* External: net.Listen of a UNIX address binds, which makes the file, and *)
(* then listens; closing its listener unlinks the path by name and then    *)
(* closes the socket.                                                      *)
(***************************************************************************)
EXTENDS Naturals

CONSTANTS
    Procs,      \* processes started with the same -socks path
    None,       \* no file at the path, or no process
    Stale,      \* a socket file left by an earlier crash
    Symlink     \* a symbolic link to something that is not a socket

ASSUME ProgramAssumption ==
    /\ {None, Stale, Symlink} \cap Procs = {}
    /\ None # Stale /\ None # Symlink /\ Stale # Symlink

VARIABLES
    path,       \* what is at the path: None, Stale, Symlink or the process that bound it
    pc,         \* where each process is in main and New
    sock,       \* its socket: "none", "bound", "listening"
    sig,        \* its context is cancelled by a signal
    closing,    \* how far its closeOnce is
    elder,      \* the process that listened at the path when this one found it in use
    misled,     \* its dial failed although somebody listened
    crashed     \* whether a process was ever killed

vars == <<path, pc, sock, sig, closing, elder, misled, crashed>>

Init ==
    /\ path \in {None, Stale, Symlink}
    /\ pc = [p \in Procs |-> "off"]
    /\ sock = [p \in Procs |-> "none"]
    /\ sig = [p \in Procs |-> FALSE]
    /\ closing = [p \in Procs |-> "no"]
    /\ elder = [p \in Procs |-> None]
    /\ misled = [p \in Procs |-> FALSE]
    /\ crashed = FALSE

Goto(p, l) == pc' = [pc EXCEPT ![p] = l]

-----------------------------------------------------------------------------
(* main.                                                                   *)

Start(p) ==
    /\ pc[p] \in {"off", "failed"}
    /\ Goto(p, "dispatch")
    /\ sig' = [sig EXCEPT ![p] = FALSE]
    /\ closing' = [closing EXCEPT ![p] = "no"]
    /\ UNCHANGED <<path, sock, elder, misled, crashed>>

\* The flags choose between printing something and running the node, which ends
\* early if its configuration cannot be read or its core cannot start.
Dispatch(p) ==
    /\ pc[p] = "dispatch"
    /\ Goto(p, "off") \/ Goto(p, "failed") \/ Goto(p, "listen")
    /\ UNCHANGED <<path, sock, sig, closing, elder, misled, crashed>>

\* signal.NotifyContext cancels ctx.  New does not look at it, and later signals
\* change nothing.
Signal(p) ==
    /\ pc[p] \notin {"off", "failed"} /\ ~sig[p]
    /\ sig' = [sig EXCEPT ![p] = TRUE]
    /\ UNCHANGED <<path, pc, sock, closing, elder, misled, crashed>>

-----------------------------------------------------------------------------
(* StartSocks with a UNIX socket.                                          *)

Bind(p) ==
    /\ path' = p
    /\ sock' = [sock EXCEPT ![p] = "bound"]
    /\ Goto(p, "bound")

\* The first net.Listen, up to its bind.
Listen(p) ==
    /\ pc[p] = "listen"
    /\ IF path = None
       THEN Bind(p) /\ UNCHANGED elder
       ELSE /\ Goto(p, "probe")
            /\ elder' = [elder EXCEPT ![p] =
                  IF path \in Procs /\ sock[path] = "listening" THEN path ELSE None]
            /\ UNCHANGED <<path, sock>>
    /\ UNCHANGED <<sig, closing, misled, crashed>>

\* Mutant: an address in use is always taken for a leftover.
ProbeSkipped(p) ==
    /\ pc[p] = "probe"
    /\ Goto(p, "lstat")
    /\ misled' = [misled EXCEPT ![p] = FALSE]
    /\ UNCHANGED <<path, sock, sig, closing, elder, crashed>>

\* net.Dial: another instance answers, or there is nobody behind the file.  Any
\* error of the dial is taken for the latter: a full backlog, a process that is
\* out of descriptors or a refused permission as well.
Probe(p) ==
    LET answers == path \in Procs /\ sock[path] = "listening"
    IN  /\ pc[p] = "probe"
        /\ \/ answers /\ Goto(p, "failed") /\ UNCHANGED misled
           \/ answers /\ Goto(p, "lstat") /\ misled' = [misled EXCEPT ![p] = TRUE]
           \/ ~answers /\ Goto(p, "lstat") /\ misled' = [misled EXCEPT ![p] = FALSE]
        /\ UNCHANGED <<path, sock, sig, closing, elder, crashed>>

\* removeUnixSocket refuses a symbolic link.
Lstat(p) ==
    /\ pc[p] = "lstat"
    /\ Goto(p, IF path \in {None, Symlink} THEN "failed" ELSE "remove")
    /\ UNCHANGED <<path, sock, sig, closing, elder, misled, crashed>>

\* os.Remove takes the path, whatever is there by now.
Remove(p) ==
    /\ pc[p] = "remove"
    /\ IF path = None
       THEN Goto(p, "failed") /\ UNCHANGED path
       ELSE path' = None /\ Goto(p, "relisten")
    /\ UNCHANGED <<sock, sig, closing, elder, misled, crashed>>

\* Mutant: after the removal the first error is returned all the same.
RelistenForgotten(p) ==
    /\ pc[p] = "relisten"
    /\ Goto(p, "failed")
    /\ UNCHANGED <<path, sock, sig, closing, elder, misled, crashed>>

\* The second net.Listen, up to its bind.
Relisten(p) ==
    /\ pc[p] = "relisten"
    /\ IF path = None
       THEN Bind(p)
       ELSE Goto(p, "failed") /\ UNCHANGED <<path, sock>>
    /\ UNCHANGED <<sig, closing, elder, misled, crashed>>

\* The rest of net.Listen and of New: the socket listens, the server serves it.
Serve(p) ==
    /\ pc[p] = "bound"
    /\ sock' = [sock EXCEPT ![p] = "listening"]
    /\ Goto(p, "up")
    /\ UNCHANGED <<path, sig, closing, elder, misled, crashed>>

-----------------------------------------------------------------------------
(* Close, called by main and by the watcher of ctx.  closeOnce runs it     *)
(* once, in either of them, and the other waits.                           *)

Unlink(p) ==
    /\ pc[p] = "up" /\ sig[p] /\ closing[p] = "no"
    /\ path' = None
    /\ closing' = [closing EXCEPT ![p] = "unlinked"]
    /\ UNCHANGED <<pc, sock, sig, elder, misled, crashed>>

CloseSocket(p) ==
    /\ closing[p] = "unlinked"
    /\ sock' = [sock EXCEPT ![p] = "none"]
    /\ closing' = [closing EXCEPT ![p] = "closed"]
    /\ UNCHANGED <<path, pc, sig, elder, misled, crashed>>

\* stopComponents removes the path again, whatever is there by now.
RemoveAgain(p) ==
    /\ closing[p] = "closed"
    /\ path' = None
    /\ closing' = [closing EXCEPT ![p] = "done"]
    /\ UNCHANGED <<pc, sock, sig, elder, misled, crashed>>

\* The process is gone, and with it its socket.
Gone(p) ==
    /\ Goto(p, "off")
    /\ sock' = [sock EXCEPT ![p] = "none"]
    /\ closing' = [closing EXCEPT ![p] = "no"]
    /\ elder' = [q \in Procs |-> IF q = p \/ elder[q] = p THEN None ELSE elder[q]]

\* Mutant: a flag instead of closeOnce; main finds it set by the watcher, does not
\* wait and returns.
ReturnEarly(p) ==
    /\ pc[p] = "up" /\ sig[p]
    /\ Gone(p)
    /\ UNCHANGED <<path, sig, misled, crashed>>

\* main returns from Close, which ends the process.
Return(p) ==
    /\ pc[p] = "up" /\ closing[p] = "done"
    /\ Gone(p)
    /\ UNCHANGED <<path, sig, misled, crashed>>

\* The process is killed.
Crash(p) ==
    /\ pc[p] \notin {"off", "failed"}
    /\ Gone(p)
    /\ crashed' = TRUE
    /\ UNCHANGED <<path, sig, misled>>

-----------------------------------------------------------------------------
Run(p) ==
    \/ Dispatch(p)
    \/ Listen(p) \/ Probe(p) \/ Lstat(p) \/ Remove(p) \/ Relisten(p) \/ Serve(p)
    \/ Unlink(p) \/ CloseSocket(p) \/ RemoveAgain(p) \/ Return(p)

Next == \E p \in Procs : Start(p) \/ Signal(p) \/ Run(p) \/ Crash(p)

\* A started process runs until it waits for its signal.
Spec == Init /\ [][Next]_vars /\ \A p \in Procs : WF_vars(Run(p))

-----------------------------------------------------------------------------
\* Only a crash leaves a socket file behind: a process that is stopped by a
\* signal is not gone before its Close is over, whether main or the watcher
\* runs it (main.go, New, stopComponents).
StaleOnlyAfterCrash == path \in Procs /\ ~crashed => sock[path] # "none"

\* A start never removes the file of an instance that listened at the path when
\* it found the path in use and has listened ever since: the probe comes between
\* (StartSocks).  The one exception is a probe that failed for another reason than
\* that nobody listens, which the code does not tell apart.  An instance that came
\* later than the probe may lose its file, too.
ElderKeepsPath ==
    [][\A p \in Procs :
            Remove(p) /\ path \in Procs /\ path = elder[p] /\ ~misled[p]
                => sock[path] # "listening"]_vars

\* A process that starts alone serves its socket in the end, over a leftover
\* file as well, unless it was to print something or is killed.
StartsOverLeftover ==
    \A p \in Procs :
        (pc[p] = "listen" /\ path # Symlink)
            ~> \/ sock[p] = "listening" \/ pc[p] = "off"
               \/ \E q \in Procs \ {p} : pc[q] \notin {"off", "failed"}

=============================================================================
