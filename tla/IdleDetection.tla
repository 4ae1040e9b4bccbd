---------------------------- MODULE IdleDetection ----------------------------
(***************************************************************************)
(* What Run's sampling of the connection counter amounts to.  Run looks at *)
(* the counter only when its ticker fires, every CheckInterval; this       *)
(* module adds history variables that follow the connections at every      *)
(* second, and compares the decision to sleep with them.                   *)
(***************************************************************************)
EXTENDS LowPower

VARIABLES
    steady,      \* seconds for which connections have been tracked throughout
    sinceSteady, \* seconds since steady last exceeded CheckInterval
    quiet        \* seconds since a connection was last tracked

historyVars == <<steady, sinceSteady, quiet>>

IdleInit ==
    /\ Init
    /\ steady = 0
    /\ sinceSteady = 0
    /\ quiet = 0

\* The history variables after a step that lasts d seconds, saturated above what
\* they are compared with.  A node that reaches full power starts its idle time
\* afresh, as touchActivity does.
History(d) ==
    LET woken     == state # "FullPower" /\ state' = "FullPower"
        Later(n)  == IF n + d < IdleTimeout THEN n + d ELSE IdleTimeout
        Longer(n) == IF n + d <= CheckInterval THEN n + d ELSE CheckInterval + 1
    IN  /\ steady' = IF active' = 0 THEN 0 ELSE Longer(steady)
        /\ sinceSteady' = IF steady' > CheckInterval \/ woken THEN 0
                          ELSE Later(sinceSteady)
        /\ quiet' = IF active' > 0 \/ woken THEN 0
                    ELSE IF quiet + d < IdleTimeout + CheckInterval THEN quiet + d
                    ELSE IdleTimeout + CheckInterval

IdleNext == (Untimed /\ History(0)) \/ (Pass /\ History(1))

IdleSpec == IdleInit /\ [][IdleNext]_<<vars, historyVars>>

GoesToSleep == state = "FullPower" /\ state' = "Stopping"

-----------------------------------------------------------------------------
\* A connection that lasts longer than the check interval is noticed: the node
\* does not go to sleep before IdleTimeout, less one check interval, has passed
\* since it ended (Run, the tick case of manager.go).  Nothing of the kind holds for
\* connections that come and go between two ticks.
SteadyTrafficKeepsAwake ==
    [][GoesToSleep => sinceSteady >= IdleTimeout - CheckInterval]_<<vars, historyVars>>

\* A node without connections does not stay up: Run decides to sleep at the first
\* tick at which IdleTimeout has passed, so less than one check interval later, and
\* also when IdleTimeout falls on a tick (manager.go:95, idleSeconds() >= IdleTimeout).
SleepsInTime ==
    state = "FullPower" /\ run = "select" => quiet < IdleTimeout + CheckInterval

=============================================================================
