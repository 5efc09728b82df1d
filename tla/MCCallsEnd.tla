----------------------------- MODULE MCCallsEnd -----------------------------
(* Small instances for TLC of Lifecycle and, for what must come to an end, of *)
(* UserAccess.  They share no state, so a behaviour is one of either.        *)
EXTENDS UserAccess, Lifecycle

VARIABLE part  \* the module whose behaviour this is

BothInit == Init /\ LifeInit /\ part \in {"user", "life"}

BothNext ==
    \/ part = "user" /\ Next /\ UNCHANGED <<lifeVars, part>>
    \/ part = "life" /\ LifeNext /\ UNCHANGED <<vars, part>>

\* The fairness of the module that runs.
BothSpec ==
    /\ BothInit /\ [][BothNext]_<<vars, lifeVars, part>>
    /\ \A t \in Tasks :
        /\ WF_vars(part = "user" /\ (BlockStep(t) \/ CreateStep(t)))
        /\ SF_vars(part = "user" /\ Enter(t))
    /\ \A p \in Processes : WF_lifeVars(part = "life" /\ ProcessStep(p))

\* Blocks and creations give the user lock back; a start comes up or is given up; a
\* stop gives the lock of the instance back.
CallsAndProcessesEnd == CallsEnd /\ StartsAndStopsEnd
=============================================================================
