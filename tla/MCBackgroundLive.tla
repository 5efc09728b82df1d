-------------------------- MODULE MCBackgroundLive --------------------------
(* Small instances for TLC of what must come to an end in the background:     *)
(* WARP, announcements, key expiry and traffic refreshes.  They share no     *)
(* state, so a behaviour is one of any of them; the others stay as they are. *)
EXTENDS Warp, Announcements, KeyExpiry, TrafficStats

VARIABLE part  \* the module whose behaviour this is

vars == <<warpVars, annVars, expVars, trfVars, part>>

Init ==
    /\ WarpInit /\ AnnInit /\ ExpInit /\ TrfInit
    /\ part \in {"warp", "announcements", "expiry", "traffic"}
    /\ part # "expiry" => stuck = {} /\ expires = [k \in ExpKeys |-> 1]
    /\ part # "warp" => resets = TRUE

Next ==
    \/ part = "warp" /\ WarpNext /\ UNCHANGED <<annVars, expVars, trfVars, part>>
    \/ part = "announcements" /\ AnnNext /\ UNCHANGED <<warpVars, expVars, trfVars, part>>
    \/ part = "expiry" /\ ExpNext /\ UNCHANGED <<warpVars, annVars, trfVars, part>>
    \/ part = "traffic" /\ TrfNext /\ UNCHANGED <<warpVars, annVars, expVars, part>>

\* The fairness of the module that runs.
Spec ==
    /\ Init /\ [][Next]_vars
    /\ WF_warpVars(part = "warp" /\ Step) /\ WF_warpVars(part = "warp" /\ Monitor)
    /\ WF_warpVars(part = "warp" /\ Boot)
    /\ \A s \in Senders : WF_annVars(part = "announcements" /\ Send(s))
    /\ WF_expVars(part = "expiry" /\ Job)
    /\ \A r \in Refreshers :
        /\ WF_trfVars(part = "traffic" /\ (TakeSample(r) \/ ReadBase(r) \/ StoreTotal(r)))
        /\ SF_trfVars(part = "traffic" /\ TakeTurn(r))

\* Every run of a background job ends, and what is due is done.
JobsProgress == PassesEnd /\ ExpiredGo /\ RefreshesEnd
=============================================================================
