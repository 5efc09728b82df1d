--------------------------- MODULE MCBackground ---------------------------
(* Small instances for TLC of the background jobs, of WARP and of the switch  *)
(* of a protocol.  They share no state, so a behaviour is one of any of them; *)
(* the others stay as they are.                                              *)
EXTENDS Warp, Announcements, KeyExpiry, AnomalyDetection, TrafficStats, ProtocolSwitch

VARIABLE part  \* the module whose behaviour this is

vars == <<warpVars, annVars, expVars, anoVars, trfVars, swtVars, part>>

Init ==
    /\ WarpInit /\ AnnInit /\ ExpInit /\ AnoInit /\ TrfInit /\ SwtInit
    /\ part \in {"warp", "announcements", "expiry", "anomaly", "traffic", "switch"}
    /\ part # "expiry" => stuck = {} /\ expires = [k \in ExpKeys |-> 1]
    /\ autoRevoke = (part = "anomaly")  \* an alert that may revoke may also leave it
    /\ part # "anomaly" => activeKeys = {"awg"}
    /\ part # "warp" => resets = TRUE

\* Of two sweeps and two presses or requests, three are under way at once.
Busy == Cardinality({a \in SwitchAdmins : sweep[a] # NoSweep}) + Cardinality({c \in Calls : call[c] # NoCall})

Next ==
    \/ part = "warp" /\ WarpNext /\ UNCHANGED <<annVars, expVars, anoVars, trfVars, swtVars, part>>
    \/ part = "announcements" /\ AnnNext /\ UNCHANGED <<warpVars, expVars, anoVars, trfVars, swtVars, part>>
    \/ part = "expiry" /\ ExpNext /\ UNCHANGED <<warpVars, annVars, anoVars, trfVars, swtVars, part>>
    \/ part = "anomaly" /\ AnoNext /\ UNCHANGED <<warpVars, annVars, expVars, trfVars, swtVars, part>>
    \/ part = "traffic" /\ TrfNext /\ UNCHANGED <<warpVars, annVars, expVars, anoVars, swtVars, part>>
    \/ part = "switch" /\ SwtNext /\ Busy' <= 3 /\ UNCHANGED <<warpVars, annVars, expVars, anoVars, trfVars, part>>

Spec == Init /\ [][Next]_vars

\* Every variable of the six keeps its type.
TypesOK == WarpTypeOK /\ AnnTypeOK /\ ExpTypeOK /\ AnoTypeOK /\ TrfTypeOK /\ SwtTypeOK
=============================================================================
