--------------------------- MODULE MCOperationsEnd ---------------------------
(* Small instances for TLC of DbGate and, for what must come to an end, of    *)
(* XrayKeys.  They share no state, so a behaviour is one of either.          *)
EXTENDS DbGate

CONSTANTS XrayTasks, k1, MaxCrashes

VARIABLES
  part,  \* the module whose behaviour this is
  status, clients, xLock, xPc, key, prev, degraded, phase, served, todo, cur, failed, crashes, raced, hurt

Xray == INSTANCE XrayKeys WITH
  Keys <- {k1}, HttpKeys <- {}, Foreign <- {}, Tasks <- XrayTasks, lock <- xLock, pc <- xPc

xVars == <<status, clients, xLock, xPc, key, prev, degraded, phase, served, todo, cur, failed, crashes, raced, hurt>>

EndsInit == Init /\ Xray!Init /\ part \in {"gate", "xray"}

EndsNext ==
  \/ part = "gate" /\ Next /\ UNCHANGED <<xVars, part>>
  \/ part = "xray" /\ Xray!Next /\ UNCHANGED <<vars, part>>

\* The fairness of the module that runs.
EndsSpec ==
  /\ EndsInit /\ [][EndsNext]_<<vars, xVars, part>>
  /\ WF_vars(part = "gate" /\ Wake) /\ WF_vars(part = "gate" /\ Run)
  /\ \A t \in Tasks : WF_vars(part = "gate" /\ UnitEnds(t))
  /\ WF_xVars(part = "xray" /\ Xray!StartupStep)
  /\ \A t \in XrayTasks : WF_xVars(part = "xray" /\ Xray!TaskStep(t)) /\ SF_xVars(part = "xray" /\ Xray!Acquire(t))

\* Every Xray call ends, the process comes up again, and a degraded backend
\* comes to rest (services/xray.py, services/backend_health.py).
XrayComesToRest == Xray!CallsEnd /\ Xray!DegradedComesToRest /\ (part = "xray" => Xray!ComesUp)

\* What was begun comes to an end: units of the database, and the calls and the
\* startup passes of Xray.
EverythingEnds == OperationsEnd /\ XrayComesToRest
==============================================================================
