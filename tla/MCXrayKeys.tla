----------------------------- MODULE MCXrayKeys -----------------------------
(* Small instances of XrayKeys and XrayApply for TLC.  They share no state,  *)
(* so a behaviour is one of either; the other module stays as it is.         *)
EXTENDS XrayKeys, XrayApply, TLC

VARIABLE part  \* the module whose behaviour this is

KeysInit ==
  /\ part = "keys" /\ Init /\ ApplyInit
  /\ applyMode = "helper" /\ configFile = {}

ApplyPartInit == part = "apply" /\ ApplyInit /\ Init /\ clients = {}

BothInit == KeysInit \/ ApplyPartInit

BothNext ==
  \/ part = "keys" /\ Next /\ UNCHANGED <<applyVars, part>>
  \/ part = "apply" /\ ApplyNext /\ UNCHANGED <<vars, part>>

BothSpec == BothInit /\ [][BothNext]_<<vars, applyVars, part>>

\* Every variable of both keeps its type.
TypesOK == TypeOK /\ ApplyTypeOK

Symmetry == Permutations(Tasks) \cup Permutations(HelperRuns) \cup Permutations(Entries)
==============================================================================
