----------------------------- MODULE MCAwgKeys -----------------------------
(* Small instances of AwgKeys and AwgConfigFile for TLC.  They share no       *)
(* state, so a behaviour is one of either; the other module stays as it is.  *)
EXTENDS AwgKeys, AwgConfigFile, TLC

VARIABLE part  \* the module whose behaviour this is

AwgInit ==
  /\ Init /\ FileInit /\ part \in {"keys", "file"}
  /\ part = "file" => config = {} /\ runtime = {} /\ mode = "helper"
  /\ part = "keys" => PeersOf(file) = {}

AwgNext ==
  \/ part = "keys" /\ Next /\ UNCHANGED <<fileVars, part>>
  \/ part = "file" /\ FileNext /\ UNCHANGED <<vars, part>>

AwgSpec == AwgInit /\ [][AwgNext]_<<vars, fileVars, part>>

Symmetry == Permutations(Keys) \cup Permutations(Ips)

\* Every variable of both keeps its type.
TypesOK == TypeOK /\ FileTypeOK
============================================================================
