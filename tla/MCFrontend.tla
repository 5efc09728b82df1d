----------------------------- MODULE MCFrontend -----------------------------
(* Small instances for TLC of the upgrade of the database, of the dialogs of  *)
(* a chat and of the trial requests.  They share no state, so a behaviour is *)
(* one of any of them; the others stay as they are.                          *)
EXTENDS Migrations, ChatDialogs, TrialAccess, TLC

VARIABLE part  \* the module whose behaviour this is

FrontendInit ==
    /\ MigInit /\ DlgInit /\ Init /\ part \in {"upgrade", "dialogs", "trial"}
    /\ part # "upgrade" => disk.version = 0 /\ disk.flaws = {}

FrontendNext ==
    \/ part = "upgrade" /\ MigNext /\ UNCHANGED <<dlgVars, vars, part>>
    \/ part = "dialogs" /\ DlgNext /\ UNCHANGED <<migVars, vars, part>>
    \/ part = "trial" /\ Next /\ UNCHANGED <<migVars, dlgVars, part>>

FrontendSpec == FrontendInit /\ [][FrontendNext]_<<migVars, dlgVars, vars, part>>

TrialSymmetry == Permutations(Admins) \cup Permutations(Requests)

\* Every variable of the three keeps its type.
TypesOK == MigTypeOK /\ DlgTypeOK /\ TypeOK
=============================================================================
