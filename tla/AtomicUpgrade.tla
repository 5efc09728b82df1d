--------------------------- MODULE AtomicUpgrade ---------------------------
(* What bootstrap (db/database.py) promises of an upgrade, whatever its       *)
(* statements are: the database moves from a version to a later one in one   *)
(* step, together with exactly the repairs of the versions it passes; what a *)
(* version refuses stops it before that version; and only a database of the  *)
(* present version, with nothing left to repair or refuse, is served from.   *)
EXTENDS Naturals

CONSTANTS
    Current,     \* CURRENT_SCHEMA_VERSION
    Flaws,       \* what can be wrong with the rows of an old database
    RepairedBy,  \* version -> the flaws its migration repairs
    RefusedBy    \* version -> the flaws its migration refuses

VARIABLES
    level,  \* the version stored in the database
    flaws,  \* what is wrong with its rows
    phase   \* of the program: down, starting or serving

upgradeVars == <<level, flaws, phase>>

Passed(to) == (level + 1)..to

UpgradeInit == level \in Nat /\ flaws \in SUBSET Flaws /\ phase = "down"

Begin == phase = "down" /\ phase' = "starting" /\ UNCHANGED <<level, flaws>>

Advance ==
    \E to \in (level + 1)..Current :
        /\ phase = "starting" /\ level' = to /\ UNCHANGED phase
        /\ \A v \in Passed(to) : flaws \cap RefusedBy[v] = {}
        /\ flaws' = flaws \ UNION {RepairedBy[v] : v \in Passed(to)}

Serve == phase = "starting" /\ level = Current /\ flaws = {} /\ phase' = "serving" /\ UNCHANGED <<level, flaws>>

\* It is stopped, gives up or dies.
Stop == phase # "down" /\ phase' = "down" /\ UNCHANGED <<level, flaws>>

\* The operator puts a row right by hand.
Correct == \E f \in flaws : phase = "down" /\ flaws' = flaws \ {f} /\ UNCHANGED <<level, phase>>

UpgradeNext == Begin \/ Advance \/ Serve \/ Stop \/ Correct

UpgradeSpec == UpgradeInit /\ [][UpgradeNext]_upgradeVars
=============================================================================
