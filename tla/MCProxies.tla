----------------------------- MODULE MCProxies -----------------------------
(* Small instances of the two proxy modules for TLC.  They share no state, so *)
(* a behaviour is one of either; the other module stays as it is.            *)
EXTENDS Socks5Access, MtprotoAccess

CONSTANT FirstOwner  \* owner of the first MTProto row (the owners are alike)

VARIABLE part  \* the module whose behaviour this is

vars == <<socksVars, mtVars, part>>

Init ==
    /\ SocksInit /\ MtInit /\ part \in {"socks5", "mtproto"} /\ mOwner[1] = FirstOwner
    /\ part # "mtproto" => mode = "static" /\ mOwner = [a \in MtIds |-> FirstOwner]

Next ==
    \/ part = "socks5" /\ SocksNext /\ UNCHANGED <<mtVars, part>>
    \/ part = "mtproto" /\ MtNext /\ UNCHANGED <<socksVars, part>>

\* The fairness of the module that runs.
Spec ==
    /\ Init /\ [][Next]_vars
    /\ WF_socksVars(part = "socks5" /\ Issue) /\ WF_socksVars(part = "socks5" /\ Removal)
    /\ WF_socksVars(part = "socks5" /\ Startup)
    /\ WF_mtVars(part = "mtproto" /\ MtCall) /\ WF_mtVars(part = "mtproto" /\ MtStartup)

\* Every variable of the two keeps its type.
TypesOK == SocksTypeOK /\ MtTypeOK

\* Between calls, the row of an access says what its user can do on the host: a
\* Linux login exists and is open, or a secret is served, exactly for the rows that
\* say so, except where a failure that the row or the log records got in the way.
RowsMatchAccesses == RowMatchesLogin /\ RowMatchesSecret

\* What no operation, apply or startup of either may do to an access or to what is
\* somebody else's.
ProxySteps == SocksSteps /\ MtSteps

\* Every operation gives its lock back and every start comes to its end, whatever
\* raises: ServiceReturns and MtReturns at once, since the other module stays up and idle.
ServicesReturn == []<>(sPhase = "up" /\ step = "idle" /\ mPhase = "up" /\ mStep = "idle")
=============================================================================
