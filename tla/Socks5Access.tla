---------------------------- MODULE Socks5Access ----------------------------
(* SOCKS5 accesses of one user: services/socks5.py over adapters/            *)
(* dante_users.py.  A row of proxy_accesses says who has a login; the login   *)
(* itself is a Linux user.  Every change of either runs under the service     *)
(* lock, so one control point (step) stands for the call that holds it; an    *)
(* issue takes the user lock first and then waits for the service lock.  The  *)
(* commands on Linux users run as the bot's children or, with the root helper *)
(* (deploy/helpers/vpnbot-socks5-user), beside it: one that exceeds its       *)
(* timeout cannot be killed and may be carried out later.                     *)
EXTENDS ProxyStatus

CONSTANTS MaxSocks,        \* rows the table may get: ids 1 .. MaxSocks
          MaxSocksCrashes, \* crashes of the process
          MaxLateSocks     \* bound on late commands, outstanding and carried out

ASSUME SocksBounds == MaxSocks \in Nat \ {0} /\ MaxSocksCrashes \in Nat /\ MaxLateSocks \in Nat

VARIABLES sRow,       \* id -> status of the row
          sLinux,     \* id -> the Linux user with that row's login
          sApproved,  \* the owner's role allows accesses
          sWaiting,   \* an issue holds the user lock and waits for the service lock
          step,       \* where the holder of the service lock awaits
          sId,        \* the row it works on
          sPrev,      \* the status a revocation found
          sDegraded,  \* BackendHealth has SOCKS5 degraded
          sPhase,     \* the process: down, start (reconciliation), up
          sLast,      \* the id after which the reconciliation lists on
          sFailed,    \* the reconciliation met a row it could not settle
          sLate,      \* <<command, id>>: late commands, whose call has failed long ago
          sHurt,      \* history: rows whose adapter call raised or was cut by a crash
          sLanded,    \* history: rows on whose Linux user a late command was carried out
          sCrashes

socksVars == <<sRow, sLinux, sApproved, sWaiting, step, sId, sPrev, sDegraded,
               sPhase, sLast, sFailed, sLate, sHurt, sLanded, sCrashes>>
adapter == <<sLinux, sLate, sHurt, sLanded>>
process == <<sDegraded, sPhase, sLast, sFailed, sCrashes>>

Ids == 1 .. MaxSocks
OneOwner == [a \in Ids |-> "user"]
MayExistStatuses == {"active", "pending_apply", "apply_failed", "pending_revoke",
                     "pending_delete", "delete_failed"}
ReconcileStatuses == MayExistStatuses \ {"active"}
Commands == {"create", "password", "lock", "delete"}

SocksInit ==
    /\ sRow = [a \in Ids |-> NoRow] /\ sLinux = [a \in Ids |-> "none"]
    /\ sApproved = TRUE /\ sWaiting = FALSE
    /\ step = "idle" /\ sId = 1 /\ sPrev = NoRow
    /\ sDegraded = FALSE /\ sPhase = "up" /\ sLast = 0 /\ sFailed = FALSE
    /\ sLate = {} /\ sHurt = {} /\ sLanded = {} /\ sCrashes = 0

-----------------------------------------------------------------------------
(* The database and the adapter.                                             *)

SetRow(a, s) == sRow' = [sRow EXCEPT ![a] = s]
SetLinux(a, s) == sLinux' = [sLinux EXCEPT ![a] = s]
SocksGoto(s) == step' = s
Leave == step' = "idle" /\ sId' = 1 /\ sPrev' = NoRow
Allows(a, s) == IndexAllows(sRow, OneOwner, a, s)

\* What a command makes of a Linux user: useradd, chpasswd (which opens a locked user
\* again), passwd -l, userdel.
After(c, s) ==
    CASE c = "create"   -> IF s = "none" THEN "nopass" ELSE s
      [] c = "password" -> IF s = "none" THEN "none" ELSE "open"
      [] c = "lock"     -> IF s = "none" THEN "none" ELSE "locked"
      [] c = "delete"   -> "none"

Carried(c, a) == SetLinux(a, After(c, sLinux[a])) /\ UNCHANGED <<sLate, sHurt, sLanded>>

\* An adapter call that raises: without effect, with it, or (the helper timed out)
\* with its effect still to come.
Raises(c, a) ==
    /\ sHurt' = sHurt \union {a} /\ UNCHANGED sLanded
    /\ \/ UNCHANGED <<sLinux, sLate>>
       \/ SetLinux(a, After(c, sLinux[a])) /\ UNCHANGED sLate
       \/ Cardinality(sLate) + Cardinality(sLanded) < MaxLateSocks /\ sLate' = sLate \union {<<c, a>>} /\ UNCHANGED sLinux

\* A late command is carried out, at any time.
CommandLands(c, a) ==
    /\ <<c, a>> \in sLate /\ sLate' = sLate \ {<<c, a>>}
    /\ SetLinux(a, After(c, sLinux[a])) /\ sLanded' = sLanded \union {a}
    /\ UNCHANGED <<sRow, sApproved, sWaiting, step, sId, sPrev, sHurt, process>>

Calls == sPhase = "up" /\ step = "idle"

-----------------------------------------------------------------------------
(* issue_socks5_proxy                                                        *)

\* The health check, the user lock, the role, no active access; then the service lock.
AskIssue ==
    /\ sPhase = "up" /\ ~sWaiting /\ ~sDegraded /\ sApproved
    /\ \A a \in Ids : sRow[a] # "active"
    /\ sWaiting' = TRUE
    /\ UNCHANGED <<sRow, adapter, sApproved, step, sId, sPrev, process>>

\* With the lock: the role again, a login that is free, the row in pending_apply.
\* A live row (one whose revocation was cut short) meets the unique index.
IssueRow ==
    /\ Calls /\ sWaiting
    /\ \/ /\ sApproved
          /\ \E a \in Ids :
               /\ sRow[a] = NoRow /\ (\A b \in Ids : b < a => sRow[b] # NoRow)
               /\ Allows(a, "pending_apply")
               /\ SetRow(a, "pending_apply") /\ sId' = a /\ SocksGoto("create")
          /\ UNCHANGED sWaiting
       \/ /\ sWaiting' = FALSE         \* refused, or one of these steps raised
          /\ UNCHANGED <<sRow, step, sId>>
    /\ UNCHANGED <<adapter, sApproved, sPrev, process>>

\* The role a third time, then create_user: there must be no such user yet; useradd.
IssueCreate ==
    /\ step = "create"
    /\ \/ sApproved /\ sLinux[sId] = "none" /\ Carried("create", sId) /\ SocksGoto("password")
       \/ sApproved /\ Raises("create", sId) /\ SocksGoto("created_failed")
       \/ ~sApproved /\ SocksGoto("created_failed") /\ UNCHANGED adapter
    /\ UNCHANGED <<sRow, sApproved, sWaiting, sId, sPrev, process>>

\* The second half of create_user: the user exists and gets its password.
IssuePassword ==
    /\ step = "password"
    /\ \/ Carried("password", sId) /\ SocksGoto("mark_active")
       \/ Raises("password", sId) /\ SocksGoto("created_failed")
    /\ UNCHANGED <<sRow, sApproved, sWaiting, sId, sPrev, process>>

\* Mutant: an issue that raises keeps the service lock.
IssueFailsKeepsLock ==
    /\ step \in {"created_failed", "compensated"}
    /\ SetRow(sId, "apply_failed") /\ SocksGoto("compensated")
    /\ UNCHANGED <<adapter, sApproved, sWaiting, sId, sPrev, process>>

\* set_status(apply_failed), which may raise as well; the call ends with an error.
IssueFails ==
    /\ step \in {"created_failed", "compensated"}
    /\ SetRow(sId, "apply_failed") \/ UNCHANGED sRow
    /\ Leave /\ sWaiting' = FALSE /\ UNCHANGED <<adapter, sApproved, process>>

IssueActive ==
    /\ step = "mark_active"
    /\ \/ CanActivate(sRow[sId]) /\ SetRow(sId, "active") /\ Leave /\ sWaiting' = FALSE
       \/ SocksGoto("compensate") /\ UNCHANGED <<sRow, sWaiting, sId, sPrev>>
    /\ UNCHANGED <<adapter, sApproved, process>>

\* _compensate_failed_create_after_apply: delete the user, else lock it, else degraded.
CompensateIssue ==
    /\ step = "compensate"
    /\ \/ Carried("delete", sId) /\ SocksGoto("compensated")
       \/ Raises("delete", sId) /\ SocksGoto("compensate_lock")
    /\ UNCHANGED <<sRow, sApproved, sWaiting, sId, sPrev, process>>

\* lock_user raises for a user that is not there.
CompensateLock ==
    /\ step = "compensate_lock"
    /\ \/ /\ sLinux[sId] # "none" /\ Carried("lock", sId) /\ SocksGoto("compensated")
          /\ UNCHANGED <<sWaiting, sId, sPrev, sDegraded>>
       \/ Raises("lock", sId) /\ sDegraded' = TRUE /\ Leave /\ sWaiting' = FALSE
    /\ UNCHANGED <<sRow, sApproved, sPhase, sLast, sFailed, sCrashes>>

-----------------------------------------------------------------------------
(* _revoke_socks5_proxy, delete_socks5_proxy, delete_own_socks5_proxy        *)

\* The row again under the lock, the health check, then the intent.
RevokeIntent(a) ==
    /\ Calls /\ ~sDegraded /\ sRow[a] \notin FinalStatuses \union {NoRow}
    /\ Allows(a, "pending_revoke")
    /\ SetRow(a, "pending_revoke") /\ sPrev' = sRow[a] /\ sId' = a /\ SocksGoto("lock")
    /\ UNCHANGED <<adapter, sApproved, sWaiting, process>>

\* A user that is not there counts as locked.
RevokeLock ==
    /\ step = "lock"
    /\ \/ Carried("lock", sId) /\ SocksGoto("mark_revoked")
       \/ Raises("lock", sId) /\ SocksGoto("lock_failed")
    /\ UNCHANGED <<sRow, sApproved, sWaiting, sId, sPrev, process>>

\* The status goes back to what it was, if that write does not raise.
RevokeFails ==
    /\ step = "lock_failed" /\ Leave
    /\ (Allows(sId, sPrev) /\ SetRow(sId, sPrev)) \/ UNCHANGED sRow
    /\ UNCHANGED <<adapter, sApproved, sWaiting, process>>

RevokeDone ==
    /\ step = "mark_revoked" /\ Leave
    /\ (~RevokeRaises(sRow[sId]) /\ SetRow(sId, "revoked")) \/ UNCHANGED sRow
    /\ UNCHANGED <<adapter, sApproved, sWaiting, process>>

DeleteIntent(a) ==
    /\ Calls /\ ~sDegraded /\ sRow[a] \notin {"deleted", NoRow}
    /\ SetRow(a, "pending_delete") /\ sId' = a /\ SocksGoto("delete")
    /\ UNCHANGED <<adapter, sApproved, sWaiting, sPrev, process>>

DeleteUser ==
    /\ step = "delete"
    /\ \/ Carried("delete", sId) /\ SocksGoto("mark_deleted")
       \/ Raises("delete", sId) /\ SocksGoto("delete_failed")
    /\ UNCHANGED <<sRow, sApproved, sWaiting, sId, sPrev, process>>

DeleteFails ==
    /\ step = "delete_failed" /\ Leave
    /\ SetRow(sId, "delete_failed") \/ UNCHANGED sRow
    /\ UNCHANGED <<adapter, sApproved, sWaiting, process>>

\* Mutant: a soft delete with a status the column does not know.
DeletedMisspelt ==
    /\ step = "mark_deleted" /\ Leave /\ SetRow(sId, "removed")
    /\ UNCHANGED <<adapter, sApproved, sWaiting, process>>

DeleteDone ==
    /\ step = "mark_deleted" /\ Leave
    /\ (~DeleteRaises(sRow[sId]) /\ SetRow(sId, "deleted")) \/ UNCHANGED sRow
    /\ UNCHANGED <<adapter, sApproved, sWaiting, process>>

-----------------------------------------------------------------------------
(* reconcile_socks5_state: the rows in ReconcileStatuses, by id.  A row that  *)
(* raises is counted, and SOCKS5 is degraded for the life of the process.     *)

Listed(a) ==
    /\ a > sLast /\ sRow[a] \in ReconcileStatuses
    /\ \A b \in Ids : b > sLast /\ sRow[b] \in ReconcileStatuses => a <= b

Reconciling(a) == sPhase = "start" /\ step = "idle" /\ Listed(a)
Next_(a) == sLast' = a /\ UNCHANGED <<sDegraded, sPhase, sCrashes>>
KeepCall == UNCHANGED <<sApproved, sWaiting, sId, sPrev>>

\* An existing user makes the access active, whatever the user's password is.
ReconcileApply(a) ==
    /\ Reconciling(a) /\ sRow[a] \in {"pending_apply", "apply_failed"}
    /\ \/ /\ sLinux[a] # "none" /\ Allows(a, "active") /\ SetRow(a, "active")
          /\ UNCHANGED sFailed
       \/ /\ sLinux[a] = "none" /\ SetRow(a, "apply_failed") /\ UNCHANGED sFailed
       \/ sFailed' = TRUE /\ UNCHANGED sRow
    /\ Next_(a) /\ KeepCall /\ UNCHANGED <<adapter, step>>

\* exists() and then lock_user or delete_user.
ReconcileRemove(a) ==
    /\ Reconciling(a) /\ sRow[a] \notin {"pending_apply", "apply_failed"}
    /\ LET c == IF sRow[a] = "pending_revoke" THEN "lock" ELSE "delete" IN
       \/ Carried(c, a) /\ SocksGoto("reconciled") /\ sId' = a /\ UNCHANGED <<sLast, sFailed>>
       \/ Raises(c, a) /\ sFailed' = TRUE /\ sLast' = a /\ UNCHANGED <<step, sId>>
    /\ UNCHANGED <<sRow, sApproved, sWaiting, sPrev, sDegraded, sPhase, sCrashes>>

\* Mutant: a row that cannot be marked at a start is left half way.
ReconcileMarkSwallows ==
    /\ step = "reconciled" /\ Leave /\ Next_(sId) /\ UNCHANGED <<sApproved, sWaiting>>
    /\ UNCHANGED <<sRow, adapter, sFailed>>

ReconcileMark ==
    /\ step = "reconciled" /\ Leave /\ Next_(sId) /\ UNCHANGED <<sApproved, sWaiting>>
    /\ \/ /\ SetRow(sId, IF sRow[sId] = "pending_revoke" THEN "revoked" ELSE "deleted")
          /\ UNCHANGED sFailed
       \/ sFailed' = TRUE /\ UNCHANGED sRow
    /\ UNCHANGED adapter

ReconcileEnds ==
    /\ sPhase = "start" /\ step = "idle" /\ \A a \in Ids : ~Listed(a)
    /\ sPhase' = "up" /\ sDegraded' = sFailed /\ sLast' = 0
    /\ UNCHANGED <<sRow, adapter, step, sFailed, sCrashes>> /\ KeepCall

-----------------------------------------------------------------------------
(* The process and the owner's role (services/users.py).                     *)

\* systemd stops what is left of the unit's control group, late commands included.  A
\* user that was created keeps having no password.
SocksCrash ==
    /\ sPhase # "down" /\ sCrashes < MaxSocksCrashes
    /\ sPhase' = "down" /\ sCrashes' = sCrashes + 1
    /\ Leave /\ sWaiting' = FALSE /\ sDegraded' = FALSE /\ sLast' = 0 /\ sFailed' = FALSE
    /\ sLate' = {} /\ sHurt' = IF step = "password" THEN sHurt \union {sId} ELSE sHurt
    /\ UNCHANGED <<sRow, sLinux, sLanded, sApproved>>

SocksStart ==
    /\ sPhase = "down" /\ sPhase' = "start"
    /\ UNCHANGED <<sRow, adapter, step, sDegraded, sLast, sFailed, sCrashes>> /\ KeepCall

ChangeRole ==
    /\ sPhase = "up" /\ sApproved' = ~sApproved
    /\ UNCHANGED <<sRow, adapter, sWaiting, step, sId, sPrev, process>>

Issue == IssueRow \/ IssueCreate \/ IssuePassword \/ IssueFails \/ IssueActive
         \/ CompensateIssue \/ CompensateLock
Removal == RevokeLock \/ RevokeFails \/ RevokeDone \/ DeleteUser \/ DeleteFails \/ DeleteDone
Startup == SocksStart \/ ReconcileMark \/ ReconcileEnds
           \/ \E a \in Ids : ReconcileApply(a) \/ ReconcileRemove(a)

SocksNext ==
    \/ AskIssue \/ Issue \/ Removal \/ Startup \/ SocksCrash \/ ChangeRole
    \/ \E a \in Ids : RevokeIntent(a) \/ DeleteIntent(a) \/ \E c \in Commands : CommandLands(c, a)

SocksSpec == SocksInit /\ [][SocksNext]_socksVars
SocksFairness == WF_socksVars(Issue) /\ WF_socksVars(Removal) /\ WF_socksVars(Startup)

-----------------------------------------------------------------------------
(* Properties.                                                               *)

Steps == {"idle", "create", "password", "created_failed", "mark_active", "compensate",
          "compensate_lock", "compensated", "lock", "lock_failed", "mark_revoked", "delete",
          "delete_failed", "mark_deleted", "reconciled"}

\* The values the state of the module takes.
SocksTypeOK ==
    /\ sRow \in [Ids -> ProxyStatuses \union {NoRow}]
    /\ sLinux \in [Ids -> {"none", "nopass", "open", "locked"}]
    /\ {sApproved, sWaiting, sDegraded, sFailed} \subseteq BOOLEAN
    /\ step \in Steps /\ sId \in Ids /\ sPrev \in ProxyStatuses \union {NoRow}
    /\ sPhase \in {"down", "start", "up"} /\ sLast \in 0 .. MaxSocks
    /\ sLate \subseteq Commands \X Ids /\ {sHurt, sLanded} \subseteq SUBSET Ids
    /\ sCrashes \in 0 .. MaxSocksCrashes

\* SOCKS5_ACCESS_MAY_EXIST_STATUSES keeps its promise through every failure, crash and
\* recovery, and while late commands are outstanding: a login that works belongs to a row
\* a later revocation, deletion or startup will still look at; behind a deleted row there
\* is no Linux user, behind a revoked one at most a locked one.  Once a late command was
\* carried out on a login, that login is no longer covered: a late useradd makes a user
\* behind a row deleted meanwhile, a late chpasswd opens the one a revocation locked.
LoginIsListed ==
    \A a \in Ids \ sLanded :
        /\ sLinux[a] \in {"open", "nopass"} => sRow[a] \in MayExistStatuses
        /\ sRow[a] \in {NoRow, "deleted"} => sLinux[a] = "none"

\* What is shown as active can log in, unless an adapter call on it once raised or a crash
\* came between useradd and chpasswd (the startup makes such a row active all the same).
ActiveCanLogIn == \A a \in Ids : sRow[a] = "active" /\ a \notin sHurt => sLinux[a] = "open"

\* The system user of a settled access is left alone: a login goes only after the row
\* says that it is going (pending_revoke, pending_delete) or never was active, or by a
\* late command of a call that failed.
SettledLeftAlone ==
    [][\A a \in Ids : sRow[a] \in {"active", "revoked", "deleted"}
          => sLinux'[a] = sLinux[a] \/ \E c \in Commands : <<c, a>> \in sLate \ sLate']_socksVars

\* A row whose revocation or deletion was once recorded as done or as under way to
\* deletion is never given out again: not by the status a failed revocation restores,
\* not by the reconciliation, not by a late mark_active.
NeverGivenBack ==
    [][\A a \in Ids : sRow[a] \in {"revoked", "pending_delete", "delete_failed", "deleted"}
          => sRow'[a] \notin {"pending_apply", "apply_failed", "active"}]_socksVars

\* A reconciliation that reports no failure leaves no row half way: what is not active
\* or gone is an apply_failed row without a Linux user.
StartupSettles ==
    [][sPhase = "start" /\ sPhase' = "up" /\ ~sFailed
         => \A a \in Ids : \/ sRow[a] \in {NoRow, "active", "revoked", "deleted"}
                           \/ (sRow[a] = "apply_failed" /\ sLinux[a] = "none")]_socksVars

\* The service lock is always given back and every start comes to its end, whatever raises.
ServiceReturns == []<>(sPhase = "up" /\ step = "idle")

\* Rows and Linux users agree, in both directions.
RowMatchesLogin == LoginIsListed /\ ActiveCanLogIn

\* What no step of an operation or of the startup may do to a login or its row.
SocksSteps == SettledLeftAlone /\ NeverGivenBack /\ StartupSettles
=============================================================================
