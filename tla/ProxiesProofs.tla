--------------------------- MODULE ProxiesProofs ---------------------------
(* What holds of the SOCKS5 and the MTProto accesses, for any number of rows, *)
(* owners and crashes: rows and logins, or rows and secrets, agree; no step   *)
(* touches what is settled or somebody else's; a start that reports no        *)
(* failure leaves nothing half way.                                           *)
EXTENDS MCProxies, NaturalsInduction, WellFoundedInduction, TLAPS

--------------------------------------------------------------------------------
(* SOCKS5 (Socks5Access).                                                    *)

\* What the row and the login of the access at hand are at each step of a call.
CallSteps == Steps \ {"idle", "reconciled"}
AtHand ==
    /\ step \in {"create", "password", "created_failed", "mark_active", "compensate", "compensate_lock", "compensated"}
          => sRow[sId] = "pending_apply"
    /\ step \in {"lock", "lock_failed", "mark_revoked"} => sRow[sId] = "pending_revoke"
    /\ step \in {"delete", "delete_failed", "mark_deleted"} => sRow[sId] = "pending_delete"
    /\ step \in {"create", "password", "mark_active", "compensate"} => sId \notin sHurt
    /\ step = "create" => sLinux[sId] = "none"
    /\ step = "password" => sLinux[sId] = "nopass"
    /\ step \in {"mark_active", "compensate"} => sLinux[sId] = "open"
    /\ step = "mark_revoked" /\ sId \notin sLanded => sLinux[sId] \in {"none", "locked"}
    /\ step = "mark_deleted" /\ sId \notin sLanded => sLinux[sId] = "none"
    /\ step \in {"compensate_lock", "lock_failed"} => sId \in sHurt
    /\ step \in {"lock", "lock_failed"} => sPrev \in MayExistStatuses

\* Calls run when the process is up; a start settles the row it has listed.
PhaseInv ==
    /\ step \in CallSteps => sPhase = "up"
    /\ sPhase = "down" => step = "idle" /\ sLast = 0 /\ sLate = {}
    /\ sPhase = "start" /\ ~sFailed => sLate = {}
    /\ step = "reconciled" =>
          /\ sPhase = "start" /\ Listed(sId) /\ sRow[sId] \notin {"pending_apply", "apply_failed"}
          /\ sId \in sLanded \/ sLinux[sId] = "none"
             \/ (sRow[sId] = "pending_revoke" /\ sLinux[sId] = "locked")

\* A login that no adapter call has hurt and whose row may still become active is a whole one,
\* except while its password is to be set; late commands come from calls that raised.
LoginsInv ==
    /\ \A c \in Commands, a \in Ids : <<c, a>> \in sLate => a \in sHurt
    /\ sLanded \subseteq sHurt /\ \A a \in sHurt : sRow[a] # NoRow
    /\ \A a \in Ids : sRow[a] \in MayExistStatuses \union {NoRow, "revoked", "deleted"}
    /\ \A a \in Ids : sRow[a] \in {"pending_apply", "apply_failed"} /\ a \notin sHurt
                         => sLinux[a] \in {"none", "open"} \/ (step = "password" /\ a = sId)

\* What a start that has met no failure leaves behind it.
IsSettled(a) ==
    \/ sRow[a] \in {NoRow, "active", "revoked", "deleted"}
    \/ sRow[a] = "apply_failed" /\ sLinux[a] = "none"
SettledInv == sPhase = "start" /\ ~sFailed => \A a \in Ids : a <= sLast => IsSettled(a)

\* The inductive invariant of the SOCKS5 accesses.
SInv == SocksTypeOK /\ RowMatchesLogin /\ AtHand /\ PhaseInv /\ LoginsInv /\ SettledInv

--------------------------------------------------------------------------------
(* MTProto (MtprotoAccess).                                                  *)

\* A file that serves every active access and none that is gone.
Serves(ids) ==
    /\ Managed => Desired \subseteq ids
    /\ \A a \in ids : mRow[a] \notin FinalStatuses \union {NoRow}

\* What the apply of the call at hand is to bring into the file.
Target == IF mStep = "issue" THEN Desired \union {mId} ELSE Desired

\* The static mode has rows and nothing else.
StaticInv ==
    mode = "static" =>
        /\ mStep = "idle" /\ mWaiting = {} /\ mQueued = {} /\ file = {} /\ running = {}
        /\ \A a \in MtIds : mRow[a] \in {NoRow, "active", "inactive", "deleted"}

\* The row of the access at hand, and of those a start has passed.
HalfWay == PendingRemoval \union {"pending_apply"}
HolderInv ==
    /\ job = "none" <=> mStep = "idle"
    /\ mStep \in {"issue", "compensate"} => mPhase = "up" /\ mRow[mId] = "pending_apply"
    /\ mStep = "revoke" => mPhase = "up" /\ mRow[mId] = "pending_revoke"
    /\ mStep \in {"start_compensate", "start_remove", "start_drift"} => mPhase = "start"
    /\ mStep = "start_compensate" => NextPending(mId) /\ mRow[mId] = "pending_apply"
    /\ mStep = "start_remove" => NextPending(mId) /\ mRow[mId] \in PendingRemoval
    /\ mStep = "start_drift" => \A a \in MtIds : ~Pending(a)
\* A start that has met no failure has passed no row half way.
PassedInv ==
    /\ mPhase = "down" => mLast = 0
    /\ mPhase = "start" /\ ~mDegraded => \A a \in MtIds : a <= mLast => mRow[a] \notin HalfWay

\* An apply writes what its caller wants; as long as it does so alone, the files are where
\* its steps have left them.
ApplyInv ==
    /\ job \in JobSteps => want = Target
    /\ overlapped # "now" =>
          /\ job = "ok" => file = Target
          /\ job \in {"restart", "check"} => file = want /\ cut
          /\ job = "check" => running = file
          /\ job = "failed" => file = backup \/ (file = want /\ cut)
          /\ job \in {"write", "rollback"} => file = backup

\* The file and everything that may still be put in its place serve whom they should.
RunServes(h) ==
    /\ late[h].at = "write" => Serves(late[h].new)
    /\ late[h].at # "begin" => Serves(late[h].old)
ServeInv ==
    overlapped = "no" =>
        /\ Serves(file)
        /\ job \in JobSteps \ {"begin"} => Serves(backup)
        /\ \A h \in AtWork : RunServes(h)

\* The bot acts beside a late run only once that is recorded; a start does not, unless it
\* has degraded MTProto before.
LateInv ==
    /\ mode # "helper" => AtWork = {}
    /\ overlapped # "now" =>
          /\ AtWork # {} => job \in {"none", "begin", "raised"}
          /\ \A h, k \in AtWork : h = k
    /\ mPhase = "down" => overlapped # "now" /\ AtWork = {}
    /\ mPhase = "start" /\ ~mDegraded => overlapped # "now" /\ (AtWork = {} \/ job = "raised")
    /\ torn => job \in {"none", "begin", "raised"}

\* The proxy runs on the file, unless an apply was cut off or a late run overlapped.
RunningInv ==
    /\ overlapped = "now" => cut
    /\ ~cut => running = file

\* The inductive invariant of the MTProto accesses.
MInv == /\ MtTypeOK /\ StaticInv /\ HolderInv /\ PassedInv /\ ApplyInv /\ ServeInv /\ LateInv
        /\ RunningInv

\* The types of the state, each for itself.
SocksTypes ==
    /\ sRow \in [Ids -> ProxyStatuses \union {NoRow}]
    /\ sLinux \in [Ids -> {"none", "nopass", "open", "locked"}]
    /\ sApproved \in BOOLEAN /\ sWaiting \in BOOLEAN /\ sDegraded \in BOOLEAN /\ sFailed \in BOOLEAN
    /\ step \in Steps /\ sId \in Ids /\ sPrev \in ProxyStatuses \union {NoRow}
    /\ sPhase \in {"down", "start", "up"} /\ sLast \in 0 .. MaxSocks
    /\ sLate \subseteq Commands \X Ids /\ sHurt \subseteq Ids /\ sLanded \subseteq Ids
    /\ sCrashes \in 0 .. MaxSocksCrashes
\* The type invariant in its parts.
LEMMA SocksTypesAre == SocksTypeOK <=> SocksTypes
  BY DEF SocksTypeOK, SocksTypes

\* What a call of the adapter makes of the Linux users.
LEMMA AdapterTypes ==
    ASSUME SocksTypes, NEW c \in Commands, NEW a \in Ids, Carried(c, a) \/ Raises(c, a) \/ CommandLands(c, a)
    PROVE  /\ sLinux' \in [Ids -> {"none", "nopass", "open", "locked"}]
           /\ sLate' \subseteq Commands \X Ids /\ sHurt' \subseteq Ids /\ sLanded' \subseteq Ids
<1>1. After(c, sLinux[a]) \in {"none", "nopass", "open", "locked"}
  BY DEF SocksTypes, After, Commands
<1>2. sLinux' \in [Ids -> {"none", "nopass", "open", "locked"}]
  BY <1>1 DEF SocksTypes, Carried, Raises, CommandLands, SetLinux
<1>3. sLate' \subseteq Commands \X Ids
  BY DEF SocksTypes, Carried, Raises, CommandLands
<1>4. sHurt' \subseteq Ids /\ sLanded' \subseteq Ids
  BY DEF SocksTypes, Carried, Raises, CommandLands
<1>. QED
  BY <1>2, <1>3, <1>4

\* Every step keeps the types.
LEMMA SocksTypeStep == ASSUME SocksTypes, [SocksNext]_socksVars PROVE SocksTypes'
<1>. DEFINE Rows == sRow \in [Ids -> ProxyStatuses \union {NoRow}]
            Logins == /\ sLinux \in [Ids -> {"none", "nopass", "open", "locked"}]
                      /\ sLate \subseteq Commands \X Ids /\ sHurt \subseteq Ids /\ sLanded \subseteq Ids
            Flags == sApproved \in BOOLEAN /\ sWaiting \in BOOLEAN /\ sDegraded \in BOOLEAN /\ sFailed \in BOOLEAN
            Places == /\ step \in Steps /\ sId \in Ids /\ sPrev \in ProxyStatuses \union {NoRow}
                      /\ sPhase \in {"down", "start", "up"}
            Counts == sLast \in 0 .. MaxSocks /\ sCrashes \in 0 .. MaxSocksCrashes
<1>1. Rows /\ Logins /\ Flags /\ Places /\ Counts
  BY DEF SocksTypes
<1>. SUFFICES Rows' /\ Logins' /\ Flags' /\ Places' /\ Counts'
  BY DEF SocksTypes
<1>. USE SocksBounds DEF SetRow, SocksGoto, Leave, process, KeepCall, Next_, NoRow, ProxyStatuses, Steps, Ids
<1>2. CASE AskIssue
  <2>1. Logins'
    BY <1>1, <1>2 DEF AskIssue, adapter
  <2>2. Rows'
    BY <1>1, <1>2 DEF AskIssue
  <2>3. Flags' /\ Places' /\ Counts'
    BY <1>1, <1>2 DEF AskIssue
  <2>. QED
    BY <2>1, <2>2, <2>3
<1>3. CASE IssueRow
  <2>1. Logins'
    BY <1>1, <1>3 DEF IssueRow, adapter
  <2>2. Rows'
    BY <1>1, <1>3 DEF IssueRow
  <2>3. Flags'
    BY <1>1, <1>3 DEF IssueRow
  <2>4. Places'
    BY <1>1, <1>3 DEF IssueRow
  <2>5. Counts'
    BY <1>1, <1>3 DEF IssueRow
  <2>. QED
    BY <2>1, <2>2, <2>3, <2>4, <2>5
<1>4. CASE IssueCreate
  <2>1. Logins'
    <3>1. Carried("create", sId) \/ Raises("create", sId) \/ UNCHANGED adapter
      BY <1>4 DEF IssueCreate
    <3>2. "create" \in Commands
      BY DEF Commands
    <3>3. CASE Carried("create", sId) \/ Raises("create", sId)
      BY <1>1, <3>2, <3>3, AdapterTypes
    <3>4. CASE UNCHANGED adapter
      BY <1>1, <3>4 DEF adapter
    <3>. QED
      BY <3>1, <3>3, <3>4
  <2>2. Rows'
    BY <1>1, <1>4 DEF IssueCreate
  <2>3. Flags' /\ Places' /\ Counts'
    BY <1>1, <1>4 DEF IssueCreate
  <2>. QED
    BY <2>1, <2>2, <2>3
<1>5. CASE IssuePassword
  <2>1. Logins'
    <3>1. Carried("password", sId) \/ Raises("password", sId) \/ UNCHANGED adapter
      BY <1>5 DEF IssuePassword
    <3>2. "password" \in Commands
      BY DEF Commands
    <3>3. CASE Carried("password", sId) \/ Raises("password", sId)
      BY <1>1, <3>2, <3>3, AdapterTypes
    <3>4. CASE UNCHANGED adapter
      BY <1>1, <3>4 DEF adapter
    <3>. QED
      BY <3>1, <3>3, <3>4
  <2>2. Rows'
    BY <1>1, <1>5 DEF IssuePassword
  <2>3. Flags' /\ Places' /\ Counts'
    BY <1>1, <1>5 DEF IssuePassword
  <2>. QED
    BY <2>1, <2>2, <2>3
<1>6. CASE IssueFails
  <2>1. Logins'
    BY <1>1, <1>6 DEF IssueFails, adapter
  <2>2. Rows'
    BY <1>1, <1>6 DEF IssueFails
  <2>3. Flags'
    BY <1>1, <1>6 DEF IssueFails
  <2>4. Places'
    BY <1>1, <1>6 DEF IssueFails
  <2>5. Counts'
    BY <1>1, <1>6 DEF IssueFails
  <2>. QED
    BY <2>1, <2>2, <2>3, <2>4, <2>5
<1>7. CASE IssueActive
  <2>1. Logins'
    BY <1>1, <1>7 DEF IssueActive, adapter
  <2>2. Rows'
    BY <1>1, <1>7 DEF IssueActive
  <2>3. Flags'
    BY <1>1, <1>7 DEF IssueActive
  <2>4. Places'
    BY <1>1, <1>7 DEF IssueActive
  <2>5. Counts'
    BY <1>1, <1>7 DEF IssueActive
  <2>. QED
    BY <2>1, <2>2, <2>3, <2>4, <2>5
<1>8. CASE CompensateIssue
  <2>1. Logins'
    <3>1. Carried("delete", sId) \/ Raises("delete", sId) \/ UNCHANGED adapter
      BY <1>8 DEF CompensateIssue
    <3>2. "delete" \in Commands
      BY DEF Commands
    <3>3. CASE Carried("delete", sId) \/ Raises("delete", sId)
      BY <1>1, <3>2, <3>3, AdapterTypes
    <3>4. CASE UNCHANGED adapter
      BY <1>1, <3>4 DEF adapter
    <3>. QED
      BY <3>1, <3>3, <3>4
  <2>2. Rows'
    BY <1>1, <1>8 DEF CompensateIssue
  <2>3. Flags' /\ Places' /\ Counts'
    BY <1>1, <1>8 DEF CompensateIssue
  <2>. QED
    BY <2>1, <2>2, <2>3
<1>9. CASE CompensateLock
  <2>1. Logins'
    <3>1. Carried("lock", sId) \/ Raises("lock", sId) \/ UNCHANGED adapter
      BY <1>9 DEF CompensateLock
    <3>2. "lock" \in Commands
      BY DEF Commands
    <3>3. CASE Carried("lock", sId) \/ Raises("lock", sId)
      BY <1>1, <3>2, <3>3, AdapterTypes
    <3>4. CASE UNCHANGED adapter
      BY <1>1, <3>4 DEF adapter
    <3>. QED
      BY <3>1, <3>3, <3>4
  <2>2. Rows'
    BY <1>1, <1>9 DEF CompensateLock
  <2>3. Flags'
    BY <1>1, <1>9 DEF CompensateLock
  <2>4. Places'
    BY <1>1, <1>9 DEF CompensateLock
  <2>5. Counts'
    BY <1>1, <1>9 DEF CompensateLock
  <2>. QED
    BY <2>1, <2>2, <2>3, <2>4, <2>5
<1>10. CASE RevokeLock
  <2>1. Logins'
    <3>1. Carried("lock", sId) \/ Raises("lock", sId) \/ UNCHANGED adapter
      BY <1>10 DEF RevokeLock
    <3>2. "lock" \in Commands
      BY DEF Commands
    <3>3. CASE Carried("lock", sId) \/ Raises("lock", sId)
      BY <1>1, <3>2, <3>3, AdapterTypes
    <3>4. CASE UNCHANGED adapter
      BY <1>1, <3>4 DEF adapter
    <3>. QED
      BY <3>1, <3>3, <3>4
  <2>2. Rows'
    BY <1>1, <1>10 DEF RevokeLock
  <2>3. Flags' /\ Places' /\ Counts'
    BY <1>1, <1>10 DEF RevokeLock
  <2>. QED
    BY <2>1, <2>2, <2>3
<1>11. CASE RevokeFails
  <2>1. Logins'
    BY <1>1, <1>11 DEF RevokeFails, adapter
  <2>2. Rows'
    BY <1>1, <1>11 DEF RevokeFails
  <2>3. Flags' /\ Places' /\ Counts'
    BY <1>1, <1>11 DEF RevokeFails
  <2>. QED
    BY <2>1, <2>2, <2>3
<1>12. CASE RevokeDone
  <2>1. Logins'
    BY <1>1, <1>12 DEF RevokeDone, adapter
  <2>2. Rows'
    BY <1>1, <1>12 DEF RevokeDone
  <2>3. Flags' /\ Places' /\ Counts'
    BY <1>1, <1>12 DEF RevokeDone
  <2>. QED
    BY <2>1, <2>2, <2>3
<1>13. CASE DeleteUser
  <2>1. Logins'
    <3>1. Carried("delete", sId) \/ Raises("delete", sId) \/ UNCHANGED adapter
      BY <1>13 DEF DeleteUser
    <3>2. "delete" \in Commands
      BY DEF Commands
    <3>3. CASE Carried("delete", sId) \/ Raises("delete", sId)
      BY <1>1, <3>2, <3>3, AdapterTypes
    <3>4. CASE UNCHANGED adapter
      BY <1>1, <3>4 DEF adapter
    <3>. QED
      BY <3>1, <3>3, <3>4
  <2>2. Rows'
    BY <1>1, <1>13 DEF DeleteUser
  <2>3. Flags' /\ Places' /\ Counts'
    BY <1>1, <1>13 DEF DeleteUser
  <2>. QED
    BY <2>1, <2>2, <2>3
<1>14. CASE DeleteFails
  <2>1. Logins'
    BY <1>1, <1>14 DEF DeleteFails, adapter
  <2>2. Rows'
    BY <1>1, <1>14 DEF DeleteFails
  <2>3. Flags' /\ Places' /\ Counts'
    BY <1>1, <1>14 DEF DeleteFails
  <2>. QED
    BY <2>1, <2>2, <2>3
<1>15. CASE DeleteDone
  <2>1. Logins'
    BY <1>1, <1>15 DEF DeleteDone, adapter
  <2>2. Rows'
    BY <1>1, <1>15 DEF DeleteDone
  <2>3. Flags' /\ Places' /\ Counts'
    BY <1>1, <1>15 DEF DeleteDone
  <2>. QED
    BY <2>1, <2>2, <2>3
<1>16. CASE SocksStart
  <2>1. Logins'
    BY <1>1, <1>16 DEF SocksStart, adapter
  <2>2. Rows'
    BY <1>1, <1>16 DEF SocksStart
  <2>3. Flags' /\ Places' /\ Counts'
    BY <1>1, <1>16 DEF SocksStart
  <2>. QED
    BY <2>1, <2>2, <2>3
<1>17. CASE ReconcileMark
  <2>1. Logins'
    BY <1>1, <1>17 DEF ReconcileMark, adapter
  <2>2. Rows'
    BY <1>1, <1>17 DEF ReconcileMark
  <2>3. Flags'
    BY <1>1, <1>17 DEF ReconcileMark
  <2>4. Places'
    BY <1>1, <1>17 DEF ReconcileMark
  <2>5. Counts'
    BY <1>1, <1>17 DEF ReconcileMark
  <2>. QED
    BY <2>1, <2>2, <2>3, <2>4, <2>5
<1>18. CASE ReconcileEnds
  <2>1. Logins'
    BY <1>1, <1>18 DEF ReconcileEnds, adapter
  <2>2. Rows'
    BY <1>1, <1>18 DEF ReconcileEnds
  <2>3. Flags' /\ Places' /\ Counts'
    BY <1>1, <1>18 DEF ReconcileEnds
  <2>. QED
    BY <2>1, <2>2, <2>3
<1>19. CASE \E a \in Ids : ReconcileApply(a)
  <2>1. Logins'
    BY <1>1, <1>19 DEF ReconcileApply, adapter
  <2>2. Rows'
    BY <1>1, <1>19 DEF ReconcileApply
  <2>3. Flags'
    BY <1>1, <1>19 DEF ReconcileApply
  <2>4. Places'
    BY <1>1, <1>19 DEF ReconcileApply
  <2>5. Counts'
    BY <1>1, <1>19 DEF ReconcileApply
  <2>. QED
    BY <2>1, <2>2, <2>3, <2>4, <2>5
<1>20. CASE \E a \in Ids : ReconcileRemove(a)
  <2>0. PICK a \in Ids : ReconcileRemove(a)
    BY <1>20
  <2>1. Logins'
    <3>1. \E c \in Commands : Carried(c, a) \/ Raises(c, a)
      BY <2>0 DEF ReconcileRemove, Commands
    <3>. QED
      BY <3>1, AdapterTypes
  <2>2. Rows'
    BY <1>1, <2>0 DEF ReconcileRemove
  <2>3. Flags'
    BY <1>1, <2>0 DEF ReconcileRemove
  <2>4. Places'
    BY <1>1, <2>0 DEF ReconcileRemove
  <2>5. Counts'
    BY <1>1, <2>0 DEF ReconcileRemove
  <2>. QED
    BY <2>1, <2>2, <2>3, <2>4, <2>5
<1>21. CASE SocksCrash
  <2>1. Logins'
    BY <1>1, <1>21 DEF SocksCrash
  <2>2. Rows'
    BY <1>1, <1>21 DEF SocksCrash
  <2>3. Flags'
    BY <1>1, <1>21 DEF SocksCrash
  <2>4. Places'
    BY <1>1, <1>21 DEF SocksCrash
  <2>5. Counts'
    BY <1>1, <1>21 DEF SocksCrash
  <2>. QED
    BY <2>1, <2>2, <2>3, <2>4, <2>5
<1>22. CASE ChangeRole
  <2>1. Logins'
    BY <1>1, <1>22 DEF ChangeRole, adapter
  <2>2. Rows'
    BY <1>1, <1>22 DEF ChangeRole
  <2>3. Flags' /\ Places' /\ Counts'
    BY <1>1, <1>22 DEF ChangeRole
  <2>. QED
    BY <2>1, <2>2, <2>3
<1>23. CASE \E a \in Ids : RevokeIntent(a)
  <2>1. Logins'
    BY <1>1, <1>23 DEF RevokeIntent, adapter
  <2>2. Rows'
    BY <1>1, <1>23 DEF RevokeIntent
  <2>3. Flags' /\ Places' /\ Counts'
    BY <1>1, <1>23 DEF RevokeIntent
  <2>. QED
    BY <2>1, <2>2, <2>3
<1>24. CASE \E a \in Ids : DeleteIntent(a)
  <2>1. Logins'
    BY <1>1, <1>24 DEF DeleteIntent, adapter
  <2>2. Rows'
    BY <1>1, <1>24 DEF DeleteIntent
  <2>3. Flags' /\ Places' /\ Counts'
    BY <1>1, <1>24 DEF DeleteIntent
  <2>. QED
    BY <2>1, <2>2, <2>3
<1>25. CASE \E a \in Ids, c \in Commands : CommandLands(c, a)
  <2>1. Logins'
    BY <1>25, AdapterTypes
  <2>2. Rows'
    BY <1>1, <1>25 DEF CommandLands
  <2>3. Flags' /\ Places' /\ Counts'
    BY <1>1, <1>25 DEF CommandLands
  <2>. QED
    BY <2>1, <2>2, <2>3
<1>26. CASE UNCHANGED socksVars
  <2>1. Logins'
    BY <1>1, <1>26 DEF socksVars, adapter
  <2>2. Rows'
    BY <1>1, <1>26 DEF socksVars
  <2>3. Flags' /\ Places' /\ Counts'
    BY <1>1, <1>26 DEF socksVars
  <2>. QED
    BY <2>1, <2>2, <2>3
<1>. QED
  BY <1>2, <1>3, <1>4, <1>5, <1>6, <1>7, <1>8, <1>9, <1>10, <1>11, <1>12, <1>13, <1>14, <1>15, <1>16, <1>17, <1>18,
     <1>19, <1>20, <1>21, <1>22, <1>23, <1>24, <1>25, <1>26 DEF SocksNext, Issue, Removal, Startup

\* The steps of the calls.
LEMMA SocksCallStep ==
    ASSUME SInv, AskIssue \/ IssueRow \/ IssueCreate \/ IssuePassword \/ IssueFails \/ IssueActive \/ CompensateIssue
                 \/ CompensateLock \/ RevokeLock \/ RevokeFails \/ RevokeDone \/ DeleteUser \/ DeleteFails
                 \/ DeleteDone \/ SocksStart \/ SocksCrash \/ ChangeRole \/ (\E a \in Ids : RevokeIntent(a))
                 \/ (\E a \in Ids : DeleteIntent(a)) \/ (\E a \in Ids, c \in Commands : CommandLands(c, a))
    PROVE  RowMatchesLogin' /\ AtHand' /\ PhaseInv' /\ LoginsInv' /\ SettledInv'
<1>1. SocksTypes /\ RowMatchesLogin /\ AtHand /\ PhaseInv /\ LoginsInv /\ SettledInv
  BY SocksTypesAre DEF SInv
<1>. USE DEF SetRow, SetLinux, SocksGoto, Leave, adapter, process, NoRow, MayExistStatuses
<1>2. CASE AskIssue
  <2>1. RowMatchesLogin'
    BY <1>1, <1>2 DEF AskIssue, SocksTypes, RowMatchesLogin, LoginIsListed, ActiveCanLogIn, AtHand, LoginsInv
  <2>2. AtHand'
    BY <1>1, <1>2 DEF AskIssue, SocksTypes, AtHand, LoginIsListed, RowMatchesLogin, ActiveCanLogIn, LoginsInv, Steps
  <2>3. PhaseInv'
    BY <1>1, <1>2 DEF AskIssue, SocksTypes, PhaseInv, CallSteps, Steps, Listed, ReconcileStatuses
  <2>4. LoginsInv'
    BY <1>1, <1>2 DEF AskIssue, SocksTypes, LoginsInv, AtHand, RowMatchesLogin, LoginIsListed
  <2>5. SettledInv'
    BY <1>1, <1>2 DEF AskIssue, PhaseInv, SettledInv, CallSteps, Steps, IsSettled
  <2>. QED
    BY <2>1, <2>2, <2>3, <2>4, <2>5
<1>3. CASE IssueRow
  <2>1. RowMatchesLogin'
    BY <1>1, <1>3 DEF IssueRow, Allows, IndexAllows, OneOwner, Calls, SocksTypes, RowMatchesLogin, LoginIsListed,
       ActiveCanLogIn, AtHand, LoginsInv
  <2>2. AtHand'
    <3>1. CASE UNCHANGED <<sRow, step, sId>>
      BY <1>1, <1>3, <3>1 DEF IssueRow, Calls, AtHand
    <3>2. CASE step' = "create"
      <4>1. PICK a \in Ids : sRow[a] = NoRow /\ SetRow(a, "pending_apply") /\ sId' = a
        BY <1>3, <3>2 DEF IssueRow, Calls
      <4>2. a \notin sHurt /\ a \notin sLanded
        BY <1>1, <4>1 DEF LoginsInv
      <4>3. sRow'[a] = "pending_apply" /\ sLinux[a] = "none" /\ sLinux' = sLinux /\ sHurt' = sHurt
        BY <1>1, <1>3, <4>1, <4>2 DEF IssueRow, SocksTypes, RowMatchesLogin, LoginIsListed
      <4>. QED
        BY <3>2, <4>1, <4>2, <4>3 DEF AtHand
    <3>. QED
      BY <1>3, <3>1, <3>2 DEF IssueRow
  <2>3. PhaseInv'
    BY <1>1, <1>3 DEF IssueRow, Allows, IndexAllows, OneOwner, Calls, SocksTypes, PhaseInv, CallSteps, Steps, Listed,
       ReconcileStatuses
  <2>4. LoginsInv'
    BY <1>1, <1>3 DEF IssueRow, Allows, IndexAllows, OneOwner, Calls, SocksTypes, LoginsInv, AtHand, RowMatchesLogin,
       LoginIsListed
  <2>5. SettledInv'
    BY <1>1, <1>3 DEF IssueRow, Allows, IndexAllows, OneOwner, Calls, PhaseInv, SettledInv, CallSteps, Steps,
       IsSettled
  <2>. QED
    BY <2>1, <2>2, <2>3, <2>4, <2>5
<1>4. CASE IssueCreate
  <2>1. RowMatchesLogin'
    BY <1>1, <1>4 DEF IssueCreate, Carried, Raises, After, Commands, SocksTypes, RowMatchesLogin, LoginIsListed, ActiveCanLogIn,
       AtHand, LoginsInv
  <2>2. AtHand'
    <3>1. sRow'[sId'] = "pending_apply"
      BY <1>1, <1>4 DEF IssueCreate, AtHand
    <3>2. CASE step' = "password"
      <4>0. Carried("create", sId) /\ sLinux[sId] = "none" /\ sId' = sId
        BY <1>4, <3>2 DEF IssueCreate
      <4>1. sLinux' = [sLinux EXCEPT ![sId] = "nopass"] /\ sId' = sId /\ sHurt' = sHurt
        <5>1. After("create", sLinux[sId]) = "nopass"
          BY <4>0 DEF After
        <5>. QED
          BY <4>0, <5>1 DEF Carried
      <4>2. sLinux'[sId'] = "nopass"
        BY <1>1, <4>1 DEF SocksTypes
      <4>3. sId' \notin sHurt'
        BY <1>1, <1>4, <4>1 DEF IssueCreate, AtHand
      <4>. QED
        BY <3>1, <3>2, <4>2, <4>3 DEF AtHand
    <3>3. CASE step' = "created_failed"
      BY <3>1, <3>3 DEF AtHand
    <3>. QED
      BY <1>4, <3>2, <3>3 DEF IssueCreate
  <2>3. PhaseInv'
    BY <1>1, <1>4 DEF IssueCreate, Carried, Raises, After, Commands, SocksTypes, PhaseInv, CallSteps, Steps, Listed, ReconcileStatuses
  <2>4. LoginsInv'
    BY <1>1, <1>4 DEF IssueCreate, Carried, Raises, After, Commands, SocksTypes, LoginsInv, AtHand, RowMatchesLogin, LoginIsListed
  <2>5. SettledInv'
    BY <1>1, <1>4 DEF IssueCreate, Carried, Raises, After, Commands, PhaseInv, SettledInv, CallSteps, Steps, IsSettled
  <2>. QED
    BY <2>1, <2>2, <2>3, <2>4, <2>5
<1>5. CASE IssueFails
  <2>1. RowMatchesLogin'
    BY <1>1, <1>5 DEF IssueFails, SocksTypes, RowMatchesLogin, LoginIsListed, ActiveCanLogIn, AtHand, LoginsInv
  <2>2. AtHand'
    BY <1>1, <1>5 DEF IssueFails, SocksTypes, AtHand, LoginIsListed, RowMatchesLogin, ActiveCanLogIn, LoginsInv, Steps
  <2>3. PhaseInv'
    BY <1>1, <1>5 DEF IssueFails, SocksTypes, PhaseInv, CallSteps, Steps, Listed, ReconcileStatuses
  <2>4. LoginsInv'
    BY <1>1, <1>5 DEF IssueFails, SocksTypes, LoginsInv, AtHand, RowMatchesLogin, LoginIsListed
  <2>5. SettledInv'
    BY <1>1, <1>5 DEF IssueFails, PhaseInv, SettledInv, CallSteps, Steps, IsSettled
  <2>. QED
    BY <2>1, <2>2, <2>3, <2>4, <2>5
<1>6. CASE IssueActive
  <2>1. RowMatchesLogin'
    BY <1>1, <1>6 DEF IssueActive, CanActivate, SocksTypes, RowMatchesLogin, LoginIsListed, ActiveCanLogIn, AtHand,
       LoginsInv
  <2>2. AtHand'
    BY <1>1, <1>6 DEF IssueActive, CanActivate, SocksTypes, AtHand, LoginIsListed, RowMatchesLogin, ActiveCanLogIn,
       LoginsInv, Steps
  <2>3. PhaseInv'
    BY <1>1, <1>6 DEF IssueActive, CanActivate, SocksTypes, PhaseInv, CallSteps, Steps, Listed, ReconcileStatuses
  <2>4. LoginsInv'
    BY <1>1, <1>6 DEF IssueActive, CanActivate, SocksTypes, LoginsInv, AtHand, RowMatchesLogin, LoginIsListed
  <2>5. SettledInv'
    BY <1>1, <1>6 DEF IssueActive, CanActivate, PhaseInv, SettledInv, CallSteps, Steps, IsSettled
  <2>. QED
    BY <2>1, <2>2, <2>3, <2>4, <2>5
<1>7. CASE CompensateIssue
  <2>1. RowMatchesLogin'
    BY <1>1, <1>7 DEF CompensateIssue, Carried, Raises, After, Commands, SocksTypes, RowMatchesLogin, LoginIsListed, ActiveCanLogIn,
       AtHand, LoginsInv
  <2>2. AtHand'
    BY <1>1, <1>7 DEF CompensateIssue, Carried, Raises, After, Commands, SocksTypes, AtHand, LoginIsListed, RowMatchesLogin,
       ActiveCanLogIn, LoginsInv, Steps
  <2>3. PhaseInv'
    BY <1>1, <1>7 DEF CompensateIssue, Carried, Raises, After, Commands, SocksTypes, PhaseInv, CallSteps, Steps, Listed,
       ReconcileStatuses
  <2>4. LoginsInv'
    BY <1>1, <1>7 DEF CompensateIssue, Carried, Raises, After, Commands, SocksTypes, LoginsInv, AtHand, RowMatchesLogin, LoginIsListed
  <2>5. SettledInv'
    BY <1>1, <1>7 DEF CompensateIssue, Carried, Raises, After, Commands, PhaseInv, SettledInv, CallSteps, Steps, IsSettled
  <2>. QED
    BY <2>1, <2>2, <2>3, <2>4, <2>5
<1>8. CASE CompensateLock
  <2>1. RowMatchesLogin'
    BY <1>1, <1>8 DEF CompensateLock, Carried, Raises, After, Commands, SocksTypes, RowMatchesLogin, LoginIsListed, ActiveCanLogIn,
       AtHand, LoginsInv
  <2>2. AtHand'
    BY <1>1, <1>8 DEF CompensateLock, Carried, Raises, After, Commands, SocksTypes, AtHand, LoginIsListed, RowMatchesLogin,
       ActiveCanLogIn, LoginsInv, Steps
  <2>3. PhaseInv'
    BY <1>1, <1>8 DEF CompensateLock, Carried, Raises, After, Commands, SocksTypes, PhaseInv, CallSteps, Steps, Listed,
       ReconcileStatuses
  <2>4. LoginsInv'
    BY <1>1, <1>8 DEF CompensateLock, Carried, Raises, After, Commands, SocksTypes, LoginsInv, AtHand, RowMatchesLogin, LoginIsListed
  <2>5. SettledInv'
    BY <1>1, <1>8 DEF CompensateLock, Carried, Raises, After, Commands, PhaseInv, SettledInv, CallSteps, Steps, IsSettled
  <2>. QED
    BY <2>1, <2>2, <2>3, <2>4, <2>5
<1>9. CASE RevokeLock
  <2>1. RowMatchesLogin'
    BY <1>1, <1>9 DEF RevokeLock, Carried, Raises, After, Commands, SocksTypes, RowMatchesLogin, LoginIsListed, ActiveCanLogIn, AtHand,
       LoginsInv
  <2>2. AtHand'
    BY <1>1, <1>9 DEF RevokeLock, Carried, Raises, After, Commands, SocksTypes, AtHand, LoginIsListed, RowMatchesLogin, ActiveCanLogIn,
       LoginsInv, Steps
  <2>3. PhaseInv'
    BY <1>1, <1>9 DEF RevokeLock, Carried, Raises, After, Commands, SocksTypes, PhaseInv, CallSteps, Steps, Listed, ReconcileStatuses
  <2>4. LoginsInv'
    BY <1>1, <1>9 DEF RevokeLock, Carried, Raises, After, Commands, SocksTypes, LoginsInv, AtHand, RowMatchesLogin, LoginIsListed
  <2>5. SettledInv'
    BY <1>1, <1>9 DEF RevokeLock, Carried, Raises, After, Commands, PhaseInv, SettledInv, CallSteps, Steps, IsSettled
  <2>. QED
    BY <2>1, <2>2, <2>3, <2>4, <2>5
<1>10. CASE RevokeFails
  <2>1. RowMatchesLogin'
    BY <1>1, <1>10 DEF RevokeFails, SocksTypes, RowMatchesLogin, LoginIsListed, ActiveCanLogIn, AtHand, LoginsInv
  <2>2. AtHand'
    BY <1>1, <1>10 DEF RevokeFails, SocksTypes, AtHand, LoginIsListed, RowMatchesLogin, ActiveCanLogIn, LoginsInv,
       Steps
  <2>3. PhaseInv'
    BY <1>1, <1>10 DEF RevokeFails, SocksTypes, PhaseInv, CallSteps, Steps, Listed, ReconcileStatuses
  <2>4. LoginsInv'
    BY <1>1, <1>10 DEF RevokeFails, SocksTypes, LoginsInv, AtHand, RowMatchesLogin, LoginIsListed
  <2>5. SettledInv'
    BY <1>1, <1>10 DEF RevokeFails, PhaseInv, SettledInv, CallSteps, Steps, IsSettled
  <2>. QED
    BY <2>1, <2>2, <2>3, <2>4, <2>5
<1>11. CASE RevokeDone
  <2>1. RowMatchesLogin'
    BY <1>1, <1>11 DEF RevokeDone, SocksTypes, RowMatchesLogin, LoginIsListed, ActiveCanLogIn, AtHand, LoginsInv
  <2>2. AtHand'
    BY <1>1, <1>11 DEF RevokeDone, SocksTypes, AtHand, LoginIsListed, RowMatchesLogin, ActiveCanLogIn, LoginsInv,
       Steps
  <2>3. PhaseInv'
    BY <1>1, <1>11 DEF RevokeDone, SocksTypes, PhaseInv, CallSteps, Steps, Listed, ReconcileStatuses
  <2>4. LoginsInv'
    BY <1>1, <1>11 DEF RevokeDone, SocksTypes, LoginsInv, AtHand, RowMatchesLogin, LoginIsListed
  <2>5. SettledInv'
    BY <1>1, <1>11 DEF RevokeDone, PhaseInv, SettledInv, CallSteps, Steps, IsSettled
  <2>. QED
    BY <2>1, <2>2, <2>3, <2>4, <2>5
<1>12. CASE DeleteUser
  <2>1. RowMatchesLogin'
    BY <1>1, <1>12 DEF DeleteUser, Carried, Raises, After, Commands, SocksTypes, RowMatchesLogin, LoginIsListed, ActiveCanLogIn,
       AtHand, LoginsInv
  <2>2. AtHand'
    BY <1>1, <1>12 DEF DeleteUser, Carried, Raises, After, Commands, SocksTypes, AtHand, LoginIsListed, RowMatchesLogin,
       ActiveCanLogIn, LoginsInv, Steps
  <2>3. PhaseInv'
    BY <1>1, <1>12 DEF DeleteUser, Carried, Raises, After, Commands, SocksTypes, PhaseInv, CallSteps, Steps, Listed, ReconcileStatuses
  <2>4. LoginsInv'
    BY <1>1, <1>12 DEF DeleteUser, Carried, Raises, After, Commands, SocksTypes, LoginsInv, AtHand, RowMatchesLogin, LoginIsListed
  <2>5. SettledInv'
    BY <1>1, <1>12 DEF DeleteUser, Carried, Raises, After, Commands, PhaseInv, SettledInv, CallSteps, Steps, IsSettled
  <2>. QED
    BY <2>1, <2>2, <2>3, <2>4, <2>5
<1>13. CASE DeleteFails
  <2>1. RowMatchesLogin'
    BY <1>1, <1>13 DEF DeleteFails, SocksTypes, RowMatchesLogin, LoginIsListed, ActiveCanLogIn, AtHand, LoginsInv
  <2>2. AtHand'
    BY <1>1, <1>13 DEF DeleteFails, SocksTypes, AtHand, LoginIsListed, RowMatchesLogin, ActiveCanLogIn, LoginsInv,
       Steps
  <2>3. PhaseInv'
    BY <1>1, <1>13 DEF DeleteFails, SocksTypes, PhaseInv, CallSteps, Steps, Listed, ReconcileStatuses
  <2>4. LoginsInv'
    BY <1>1, <1>13 DEF DeleteFails, SocksTypes, LoginsInv, AtHand, RowMatchesLogin, LoginIsListed
  <2>5. SettledInv'
    BY <1>1, <1>13 DEF DeleteFails, PhaseInv, SettledInv, CallSteps, Steps, IsSettled
  <2>. QED
    BY <2>1, <2>2, <2>3, <2>4, <2>5
<1>14. CASE DeleteDone
  <2>1. RowMatchesLogin'
    BY <1>1, <1>14 DEF DeleteDone, SocksTypes, RowMatchesLogin, LoginIsListed, ActiveCanLogIn, AtHand, LoginsInv
  <2>2. AtHand'
    BY <1>1, <1>14 DEF DeleteDone, SocksTypes, AtHand, LoginIsListed, RowMatchesLogin, ActiveCanLogIn, LoginsInv,
       Steps
  <2>3. PhaseInv'
    BY <1>1, <1>14 DEF DeleteDone, SocksTypes, PhaseInv, CallSteps, Steps, Listed, ReconcileStatuses
  <2>4. LoginsInv'
    BY <1>1, <1>14 DEF DeleteDone, SocksTypes, LoginsInv, AtHand, RowMatchesLogin, LoginIsListed
  <2>5. SettledInv'
    BY <1>1, <1>14 DEF DeleteDone, PhaseInv, SettledInv, CallSteps, Steps, IsSettled
  <2>. QED
    BY <2>1, <2>2, <2>3, <2>4, <2>5
<1>15. CASE SocksStart
  <2>1. RowMatchesLogin'
    BY <1>1, <1>15 DEF SocksStart, KeepCall, SocksTypes, RowMatchesLogin, LoginIsListed, ActiveCanLogIn, AtHand,
       LoginsInv
  <2>2. AtHand'
    BY <1>1, <1>15 DEF SocksStart, KeepCall, SocksTypes, AtHand, LoginIsListed, RowMatchesLogin, ActiveCanLogIn,
       LoginsInv, Steps
  <2>3. PhaseInv'
    BY <1>1, <1>15 DEF SocksStart, KeepCall, SocksTypes, PhaseInv, CallSteps, Steps, Listed, ReconcileStatuses
  <2>4. LoginsInv'
    BY <1>1, <1>15 DEF SocksStart, KeepCall, SocksTypes, LoginsInv, AtHand, RowMatchesLogin, LoginIsListed
  <2>5. SettledInv'
    <3>1. sLast' = 0 /\ \A a \in Ids : ~(a <= 0)
      BY <1>1, <1>15, SocksBounds DEF SocksStart, PhaseInv, Ids
    <3>. QED
      BY <3>1 DEF SettledInv
  <2>. QED
    BY <2>1, <2>2, <2>3, <2>4, <2>5
<1>16. CASE SocksCrash
  <2>1. RowMatchesLogin'
    BY <1>1, <1>16 DEF SocksCrash, SocksTypes, RowMatchesLogin, LoginIsListed, ActiveCanLogIn, AtHand, LoginsInv
  <2>2. AtHand'
    BY <1>1, <1>16 DEF SocksCrash, SocksTypes, AtHand, LoginIsListed, RowMatchesLogin, ActiveCanLogIn, LoginsInv,
       Steps
  <2>3. PhaseInv'
    BY <1>1, <1>16 DEF SocksCrash, SocksTypes, PhaseInv, CallSteps, Steps, Listed, ReconcileStatuses
  <2>4. LoginsInv'
    BY <1>1, <1>16 DEF SocksCrash, SocksTypes, LoginsInv, AtHand, RowMatchesLogin, LoginIsListed
  <2>5. SettledInv'
    BY <1>1, <1>16 DEF SocksCrash, PhaseInv, SettledInv, CallSteps, Steps, IsSettled
  <2>. QED
    BY <2>1, <2>2, <2>3, <2>4, <2>5
<1>17. CASE ChangeRole
  <2>1. RowMatchesLogin'
    BY <1>1, <1>17 DEF ChangeRole, SocksTypes, RowMatchesLogin, LoginIsListed, ActiveCanLogIn, AtHand, LoginsInv
  <2>2. AtHand'
    BY <1>1, <1>17 DEF ChangeRole, SocksTypes, AtHand, LoginIsListed, RowMatchesLogin, ActiveCanLogIn, LoginsInv,
       Steps
  <2>3. PhaseInv'
    BY <1>1, <1>17 DEF ChangeRole, SocksTypes, PhaseInv, CallSteps, Steps, Listed, ReconcileStatuses
  <2>4. LoginsInv'
    BY <1>1, <1>17 DEF ChangeRole, SocksTypes, LoginsInv, AtHand, RowMatchesLogin, LoginIsListed
  <2>5. SettledInv'
    BY <1>1, <1>17 DEF ChangeRole, PhaseInv, SettledInv, CallSteps, Steps, IsSettled
  <2>. QED
    BY <2>1, <2>2, <2>3, <2>4, <2>5
<1>18. CASE \E a \in Ids : RevokeIntent(a)
  <2>1. RowMatchesLogin'
    BY <1>1, <1>18 DEF RevokeIntent, Calls, FinalStatuses, SocksTypes, RowMatchesLogin, LoginIsListed,
       ActiveCanLogIn, AtHand, LoginsInv
  <2>2. AtHand'
    BY <1>1, <1>18 DEF RevokeIntent, Calls, FinalStatuses, SocksTypes, AtHand, LoginIsListed, RowMatchesLogin,
       ActiveCanLogIn, LoginsInv, Steps
  <2>3. PhaseInv'
    BY <1>1, <1>18 DEF RevokeIntent, Calls, FinalStatuses, SocksTypes, PhaseInv, CallSteps, Steps, Listed,
       ReconcileStatuses
  <2>4. LoginsInv'
    BY <1>1, <1>18 DEF RevokeIntent, Calls, FinalStatuses, SocksTypes, LoginsInv, AtHand, RowMatchesLogin,
       LoginIsListed
  <2>5. SettledInv'
    BY <1>1, <1>18 DEF RevokeIntent, Calls, FinalStatuses, PhaseInv, SettledInv, CallSteps, Steps, IsSettled
  <2>. QED
    BY <2>1, <2>2, <2>3, <2>4, <2>5
<1>19. CASE \E a \in Ids : DeleteIntent(a)
  <2>1. RowMatchesLogin'
    BY <1>1, <1>19 DEF DeleteIntent, Calls, SocksTypes, RowMatchesLogin, LoginIsListed, ActiveCanLogIn, AtHand,
       LoginsInv
  <2>2. AtHand'
    BY <1>1, <1>19 DEF DeleteIntent, Calls, SocksTypes, AtHand, LoginIsListed, RowMatchesLogin, ActiveCanLogIn,
       LoginsInv, Steps
  <2>3. PhaseInv'
    BY <1>1, <1>19 DEF DeleteIntent, Calls, SocksTypes, PhaseInv, CallSteps, Steps, Listed, ReconcileStatuses
  <2>4. LoginsInv'
    BY <1>1, <1>19 DEF DeleteIntent, Calls, SocksTypes, LoginsInv, AtHand, RowMatchesLogin, LoginIsListed
  <2>5. SettledInv'
    BY <1>1, <1>19 DEF DeleteIntent, Calls, PhaseInv, SettledInv, CallSteps, Steps, IsSettled
  <2>. QED
    BY <2>1, <2>2, <2>3, <2>4, <2>5
<1>20. CASE IssuePassword
  <2>1. RowMatchesLogin'
    BY <1>1, <1>20 DEF IssuePassword, Carried, Raises, After, Commands, SocksTypes, RowMatchesLogin, LoginIsListed, ActiveCanLogIn, AtHand, LoginsInv
  <2>2. AtHand'
    BY <1>1, <1>20 DEF IssuePassword, Carried, Raises, After, Commands, SocksTypes, AtHand, LoginIsListed, RowMatchesLogin, ActiveCanLogIn, LoginsInv, Steps
  <2>3. PhaseInv'
    BY <1>1, <1>20 DEF IssuePassword, Carried, Raises, After, Commands, SocksTypes, PhaseInv, CallSteps, Steps, Listed, ReconcileStatuses
  <2>4. LoginsInv'
    BY <1>1, <1>20 DEF IssuePassword, Carried, Raises, After, Commands, SocksTypes, LoginsInv, AtHand, RowMatchesLogin, LoginIsListed
  <2>5. SettledInv'
    BY <1>1, <1>20 DEF IssuePassword, Carried, Raises, After, Commands, PhaseInv, SettledInv, CallSteps, Steps, IsSettled
  <2>. QED
    BY <2>1, <2>2, <2>3, <2>4, <2>5
<1>21. CASE \E a \in Ids, c \in Commands : CommandLands(c, a)
  <2>1. RowMatchesLogin'
    BY <1>1, <1>21 DEF CommandLands, SocksTypes, RowMatchesLogin, LoginIsListed, ActiveCanLogIn, AtHand, LoginsInv
  <2>2. AtHand'
    BY <1>1, <1>21 DEF CommandLands, SocksTypes, AtHand, LoginIsListed, RowMatchesLogin, ActiveCanLogIn, LoginsInv, Steps
  <2>3. PhaseInv'
    BY <1>1, <1>21 DEF CommandLands, SocksTypes, PhaseInv, CallSteps, Steps, Listed, ReconcileStatuses
  <2>4. LoginsInv'
    BY <1>1, <1>21 DEF CommandLands, SocksTypes, LoginsInv, AtHand, RowMatchesLogin, LoginIsListed
  <2>5. SettledInv'
    BY <1>1, <1>21 DEF CommandLands, PhaseInv, SettledInv, CallSteps, Steps, IsSettled
  <2>. QED
    BY <2>1, <2>2, <2>3, <2>4, <2>5
<1>. QED
  BY <1>2, <1>3, <1>4, <1>5, <1>6, <1>7, <1>8, <1>9, <1>10, <1>11, <1>12, <1>13, <1>14, <1>15, <1>16, <1>17, <1>18,
     <1>19, <1>20, <1>21

\* What a start has passed when it comes to a row.
LEMMA PassedBy ==
    ASSUME SInv, sPhase = "start", ~sFailed, NEW a \in Ids, Listed(a), NEW b \in Ids, b < a
    PROVE  IsSettled(b)
<1>1. SocksTypes /\ LoginsInv /\ SettledInv /\ a \in Int /\ b \in Int /\ sLast \in Int
  BY SocksTypesAre, SocksBounds DEF SInv, SocksTypes, Ids
<1>2. CASE b <= sLast
  BY <1>1, <1>2 DEF SettledInv
<1>3. CASE b > sLast
  <2>1. sRow[b] \notin ReconcileStatuses
    BY <1>1, <1>3 DEF Listed
  <2>. QED
    BY <1>1, <2>1 DEF LoginsInv, ReconcileStatuses, MayExistStatuses, IsSettled
<1>. QED
  BY <1>1, <1>2, <1>3

\* The steps of a start.
LEMMA SocksStartStep ==
    ASSUME SInv, ReconcileMark \/ ReconcileEnds \/ (\E a \in Ids : ReconcileApply(a))
                 \/ (\E a \in Ids : ReconcileRemove(a)) \/ UNCHANGED socksVars
    PROVE  RowMatchesLogin' /\ AtHand' /\ PhaseInv' /\ LoginsInv' /\ SettledInv'
<1>1. SocksTypes /\ RowMatchesLogin /\ AtHand /\ PhaseInv /\ LoginsInv /\ SettledInv
  BY SocksTypesAre DEF SInv
<1>. USE DEF SetRow, SetLinux, SocksGoto, Leave, adapter, process, NoRow, MayExistStatuses
<1>2. CASE ReconcileMark
  <2>1. RowMatchesLogin'
    BY <1>1, <1>2 DEF ReconcileMark, KeepCall, Next_, SocksTypes, RowMatchesLogin, LoginIsListed, ActiveCanLogIn,
       AtHand, LoginsInv, PhaseInv
  <2>2. AtHand'
    BY <1>1, <1>2 DEF ReconcileMark, KeepCall, Next_, SocksTypes, AtHand, Steps
  <2>3. PhaseInv'
    BY <1>1, <1>2 DEF ReconcileMark, KeepCall, Next_, SocksTypes, PhaseInv, CallSteps, Steps, Listed,
       ReconcileStatuses
  <2>4. LoginsInv'
    BY <1>1, <1>2 DEF ReconcileMark, KeepCall, Next_, SocksTypes, LoginsInv, AtHand, RowMatchesLogin, LoginIsListed
  <2>5. SettledInv'
    <3>. SUFFICES ASSUME ~sFailed', NEW b \in Ids, b <= sId PROVE IsSettled(b)'
      BY <1>2 DEF ReconcileMark, Next_, SettledInv
    <3>1. ~sFailed /\ Listed(sId) /\ sPhase = "start" /\ sId \in Ids /\ sLinux' = sLinux
          /\ sRow' = [sRow EXCEPT ![sId] = IF sRow[sId] = "pending_revoke" THEN "revoked" ELSE "deleted"]
      BY <1>1, <1>2 DEF ReconcileMark, SocksTypes, PhaseInv
    <3>2. CASE b = sId
      BY <1>1, <3>1, <3>2 DEF IsSettled, SocksTypes
    <3>3. CASE b # sId
      <4>1. b < sId
        BY <3>1, <3>3, SocksBounds DEF Ids
      <4>2. IsSettled(b)
        BY <3>1, <4>1, PassedBy
      <4>. QED
        BY <1>1, <3>1, <3>3, <4>2 DEF IsSettled, SocksTypes
    <3>. QED
      BY <3>2, <3>3
  <2>. QED
    BY <2>1, <2>2, <2>3, <2>4, <2>5
<1>3. CASE ReconcileEnds
  <2>1. RowMatchesLogin'
    BY <1>1, <1>3 DEF ReconcileEnds, KeepCall, SocksTypes, RowMatchesLogin, LoginIsListed, ActiveCanLogIn, AtHand,
       LoginsInv, PhaseInv
  <2>2. AtHand'
    BY <1>1, <1>3 DEF ReconcileEnds, KeepCall, SocksTypes, AtHand, Steps
  <2>3. PhaseInv'
    BY <1>1, <1>3 DEF ReconcileEnds, KeepCall, SocksTypes, PhaseInv, CallSteps, Steps, Listed, ReconcileStatuses
  <2>4. LoginsInv'
    BY <1>1, <1>3 DEF ReconcileEnds, KeepCall, SocksTypes, LoginsInv, AtHand, RowMatchesLogin, LoginIsListed
  <2>5. SettledInv'
    BY <1>1, <1>3 DEF ReconcileEnds, KeepCall, SocksTypes, PhaseInv, SettledInv, CallSteps, Steps, IsSettled, Listed,
       ReconcileStatuses, LoginsInv, Ids
  <2>. QED
    BY <2>1, <2>2, <2>3, <2>4, <2>5
<1>4. CASE \E a \in Ids : ReconcileApply(a)
  <2>1. RowMatchesLogin'
    BY <1>1, <1>4 DEF ReconcileApply, Reconciling, Next_, KeepCall, Allows, IndexAllows, OneOwner, SocksTypes,
       RowMatchesLogin, LoginIsListed, ActiveCanLogIn, AtHand, LoginsInv, PhaseInv
  <2>2. AtHand'
    BY <1>1, <1>4 DEF ReconcileApply, Reconciling, Next_, KeepCall, Allows, IndexAllows, OneOwner, SocksTypes,
       AtHand, Steps
  <2>3. PhaseInv'
    BY <1>1, <1>4 DEF ReconcileApply, Reconciling, Next_, KeepCall, Allows, IndexAllows, OneOwner, SocksTypes,
       PhaseInv, CallSteps, Steps, Listed, ReconcileStatuses
  <2>4. LoginsInv'
    BY <1>1, <1>4 DEF ReconcileApply, Reconciling, Next_, KeepCall, Allows, IndexAllows, OneOwner, SocksTypes,
       LoginsInv, AtHand, RowMatchesLogin, LoginIsListed
  <2>5. SettledInv'
    <3>1. PICK a \in Ids : ReconcileApply(a)
      BY <1>4
    <3>. SUFFICES ASSUME ~sFailed', NEW b \in Ids, b <= a PROVE IsSettled(b)'
      BY <3>1 DEF ReconcileApply, Next_, SettledInv
    <3>2. Listed(a) /\ sPhase = "start" /\ sLinux' = sLinux
      BY <3>1 DEF ReconcileApply, Reconciling
    <3>3. /\ ~sFailed
          /\ \/ sRow' = [sRow EXCEPT ![a] = "active"]
             \/ sLinux[a] = "none" /\ sRow' = [sRow EXCEPT ![a] = "apply_failed"]
      BY <1>1, <3>1 DEF ReconcileApply, SocksTypes
    <3>4. CASE b = a
      BY <1>1, <3>2, <3>3, <3>4 DEF IsSettled, SocksTypes
    <3>5. CASE b # a
      <4>1. b < a
        BY <3>5, SocksBounds DEF Ids
      <4>2. IsSettled(b)
        BY <3>2, <3>3, <4>1, PassedBy
      <4>. QED
        BY <1>1, <3>2, <3>3, <3>5, <4>2 DEF IsSettled, SocksTypes
    <3>. QED
      BY <3>4, <3>5
  <2>. QED
    BY <2>1, <2>2, <2>3, <2>4, <2>5
<1>5. CASE \E a \in Ids : ReconcileRemove(a)
  <2>1. RowMatchesLogin'
    <3>1. PICK a \in Ids : ReconcileRemove(a)
      BY <1>5
    <3>2. sRow[a] \in ReconcileStatuses \ {"pending_apply", "apply_failed"} /\ sRow' = sRow
      BY <3>1 DEF ReconcileRemove, Reconciling, Listed
    <3>3. /\ sLinux' = sLinux \/ \E s \in {"none", "locked"} : sLinux' = [sLinux EXCEPT ![a] = s]
          /\ sHurt \subseteq sHurt' /\ sLanded' = sLanded
      BY <3>1 DEF ReconcileRemove, Carried, Raises, After
    <3>. QED
      BY <1>1, <3>2, <3>3 DEF SocksTypes, RowMatchesLogin, LoginIsListed, ActiveCanLogIn, ReconcileStatuses
  <2>2. AtHand'
    BY <1>1, <1>5 DEF ReconcileRemove, Reconciling, SocksTypes, AtHand, Steps
  <2>3. PhaseInv'
    <3>1. PICK a \in Ids : ReconcileRemove(a)
      BY <1>5
    <3>2. sPhase = "start" /\ sPhase' = "start" /\ sRow' = sRow /\ Listed(a) /\ step' \in {"idle", "reconciled"}
      BY <3>1 DEF ReconcileRemove, Reconciling
    <3>3. ~sFailed' => sLate' = {}
      BY <1>1, <3>1, <3>2 DEF ReconcileRemove, Carried, PhaseInv
    <3>4. ASSUME step' = "reconciled"
          PROVE  /\ Listed(sId)' /\ sRow'[sId'] \notin {"pending_apply", "apply_failed"}
                 /\ sLinux'[sId'] = "none" \/ (sRow'[sId'] = "pending_revoke" /\ sLinux'[sId'] = "locked")
      <4>1. sId' = a /\ sLast' = sLast /\ sRow[a] \notin {"pending_apply", "apply_failed"}
            /\ sLinux' = [sLinux EXCEPT ![a] = After(IF sRow[a] = "pending_revoke" THEN "lock" ELSE "delete", sLinux[a])]
        BY <3>1, <3>4 DEF ReconcileRemove, Reconciling, Carried
      <4>2. Listed(sId)'
        BY <3>2, <4>1 DEF Listed
      <4>3. sLinux'[a] = After(IF sRow[a] = "pending_revoke" THEN "lock" ELSE "delete", sLinux[a])
        BY <1>1, <4>1 DEF SocksTypes
      <4>. QED
        BY <3>2, <4>1, <4>2, <4>3 DEF After
    <3>. QED
      BY <3>2, <3>3, <3>4 DEF PhaseInv, CallSteps
  <2>4. LoginsInv'
    <3>1. PICK a \in Ids : ReconcileRemove(a)
      BY <1>5
    <3>2. sRow' = sRow /\ sRow[a] \in ReconcileStatuses \ {"pending_apply", "apply_failed"} /\ step = "idle"
      BY <3>1 DEF ReconcileRemove, Reconciling, Listed
    <3>3. /\ sLanded' = sLanded /\ sHurt \subseteq sHurt' /\ sHurt' \subseteq sHurt \union {a}
          /\ \A c \in Commands, b \in Ids : <<c, b>> \in sLate' => <<c, b>> \in sLate \/ (b = a /\ a \in sHurt')
      BY <3>1 DEF ReconcileRemove, Carried, Raises
    <3>4. \A b \in Ids : b # a => sLinux'[b] = sLinux[b]
      BY <1>1, <3>1 DEF ReconcileRemove, Carried, Raises, SocksTypes
    <3>. QED
      BY <1>1, <3>2, <3>3, <3>4 DEF LoginsInv, ReconcileStatuses
  <2>5. SettledInv'
    <3>1. PICK a \in Ids : ReconcileRemove(a)
      BY <1>5
    <3>2. a > sLast /\ sRow' = sRow /\ sPhase' = sPhase
      BY <3>1 DEF ReconcileRemove, Reconciling, Listed
    <3>3. ~sFailed' => ~sFailed /\ sLast' = sLast /\ \E s : sLinux' = [sLinux EXCEPT ![a] = s]
      BY <3>1 DEF ReconcileRemove, Carried
    <3>4. \A b \in Ids : b <= sLast => b # a
      BY <1>1, <3>2, SocksBounds DEF Ids, SocksTypes
    <3>. QED
      BY <1>1, <3>2, <3>3, <3>4 DEF SettledInv, IsSettled, SocksTypes
  <2>. QED
    BY <2>1, <2>2, <2>3, <2>4, <2>5
<1>6. CASE UNCHANGED socksVars
  <2>1. RowMatchesLogin'
    BY <1>1, <1>6 DEF socksVars, AtHand, PhaseInv, LoginsInv, SettledInv, SocksTypes, RowMatchesLogin, LoginIsListed,
       ActiveCanLogIn, AtHand, LoginsInv, PhaseInv
  <2>2. AtHand'
    BY <1>1, <1>6 DEF socksVars, AtHand, PhaseInv, LoginsInv, SettledInv, SocksTypes, AtHand, Steps
  <2>3. PhaseInv'
    BY <1>1, <1>6 DEF socksVars, AtHand, PhaseInv, LoginsInv, SettledInv, SocksTypes, PhaseInv, CallSteps, Steps,
       Listed, ReconcileStatuses
  <2>4. LoginsInv'
    BY <1>1, <1>6 DEF socksVars, AtHand, PhaseInv, LoginsInv, SettledInv, SocksTypes, LoginsInv, AtHand,
       RowMatchesLogin, LoginIsListed
  <2>5. SettledInv'
    BY <1>1, <1>6 DEF socksVars, AtHand, PhaseInv, LoginsInv, SettledInv, SocksTypes, PhaseInv, SettledInv,
       CallSteps, Steps, IsSettled, Listed, ReconcileStatuses, LoginsInv, Ids
  <2>. QED
    BY <2>1, <2>2, <2>3, <2>4, <2>5
<1>. QED
  BY <1>2, <1>3, <1>4, <1>5, <1>6

\* A set of numbers that is not empty has a smallest one.
LEMMA SmallestIn == ASSUME NEW S \in SUBSET Nat, S # {} PROVE \E x \in S : \A y \in S : x <= y
<1>1. PICK x \in S : \A y \in S : ~(<<y, x>> \in OpToRel(<, Nat))
  BY WFMin, NatLessThanWellFounded
<1>2. ASSUME NEW y \in S PROVE x <= y
  <2>1. ~(y < x)
    <3>1. <<y, x>> \in Nat \X Nat
      OBVIOUS
    <3>2. <<y, x>> \notin {ss \in Nat \X Nat : ss[1] < ss[2]}
      BY <1>1 DEF OpToRel
    <3>. QED
      BY <3>1, <3>2
  <2>. QED
    BY <2>1
<1>. QED
  BY <1>2

\* A start that finds no row to settle has passed all of them.
LEMMA NothingListed ==
    ASSUME SInv, \A a \in Ids : ~Listed(a)
    PROVE  \A a \in Ids : a > sLast => sRow[a] \notin ReconcileStatuses
<1>. DEFINE left == {a \in Ids : a > sLast /\ sRow[a] \in ReconcileStatuses}
<1>1. left \in SUBSET Nat
  BY SocksBounds DEF Ids
<1>2. SUFFICES ASSUME left # {} PROVE FALSE
  OBVIOUS
<1>3. PICK a \in left : \A b \in left : a <= b
  BY <1>1, <1>2, SmallestIn
<1>4. Listed(a)
  BY <1>3 DEF Listed
<1>. QED
  BY <1>3, <1>4

\* The three promises about steps.
LEMMA SocksPromises ==
    ASSUME SInv, SocksNext
    PROVE  /\ \A a \in Ids : sRow[a] \in {"active", "revoked", "deleted"}
                => sLinux'[a] = sLinux[a] \/ \E c \in Commands : <<c, a>> \in sLate \ sLate'
           /\ \A a \in Ids : sRow[a] \in {"revoked", "pending_delete", "delete_failed", "deleted"}
                => sRow'[a] \notin {"pending_apply", "apply_failed", "active"}
           /\ sPhase = "start" /\ sPhase' = "up" /\ ~sFailed
                => \A a \in Ids : IsSettled(a)
<1>1. SocksTypes /\ RowMatchesLogin /\ AtHand /\ PhaseInv /\ LoginsInv /\ SettledInv
  BY SocksTypesAre DEF SInv
<1>. USE DEF SetRow, SetLinux, SocksGoto, Leave, adapter, process, NoRow, MayExistStatuses
<1>2. ASSUME NEW a \in Ids, sRow[a] \in {"active", "revoked", "deleted"}
      PROVE  sLinux'[a] = sLinux[a] \/ \E c \in Commands : <<c, a>> \in sLate \ sLate'
  <2>1. CASE AskIssue \/ IssueRow \/ IssueFails \/ IssueActive \/ RevokeFails \/ RevokeDone \/ DeleteFails \/ DeleteDone
    BY <2>1 DEF AskIssue, IssueRow, IssueFails, IssueActive, RevokeFails, RevokeDone, DeleteFails, DeleteDone
  <2>2. CASE IssueCreate \/ IssuePassword \/ CompensateIssue \/ CompensateLock
    <3>1. a # sId
      BY <1>1, <1>2, <2>2 DEF IssueCreate, IssuePassword, CompensateIssue, CompensateLock, AtHand
    <3>. QED
      BY <1>1, <2>2, <3>1 DEF IssueCreate, IssuePassword, CompensateIssue, CompensateLock, Carried, Raises, SocksTypes
  <2>3. CASE RevokeLock \/ DeleteUser
    <3>1. a # sId
      BY <1>1, <1>2, <2>3 DEF RevokeLock, DeleteUser, AtHand
    <3>. QED
      BY <1>1, <2>3, <3>1 DEF RevokeLock, DeleteUser, Carried, Raises, SocksTypes
  <2>4. CASE SocksStart \/ ReconcileMark \/ ReconcileEnds \/ (\E b \in Ids : ReconcileApply(b)) \/ SocksCrash
             \/ ChangeRole \/ (\E b \in Ids : RevokeIntent(b) \/ DeleteIntent(b))
    BY <2>4 DEF SocksStart, ReconcileMark, ReconcileEnds, ReconcileApply, SocksCrash, ChangeRole, RevokeIntent,
       DeleteIntent
  <2>5. CASE \E b \in Ids : ReconcileRemove(b)
    <3>1. PICK b \in Ids : ReconcileRemove(b)
      BY <2>5
    <3>2. a # b
      BY <1>2, <3>1 DEF ReconcileRemove, Reconciling, Listed, ReconcileStatuses
    <3>. QED
      BY <1>1, <3>1, <3>2 DEF ReconcileRemove, Carried, Raises, SocksTypes
  <2>6. CASE \E b \in Ids, c \in Commands : CommandLands(c, b)
    BY <1>1, <2>6 DEF CommandLands, SocksTypes
  <2>. QED
    BY <2>1, <2>2, <2>3, <2>4, <2>5, <2>6 DEF SocksNext, Issue, Removal, Startup
<1>3. ASSUME NEW a \in Ids, sRow[a] \in {"revoked", "pending_delete", "delete_failed", "deleted"}
      PROVE  sRow'[a] \notin {"pending_apply", "apply_failed", "active"}
  <2>1. CASE sRow' = sRow
    BY <1>3, <2>1
  <2>2. CASE IssueRow \/ IssueFails \/ IssueActive \/ RevokeFails \/ RevokeDone \/ DeleteFails \/ DeleteDone
    BY <1>1, <1>3, <2>2 DEF IssueRow, IssueFails, IssueActive, RevokeFails, RevokeDone, DeleteFails, DeleteDone,
       SocksTypes, AtHand
  <2>3. CASE ReconcileMark \/ (\E b \in Ids : ReconcileApply(b)) \/ (\E b \in Ids : RevokeIntent(b) \/ DeleteIntent(b))
    BY <1>1, <1>3, <2>3 DEF ReconcileMark, ReconcileApply, RevokeIntent, DeleteIntent, SocksTypes
  <2>. QED
    BY <2>1, <2>2, <2>3 DEF SocksNext, Issue, Removal, Startup, AskIssue, IssueCreate, IssuePassword,
       CompensateIssue, CompensateLock, RevokeLock, DeleteUser, SocksStart, ReconcileEnds, ReconcileRemove,
       SocksCrash, ChangeRole, CommandLands
<1>4. ASSUME sPhase = "start", sPhase' = "up", ~sFailed, NEW a \in Ids PROVE IsSettled(a)
  <2>1. \A b \in Ids : ~Listed(b)
    BY <1>1, <1>4 DEF SocksNext, Issue, Removal, Startup, AskIssue, IssueRow, IssueCreate, IssuePassword, IssueFails,
       IssueActive, CompensateIssue, CompensateLock, CommandLands, RevokeLock, RevokeFails, RevokeDone, DeleteUser, DeleteFails, DeleteDone,
       SocksStart, ReconcileMark, ReconcileApply, ReconcileRemove, ReconcileEnds, SocksCrash, ChangeRole, RevokeIntent,
       DeleteIntent, Calls, Next_
  <2>2. CASE a <= sLast
    BY <1>1, <1>4, <2>2 DEF SettledInv
  <2>3. CASE a > sLast
    <3>1. sRow[a] \notin ReconcileStatuses
      BY <2>1, <2>3, NothingListed
    <3>. QED
      BY <1>1, <3>1 DEF LoginsInv, ReconcileStatuses, IsSettled
  <2>. QED
    BY <1>1, <2>2, <2>3, SocksBounds DEF SocksTypes, Ids
<1>. QED
  BY <1>2, <1>3, <1>4

\* SInv holds at first and after every step.
LEMMA InitSInv == SocksInit => SInv
<1>. SUFFICES ASSUME SocksInit PROVE SInv
  OBVIOUS
<1>1. SocksTypes
  <2>1. 1 \in Ids /\ 0 \in 0 .. MaxSocks /\ 0 \in 0 .. MaxSocksCrashes
    BY SocksBounds DEF Ids
  <2>. QED
    BY <2>1 DEF SocksInit, SocksTypes, Steps
<1>2. RowMatchesLogin /\ AtHand /\ PhaseInv /\ LoginsInv /\ SettledInv
  BY DEF SocksInit, RowMatchesLogin, LoginIsListed, ActiveCanLogIn, AtHand, PhaseInv, CallSteps, LoginsInv,
     SettledInv,
         NoRow, MayExistStatuses
<1>. QED
  BY <1>1, <1>2, SocksTypesAre DEF SInv

\* Every step of the SOCKS5 accesses keeps their invariant.
LEMMA NextSInv == SInv /\ [SocksNext]_socksVars => SInv'
<1>. SUFFICES ASSUME SInv, [SocksNext]_socksVars PROVE SInv'
  OBVIOUS
<1>1. SocksTypes'
  BY SocksTypeStep, SocksTypesAre DEF SInv
<1>2. SocksTypeOK'
  BY <1>1 DEF SocksTypes, SocksTypeOK
<1>3. RowMatchesLogin' /\ AtHand' /\ PhaseInv' /\ LoginsInv' /\ SettledInv'
  BY SocksCallStep, SocksStartStep DEF SocksNext, Issue, Removal, Startup
<1>. QED
  BY <1>2, <1>3 DEF SInv

\* The types of the state, each for itself.
RunTypes == [at: JobSteps \union {"none", "done"}, new: SUBSET MtIds, old: SUBSET MtIds]
MtTypes ==
    /\ mode \in {"static", "direct", "helper"} /\ rollsBack \in BOOLEAN /\ mOwner \in [MtIds -> MtUsers]
    /\ mRow \in [MtIds -> ProxyStatuses \union {NoRow}]
    /\ mDegraded \in BOOLEAN /\ cut \in BOOLEAN /\ torn \in BOOLEAN
    /\ file \subseteq MtIds /\ running \subseteq MtIds /\ want \subseteq MtIds /\ backup \subseteq MtIds
    /\ mQueued \subseteq MtIds /\ mWaiting \subseteq MtUsers
    /\ mStep \in {"idle", "issue", "compensate", "revoke", "start_compensate", "start_remove", "start_drift"}
    /\ mId \in MtIds /\ mPhase \in {"down", "start", "up"}
    /\ job \in {"none", "begin", "write", "restart", "check", "failed", "rollback", "ok", "raised"}
    /\ late \in [LateRuns -> RunTypes] /\ overlapped \in {"no", "now", "before"}
    /\ mLast \in 0 .. MaxMt /\ mCrashes \in 0 .. MaxMtCrashes
\* The type invariant in its parts.
LEMMA MtTypesAre == MtTypeOK <=> MtTypes
  BY DEF MtTypeOK, MtTypes, RunTypes, JobSteps

\* A late run keeps its type at every step it takes.
LEMMA LateTypes ==
    ASSUME MtTypes, NEW h \in LateRuns, LateActs(h)
    PROVE  late' \in [LateRuns -> RunTypes] /\ file' \subseteq MtIds /\ running' \subseteq MtIds
<1>1. late[h] \in RunTypes
  BY DEF MtTypes
<1>2. late[h].new \subseteq MtIds /\ late[h].old \subseteq MtIds
  BY <1>1 DEF RunTypes
<1>3. ASSUME NEW to \in JobSteps PROVE [late[h] EXCEPT !.at = to, !.new = {}] \in RunTypes
  BY <1>1 DEF RunTypes
<1>4. [NotLate EXCEPT !.at = "done"] \in RunTypes
  BY DEF NotLate, RunTypes
<1>5. [[late[h] EXCEPT !.at = "failed"] EXCEPT !.old = file] \in RunTypes
  BY <1>1 DEF RunTypes, JobSteps, MtTypes
<1>6. late' \in [LateRuns -> RunTypes]
  <2>1. ASSUME NEW to \in JobSteps, LateMoves(h, to) PROVE late' \in [LateRuns -> RunTypes]
    BY <1>3, <2>1 DEF MtTypes, LateMoves
  <2>2. ASSUME LateEnds(h) PROVE late' \in [LateRuns -> RunTypes]
    BY <1>4, <2>2 DEF MtTypes, LateEnds
  <2>3. CASE late' = [late EXCEPT ![h].at = "failed", ![h].old = file]
    BY <1>5, <2>3 DEF MtTypes
  <2>. QED
    BY <2>1, <2>2, <2>3 DEF LateActs, LateBackup, LateWrite, LateRestart, LateCheck, LateRestore, LateRollback,
       JobSteps
<1>7. file' \subseteq MtIds /\ running' \subseteq MtIds
  BY <1>2 DEF MtTypes, LateActs, LateBackup, LateWrite, LateRestart, LateCheck, LateRestore, LateRollback
<1>. QED
  BY <1>6, <1>7

\* Every step keeps the types.
LEMMA MtTypeStep == ASSUME MtTypes, [MtNext]_mtVars PROVE MtTypes'
<1>. DEFINE Settings == mode \in {"static", "direct", "helper"} /\ rollsBack \in BOOLEAN /\ mOwner \in [MtIds -> MtUsers]
            Rows == mRow \in [MtIds -> ProxyStatuses \union {NoRow}]
            Flags == mDegraded \in BOOLEAN /\ cut \in BOOLEAN /\ torn \in BOOLEAN
            Files == file \subseteq MtIds /\ running \subseteq MtIds /\ backup \subseteq MtIds
            Runs == late \in [LateRuns -> RunTypes] /\ overlapped \in {"no", "now", "before"}
            Callers == want \subseteq MtIds /\ mQueued \subseteq MtIds /\ mWaiting \subseteq MtUsers
            Places == /\ mStep \in {"idle", "issue", "compensate", "revoke", "start_compensate", "start_remove", "start_drift"}
                      /\ mId \in MtIds /\ mPhase \in {"down", "start", "up"}
                      /\ job \in {"none", "begin", "write", "restart", "check", "failed", "rollback", "ok", "raised"}
            Counts == mLast \in 0 .. MaxMt /\ mCrashes \in 0 .. MaxMtCrashes
<1>1. Settings /\ Rows /\ Flags /\ Files /\ Runs /\ Callers /\ Places /\ Counts
  BY DEF MtTypes
<1>. SUFFICES Settings' /\ Rows' /\ Flags' /\ Files' /\ Runs' /\ Callers' /\ Places' /\ Counts'
  BY DEF MtTypes
<1>. USE MtBounds DEF SetMt, StartApply, Returns, EndCall, EndIssue, KeepCaller, KeepStart, KeepFiles, Done, Fatal,
   settings, callers, life, others, disk, ReadsFile, NoRow, ProxyStatuses, MtIds, Desired
<1>2. CASE ApplyUnchanged
  <2>1. Settings' /\ Rows' /\ Flags'
    BY <1>1, <1>2 DEF ApplyUnchanged
  <2>2. Files' /\ Runs' /\ Callers'
    BY <1>1, <1>2 DEF ApplyUnchanged
  <2>3. Places' /\ Counts'
    BY <1>1, <1>2 DEF ApplyUnchanged
  <2>. QED
    BY <2>1, <2>2, <2>3
<1>3. CASE ApplyBackup
  <2>1. Settings' /\ Rows' /\ Flags'
    BY <1>1, <1>3 DEF ApplyBackup
  <2>2. Files' /\ Runs' /\ Callers'
    BY <1>1, <1>3 DEF ApplyBackup
  <2>3. Places' /\ Counts'
    BY <1>1, <1>3 DEF ApplyBackup
  <2>. QED
    BY <2>1, <2>2, <2>3
<1>4. CASE ApplyWrite
  <2>1. Settings' /\ Rows' /\ Flags'
    BY <1>1, <1>4 DEF ApplyWrite
  <2>2. Files' /\ Runs' /\ Callers'
    BY <1>1, <1>4 DEF ApplyWrite
  <2>3. Places' /\ Counts'
    BY <1>1, <1>4 DEF ApplyWrite
  <2>. QED
    BY <2>1, <2>2, <2>3
<1>5. CASE ApplyRestart
  <2>1. Settings' /\ Rows' /\ Flags'
    BY <1>1, <1>5 DEF ApplyRestart
  <2>2. Files' /\ Runs' /\ Callers'
    BY <1>1, <1>5 DEF ApplyRestart
  <2>3. Places' /\ Counts'
    BY <1>1, <1>5 DEF ApplyRestart
  <2>. QED
    BY <2>1, <2>2, <2>3
<1>6. CASE ApplyCheck
  <2>1. Settings' /\ Rows' /\ Flags'
    BY <1>1, <1>6 DEF ApplyCheck
  <2>2. Files' /\ Runs' /\ Callers'
    BY <1>1, <1>6 DEF ApplyCheck
  <2>3. Places' /\ Counts'
    BY <1>1, <1>6 DEF ApplyCheck
  <2>. QED
    BY <2>1, <2>2, <2>3
<1>7. CASE ApplyFails
  <2>1. Settings' /\ Rows' /\ Flags'
    BY <1>1, <1>7 DEF ApplyFails
  <2>2. Files' /\ Runs' /\ Callers'
    BY <1>1, <1>7 DEF ApplyFails
  <2>3. Places' /\ Counts'
    BY <1>1, <1>7 DEF ApplyFails
  <2>. QED
    BY <2>1, <2>2, <2>3
<1>8. CASE Rollback
  <2>1. Settings' /\ Rows' /\ Flags'
    BY <1>1, <1>8 DEF Rollback
  <2>2. Files' /\ Runs' /\ Callers'
    BY <1>1, <1>8 DEF Rollback
  <2>3. Places' /\ Counts'
    BY <1>1, <1>8 DEF Rollback
  <2>. QED
    BY <2>1, <2>2, <2>3
<1>9. CASE \E h \in LateRuns : HelperTimesOut(h)
  <2>1. Settings' /\ Rows' /\ Flags'
    BY <1>1, <1>9 DEF HelperTimesOut
  <2>2. Files' /\ Runs' /\ Callers'
    BY <1>1, <1>9 DEF HelperTimesOut, JobSteps, RunTypes
  <2>3. Places' /\ Counts'
    BY <1>1, <1>9 DEF HelperTimesOut
  <2>. QED
    BY <2>1, <2>2, <2>3
<1>10. CASE \E h \in LateRuns : LateActs(h)
  <2>1. Settings' /\ Rows' /\ Flags'
    BY <1>1, <1>10 DEF LateActs, LateBackup, LateWrite, LateRestart, LateCheck, LateRestore, LateRollback, LateMoves,
       LateEnds
  <2>2. Files' /\ Runs' /\ Callers'
    <3>1. UNCHANGED <<backup, overlapped, want, mQueued, mWaiting>>
      BY <1>10 DEF LateActs, LateBackup, LateWrite, LateRestart, LateCheck, LateRestore, LateRollback, LateMoves,
         LateEnds
    <3>. QED
      BY <1>1, <3>1, <1>10, LateTypes
  <2>3. Places' /\ Counts'
    BY <1>1, <1>10 DEF LateActs, LateBackup, LateWrite, LateRestart, LateCheck, LateRestore, LateRollback, LateMoves,
       LateEnds
  <2>. QED
    BY <2>1, <2>2, <2>3
<1>11. CASE IssueApplied
  <2>1. Settings' /\ Rows' /\ Flags'
    BY <1>1, <1>11 DEF IssueApplied
  <2>2. Files' /\ Runs' /\ Callers'
    BY <1>1, <1>11 DEF IssueApplied
  <2>3. Places' /\ Counts'
    BY <1>1, <1>11 DEF IssueApplied
  <2>. QED
    BY <2>1, <2>2, <2>3
<1>12. CASE IssueNotApplied
  <2>1. Settings' /\ Rows' /\ Flags'
    BY <1>1, <1>12 DEF IssueNotApplied
  <2>2. Files' /\ Runs' /\ Callers'
    BY <1>1, <1>12 DEF IssueNotApplied
  <2>3. Places' /\ Counts'
    BY <1>1, <1>12 DEF IssueNotApplied
  <2>. QED
    BY <2>1, <2>2, <2>3
<1>13. CASE CompensationFails
  <2>1. Settings' /\ Rows' /\ Flags'
    BY <1>1, <1>13 DEF CompensationFails
  <2>2. Files' /\ Runs' /\ Callers'
    BY <1>1, <1>13 DEF CompensationFails
  <2>3. Places' /\ Counts'
    BY <1>1, <1>13 DEF CompensationFails
  <2>. QED
    BY <2>1, <2>2, <2>3
<1>14. CASE RevokeApplied
  <2>1. Settings' /\ Rows' /\ Flags'
    BY <1>1, <1>14 DEF RevokeApplied
  <2>2. Files' /\ Runs' /\ Callers'
    BY <1>1, <1>14 DEF RevokeApplied
  <2>3. Places' /\ Counts'
    BY <1>1, <1>14 DEF RevokeApplied
  <2>. QED
    BY <2>1, <2>2, <2>3
<1>15. CASE RevokeNotApplied
  <2>1. Settings' /\ Rows' /\ Flags'
    BY <1>1, <1>15 DEF RevokeNotApplied
  <2>2. Files' /\ Runs' /\ Callers'
    BY <1>1, <1>15 DEF RevokeNotApplied
  <2>3. Places' /\ Counts'
    BY <1>1, <1>15 DEF RevokeNotApplied
  <2>. QED
    BY <2>1, <2>2, <2>3
<1>16. CASE MtStart
  <2>1. Settings' /\ Rows' /\ Flags'
    BY <1>1, <1>16 DEF MtStart
  <2>2. Files' /\ Runs' /\ Callers'
    BY <1>1, <1>16 DEF MtStart
  <2>3. Places' /\ Counts'
    BY <1>1, <1>16 DEF MtStart
  <2>. QED
    BY <2>1, <2>2, <2>3
<1>17. CASE ReconcileCompensated
  <2>1. Settings' /\ Rows' /\ Flags'
    BY <1>1, <1>17 DEF ReconcileCompensated
  <2>2. Files' /\ Runs' /\ Callers'
    BY <1>1, <1>17 DEF ReconcileCompensated
  <2>3. Places' /\ Counts'
    BY <1>1, <1>17 DEF ReconcileCompensated
  <2>. QED
    BY <2>1, <2>2, <2>3
<1>18. CASE ReconcileRemoved
  <2>1. Settings' /\ Rows' /\ Flags'
    BY <1>1, <1>18 DEF ReconcileRemoved
  <2>2. Files' /\ Runs' /\ Callers'
    BY <1>1, <1>18 DEF ReconcileRemoved
  <2>3. Places' /\ Counts'
    BY <1>1, <1>18 DEF ReconcileRemoved
  <2>. QED
    BY <2>1, <2>2, <2>3
<1>19. CASE ReconcileDrift
  <2>1. Settings' /\ Rows' /\ Flags'
    BY <1>1, <1>19 DEF ReconcileDrift
  <2>2. Files' /\ Runs' /\ Callers'
    BY <1>1, <1>19 DEF ReconcileDrift
  <2>3. Places' /\ Counts'
    BY <1>1, <1>19 DEF ReconcileDrift
  <2>. QED
    BY <2>1, <2>2, <2>3
<1>20. CASE MtReconcileEnds
  <2>1. Settings' /\ Rows' /\ Flags'
    BY <1>1, <1>20 DEF MtReconcileEnds
  <2>2. Files' /\ Runs' /\ Callers'
    BY <1>1, <1>20 DEF MtReconcileEnds
  <2>3. Places' /\ Counts'
    BY <1>1, <1>20 DEF MtReconcileEnds
  <2>. QED
    BY <2>1, <2>2, <2>3
<1>21. CASE \E a \in MtIds : ReconcilePendingApply(a)
  <2>1. Settings' /\ Rows' /\ Flags'
    BY <1>1, <1>21 DEF ReconcilePendingApply
  <2>2. Files' /\ Runs' /\ Callers'
    BY <1>1, <1>21 DEF ReconcilePendingApply
  <2>3. Places' /\ Counts'
    BY <1>1, <1>21 DEF ReconcilePendingApply
  <2>. QED
    BY <2>1, <2>2, <2>3
<1>22. CASE \E a \in MtIds : ReconcileRemoval(a)
  <2>1. Settings' /\ Rows' /\ Flags'
    BY <1>1, <1>22 DEF ReconcileRemoval
  <2>2. Files' /\ Runs' /\ Callers'
    BY <1>1, <1>22 DEF ReconcileRemoval
  <2>3. Places' /\ Counts'
    BY <1>1, <1>22 DEF ReconcileRemoval
  <2>. QED
    BY <2>1, <2>2, <2>3
<1>23. CASE MtCrash
  <2>1. Settings' /\ Rows' /\ Flags'
    BY <1>1, <1>23 DEF MtCrash
  <2>2. Files' /\ Runs' /\ Callers'
    BY <1>1, <1>23 DEF MtCrash, NotLate, RunTypes
  <2>3. Places' /\ Counts'
    BY <1>1, <1>23 DEF MtCrash
  <2>. QED
    BY <2>1, <2>2, <2>3
<1>24. CASE \E u \in MtUsers : AskMtproto(u)
  <2>1. Settings' /\ Rows' /\ Flags'
    BY <1>1, <1>24 DEF AskMtproto
  <2>2. Files' /\ Runs' /\ Callers'
    BY <1>1, <1>24 DEF AskMtproto
  <2>3. Places' /\ Counts'
    BY <1>1, <1>24 DEF AskMtproto
  <2>. QED
    BY <2>1, <2>2, <2>3
<1>25. CASE \E u \in MtUsers : IssueManaged(u)
  <2>1. Settings' /\ Rows' /\ Flags'
    BY <1>1, <1>25 DEF IssueManaged
  <2>2. Files' /\ Runs' /\ Callers'
    BY <1>1, <1>25 DEF IssueManaged
  <2>3. Places' /\ Counts'
    BY <1>1, <1>25 DEF IssueManaged
  <2>. QED
    BY <2>1, <2>2, <2>3
<1>26. CASE \E u \in MtUsers : IssueStatic(u)
  <2>1. Settings' /\ Rows' /\ Flags'
    BY <1>1, <1>26 DEF IssueStatic
  <2>2. Files' /\ Runs' /\ Callers'
    BY <1>1, <1>26 DEF IssueStatic
  <2>3. Places' /\ Counts'
    BY <1>1, <1>26 DEF IssueStatic
  <2>. QED
    BY <2>1, <2>2, <2>3
<1>27. CASE \E a \in MtIds : AskRevoke(a)
  <2>1. Settings' /\ Rows' /\ Flags'
    BY <1>1, <1>27 DEF AskRevoke
  <2>2. Files' /\ Runs' /\ Callers'
    BY <1>1, <1>27 DEF AskRevoke
  <2>3. Places' /\ Counts'
    BY <1>1, <1>27 DEF AskRevoke
  <2>. QED
    BY <2>1, <2>2, <2>3
<1>28. CASE \E a \in MtIds : RevokeManaged(a)
  <2>1. Settings' /\ Rows' /\ Flags'
    BY <1>1, <1>28 DEF RevokeManaged
  <2>2. Files' /\ Runs' /\ Callers'
    BY <1>1, <1>28 DEF RevokeManaged
  <2>3. Places' /\ Counts'
    BY <1>1, <1>28 DEF RevokeManaged
  <2>. QED
    BY <2>1, <2>2, <2>3
<1>29. CASE \E a \in MtIds : DeactivateStatic(a)
  <2>1. Settings' /\ Rows' /\ Flags'
    BY <1>1, <1>29 DEF DeactivateStatic
  <2>2. Files' /\ Runs' /\ Callers'
    BY <1>1, <1>29 DEF DeactivateStatic
  <2>3. Places' /\ Counts'
    BY <1>1, <1>29 DEF DeactivateStatic
  <2>. QED
    BY <2>1, <2>2, <2>3
<1>30. CASE \E a \in MtIds : DeleteRow(a)
  <2>1. Settings' /\ Rows' /\ Flags'
    BY <1>1, <1>30 DEF DeleteRow
  <2>2. Files' /\ Runs' /\ Callers'
    BY <1>1, <1>30 DEF DeleteRow
  <2>3. Places' /\ Counts'
    BY <1>1, <1>30 DEF DeleteRow
  <2>. QED
    BY <2>1, <2>2, <2>3
<1>31. CASE UNCHANGED mtVars
  <2>1. Settings' /\ Rows' /\ Flags'
    BY <1>1, <1>31 DEF mtVars
  <2>2. Files' /\ Runs' /\ Callers'
    BY <1>1, <1>31 DEF mtVars
  <2>3. Places' /\ Counts'
    BY <1>1, <1>31 DEF mtVars
  <2>. QED
    BY <2>1, <2>2, <2>3
<1>. QED
  BY <1>2, <1>3, <1>4, <1>5, <1>6, <1>7, <1>8, <1>9, <1>10, <1>11, <1>12, <1>13, <1>14, <1>15, <1>16, <1>17, <1>18,
     <1>19, <1>20, <1>21, <1>22, <1>23, <1>24, <1>25, <1>26, <1>27, <1>28, <1>29, <1>30, <1>31 DEF MtNext, MtCall,
     MtStartup, Apply

\* What an apply is to write serves whom it should.
LEMMA TargetServes == ASSUME MInv, job \in JobSteps PROVE Serves(want)
<1>1. MtTypes /\ HolderInv /\ want = Target
  BY MtTypesAre DEF MInv, ApplyInv
<1>. QED
  BY <1>1 DEF MtTypes, HolderInv, Serves, Target, Desired, FinalStatuses, NoRow, JobSteps

\* A step that takes no file away and makes no row active or final keeps them serving.
LEMMA ServeKept ==
    ASSUME MtTypes, ServeInv, UNCHANGED <<mode, file, backup, late, overlapped>>, Desired' \subseteq Desired,
           job' \in JobSteps \ {"begin"} => job \in JobSteps \ {"begin"},
           \A a \in MtIds : mRow'[a] \in FinalStatuses \union {NoRow} => mRow[a] \in FinalStatuses \union {NoRow}
    PROVE  ServeInv'
<1>. SUFFICES ASSUME overlapped = "no" PROVE ServeInv'
  BY DEF ServeInv
<1>1. Serves(file) /\ (job \in JobSteps \ {"begin"} => Serves(backup)) /\ \A h \in AtWork : RunServes(h)
  BY DEF ServeInv
<1>2. Serves(file)' /\ (job' \in JobSteps \ {"begin"} => Serves(backup)')
  BY <1>1 DEF Serves, Managed, MtTypes
<1>3. ASSUME NEW h \in AtWork' PROVE RunServes(h)'
  <2>1. h \in AtWork /\ h \in LateRuns /\ late[h] \in RunTypes
    BY <1>3 DEF AtWork, MtTypes
  <2>2. RunServes(h)
    BY <1>1, <2>1
  <2>. QED
    BY <2>1, <2>2 DEF RunServes, Serves, Managed, RunTypes
<1>. QED
  BY <1>2, <1>3 DEF ServeInv

\* The steps of a late run change neither the rows nor the call at hand; what they put into
\* the file served whom it should when it was made.
LEMMA LateStep ==
    ASSUME MInv, NEW h \in LateRuns, LateActs(h)
    PROVE  StaticInv' /\ HolderInv' /\ PassedInv' /\ ApplyInv' /\ ServeInv' /\ LateInv' /\ RunningInv'
<1>1. MtTypes /\ StaticInv /\ HolderInv /\ PassedInv /\ ApplyInv /\ ServeInv /\ LateInv /\ RunningInv
  BY MtTypesAre DEF MInv
<1>. USE DEF LateActs, LateBackup, LateWrite, LateRestart, LateCheck, LateRestore, LateRollback, LateMoves, LateEnds
<1>2. UNCHANGED <<mode, rollsBack, mRow, mOwner, mWaiting, mQueued, mStep, mId, job, want, backup, mDegraded, mPhase,
                  mLast, mCrashes, torn, overlapped>>
  BY DEF KeepCaller, settings, callers, life
<1>3. h \in AtWork /\ \A k \in LateRuns : k # h => late'[k] = late[k]
  <2>1. h \in AtWork
    BY DEF AtWork, JobSteps
  <2>2. \E r : late' = [late EXCEPT ![h] = r]
    OBVIOUS
  <2>. QED
    BY <1>1, <2>1, <2>2 DEF MtTypes
<1>4. AtWork' \subseteq AtWork
  BY <1>3 DEF AtWork
<1>5. mode = "helper"
  BY <1>1, <1>3 DEF LateInv
<1>6. StaticInv' /\ HolderInv' /\ PassedInv'
  <2>1. StaticInv'
    BY <1>2, <1>5 DEF StaticInv
  <2>2. HolderInv' /\ PassedInv'
    BY <1>1, <1>2 DEF HolderInv, PassedInv, NextPending, Pending
  <2>. QED
    BY <2>1, <2>2
<1>7. ApplyInv'
  BY <1>1, <1>2, <1>3 DEF ApplyInv, LateInv, Target, Desired, JobSteps
<1>8. ServeInv'
  <2>. SUFFICES ASSUME overlapped = "no" PROVE ServeInv'
    BY <1>2 DEF ServeInv
  <2>0. Serves(file) /\ \A k \in AtWork : RunServes(k)
    BY <1>1 DEF ServeInv
  <2>1. Serves(file) /\ RunServes(h)
    BY <1>3, <2>0
  <2>2. job \in JobSteps => job = "begin"
    BY <1>1, <1>3 DEF LateInv, JobSteps
  <2>3. file' = file \/ (late[h].at = "write" /\ file' = late[h].new) \/ (late[h].at = "failed" /\ file' = late[h].old)
    OBVIOUS
  <2>4. Serves(file)'
    BY <1>2, <2>1, <2>3 DEF RunServes, Serves, Managed, Desired
  <2>5. ASSUME h \in AtWork'
        PROVE  late'[h].at # "write" /\ late'[h].old \in {file, late[h].old} /\ (late[h].at = "begin" => late'[h].old = file)
    <3>1. late \in [LateRuns -> RunTypes] /\ late[h] \in RunTypes
      BY <1>1 DEF MtTypes
    <3>2. late'[h].at \in JobSteps
      BY <2>5 DEF AtWork
    <3>3. CASE \E to \in {"restart", "failed", "rollback"} : LateMoves(h, to) /\ late[h].at # "begin"
      <4>1. PICK to \in {"restart", "failed", "rollback"} : LateMoves(h, to) /\ late[h].at # "begin"
        BY <3>3
      <4>2. late'[h] = [late[h] EXCEPT !.at = to, !.new = {}]
        BY <3>1, <4>1
      <4>3. late'[h].at = to /\ late'[h].old = late[h].old
        BY <3>1, <4>2 DEF RunTypes
      <4>. QED
        BY <4>1, <4>3
    <3>4. CASE LateEnds(h)
      <4>1. late'[h] = [NotLate EXCEPT !.at = "done"]
        BY <3>1, <3>4
      <4>2. late'[h].at = "done"
        BY <4>1 DEF NotLate
      <4>. QED
        BY <3>2, <4>2 DEF JobSteps
    <3>5. CASE late' = [late EXCEPT ![h].at = "failed", ![h].old = file]
      <4>1. late'[h] = [[late[h] EXCEPT !.at = "failed"] EXCEPT !.old = file]
        BY <3>1, <3>5
      <4>2. late'[h].at = "failed" /\ late'[h].old = file
        BY <3>1, <4>1 DEF RunTypes
      <4>. QED
        BY <4>2
    <3>. QED
      BY <3>3, <3>4, <3>5
  <2>6. ASSUME NEW k \in AtWork'
        PROVE  RunServes(k)'
    <3>1. CASE k = h
      BY <1>2, <2>1, <2>5, <2>6, <3>1 DEF RunServes, Serves, Managed, Desired
    <3>2. CASE k # h
      <4>1. k \in AtWork /\ k \in LateRuns /\ late'[k] = late[k]
        BY <1>3, <1>4, <2>6, <3>2 DEF AtWork
      <4>2. RunServes(k)
        BY <2>0, <4>1
      <4>. QED
        BY <1>2, <4>1, <4>2 DEF RunServes, Serves, Managed, Desired
    <3>. QED
      BY <3>1, <3>2
  <2>. QED
    BY <1>2, <2>2, <2>4, <2>6 DEF ServeInv
<1>9. LateInv'
  BY <1>1, <1>2, <1>4 DEF LateInv
<1>10. RunningInv'
  BY <1>1, <1>2 DEF RunningInv
<1>. QED
  BY <1>6, <1>7, <1>8, <1>9, <1>10

(* A step of the bot that leaves the late runs alone, and brings in as file and as  *)
(* backup what serves whom it should.                                           *)
LEMMA ApplyServes ==
    ASSUME ServeInv, UNCHANGED <<mode, mRow, late>>,
           overlapped' = "no" => overlapped = "no",
           overlapped = "no" => Serves(file'),
           overlapped = "no" /\ job' \in JobSteps \ {"begin"} => Serves(backup')
    PROVE  ServeInv'
<1>. SUFFICES ASSUME overlapped' = "no" PROVE ServeInv'
  BY DEF ServeInv
<1>1. Serves(file)' /\ (job' \in JobSteps \ {"begin"} => Serves(backup)')
  BY DEF Serves, Managed, Desired
<1>2. ASSUME NEW h \in AtWork'
      PROVE  RunServes(h)'
  <2>1. h \in AtWork /\ RunServes(h)
    BY <1>2 DEF ServeInv, AtWork
  <2>. QED
    BY <2>1 DEF RunServes, Serves, Managed, Desired
<1>. QED
  BY <1>1, <1>2 DEF ServeInv

\* The steps of an apply.
LEMMA MtApplyStep ==
    ASSUME MInv, ApplyUnchanged
                 \/ ApplyBackup
                 \/ ApplyWrite
                 \/ ApplyRestart
                 \/ ApplyCheck
                 \/ ApplyFails
                 \/ Rollback
                 \/ (\E h \in LateRuns : HelperTimesOut(h))
    PROVE  StaticInv' /\ HolderInv' /\ PassedInv' /\ ApplyInv' /\ ServeInv' /\ LateInv' /\ RunningInv'
<1>1. MtTypes /\ StaticInv /\ HolderInv /\ PassedInv /\ ApplyInv /\ ServeInv /\ LateInv /\ RunningInv
  BY MtTypesAre DEF MInv
<1>. USE MtBounds DEF SetMt, StartApply, Returns, EndCall, EndIssue, KeepCaller, KeepStart, KeepFiles, settings,
   callers, life, others, disk, NoRow, PendingRemoval, MtIds
<1>2. CASE ApplyUnchanged
  <2>1. StaticInv'
    BY <1>1, <1>2 DEF ApplyUnchanged, MtTypes, StaticInv, HolderInv, Managed
  <2>2. HolderInv'
    BY <1>1, <1>2 DEF ApplyUnchanged, MtTypes, HolderInv, StaticInv, NextPending, Pending, HalfWay, JobSteps
  <2>3. PassedInv'
    BY <1>1, <1>2 DEF ApplyUnchanged, MtTypes, PassedInv, HolderInv, HalfWay, NextPending, Pending
  <2>4. ApplyInv'
    BY <1>1, <1>2 DEF ApplyUnchanged, MtTypes, ApplyInv, LateInv, HolderInv, StaticInv, Target, JobSteps, Desired,
       Managed, FinalStatuses, ReadsFile
  <2>5. ServeInv'
    <3>1. UNCHANGED <<mode, mRow, late>> /\ (overlapped' = "no" => overlapped = "no")
      BY <1>2 DEF ApplyUnchanged, ReadsFile
    <3>2. ASSUME overlapped = "no"
          PROVE  Serves(file') /\ (job' \in JobSteps \ {"begin"} => Serves(backup'))
      <4>1. Serves(file) /\ (job \in JobSteps => Serves(want)) /\ (job \in JobSteps \ {"begin"} => Serves(backup))
        BY <1>1, <3>2, TargetServes DEF ServeInv
      <4>. QED
        BY <4>1, <1>2 DEF ApplyUnchanged, JobSteps
    <3>. QED
      BY <1>1, <3>1, <3>2, ApplyServes
  <2>6. LateInv'
    BY <1>1, <1>2 DEF ApplyUnchanged, MtTypes, ApplyInv, LateInv, HolderInv, StaticInv, JobSteps, AtWork, Managed,
       ReadsFile
  <2>7. RunningInv'
    BY <1>1, <1>2 DEF ApplyUnchanged, MtTypes, RunningInv, ApplyInv, LateInv, StaticInv, HolderInv, JobSteps,
       ReadsFile
  <2>. QED
    BY <2>1, <2>2, <2>3, <2>4, <2>5, <2>6, <2>7
<1>3. CASE ApplyBackup
  <2>1. StaticInv'
    BY <1>1, <1>3 DEF ApplyBackup, MtTypes, StaticInv, HolderInv, Managed
  <2>2. HolderInv'
    BY <1>1, <1>3 DEF ApplyBackup, MtTypes, HolderInv, StaticInv, NextPending, Pending, HalfWay, JobSteps
  <2>3. PassedInv'
    BY <1>1, <1>3 DEF ApplyBackup, MtTypes, PassedInv, HolderInv, HalfWay, NextPending, Pending
  <2>4. ApplyInv'
    BY <1>1, <1>3 DEF ApplyBackup, MtTypes, ApplyInv, LateInv, HolderInv, StaticInv, Target, JobSteps, Desired,
       Managed, FinalStatuses, ReadsFile
  <2>5. ServeInv'
    <3>1. UNCHANGED <<mode, mRow, late>> /\ (overlapped' = "no" => overlapped = "no")
      BY <1>3 DEF ApplyBackup, ReadsFile
    <3>2. ASSUME overlapped = "no"
          PROVE  Serves(file') /\ (job' \in JobSteps \ {"begin"} => Serves(backup'))
      <4>1. Serves(file) /\ (job \in JobSteps => Serves(want)) /\ (job \in JobSteps \ {"begin"} => Serves(backup))
        BY <1>1, <3>2, TargetServes DEF ServeInv
      <4>. QED
        BY <4>1, <1>3 DEF ApplyBackup, JobSteps
    <3>. QED
      BY <1>1, <3>1, <3>2, ApplyServes
  <2>6. LateInv'
    BY <1>1, <1>3 DEF ApplyBackup, MtTypes, ApplyInv, LateInv, HolderInv, StaticInv, JobSteps, AtWork, Managed,
       ReadsFile
  <2>7. RunningInv'
    BY <1>1, <1>3 DEF ApplyBackup, MtTypes, RunningInv, ApplyInv, LateInv, StaticInv, HolderInv, JobSteps, ReadsFile
  <2>. QED
    BY <2>1, <2>2, <2>3, <2>4, <2>5, <2>6, <2>7
<1>4. CASE ApplyWrite
  <2>1. StaticInv'
    BY <1>1, <1>4 DEF ApplyWrite, MtTypes, StaticInv, HolderInv, Managed
  <2>2. HolderInv'
    BY <1>1, <1>4 DEF ApplyWrite, MtTypes, HolderInv, StaticInv, NextPending, Pending, HalfWay, JobSteps
  <2>3. PassedInv'
    BY <1>1, <1>4 DEF ApplyWrite, MtTypes, PassedInv, HolderInv, HalfWay, NextPending, Pending
  <2>4. ApplyInv'
    BY <1>1, <1>4 DEF ApplyWrite, MtTypes, ApplyInv, LateInv, HolderInv, StaticInv, Target, JobSteps, Desired,
       Managed, FinalStatuses
  <2>5. ServeInv'
    <3>1. UNCHANGED <<mode, mRow, late>> /\ (overlapped' = "no" => overlapped = "no")
      BY <1>4 DEF ApplyWrite
    <3>2. ASSUME overlapped = "no"
          PROVE  Serves(file') /\ (job' \in JobSteps \ {"begin"} => Serves(backup'))
      <4>1. Serves(file) /\ (job \in JobSteps => Serves(want)) /\ (job \in JobSteps \ {"begin"} => Serves(backup))
        BY <1>1, <3>2, TargetServes DEF ServeInv
      <4>. QED
        BY <4>1, <1>4 DEF ApplyWrite, JobSteps
    <3>. QED
      BY <1>1, <3>1, <3>2, ApplyServes
  <2>6. LateInv'
    BY <1>1, <1>4 DEF ApplyWrite, MtTypes, ApplyInv, LateInv, HolderInv, StaticInv, JobSteps, AtWork, Managed
  <2>7. RunningInv'
    BY <1>1, <1>4 DEF ApplyWrite, MtTypes, RunningInv, ApplyInv, LateInv, StaticInv, HolderInv, JobSteps
  <2>. QED
    BY <2>1, <2>2, <2>3, <2>4, <2>5, <2>6, <2>7
<1>5. CASE ApplyRestart
  <2>1. StaticInv'
    BY <1>1, <1>5 DEF ApplyRestart, MtTypes, StaticInv, HolderInv, Managed
  <2>2. HolderInv'
    BY <1>1, <1>5 DEF ApplyRestart, MtTypes, HolderInv, StaticInv, NextPending, Pending, HalfWay, JobSteps
  <2>3. PassedInv'
    BY <1>1, <1>5 DEF ApplyRestart, MtTypes, PassedInv, HolderInv, HalfWay, NextPending, Pending
  <2>4. ApplyInv'
    BY <1>1, <1>5 DEF ApplyRestart, MtTypes, ApplyInv, LateInv, HolderInv, StaticInv, Target, JobSteps, Desired,
       Managed, FinalStatuses
  <2>5. ServeInv'
    <3>1. UNCHANGED <<mode, mRow, late>> /\ (overlapped' = "no" => overlapped = "no")
      BY <1>5 DEF ApplyRestart
    <3>2. ASSUME overlapped = "no"
          PROVE  Serves(file') /\ (job' \in JobSteps \ {"begin"} => Serves(backup'))
      <4>1. Serves(file) /\ (job \in JobSteps => Serves(want)) /\ (job \in JobSteps \ {"begin"} => Serves(backup))
        BY <1>1, <3>2, TargetServes DEF ServeInv
      <4>. QED
        BY <4>1, <1>5 DEF ApplyRestart, JobSteps
    <3>. QED
      BY <1>1, <3>1, <3>2, ApplyServes
  <2>6. LateInv'
    BY <1>1, <1>5 DEF ApplyRestart, MtTypes, ApplyInv, LateInv, HolderInv, StaticInv, JobSteps, AtWork, Managed
  <2>7. RunningInv'
    BY <1>1, <1>5 DEF ApplyRestart, MtTypes, RunningInv, ApplyInv, LateInv, StaticInv, HolderInv, JobSteps
  <2>. QED
    BY <2>1, <2>2, <2>3, <2>4, <2>5, <2>6, <2>7
<1>6. CASE ApplyCheck
  <2>1. StaticInv'
    BY <1>1, <1>6 DEF ApplyCheck, MtTypes, StaticInv, HolderInv, Managed
  <2>2. HolderInv'
    BY <1>1, <1>6 DEF ApplyCheck, MtTypes, HolderInv, StaticInv, NextPending, Pending, HalfWay, JobSteps
  <2>3. PassedInv'
    BY <1>1, <1>6 DEF ApplyCheck, MtTypes, PassedInv, HolderInv, HalfWay, NextPending, Pending
  <2>4. ApplyInv'
    BY <1>1, <1>6 DEF ApplyCheck, MtTypes, ApplyInv, LateInv, HolderInv, StaticInv, Target, JobSteps, Desired,
       Managed, FinalStatuses
  <2>5. ServeInv'
    <3>1. UNCHANGED <<mode, mRow, late>> /\ (overlapped' = "no" => overlapped = "no")
      BY <1>6 DEF ApplyCheck
    <3>2. ASSUME overlapped = "no"
          PROVE  Serves(file') /\ (job' \in JobSteps \ {"begin"} => Serves(backup'))
      <4>1. Serves(file) /\ (job \in JobSteps => Serves(want)) /\ (job \in JobSteps \ {"begin"} => Serves(backup))
        BY <1>1, <3>2, TargetServes DEF ServeInv
      <4>. QED
        BY <4>1, <1>6 DEF ApplyCheck, JobSteps
    <3>. QED
      BY <1>1, <3>1, <3>2, ApplyServes
  <2>6. LateInv'
    BY <1>1, <1>6 DEF ApplyCheck, MtTypes, ApplyInv, LateInv, HolderInv, StaticInv, JobSteps, AtWork, Managed
  <2>7. RunningInv'
    BY <1>1, <1>6 DEF ApplyCheck, MtTypes, RunningInv, ApplyInv, LateInv, StaticInv, HolderInv, JobSteps
  <2>. QED
    BY <2>1, <2>2, <2>3, <2>4, <2>5, <2>6, <2>7
<1>7. CASE ApplyFails
  <2>1. StaticInv'
    BY <1>1, <1>7 DEF ApplyFails, RollsBack, MtTypes, StaticInv, HolderInv, Managed
  <2>2. HolderInv'
    BY <1>1, <1>7 DEF ApplyFails, RollsBack, MtTypes, HolderInv, StaticInv, NextPending, Pending, HalfWay, JobSteps
  <2>3. PassedInv'
    BY <1>1, <1>7 DEF ApplyFails, RollsBack, MtTypes, PassedInv, HolderInv, HalfWay, NextPending, Pending
  <2>4. ApplyInv'
    BY <1>1, <1>7 DEF ApplyFails, RollsBack, MtTypes, ApplyInv, LateInv, HolderInv, StaticInv, Target, JobSteps,
       Desired, Managed, FinalStatuses
  <2>5. ServeInv'
    <3>1. UNCHANGED <<mode, mRow, late>> /\ (overlapped' = "no" => overlapped = "no")
      BY <1>7 DEF ApplyFails
    <3>2. ASSUME overlapped = "no"
          PROVE  Serves(file') /\ (job' \in JobSteps \ {"begin"} => Serves(backup'))
      <4>1. Serves(file) /\ (job \in JobSteps => Serves(want)) /\ (job \in JobSteps \ {"begin"} => Serves(backup))
        BY <1>1, <3>2, TargetServes DEF ServeInv
      <4>. QED
        BY <4>1, <1>7 DEF ApplyFails, RollsBack, JobSteps
    <3>. QED
      BY <1>1, <3>1, <3>2, ApplyServes
  <2>6. LateInv'
    BY <1>1, <1>7 DEF ApplyFails, RollsBack, MtTypes, ApplyInv, LateInv, HolderInv, StaticInv, JobSteps, AtWork,
       Managed
  <2>7. RunningInv'
    BY <1>1, <1>7 DEF ApplyFails, RollsBack, MtTypes, RunningInv, ApplyInv, LateInv, StaticInv, HolderInv, JobSteps
  <2>. QED
    BY <2>1, <2>2, <2>3, <2>4, <2>5, <2>6, <2>7
<1>8. CASE Rollback
  <2>1. StaticInv'
    BY <1>1, <1>8 DEF Rollback, MtTypes, StaticInv, HolderInv, Managed
  <2>2. HolderInv'
    BY <1>1, <1>8 DEF Rollback, MtTypes, HolderInv, StaticInv, NextPending, Pending, HalfWay, JobSteps
  <2>3. PassedInv'
    BY <1>1, <1>8 DEF Rollback, MtTypes, PassedInv, HolderInv, HalfWay, NextPending, Pending
  <2>4. ApplyInv'
    BY <1>1, <1>8 DEF Rollback, MtTypes, ApplyInv, LateInv, HolderInv, StaticInv, Target, JobSteps, Desired, Managed,
       FinalStatuses
  <2>5. ServeInv'
    <3>1. UNCHANGED <<mode, mRow, late>> /\ (overlapped' = "no" => overlapped = "no")
      BY <1>8 DEF Rollback
    <3>2. ASSUME overlapped = "no"
          PROVE  Serves(file') /\ (job' \in JobSteps \ {"begin"} => Serves(backup'))
      <4>1. Serves(file) /\ (job \in JobSteps => Serves(want)) /\ (job \in JobSteps \ {"begin"} => Serves(backup))
        BY <1>1, <3>2, TargetServes DEF ServeInv
      <4>. QED
        BY <4>1, <1>8 DEF Rollback, JobSteps
    <3>. QED
      BY <1>1, <3>1, <3>2, ApplyServes
  <2>6. LateInv'
    BY <1>1, <1>8 DEF Rollback, MtTypes, ApplyInv, LateInv, HolderInv, StaticInv, JobSteps, AtWork, Managed
  <2>7. RunningInv'
    BY <1>1, <1>8 DEF Rollback, MtTypes, RunningInv, ApplyInv, LateInv, StaticInv, HolderInv, JobSteps
  <2>. QED
    BY <2>1, <2>2, <2>3, <2>4, <2>5, <2>6, <2>7
<1>9. CASE \E h \in LateRuns : HelperTimesOut(h)
  <2>1. StaticInv'
    BY <1>1, <1>9 DEF HelperTimesOut, MtTypes, StaticInv, HolderInv, Managed
  <2>2. HolderInv'
    BY <1>1, <1>9 DEF HelperTimesOut, MtTypes, HolderInv, StaticInv, NextPending, Pending, HalfWay, JobSteps
  <2>3. PassedInv'
    BY <1>1, <1>9 DEF HelperTimesOut, MtTypes, PassedInv, HolderInv, HalfWay, NextPending, Pending
  <2>4. ApplyInv'
    BY <1>1, <1>9 DEF HelperTimesOut, MtTypes, ApplyInv, LateInv, HolderInv, StaticInv, Target, JobSteps, Desired,
       Managed, FinalStatuses, ReadsFile
  <2>5. ServeInv'
    <3>1. PICK h \in LateRuns : HelperTimesOut(h)
      BY <1>9
    <3>. SUFFICES ASSUME overlapped' = "no" PROVE ServeInv'
      BY DEF ServeInv
    <3>2. overlapped = "no" /\ AtWork = {} /\ UNCHANGED <<mode, mRow, file>> /\ job' = "raised" /\ job \in JobSteps
      BY <3>1 DEF HelperTimesOut, ReadsFile
    <3>3. Serves(file) /\ Serves(want) /\ (job # "begin" => Serves(backup))
      BY <1>1, <3>2, TargetServes DEF ServeInv
    <3>4. ASSUME NEW k \in AtWork' PROVE k = h
      BY <1>1, <3>1, <3>2, <3>4 DEF HelperTimesOut, AtWork, MtTypes
    <3>5. /\ late'[h].at = job /\ late'[h].old = backup /\ (job = "write" => late'[h].new = want)
      BY <1>1, <3>1 DEF HelperTimesOut, MtTypes
    <3>6. ASSUME NEW k \in AtWork'
          PROVE  RunServes(k)'
      BY <3>2, <3>3, <3>4, <3>5, <3>6 DEF RunServes, Serves, Managed, Desired
    <3>7. Serves(file)'
      BY <3>2, <3>3 DEF Serves, Managed, Desired
    <3>. QED
      BY <3>2, <3>6, <3>7 DEF ServeInv, JobSteps
  <2>6. LateInv'
    BY <1>1, <1>9 DEF HelperTimesOut, MtTypes, ApplyInv, LateInv, HolderInv, StaticInv, JobSteps, AtWork, Managed,
       ReadsFile
  <2>7. RunningInv'
    BY <1>1, <1>9 DEF HelperTimesOut, MtTypes, RunningInv, ApplyInv, LateInv, StaticInv, HolderInv, JobSteps,
       ReadsFile
  <2>. QED
    BY <2>1, <2>2, <2>3, <2>4, <2>5, <2>6, <2>7
<1>. QED
  BY <1>2, <1>3, <1>4, <1>5, <1>6, <1>7, <1>8, <1>9

\* The steps of a call.
LEMMA MtCallStep ==
    ASSUME MInv, IssueApplied
                 \/ IssueNotApplied
                 \/ CompensationFails
                 \/ RevokeApplied
                 \/ RevokeNotApplied
                 \/ (\E u \in MtUsers : AskMtproto(u))
                 \/ (\E u \in MtUsers : IssueManaged(u))
                 \/ (\E u \in MtUsers : IssueStatic(u))
                 \/ (\E a \in MtIds : AskRevoke(a))
                 \/ (\E a \in MtIds : RevokeManaged(a))
                 \/ (\E a \in MtIds : DeactivateStatic(a))
                 \/ (\E a \in MtIds : DeleteRow(a))
    PROVE  StaticInv' /\ HolderInv' /\ PassedInv' /\ ApplyInv' /\ ServeInv' /\ LateInv' /\ RunningInv'
<1>1. MtTypes /\ StaticInv /\ HolderInv /\ PassedInv /\ ApplyInv /\ ServeInv /\ LateInv /\ RunningInv
  BY MtTypesAre DEF MInv
<1>. USE MtBounds DEF SetMt, StartApply, Returns, EndCall, EndIssue, KeepCaller, KeepStart, KeepFiles, settings,
   callers, life, others, disk, NoRow, PendingRemoval, MtIds
<1>2. CASE IssueApplied
  <2>1. StaticInv'
    BY <1>1, <1>2 DEF IssueApplied, CanActivate, MtTypes, StaticInv, HolderInv, Managed
  <2>2. HolderInv'
    BY <1>1, <1>2 DEF IssueApplied, CanActivate, MtTypes, HolderInv, StaticInv, NextPending, Pending, HalfWay,
       JobSteps
  <2>3. PassedInv'
    BY <1>1, <1>2 DEF IssueApplied, CanActivate, MtTypes, PassedInv, HolderInv, HalfWay, NextPending, Pending
  <2>4. ApplyInv'
    BY <1>1, <1>2 DEF IssueApplied, CanActivate, MtTypes, ApplyInv, LateInv, HolderInv, StaticInv, Target, JobSteps,
       Desired, Managed, FinalStatuses
  <2>5. ServeInv'
    BY <1>1, <1>2 DEF IssueApplied, CanActivate, MtTypes, ApplyInv, ServeInv, LateInv, HolderInv, StaticInv, Serves,
       RunServes, RunTypes, Target, JobSteps, AtWork, Desired, Managed, FinalStatuses
  <2>6. LateInv'
    BY <1>1, <1>2 DEF IssueApplied, CanActivate, MtTypes, ApplyInv, LateInv, HolderInv, StaticInv, JobSteps, AtWork,
       Managed
  <2>7. RunningInv'
    BY <1>1, <1>2 DEF IssueApplied, CanActivate, MtTypes, RunningInv, ApplyInv, LateInv, StaticInv, HolderInv,
       JobSteps
  <2>. QED
    BY <2>1, <2>2, <2>3, <2>4, <2>5, <2>6, <2>7
<1>3. CASE IssueNotApplied
  <2>1. StaticInv'
    BY <1>1, <1>3 DEF IssueNotApplied, MtTypes, StaticInv, HolderInv, Managed
  <2>2. HolderInv'
    BY <1>1, <1>3 DEF IssueNotApplied, MtTypes, HolderInv, StaticInv, NextPending, Pending, HalfWay, JobSteps
  <2>3. PassedInv'
    BY <1>1, <1>3 DEF IssueNotApplied, MtTypes, PassedInv, HolderInv, HalfWay, NextPending, Pending
  <2>4. ApplyInv'
    BY <1>1, <1>3 DEF IssueNotApplied, MtTypes, ApplyInv, LateInv, HolderInv, StaticInv, Target, JobSteps, Desired,
       Managed, FinalStatuses
  <2>5. ServeInv'
    <3>1. UNCHANGED <<mode, file, backup, late, overlapped>> /\ job' = "none" /\ mRow[mId] = "pending_apply"
      BY <1>1, <1>3 DEF IssueNotApplied, HolderInv
    <3>2. Desired' \subseteq Desired
      BY <1>1, <1>3 DEF IssueNotApplied, Desired, MtTypes
    <3>3. \A a \in MtIds : mRow'[a] \in FinalStatuses \union {NoRow} => mRow[a] \in FinalStatuses \union {NoRow}
      BY <1>1, <1>3 DEF IssueNotApplied, FinalStatuses, MtTypes
    <3>. QED
      BY <1>1, <3>1, <3>2, <3>3, ServeKept DEF JobSteps
  <2>6. LateInv'
    BY <1>1, <1>3 DEF IssueNotApplied, MtTypes, ApplyInv, LateInv, HolderInv, StaticInv, JobSteps, AtWork, Managed
  <2>7. RunningInv'
    BY <1>1, <1>3 DEF IssueNotApplied, MtTypes, RunningInv, ApplyInv, LateInv, StaticInv, HolderInv, JobSteps
  <2>. QED
    BY <2>1, <2>2, <2>3, <2>4, <2>5, <2>6, <2>7
<1>4. CASE CompensationFails
  <2>1. StaticInv'
    BY <1>1, <1>4 DEF CompensationFails, MtTypes, StaticInv, HolderInv, Managed
  <2>2. HolderInv'
    BY <1>1, <1>4 DEF CompensationFails, MtTypes, HolderInv, StaticInv, NextPending, Pending, HalfWay, JobSteps
  <2>3. PassedInv'
    BY <1>1, <1>4 DEF CompensationFails, MtTypes, PassedInv, HolderInv, HalfWay, NextPending, Pending
  <2>4. ApplyInv'
    BY <1>1, <1>4 DEF CompensationFails, MtTypes, ApplyInv, LateInv, HolderInv, StaticInv, Target, JobSteps, Desired,
       Managed, FinalStatuses
  <2>5. ServeInv'
    BY <1>1, <1>4 DEF CompensationFails, MtTypes, ApplyInv, ServeInv, LateInv, HolderInv, StaticInv, Serves,
       RunServes, RunTypes, Target, JobSteps, AtWork, Desired, Managed, FinalStatuses
  <2>6. LateInv'
    BY <1>1, <1>4 DEF CompensationFails, MtTypes, ApplyInv, LateInv, HolderInv, StaticInv, JobSteps, AtWork, Managed
  <2>7. RunningInv'
    BY <1>1, <1>4 DEF CompensationFails, MtTypes, RunningInv, ApplyInv, LateInv, StaticInv, HolderInv, JobSteps
  <2>. QED
    BY <2>1, <2>2, <2>3, <2>4, <2>5, <2>6, <2>7
<1>5. CASE RevokeApplied
  <2>1. StaticInv'
    BY <1>1, <1>5 DEF RevokeApplied, RevokeRaises, MtTypes, StaticInv, HolderInv, Managed
  <2>2. HolderInv'
    BY <1>1, <1>5 DEF RevokeApplied, RevokeRaises, MtTypes, HolderInv, StaticInv, NextPending, Pending, HalfWay,
       JobSteps
  <2>3. PassedInv'
    BY <1>1, <1>5 DEF RevokeApplied, RevokeRaises, MtTypes, PassedInv, HolderInv, HalfWay, NextPending, Pending
  <2>4. ApplyInv'
    BY <1>1, <1>5 DEF RevokeApplied, RevokeRaises, MtTypes, ApplyInv, LateInv, HolderInv, StaticInv, Target,
       JobSteps, Desired, Managed, FinalStatuses
  <2>5. ServeInv'
    BY <1>1, <1>5 DEF RevokeApplied, RevokeRaises, MtTypes, ApplyInv, ServeInv, LateInv, HolderInv, StaticInv,
       Serves, RunServes, RunTypes, Target, JobSteps, AtWork, Desired, Managed, FinalStatuses
  <2>6. LateInv'
    BY <1>1, <1>5 DEF RevokeApplied, RevokeRaises, MtTypes, ApplyInv, LateInv, HolderInv, StaticInv, JobSteps,
       AtWork, Managed
  <2>7. RunningInv'
    BY <1>1, <1>5 DEF RevokeApplied, RevokeRaises, MtTypes, RunningInv, ApplyInv, LateInv, StaticInv, HolderInv,
       JobSteps
  <2>. QED
    BY <2>1, <2>2, <2>3, <2>4, <2>5, <2>6, <2>7
<1>6. CASE RevokeNotApplied
  <2>1. StaticInv'
    BY <1>1, <1>6 DEF RevokeNotApplied, MtTypes, StaticInv, HolderInv, Managed
  <2>2. HolderInv'
    BY <1>1, <1>6 DEF RevokeNotApplied, MtTypes, HolderInv, StaticInv, NextPending, Pending, HalfWay, JobSteps
  <2>3. PassedInv'
    BY <1>1, <1>6 DEF RevokeNotApplied, MtTypes, PassedInv, HolderInv, HalfWay, NextPending, Pending
  <2>4. ApplyInv'
    BY <1>1, <1>6 DEF RevokeNotApplied, MtTypes, ApplyInv, LateInv, HolderInv, StaticInv, Target, JobSteps, Desired,
       Managed, FinalStatuses
  <2>5. ServeInv'
    <3>1. UNCHANGED <<mode, file, backup, late, overlapped>> /\ job' = "none"
      BY <1>1, <1>6 DEF RevokeNotApplied
    <3>2. Desired' \subseteq Desired
      BY <1>1, <1>6 DEF RevokeNotApplied, Desired, MtTypes
    <3>3. \A a \in MtIds : mRow'[a] \in FinalStatuses \union {NoRow} => mRow[a] \in FinalStatuses \union {NoRow}
      BY <1>1, <1>6 DEF RevokeNotApplied, FinalStatuses, MtTypes
    <3>. QED
      BY <1>1, <3>1, <3>2, <3>3, ServeKept DEF JobSteps
  <2>6. LateInv'
    BY <1>1, <1>6 DEF RevokeNotApplied, MtTypes, ApplyInv, LateInv, HolderInv, StaticInv, JobSteps, AtWork, Managed
  <2>7. RunningInv'
    BY <1>1, <1>6 DEF RevokeNotApplied, MtTypes, RunningInv, ApplyInv, LateInv, StaticInv, HolderInv, JobSteps
  <2>. QED
    BY <2>1, <2>2, <2>3, <2>4, <2>5, <2>6, <2>7
<1>7. CASE \E u \in MtUsers : AskMtproto(u)
  <2>1. StaticInv'
    BY <1>1, <1>7 DEF AskMtproto, MayCall, MtTypes, StaticInv, HolderInv, Managed
  <2>2. HolderInv'
    BY <1>1, <1>7 DEF AskMtproto, MayCall, MtTypes, HolderInv, StaticInv, NextPending, Pending, HalfWay, JobSteps
  <2>3. PassedInv'
    BY <1>1, <1>7 DEF AskMtproto, MayCall, MtTypes, PassedInv, HolderInv, HalfWay, NextPending, Pending
  <2>4. ApplyInv'
    BY <1>1, <1>7 DEF AskMtproto, MayCall, MtTypes, ApplyInv, LateInv, HolderInv, StaticInv, Target, JobSteps,
       Desired, Managed, FinalStatuses
  <2>5. ServeInv'
    <3>1. UNCHANGED <<mode, file, backup, late, overlapped, mRow, job>>
      BY <1>7 DEF AskMtproto
    <3>. QED
      BY <1>1, <3>1, ServeKept DEF Desired
  <2>6. LateInv'
    BY <1>1, <1>7 DEF AskMtproto, MayCall, MtTypes, ApplyInv, LateInv, HolderInv, StaticInv, JobSteps, AtWork, Managed
  <2>7. RunningInv'
    BY <1>1, <1>7 DEF AskMtproto, MayCall, MtTypes, RunningInv, ApplyInv, LateInv, StaticInv, HolderInv, JobSteps
  <2>. QED
    BY <2>1, <2>2, <2>3, <2>4, <2>5, <2>6, <2>7
<1>8. CASE \E u \in MtUsers : IssueManaged(u)
  <2>1. StaticInv'
    BY <1>1, <1>8 DEF IssueManaged, Free, FreshId, ActiveOf, MtAllows, MtTypes, StaticInv, HolderInv, Managed
  <2>2. HolderInv'
    BY <1>1, <1>8 DEF IssueManaged, Free, FreshId, ActiveOf, MtAllows, MtTypes, HolderInv, StaticInv, NextPending,
       Pending, HalfWay, JobSteps
  <2>3. PassedInv'
    BY <1>1, <1>8 DEF IssueManaged, Free, FreshId, ActiveOf, MtAllows, MtTypes, PassedInv, HolderInv, HalfWay,
       NextPending, Pending
  <2>4. ApplyInv'
    BY <1>1, <1>8 DEF IssueManaged, Free, FreshId, ActiveOf, MtAllows, MtTypes, ApplyInv, LateInv, HolderInv,
       StaticInv, Target, JobSteps, Desired, Managed, FinalStatuses
  <2>5. ServeInv'
    <3>1. /\ UNCHANGED <<mode, file, backup, late, overlapped>> /\ job' \in {job, "begin"}
          /\ mRow' = mRow \/ \E a \in MtIds : mRow[a] = NoRow /\ mRow' = [mRow EXCEPT ![a] = "pending_apply"]
      BY <1>8 DEF IssueManaged, FreshId
    <3>2. Desired' \subseteq Desired
      BY <1>1, <3>1 DEF Desired, MtTypes
    <3>3. \A a \in MtIds : mRow'[a] \in FinalStatuses \union {NoRow} => mRow[a] \in FinalStatuses \union {NoRow}
      BY <1>1, <3>1 DEF FinalStatuses, MtTypes
    <3>. QED
      BY <1>1, <3>1, <3>2, <3>3, ServeKept DEF JobSteps
  <2>6. LateInv'
    BY <1>1, <1>8 DEF IssueManaged, Free, FreshId, ActiveOf, MtAllows, MtTypes, ApplyInv, LateInv, HolderInv,
       StaticInv, JobSteps, AtWork, Managed
  <2>7. RunningInv'
    BY <1>1, <1>8 DEF IssueManaged, Free, FreshId, ActiveOf, MtAllows, MtTypes, RunningInv, ApplyInv, LateInv,
       StaticInv, HolderInv, JobSteps
  <2>. QED
    BY <2>1, <2>2, <2>3, <2>4, <2>5, <2>6, <2>7
<1>9. CASE \E u \in MtUsers : IssueStatic(u)
  <2>1. StaticInv'
    BY <1>1, <1>9 DEF IssueStatic, FreshId, ActiveOf, MtAllows, MtTypes, StaticInv, HolderInv, Managed
  <2>2. HolderInv'
    BY <1>1, <1>9 DEF IssueStatic, FreshId, ActiveOf, MtAllows, MtTypes, HolderInv, StaticInv, NextPending, Pending,
       HalfWay, JobSteps
  <2>3. PassedInv'
    BY <1>1, <1>9 DEF IssueStatic, FreshId, ActiveOf, MtAllows, MtTypes, PassedInv, HolderInv, HalfWay, NextPending,
       Pending
  <2>4. ApplyInv'
    BY <1>1, <1>9 DEF IssueStatic, FreshId, ActiveOf, MtAllows, MtTypes, ApplyInv, LateInv, HolderInv, StaticInv,
       Target, JobSteps, Desired, Managed, FinalStatuses
  <2>5. ServeInv'
    BY <1>1, <1>9 DEF IssueStatic, FreshId, ActiveOf, MtAllows, MtTypes, ApplyInv, ServeInv, LateInv, HolderInv,
       StaticInv, Serves, RunServes, RunTypes, Target, JobSteps, AtWork, Desired, Managed, FinalStatuses
  <2>6. LateInv'
    BY <1>1, <1>9 DEF IssueStatic, FreshId, ActiveOf, MtAllows, MtTypes, ApplyInv, LateInv, HolderInv, StaticInv,
       JobSteps, AtWork, Managed
  <2>7. RunningInv'
    BY <1>1, <1>9 DEF IssueStatic, FreshId, ActiveOf, MtAllows, MtTypes, RunningInv, ApplyInv, LateInv, StaticInv,
       HolderInv, JobSteps
  <2>. QED
    BY <2>1, <2>2, <2>3, <2>4, <2>5, <2>6, <2>7
<1>10. CASE \E a \in MtIds : AskRevoke(a)
  <2>1. StaticInv'
    BY <1>1, <1>10 DEF AskRevoke, MayCall, MtTypes, StaticInv, HolderInv, Managed
  <2>2. HolderInv'
    BY <1>1, <1>10 DEF AskRevoke, MayCall, MtTypes, HolderInv, StaticInv, NextPending, Pending, HalfWay, JobSteps
  <2>3. PassedInv'
    BY <1>1, <1>10 DEF AskRevoke, MayCall, MtTypes, PassedInv, HolderInv, HalfWay, NextPending, Pending
  <2>4. ApplyInv'
    BY <1>1, <1>10 DEF AskRevoke, MayCall, MtTypes, ApplyInv, LateInv, HolderInv, StaticInv, Target, JobSteps,
       Desired, Managed, FinalStatuses
  <2>5. ServeInv'
    <3>1. UNCHANGED <<mode, file, backup, late, overlapped, mRow, job>>
      BY <1>10 DEF AskRevoke
    <3>. QED
      BY <1>1, <3>1, ServeKept DEF Desired
  <2>6. LateInv'
    BY <1>1, <1>10 DEF AskRevoke, MayCall, MtTypes, ApplyInv, LateInv, HolderInv, StaticInv, JobSteps, AtWork, Managed
  <2>7. RunningInv'
    BY <1>1, <1>10 DEF AskRevoke, MayCall, MtTypes, RunningInv, ApplyInv, LateInv, StaticInv, HolderInv, JobSteps
  <2>. QED
    BY <2>1, <2>2, <2>3, <2>4, <2>5, <2>6, <2>7
<1>11. CASE \E a \in MtIds : RevokeManaged(a)
  <2>1. StaticInv'
    BY <1>1, <1>11 DEF RevokeManaged, Free, FinalStatuses, MtAllows, MtTypes, StaticInv, HolderInv, Managed
  <2>2. HolderInv'
    BY <1>1, <1>11 DEF RevokeManaged, Free, FinalStatuses, MtAllows, MtTypes, HolderInv, StaticInv, NextPending,
       Pending, HalfWay, JobSteps
  <2>3. PassedInv'
    BY <1>1, <1>11 DEF RevokeManaged, Free, FinalStatuses, MtAllows, MtTypes, PassedInv, HolderInv, HalfWay,
       NextPending, Pending
  <2>4. ApplyInv'
    BY <1>1, <1>11 DEF RevokeManaged, Free, FinalStatuses, MtAllows, MtTypes, ApplyInv, LateInv, HolderInv,
       StaticInv, Target, JobSteps, Desired, Managed
  <2>5. ServeInv'
    <3>1. /\ UNCHANGED <<mode, file, backup, late, overlapped>> /\ job' \in {job, "begin"}
          /\ mRow' = mRow \/ \E a \in MtIds : mRow' = [mRow EXCEPT ![a] = "pending_revoke"]
      BY <1>11 DEF RevokeManaged
    <3>2. Desired' \subseteq Desired
      BY <1>1, <3>1 DEF Desired, MtTypes
    <3>3. \A a \in MtIds : mRow'[a] \in FinalStatuses \union {NoRow} => mRow[a] \in FinalStatuses \union {NoRow}
      BY <1>1, <3>1 DEF FinalStatuses, MtTypes
    <3>. QED
      BY <1>1, <3>1, <3>2, <3>3, ServeKept DEF JobSteps
  <2>6. LateInv'
    BY <1>1, <1>11 DEF RevokeManaged, Free, FinalStatuses, MtAllows, MtTypes, ApplyInv, LateInv, HolderInv,
       StaticInv, JobSteps, AtWork, Managed
  <2>7. RunningInv'
    BY <1>1, <1>11 DEF RevokeManaged, Free, FinalStatuses, MtAllows, MtTypes, RunningInv, ApplyInv, LateInv,
       StaticInv, HolderInv, JobSteps
  <2>. QED
    BY <2>1, <2>2, <2>3, <2>4, <2>5, <2>6, <2>7
<1>12. CASE \E a \in MtIds : DeactivateStatic(a)
  <2>1. StaticInv'
    BY <1>1, <1>12 DEF DeactivateStatic, DeactivateRaises, MtTypes, StaticInv, HolderInv, Managed
  <2>2. HolderInv'
    BY <1>1, <1>12 DEF DeactivateStatic, DeactivateRaises, MtTypes, HolderInv, StaticInv, NextPending, Pending,
       HalfWay, JobSteps
  <2>3. PassedInv'
    BY <1>1, <1>12 DEF DeactivateStatic, DeactivateRaises, MtTypes, PassedInv, HolderInv, HalfWay, NextPending,
       Pending
  <2>4. ApplyInv'
    BY <1>1, <1>12 DEF DeactivateStatic, DeactivateRaises, MtTypes, ApplyInv, LateInv, HolderInv, StaticInv, Target,
       JobSteps, Desired, Managed, FinalStatuses
  <2>5. ServeInv'
    BY <1>1, <1>12 DEF DeactivateStatic, DeactivateRaises, MtTypes, ApplyInv, ServeInv, LateInv, HolderInv,
       StaticInv, Serves, RunServes, RunTypes, Target, JobSteps, AtWork, Desired, Managed, FinalStatuses
  <2>6. LateInv'
    BY <1>1, <1>12 DEF DeactivateStatic, DeactivateRaises, MtTypes, ApplyInv, LateInv, HolderInv, StaticInv,
       JobSteps, AtWork, Managed
  <2>7. RunningInv'
    BY <1>1, <1>12 DEF DeactivateStatic, DeactivateRaises, MtTypes, RunningInv, ApplyInv, LateInv, StaticInv,
       HolderInv, JobSteps
  <2>. QED
    BY <2>1, <2>2, <2>3, <2>4, <2>5, <2>6, <2>7
<1>13. CASE \E a \in MtIds : DeleteRow(a)
  <2>1. StaticInv'
    BY <1>1, <1>13 DEF DeleteRow, Free, DeleteRaises, MtTypes, StaticInv, HolderInv, Managed
  <2>2. HolderInv'
    BY <1>1, <1>13 DEF DeleteRow, Free, DeleteRaises, MtTypes, HolderInv, StaticInv, NextPending, Pending, HalfWay,
       JobSteps
  <2>3. PassedInv'
    BY <1>1, <1>13 DEF DeleteRow, Free, DeleteRaises, MtTypes, PassedInv, HolderInv, HalfWay, NextPending, Pending
  <2>4. ApplyInv'
    BY <1>1, <1>13 DEF DeleteRow, Free, DeleteRaises, MtTypes, ApplyInv, LateInv, HolderInv, StaticInv, Target,
       JobSteps, Desired, Managed, FinalStatuses
  <2>5. ServeInv'
    BY <1>1, <1>13 DEF DeleteRow, Free, DeleteRaises, MtTypes, ApplyInv, ServeInv, LateInv, HolderInv, StaticInv,
       Serves, RunServes, RunTypes, Target, JobSteps, AtWork, Desired, Managed, FinalStatuses
  <2>6. LateInv'
    BY <1>1, <1>13 DEF DeleteRow, Free, DeleteRaises, MtTypes, ApplyInv, LateInv, HolderInv, StaticInv, JobSteps,
       AtWork, Managed
  <2>7. RunningInv'
    BY <1>1, <1>13 DEF DeleteRow, Free, DeleteRaises, MtTypes, RunningInv, ApplyInv, LateInv, StaticInv, HolderInv,
       JobSteps
  <2>. QED
    BY <2>1, <2>2, <2>3, <2>4, <2>5, <2>6, <2>7
<1>. QED
  BY <1>2, <1>3, <1>4, <1>5, <1>6, <1>7, <1>8, <1>9, <1>10, <1>11, <1>12, <1>13

\* The steps of a start, and a crash.
LEMMA MtStartStep ==
    ASSUME MInv, MtStart
                 \/ ReconcileCompensated
                 \/ ReconcileRemoved
                 \/ ReconcileDrift
                 \/ MtReconcileEnds
                 \/ (\E a \in MtIds : ReconcilePendingApply(a))
                 \/ (\E a \in MtIds : ReconcileRemoval(a))
                 \/ MtCrash
                 \/ UNCHANGED mtVars
    PROVE  StaticInv' /\ HolderInv' /\ PassedInv' /\ ApplyInv' /\ ServeInv' /\ LateInv' /\ RunningInv'
<1>1. MtTypes /\ StaticInv /\ HolderInv /\ PassedInv /\ ApplyInv /\ ServeInv /\ LateInv /\ RunningInv
  BY MtTypesAre DEF MInv
<1>. USE MtBounds DEF SetMt, StartApply, Returns, EndCall, EndIssue, KeepCaller, KeepStart, KeepFiles, settings,
   callers, life, others, disk, NoRow, PendingRemoval, MtIds
<1>2. CASE MtStart
  <2>1. StaticInv'
    BY <1>1, <1>2 DEF MtStart, MtTypes, StaticInv, HolderInv, Managed
  <2>2. HolderInv'
    BY <1>1, <1>2 DEF MtStart, MtTypes, HolderInv, StaticInv, NextPending, Pending, HalfWay, JobSteps
  <2>3. PassedInv'
    BY <1>1, <1>2 DEF MtStart, MtTypes, PassedInv, HolderInv, HalfWay, NextPending, Pending
  <2>4. ApplyInv'
    BY <1>1, <1>2 DEF MtStart, MtTypes, ApplyInv, LateInv, HolderInv, StaticInv, Target, JobSteps, Desired, Managed,
       FinalStatuses
  <2>5. ServeInv'
    BY <1>1, <1>2 DEF MtStart, MtTypes, ApplyInv, ServeInv, LateInv, HolderInv, StaticInv, Serves, RunServes,
       RunTypes, Target, JobSteps, AtWork, Desired, Managed, FinalStatuses
  <2>6. LateInv'
    BY <1>1, <1>2 DEF MtStart, MtTypes, ApplyInv, LateInv, HolderInv, StaticInv, JobSteps, AtWork, Managed
  <2>7. RunningInv'
    BY <1>1, <1>2 DEF MtStart, MtTypes, RunningInv, ApplyInv, LateInv, StaticInv, HolderInv, JobSteps
  <2>. QED
    BY <2>1, <2>2, <2>3, <2>4, <2>5, <2>6, <2>7
<1>3. CASE ReconcileCompensated
  <2>1. StaticInv'
    BY <1>1, <1>3 DEF ReconcileCompensated, Done, MtTypes, StaticInv, HolderInv, Managed
  <2>2. HolderInv'
    BY <1>1, <1>3 DEF ReconcileCompensated, Done, MtTypes, HolderInv, StaticInv, NextPending, Pending, HalfWay,
       JobSteps
  <2>3. PassedInv'
    BY <1>1, <1>3 DEF ReconcileCompensated, Done, MtTypes, PassedInv, HolderInv, HalfWay, NextPending, Pending
  <2>4. ApplyInv'
    BY <1>1, <1>3 DEF ReconcileCompensated, Done, MtTypes, ApplyInv, LateInv, HolderInv, StaticInv, Target, JobSteps,
       Desired, Managed, FinalStatuses
  <2>5. ServeInv'
    BY <1>1, <1>3 DEF ReconcileCompensated, Done, MtTypes, ApplyInv, ServeInv, LateInv, HolderInv, StaticInv, Serves,
       RunServes, RunTypes, Target, JobSteps, AtWork, Desired, Managed, FinalStatuses
  <2>6. LateInv'
    BY <1>1, <1>3 DEF ReconcileCompensated, Done, MtTypes, ApplyInv, LateInv, HolderInv, StaticInv, JobSteps, AtWork,
       Managed
  <2>7. RunningInv'
    BY <1>1, <1>3 DEF ReconcileCompensated, Done, MtTypes, RunningInv, ApplyInv, LateInv, StaticInv, HolderInv,
       JobSteps
  <2>. QED
    BY <2>1, <2>2, <2>3, <2>4, <2>5, <2>6, <2>7
<1>4. CASE ReconcileRemoved
  <2>1. StaticInv'
    BY <1>1, <1>4 DEF ReconcileRemoved, Fatal, Done, MtTypes, StaticInv, HolderInv, Managed
  <2>2. HolderInv'
    BY <1>1, <1>4 DEF ReconcileRemoved, Fatal, Done, MtTypes, HolderInv, StaticInv, NextPending, Pending, HalfWay,
       JobSteps
  <2>3. PassedInv'
    BY <1>1, <1>4 DEF ReconcileRemoved, Fatal, Done, MtTypes, PassedInv, HolderInv, HalfWay, NextPending, Pending
  <2>4. ApplyInv'
    BY <1>1, <1>4 DEF ReconcileRemoved, Fatal, Done, MtTypes, ApplyInv, LateInv, HolderInv, StaticInv, Target,
       JobSteps, Desired, Managed, FinalStatuses
  <2>5. ServeInv'
    BY <1>1, <1>4 DEF ReconcileRemoved, Fatal, Done, MtTypes, ApplyInv, ServeInv, LateInv, HolderInv, StaticInv,
       Serves, RunServes, RunTypes, Target, JobSteps, AtWork, Desired, Managed, FinalStatuses
  <2>6. LateInv'
    BY <1>1, <1>4 DEF ReconcileRemoved, Fatal, Done, MtTypes, ApplyInv, LateInv, HolderInv, StaticInv, JobSteps,
       AtWork, Managed
  <2>7. RunningInv'
    BY <1>1, <1>4 DEF ReconcileRemoved, Fatal, Done, MtTypes, RunningInv, ApplyInv, LateInv, StaticInv, HolderInv,
       JobSteps
  <2>. QED
    BY <2>1, <2>2, <2>3, <2>4, <2>5, <2>6, <2>7
<1>5. CASE ReconcileDrift
  <2>1. StaticInv'
    BY <1>1, <1>5 DEF ReconcileDrift, Reconciles, MtTypes, StaticInv, HolderInv, Managed
  <2>2. HolderInv'
    BY <1>1, <1>5 DEF ReconcileDrift, Reconciles, MtTypes, HolderInv, StaticInv, NextPending, Pending, HalfWay,
       JobSteps
  <2>3. PassedInv'
    BY <1>1, <1>5 DEF ReconcileDrift, Reconciles, MtTypes, PassedInv, HolderInv, HalfWay, NextPending, Pending
  <2>4. ApplyInv'
    BY <1>1, <1>5 DEF ReconcileDrift, Reconciles, MtTypes, ApplyInv, LateInv, HolderInv, StaticInv, Target, JobSteps,
       Desired, Managed, FinalStatuses
  <2>5. ServeInv'
    BY <1>1, <1>5 DEF ReconcileDrift, Reconciles, MtTypes, ApplyInv, ServeInv, LateInv, HolderInv, StaticInv, Serves,
       RunServes, RunTypes, Target, JobSteps, AtWork, Desired, Managed, FinalStatuses
  <2>6. LateInv'
    BY <1>1, <1>5 DEF ReconcileDrift, Reconciles, MtTypes, ApplyInv, LateInv, HolderInv, StaticInv, JobSteps, AtWork,
       Managed
  <2>7. RunningInv'
    BY <1>1, <1>5 DEF ReconcileDrift, Reconciles, MtTypes, RunningInv, ApplyInv, LateInv, StaticInv, HolderInv,
       JobSteps
  <2>. QED
    BY <2>1, <2>2, <2>3, <2>4, <2>5, <2>6, <2>7
<1>6. CASE MtReconcileEnds
  <2>1. StaticInv'
    BY <1>1, <1>6 DEF MtReconcileEnds, Reconciles, Fatal, Pending, MtTypes, StaticInv, HolderInv, Managed
  <2>2. HolderInv'
    BY <1>1, <1>6 DEF MtReconcileEnds, Reconciles, Fatal, Pending, MtTypes, HolderInv, StaticInv, NextPending,
       HalfWay, JobSteps
  <2>3. PassedInv'
    BY <1>1, <1>6 DEF MtReconcileEnds, Reconciles, Fatal, Pending, MtTypes, PassedInv, HolderInv, HalfWay, NextPending
  <2>4. ApplyInv'
    BY <1>1, <1>6 DEF MtReconcileEnds, Reconciles, Fatal, Pending, MtTypes, ApplyInv, LateInv, HolderInv, StaticInv,
       Target, JobSteps, Desired, Managed, FinalStatuses
  <2>5. ServeInv'
    BY <1>1, <1>6 DEF MtReconcileEnds, Reconciles, Fatal, Pending, MtTypes, ApplyInv, ServeInv, LateInv, HolderInv,
       StaticInv, Serves, RunServes, RunTypes, Target, JobSteps, AtWork, Desired, Managed, FinalStatuses
  <2>6. LateInv'
    BY <1>1, <1>6 DEF MtReconcileEnds, Reconciles, Fatal, Pending, MtTypes, ApplyInv, LateInv, HolderInv, StaticInv,
       JobSteps, AtWork, Managed
  <2>7. RunningInv'
    BY <1>1, <1>6 DEF MtReconcileEnds, Reconciles, Fatal, Pending, MtTypes, RunningInv, ApplyInv, LateInv, StaticInv,
       HolderInv, JobSteps
  <2>. QED
    BY <2>1, <2>2, <2>3, <2>4, <2>5, <2>6, <2>7
<1>7. CASE \E a \in MtIds : ReconcilePendingApply(a)
  <2>1. StaticInv'
    BY <1>1, <1>7 DEF ReconcilePendingApply, Reconciles, Fatal, NextPending, Pending, Done, MtTypes, StaticInv,
       HolderInv, Managed
  <2>2. HolderInv'
    BY <1>1, <1>7 DEF ReconcilePendingApply, Reconciles, Fatal, NextPending, Pending, Done, MtTypes, HolderInv,
       StaticInv, HalfWay, JobSteps
  <2>3. PassedInv'
    BY <1>1, <1>7 DEF ReconcilePendingApply, Reconciles, Fatal, NextPending, Pending, Done, MtTypes, PassedInv,
       HolderInv, HalfWay
  <2>4. ApplyInv'
    BY <1>1, <1>7 DEF ReconcilePendingApply, Reconciles, Fatal, NextPending, Pending, Done, MtTypes, ApplyInv,
       LateInv, HolderInv, StaticInv, Target, JobSteps, Desired, Managed, FinalStatuses, ReadsFile
  <2>5. ServeInv'
    BY <1>1, <1>7 DEF ReconcilePendingApply, Reconciles, Fatal, NextPending, Pending, Done, MtTypes, ApplyInv,
       ServeInv, LateInv, HolderInv, StaticInv, Serves, RunServes, RunTypes, Target, JobSteps, AtWork, Desired,
       Managed, FinalStatuses, ReadsFile
  <2>6. LateInv'
    BY <1>1, <1>7 DEF ReconcilePendingApply, Reconciles, Fatal, NextPending, Pending, Done, MtTypes, ApplyInv,
       LateInv, HolderInv, StaticInv, JobSteps, AtWork, Managed, ReadsFile
  <2>7. RunningInv'
    BY <1>1, <1>7 DEF ReconcilePendingApply, Reconciles, Fatal, NextPending, Pending, Done, MtTypes, RunningInv,
       ApplyInv, LateInv, StaticInv, HolderInv, JobSteps, ReadsFile
  <2>. QED
    BY <2>1, <2>2, <2>3, <2>4, <2>5, <2>6, <2>7
<1>8. CASE \E a \in MtIds : ReconcileRemoval(a)
  <2>1. StaticInv'
    BY <1>1, <1>8 DEF ReconcileRemoval, Reconciles, Fatal, Done, MtTypes, StaticInv, HolderInv, Managed
  <2>2. HolderInv'
    BY <1>1, <1>8 DEF ReconcileRemoval, Reconciles, Fatal, Done, MtTypes, HolderInv, StaticInv, NextPending, Pending,
       HalfWay, JobSteps
  <2>3. PassedInv'
    BY <1>1, <1>8 DEF ReconcileRemoval, Reconciles, Fatal, Done, MtTypes, PassedInv, HolderInv, HalfWay, NextPending,
       Pending
  <2>4. ApplyInv'
    BY <1>1, <1>8 DEF ReconcileRemoval, Reconciles, Fatal, Done, MtTypes, ApplyInv, LateInv, HolderInv, StaticInv,
       Target, JobSteps, Desired, Managed, FinalStatuses
  <2>5. ServeInv'
    BY <1>1, <1>8 DEF ReconcileRemoval, Reconciles, Fatal, Done, MtTypes, ApplyInv, ServeInv, LateInv, HolderInv,
       StaticInv, Serves, RunServes, RunTypes, Target, JobSteps, AtWork, Desired, Managed, FinalStatuses
  <2>6. LateInv'
    BY <1>1, <1>8 DEF ReconcileRemoval, Reconciles, Fatal, Done, MtTypes, ApplyInv, LateInv, HolderInv, StaticInv,
       JobSteps, AtWork, Managed
  <2>7. RunningInv'
    BY <1>1, <1>8 DEF ReconcileRemoval, Reconciles, Fatal, Done, MtTypes, RunningInv, ApplyInv, LateInv, StaticInv,
       HolderInv, JobSteps
  <2>. QED
    BY <2>1, <2>2, <2>3, <2>4, <2>5, <2>6, <2>7
<1>9. CASE MtCrash
  <2>1. StaticInv'
    BY <1>1, <1>9 DEF MtCrash, MtTypes, StaticInv, HolderInv, Managed
  <2>2. HolderInv'
    BY <1>1, <1>9 DEF MtCrash, MtTypes, HolderInv, StaticInv, NextPending, Pending, HalfWay, JobSteps
  <2>3. PassedInv'
    BY <1>1, <1>9 DEF MtCrash, MtTypes, PassedInv, HolderInv, HalfWay, NextPending, Pending
  <2>4. ApplyInv'
    BY <1>1, <1>9 DEF MtCrash, MtTypes, ApplyInv, LateInv, HolderInv, StaticInv, Target, JobSteps, Desired, Managed,
       FinalStatuses
  <2>5. ServeInv'
    <3>1. /\ UNCHANGED <<mode, mRow, file>> /\ job' = "none" /\ AtWork' = {}
          /\ overlapped' = "no" => overlapped = "no"
      BY <1>9 DEF MtCrash, AtWork, NotLate, JobSteps
    <3>2. overlapped = "no" => Serves(file)'
      BY <1>1, <3>1 DEF ServeInv, Serves, Managed, Desired
    <3>. QED
      BY <3>1, <3>2 DEF ServeInv, JobSteps
  <2>6. LateInv'
    <3>1. /\ job' = "none" /\ AtWork' = {} /\ overlapped' # "now" /\ mPhase' = "down" /\ mode' = mode
      BY <1>1, <1>9 DEF MtCrash, AtWork, NotLate, JobSteps, MtTypes
    <3>. QED
      BY <3>1 DEF LateInv
  <2>7. RunningInv'
    BY <1>1, <1>9 DEF MtCrash, MtTypes, RunningInv, ApplyInv, LateInv, StaticInv, HolderInv, JobSteps
  <2>. QED
    BY <2>1, <2>2, <2>3, <2>4, <2>5, <2>6, <2>7
<1>10. CASE UNCHANGED mtVars
  <2>1. StaticInv'
    BY <1>1, <1>10 DEF mtVars, MtTypes, StaticInv, HolderInv, Managed
  <2>2. HolderInv'
    BY <1>1, <1>10 DEF mtVars, MtTypes, HolderInv, StaticInv, NextPending, Pending, HalfWay, JobSteps
  <2>3. PassedInv'
    BY <1>1, <1>10 DEF mtVars, MtTypes, PassedInv, HolderInv, HalfWay, NextPending, Pending
  <2>4. ApplyInv'
    BY <1>1, <1>10 DEF mtVars, MtTypes, ApplyInv, LateInv, HolderInv, StaticInv, Target, JobSteps, Desired, Managed,
       FinalStatuses
  <2>5. ServeInv'
    BY <1>1, <1>10 DEF mtVars, MtTypes, ApplyInv, ServeInv, LateInv, HolderInv, StaticInv, Serves, RunServes,
       RunTypes, Target, JobSteps, AtWork, Desired, Managed, FinalStatuses
  <2>6. LateInv'
    BY <1>1, <1>10 DEF mtVars, MtTypes, ApplyInv, LateInv, HolderInv, StaticInv, JobSteps, AtWork, Managed
  <2>7. RunningInv'
    BY <1>1, <1>10 DEF mtVars, MtTypes, RunningInv, ApplyInv, LateInv, StaticInv, HolderInv, JobSteps
  <2>. QED
    BY <2>1, <2>2, <2>3, <2>4, <2>5, <2>6, <2>7
<1>. QED
  BY <1>2, <1>3, <1>4, <1>5, <1>6, <1>7, <1>8, <1>9, <1>10

\* What the invariant says of the rows, the file and the proxy.
LEMMA SecretsMatch == MInv => RowMatchesSecret
<1>. SUFFICES ASSUME MInv PROVE RowMatchesSecret
  OBVIOUS
<1>1. MtTypes /\ StaticInv /\ (overlapped = "no" => Serves(file)) /\ RunningInv
  BY MtTypesAre DEF MInv, ServeInv
<1>2. RevokedNotServed
  BY <1>1 DEF RevokedNotServed, Serves, RunningInv, MtTypes
<1>3. ActiveServed
  BY <1>1 DEF ActiveServed, Serves, RunningInv, Desired, MtTypes
<1>. QED
  BY <1>2, <1>3 DEF RowMatchesSecret

\* No step takes an active secret out of a proxy that runs, as long as the bot did not act
\* beside a late run.
LEMMA MtKeepsOthers ==
    ASSUME MInv, MtNext, overlapped = "no", NEW a \in MtIds, mRow[a] = "active", a \in running, a \notin running'
    PROVE  running' = {}
<1>1. MtTypes /\ StaticInv /\ ServeInv
  BY MtTypesAre DEF MInv
<1>2. mode # "static" /\ a \in Desired
  BY <1>1 DEF StaticInv, Desired
<1>3. a \in file
  BY <1>1, <1>2 DEF ServeInv, Serves, Managed
<1>4. UNCHANGED running \/ running' \in {running, {}, file}
  BY DEF MtNext, MtCall, MtStartup, Apply, ApplyUnchanged, ApplyBackup, ApplyWrite, ApplyRestart, ApplyCheck,
     ApplyFails, Rollback, HelperTimesOut, IssueApplied, IssueNotApplied, CompensationFails, RevokeApplied,
     RevokeNotApplied, MtStart, ReconcileCompensated, ReconcileRemoved, ReconcileDrift, MtReconcileEnds,
     ReconcilePendingApply, ReconcileRemoval, MtCrash, AskMtproto, IssueManaged, IssueStatic, AskRevoke, RevokeManaged,
     DeactivateStatic, DeleteRow, KeepStart, KeepFiles, disk, LateActs, LateBackup, LateWrite, LateRestart, LateCheck,
     LateRestore, LateRollback
<1>. QED
  BY <1>3, <1>4

\* A start that ends without degrading MTProto has settled the rows and the file, and no run
\* of the helper is left that could change that.
LEMMA MtSettles ==
    ASSUME MInv, MtNext, mPhase = "start", mPhase' = "up", ~mDegraded', Managed
    PROVE  /\ file' = Desired' /\ ~torn' /\ AtWork' = {}
           /\ \A a \in MtIds : mRow'[a] \in FinalStatuses \union {NoRow, "active", "apply_failed"}
<1>1. MtTypes /\ HolderInv /\ PassedInv /\ ApplyInv /\ LateInv
  BY MtTypesAre DEF MInv
<1>2. /\ \A a \in MtIds : ~Pending(a)
      /\ UNCHANGED <<mRow, file, mDegraded, torn, late>>
      /\ file = Desired /\ ~torn /\ AtWork = {}
  <2>1. MtReconcileEnds /\ ~Fatal
    BY <1>1 DEF MtNext, MtCall, MtStartup, Apply, ApplyUnchanged, ApplyBackup, ApplyWrite, ApplyRestart, ApplyCheck,
       ApplyFails, Rollback, HelperTimesOut, IssueApplied, IssueNotApplied, CompensationFails, RevokeApplied,
       RevokeNotApplied, MtStart, ReconcileCompensated, ReconcileRemoved, ReconcileDrift, MtReconcileEnds,
       ReconcilePendingApply, ReconcileRemoval, MtCrash, AskMtproto, IssueManaged, IssueStatic, AskRevoke, RevokeManaged,
       DeactivateStatic, DeleteRow, KeepStart, KeepFiles, KeepCaller, Done, Fatal, MayCall, Free, life, LateActs,
       LateBackup, LateWrite, LateRestart, LateCheck, LateRestore, LateRollback, LateMoves, LateEnds
  <2>2. UNCHANGED <<mRow, file, mDegraded, torn, late>>
    BY <2>1 DEF MtReconcileEnds, KeepFiles
  <2>3. ~mDegraded /\ overlapped # "now" /\ (AtWork = {} \/ job = "raised")
    BY <1>1, <2>2 DEF LateInv
  <2>4. CASE Reconciles /\ (\A a \in MtIds : ~Pending(a)) /\ ~torn /\ file = Desired
    BY <1>1, <2>2, <2>3, <2>4 DEF Reconciles, HolderInv
  <2>5. CASE mStep = "start_drift" /\ job = "ok"
    BY <1>1, <2>2, <2>3, <2>5 DEF HolderInv, ApplyInv, Target, LateInv
  <2>. QED
    BY <2>1, <2>4, <2>5 DEF MtReconcileEnds, Managed
<1>3. \A a \in MtIds : mRow[a] \notin HalfWay
  BY <1>1, <1>2, MtBounds DEF PassedInv, Pending, HalfWay, MtTypes, MtIds
<1>4. AtWork' = {} /\ Desired' = Desired
  BY <1>2 DEF AtWork, Desired
<1>. QED
  BY <1>1, <1>2, <1>3, <1>4 DEF HalfWay, PendingRemoval, MtTypes, ProxyStatuses, FinalStatuses

\* MInv holds at first and after every step.
LEMMA InitMInv == MtInit => MInv
<1>. SUFFICES ASSUME MtInit PROVE MInv
  OBVIOUS
<1>1. MtTypes
  <2>1. 1 \in MtIds /\ 0 \in 0 .. MaxMt /\ 0 \in 0 .. MaxMtCrashes
    BY MtBounds DEF MtIds
  <2>2. late \in [LateRuns -> RunTypes]
    BY DEF MtInit, NotLate, RunTypes
  <2>. QED
    BY <2>1, <2>2 DEF MtInit, MtTypes
<1>2. AtWork = {}
  BY DEF MtInit, AtWork, NotLate, JobSteps
<1>3. StaticInv /\ HolderInv /\ PassedInv /\ ApplyInv /\ ServeInv /\ LateInv /\ RunningInv
  BY <1>2 DEF MtInit, StaticInv, HolderInv, PassedInv, ApplyInv, ServeInv, LateInv, RunningInv, JobSteps, Serves,
     Desired, NoRow
<1>. QED
  BY <1>1, <1>3, MtTypesAre DEF MInv

\* Every step of the MTProto accesses keeps their invariant.
LEMMA NextMInv == MInv /\ [MtNext]_mtVars => MInv'
<1>. SUFFICES ASSUME MInv, [MtNext]_mtVars PROVE MInv'
  OBVIOUS
<1>1. MtTypes'
  BY MtTypeStep, MtTypesAre DEF MInv
<1>2. MtTypeOK'
  BY <1>1 DEF MtTypes, MtTypeOK, RunTypes, JobSteps
<1>3. StaticInv' /\ HolderInv' /\ PassedInv' /\ ApplyInv' /\ ServeInv' /\ LateInv' /\ RunningInv'
  BY MtApplyStep, MtCallStep, MtStartStep, LateStep DEF MtNext, MtCall, MtStartup, Apply
<1>. QED
  BY <1>2, <1>3 DEF MInv

--------------------------------------------------------------------------------
(* The two together: a behaviour of MCProxies is one of either.               *)
ProxiesInv == SInv /\ MInv

\* While one module acts, the other stays as it is.
LEMMA NextProxies == ProxiesInv /\ [Next]_vars => ProxiesInv' /\ [SocksNext]_socksVars /\ [MtNext]_mtVars
<1>. SUFFICES ASSUME ProxiesInv, [Next]_vars PROVE ProxiesInv' /\ [SocksNext]_socksVars /\ [MtNext]_mtVars
  OBVIOUS
<1>1. [SocksNext]_socksVars /\ [MtNext]_mtVars
  BY DEF Next, vars
<1>. QED
  BY <1>1, NextSInv, NextMInv DEF ProxiesInv

\* ProxiesInv holds in every state of a behaviour.
LEMMA ProxiesAlways == Spec => []ProxiesInv
<1>1. Init => ProxiesInv
  BY InitSInv, InitMInv DEF Init, ProxiesInv
<1>. QED
  BY <1>1, NextProxies, PTL DEF Spec

\* Every variable of the two services keeps its type (services/socks5.py:61-372 and
\* services/mtproto.py:73-529), for any number of rows, owners and crashes.
THEOREM TypesOfTheProxies == Spec => []TypesOK
<1>1. ProxiesInv => TypesOK
  BY DEF ProxiesInv, SInv, MInv, TypesOK
<1>. QED
  BY <1>1, ProxiesAlways, PTL

\* A login that works belongs to a row a later revocation, deletion or start still looks at,
\* unless a late command was carried out on it; an active row has its login unless an adapter
\* call on it raised or a crash came between useradd and chpasswd.  The secret of an active
\* row stays in the file and that of a revoked one is in none, whatever fails, crashes or is
\* still carried out late, until the bot acts on the file beside a late run of the helper;
\* from then on, nothing is claimed before a start has settled things.
THEOREM AccessesMatchRows == Spec => []RowsMatchAccesses
<1>1. ProxiesInv => RowsMatchAccesses
  BY SecretsMatch DEF ProxiesInv, SInv, RowsMatchAccesses
<1>. QED
  BY <1>1, ProxiesAlways, PTL

\* No operation or start touches the login of a settled row (a late command of a call that
\* failed may) or gives a removed access back; no step takes somebody else's secret out of a
\* running proxy until the bot has acted on the file beside a late run; and a start that
\* reports no failure leaves no row half way and no late run, whatever late runs did before.
THEOREM ProxiesKeepOthers == Spec => ProxySteps
<1>1. Spec => SettledLeftAlone
  <2>1. ProxiesInv /\ [Next]_vars
          => [\A a \in Ids : sRow[a] \in {"active", "revoked", "deleted"}
                => sLinux'[a] = sLinux[a] \/ \E c \in Commands : <<c, a>> \in sLate \ sLate']_socksVars
    BY NextProxies, SocksPromises DEF ProxiesInv
  <2>. QED
    BY <2>1, ProxiesAlways, PTL DEF Spec, SettledLeftAlone
<1>2. Spec => NeverGivenBack
  <2>1. ProxiesInv /\ [Next]_vars
          => [\A a \in Ids : sRow[a] \in {"revoked", "pending_delete", "delete_failed", "deleted"}
                => sRow'[a] \notin {"pending_apply", "apply_failed", "active"}]_socksVars
    BY NextProxies, SocksPromises DEF ProxiesInv
  <2>. QED
    BY <2>1, ProxiesAlways, PTL DEF Spec, NeverGivenBack
<1>3. Spec => StartupSettles
  <2>1. ProxiesInv /\ [Next]_vars
          => [sPhase = "start" /\ sPhase' = "up" /\ ~sFailed
                => \A a \in Ids : \/ sRow[a] \in {NoRow, "active", "revoked", "deleted"}
                                  \/ (sRow[a] = "apply_failed" /\ sLinux[a] = "none")]_socksVars
    BY NextProxies, SocksPromises DEF ProxiesInv, IsSettled
  <2>. QED
    BY <2>1, ProxiesAlways, PTL DEF Spec, StartupSettles
<1>4. Spec => OthersKept
  <2>1. ProxiesInv /\ [Next]_vars
          => [overlapped = "no" =>
                \A a \in MtIds : mRow[a] = "active" /\ a \in running /\ a \notin running' => running' = {}]_mtVars
    BY NextProxies, MtKeepsOthers DEF ProxiesInv
  <2>. QED
    BY <2>1, ProxiesAlways, PTL DEF Spec, OthersKept
<1>5. Spec => MtStartupSettles
  <2>1. ProxiesInv /\ [Next]_vars
          => [mPhase = "start" /\ mPhase' = "up" /\ ~mDegraded' /\ Managed
                => /\ file' = Desired' /\ ~torn' /\ AtWork' = {}
                   /\ \A a \in MtIds : mRow'[a] \in FinalStatuses \union {NoRow, "active", "apply_failed"}]_mtVars
    BY NextProxies, MtSettles DEF ProxiesInv
  <2>. QED
    BY <2>1, ProxiesAlways, PTL DEF Spec, MtStartupSettles
<1>. QED
  BY <1>1, <1>2, <1>3, <1>4, <1>5 DEF ProxySteps, SocksSteps, MtSteps
=============================================================================
