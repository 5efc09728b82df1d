--------------------------- MODULE XrayKeysProofs ---------------------------
(***************************************************************************)
(* Proofs about the Xray service (XrayKeys), its adapter (XrayApply) and a *)
(* behaviour of either (MCXrayKeys), for every set of keys, tasks, foreign *)
(* clients, entries of the file and runs of the helper, and for every      *)
(* number of crashes, changes, late helpers and stops.                     *)
(***************************************************************************)
EXTENDS MCXrayKeys, TLAPS

BusyPoints == CreatePoints \cup LockPoints

\* the lock excludes, and nothing runs while the process is down or starting
ControlInv ==
  /\ \A t \in Tasks : pc[t] \in LockPoints => lock = t
  /\ phase # "up" => \A t \in Tasks : pc[t] = "idle"
  /\ \A t \in Tasks : pc[t] \in BusyPoints =>
       key[t] \in Keys /\ status[key[t]] # "none"
  /\ \A t \in Tasks : pc[t] \in LockPoints => prev[t] \in RowStatuses
  /\ \A t \in Tasks : pc[t] \in QueuePoints \ {"create"} => key[t] \in Keys

\* a key outside raced is worked on by one call at a time
OneCall ==
  \A t, u \in Tasks :
    /\ pc[t] \in BusyPoints /\ pc[u] \in BusyPoints
    /\ key[t] = key[u] /\ key[t] \notin raced
    => t = u

\* what the row holds at each program point of a call
RowInv(t) ==
  LET k == key[t]
      at == pc[t]
      was == prev[t]
  IN k \notin raced =>
       /\ at \in CreatePoints => status[k] = "pending_apply"
       /\ at \in {"r_mark", "d_mark"} => status[k] = was
       /\ at = "r_mark" => was \in AccessMayExist
       /\ at \in {"r_remove", "r_restore", "r_finish"} => status[k] = "pending_revoke"
       /\ at \in {"d_remove", "d_fail", "d_finish"} => status[k] = "pending_delete"
       /\ at \in CheckPoints => status[k] \in {"pending_apply", "apply_failed"}

\* and what the config holds, as long as nothing was cut short on the key
PointInv(t) ==
  LET k == key[t]
      at == pc[t]
      was == prev[t]
  IN k \notin Suspects =>
       /\ at \in {"add", "fail_create", "comp_mark"} => k \notin clients
       /\ at \in {"activate", "compensate"} => k \in clients
       /\ at \in {"r_remove", "r_restore"} =>
            /\ was \in {"active", "apply_failed", "delete_failed"}
            /\ was = "active" => k \in clients
            /\ k \in clients => was \in {"active", "delete_failed"}
       /\ at \in {"r_finish", "d_finish"} => k \notin clients
       /\ at \notin CheckPoints

\* how far each startup pass has brought the keys of the served inbounds
Closed(k) == status[k] \in {"none", "active", "apply_failed", "revoked", "gone"}
StartupInv ==
  /\ cur # None => /\ phase = "rows" /\ cur \in todo \cap served /\ cur \notin clients
                   /\ status[cur] \in {"pending_revoke", "pending_delete", "delete_failed"}
  /\ phase = "rows" /\ ~failed => \A k \in served \ todo : Closed(k)
  /\ phase \in Passes \ {"rows"} => \A k \in served : Closed(k)
  /\ phase = "drift_orphans" =>
       \A k \in served : k \in clients /\ status[k] # "active" => k \in todo
  /\ phase \in {"drift_rows", "drift_orphans"} =>
       \A k \in todo \cap Keys : status[k] # "active"
  /\ phase = "drift_restore" =>
       /\ todo \subseteq served
       /\ \A k \in served : status[k] = "active" <=> k \in clients \cup todo

\* every call keeps its point's promise, and the row of a settled key matches
KeysInv == /\ \A t \in Tasks : pc[t] \in BusyPoints => RowInv(t) /\ PointInv(t)
           /\ RowMatchesClient

\* The inductive invariant of the keys.
IInv == /\ TypeOK /\ ControlInv /\ OneCall /\ StartupInv
        /\ KeysInv

------------------------------------------------------------------------------

\* An empty database and a stopped process satisfy the invariant.
LEMMA InitIInv == Init => IInv
  <1> SUFFICES ASSUME Init PROVE IInv
    OBVIOUS
  <1>1. TypeOK
    <2>1. /\ status \in [Keys -> Statuses] /\ pc \in [Tasks -> Points]
          /\ key \in [Tasks -> Keys \cup {None}] /\ prev \in [Tasks -> Statuses]
      BY DEF Init, Statuses, Points
    <2>2. clients \subseteq Keys \cup Foreign /\ phase \in {"down", "up"} \cup Passes
      BY DEF Init
    <2>3. crashes \in 0..MaxCrashes
      BY MaxCrashesAssumption DEF Init
    <2>4. QED
      BY <2>1, <2>2, <2>3 DEF Init, TypeOK
  <1>2. ControlInv /\ OneCall /\ StartupInv
    BY DEF Init, ControlInv, OneCall, StartupInv, BusyPoints, LockPoints, CreatePoints,
           RevokePoints, DeletePoints, CheckPoints, QueuePoints, Passes
  <1>3. \A t \in Tasks : pc[t] \in BusyPoints => RowInv(t) /\ PointInv(t)
    BY DEF Init, BusyPoints, LockPoints, CreatePoints,
           RevokePoints, DeletePoints, CheckPoints
  <1>4. RowMatchesClient
    BY ForeignAssumption DEF Init, RowMatchesClient, Agree
  <1>5. QED
    BY <1>1, <1>2, <1>3, <1>4 DEF IInv, KeysInv

\* A creation leaves the service lock alone and works on a key of its own.
LEMMA CreateControl ==
  ASSUME TypeOK, ControlInv, OneCall, NEW t \in Tasks, CreateStep(t)
  PROVE  TypeOK' /\ ControlInv' /\ OneCall'
  <1> USE NoneAssumption
      DEF TypeOK, ControlInv, OneCall, At, Goto, Call, End, startupVars, Points, CreatePoints,
          QueuePoints, LockPoints, RevokePoints, DeletePoints, CheckPoints, BusyPoints,
          Statuses, RowStatuses, SetStatus, Raises
  <1>1. ASSUME NEW k \in Keys, CreateRow(t, k) PROVE TypeOK' /\ ControlInv' /\ OneCall'
    BY <1>1 DEF CreateRow
  <1>2. CASE CreateRefused(t)
    BY <1>2 DEF CreateRefused
  <1>3. CASE CreateDenied(t)
    BY <1>3 DEF CreateDenied
  <1>4. CASE CreateAdd(t)
    BY <1>4 DEF CreateAdd
  <1>5. CASE CreateAddRaises(t)
    BY <1>5 DEF CreateAddRaises
  <1>6. CASE CreateFail(t)
    BY <1>6 DEF CreateFail
  <1>7. CASE CreateActivate(t)
    BY <1>7 DEF CreateActivate
  <1>8. CASE CreateActivateRaises(t)
    BY <1>8 DEF CreateActivateRaises
  <1>9. CASE Compensate(t)
    BY <1>9 DEF Compensate
  <1>10. CASE CompensateRaises(t)
    BY <1>10 DEF CompensateRaises
  <1>11. CASE CompensateMark(t)
    BY <1>11 DEF CompensateMark
  <1>12. QED
    BY <1>1, <1>2, <1>3, <1>4, <1>5, <1>6, <1>7, <1>8, <1>9, <1>10, <1>11 DEF CreateStep

\* A locked operation keeps the lock until it ends.
LEMMA LockedControl ==
  ASSUME TypeOK, ControlInv, OneCall, NEW t \in Tasks, LockedStep(t)
  PROVE  TypeOK' /\ ControlInv' /\ OneCall'
  <1> USE NoneAssumption
      DEF TypeOK, ControlInv, OneCall, At, Goto, Call, End, startupVars, Points, CreatePoints,
          QueuePoints, LockPoints, RevokePoints, DeletePoints, CheckPoints, BusyPoints,
          Statuses, RowStatuses, SetStatus, Raises, Remove
  <1>1. CASE RevokeMark(t)
    BY <1>1 DEF RevokeMark
  <1>2. CASE RevokeRemove(t)
    BY <1>2 DEF RevokeRemove
  <1>3. CASE RevokeRestore(t)
    BY <1>3 DEF RevokeRestore
  <1>4. CASE RevokeFinish(t)
    BY <1>4 DEF RevokeFinish
  <1>5. CASE DeleteMark(t)
    BY <1>5 DEF DeleteMark
  <1>6. CASE DeleteRemove(t)
    BY <1>6 DEF DeleteRemove
  <1>7. CASE DeleteFail(t)
    BY <1>7 DEF DeleteFail
  <1>8. CASE DeleteFinish(t)
    BY <1>8 DEF DeleteFinish
  <1>9. CASE CheckActivate(t)
    BY <1>9 DEF CheckActivate
  <1>10. CASE CheckFail(t)
    BY <1>10 DEF CheckFail
  <1>11. QED
    BY <1>1, <1>2, <1>3, <1>4, <1>5, <1>6, <1>7, <1>8, <1>9, <1>10 DEF LockedStep

\* Every step keeps the types, the lock and one call per key.
LEMMA StepControl ==
  ASSUME TypeOK, ControlInv, OneCall, StartupInv, [Next]_vars
  PROVE  TypeOK' /\ ControlInv' /\ OneCall'
  <1>1. ASSUME NEW t \in Tasks, Request(t) PROVE TypeOK' /\ ControlInv' /\ OneCall'
    BY <1>1 DEF Request, RequestCreate, RequestOn, TypeOK, ControlInv, OneCall, At, Goto, Call,
       startupVars, Points, CreatePoints, QueuePoints, LockPoints, RevokePoints, DeletePoints,
       CheckPoints, BusyPoints, Statuses, RowStatuses
  <1>2. ASSUME NEW t \in Tasks, Acquire(t) PROVE TypeOK' /\ ControlInv' /\ OneCall'
    <2> USE NoneAssumption
        DEF TypeOK, ControlInv, OneCall, At, Goto, Call, End, startupVars, Points, CreatePoints,
            QueuePoints, LockPoints, RevokePoints, DeletePoints, CheckPoints, BusyPoints,
            Statuses, RowStatuses, AccessMayExist, Enter, EnterAndLeave, Creating
    <2>1. CASE RevokeRead(t)
      BY <2>1 DEF RevokeRead
    <2>2. CASE DeleteRead(t)
      BY <2>2 DEF DeleteRead
    <2>3. CASE CheckRead(t)
      BY <2>3 DEF CheckRead
    <2>4. QED
      BY <1>2, <2>1, <2>2, <2>3 DEF Acquire
  <1>3. ASSUME NEW t \in Tasks, WriteRaises(t) PROVE TypeOK' /\ ControlInv' /\ OneCall'
    BY <1>3, NoneAssumption DEF WriteRaises, TypeOK, ControlInv, OneCall, Call, End, startupVars,
       Points, CreatePoints, QueuePoints, LockPoints, RevokePoints, DeletePoints, CheckPoints,
       BusyPoints, WorkPoints, Statuses, RowStatuses
  <1>4. CASE Crash
    <2>1. /\ status' \in [Keys -> Statuses] /\ pc' \in [Tasks -> Points]
          /\ key' \in [Tasks -> Keys \cup {None}] /\ prev' \in [Tasks -> Statuses]
      BY <1>4 DEF Crash, TypeOK, Statuses, Points
    <2>2. \A t \in Tasks : pc[t] \in WorkPoints => key[t] \in Keys
      BY DEF ControlInv, WorkPoints, BusyPoints, LockPoints, RevokePoints, DeletePoints
    <2>3. hurt' \subseteq Keys
      BY <1>4, <2>2 DEF Crash, TypeOK
    <2>4. crashes' \in 0..MaxCrashes
      BY <1>4, MaxCrashesAssumption DEF Crash, TypeOK
    <2>5. TypeOK'
      BY <1>4, <2>1, <2>3, <2>4 DEF Crash, TypeOK
    <2>6. \A t \in Tasks : pc'[t] = "idle"
      BY <1>4 DEF Crash
    <2>7. QED
      BY <2>5, <2>6 DEF ControlInv, OneCall, BusyPoints, CreatePoints, QueuePoints, LockPoints,
         RevokePoints, DeletePoints, CheckPoints
  <1>5. CASE StartupStep
    <2> USE DEF TypeOK, ControlInv, OneCall, StartupFrame, calls, BusyPoints, CreatePoints,
            LockPoints, RevokePoints, DeletePoints, CheckPoints, QueuePoints, Statuses,
            RowStatuses, Passes
    <2>1. CASE Start
      BY <2>1 DEF Start
    <2>2. CASE RowFinish
      BY <2>2 DEF RowFinish, StartupInv
    <2>3. CASE RowsEnd
      BY <2>3 DEF RowsEnd
    <2>4. CASE DriftRowsEnd
      BY <2>4 DEF DriftRowsEnd
    <2>5. CASE DriftOrphansEnd
      BY <2>5 DEF DriftOrphansEnd, ActiveKeys
    <2>6. CASE StartupRaises
      BY <2>6 DEF StartupRaises
    <2>7. CASE StartupClean
      BY <2>7 DEF StartupClean
    <2>8. ASSUME NEW k \in Keys, RowSkip(k) PROVE TypeOK' /\ ControlInv' /\ OneCall'
      BY <2>8 DEF RowSkip
    <2>9. ASSUME NEW k \in Keys, RowApply(k) PROVE TypeOK' /\ ControlInv' /\ OneCall'
      BY <2>9 DEF RowApply
    <2>10. ASSUME NEW k \in Keys, RowRemove(k) PROVE TypeOK' /\ ControlInv' /\ OneCall'
      BY <2>10 DEF RowRemove
    <2>11. ASSUME NEW k \in Keys, RowRemoveRaises(k) PROVE TypeOK' /\ ControlInv' /\ OneCall'
      BY <2>11 DEF RowRemoveRaises
    <2>12. ASSUME NEW k \in Keys, RowWriteRaises(k) PROVE TypeOK' /\ ControlInv' /\ OneCall'
      BY <2>12 DEF RowWriteRaises
    <2>13. ASSUME NEW k \in Keys \cup Foreign, DriftRemove(k) PROVE TypeOK' /\ ControlInv' /\ OneCall'
      BY <2>13 DEF DriftRemove
    <2>14. ASSUME NEW k \in Keys, DriftRestore(k) PROVE TypeOK' /\ ControlInv' /\ OneCall'
      BY <2>14 DEF DriftRestore
    <2>15. QED
      BY <1>5, <2>1, <2>2, <2>3, <2>4, <2>5, <2>6, <2>7, <2>8, <2>9, <2>10, <2>11, <2>12, <2>13, <2>14 DEF StartupStep
  <1>6. CASE UNCHANGED vars
    BY <1>6 DEF vars, calls, TypeOK, ControlInv, OneCall
  <1>7. QED
    BY <1>1, <1>2, <1>3, <1>4, <1>5, <1>6, CreateControl, LockedControl DEF Next, TaskStep

\* Each startup pass establishes its part of the repair and keeps that of the earlier ones.
LEMMA StepStartup ==
  ASSUME TypeOK, ControlInv, StartupInv, [Next]_vars
  PROVE  StartupInv'
  <1>1. ASSUME phase = "up", phase' = "up", cur' = cur PROVE StartupInv'
    BY <1>1 DEF StartupInv, Passes
  <1>2. ASSUME NEW t \in Tasks, Request(t) \/ Acquire(t) \/ TaskStep(t) PROVE StartupInv'
    <2>1. phase = "up" /\ phase' = "up" /\ cur' = cur
      BY <1>2 DEF Request, RequestCreate, RequestOn, Acquire, RevokeRead, DeleteRead, CheckRead,
         Enter, EnterAndLeave, TaskStep, CreateStep, LockedStep, WriteRaises, At, startupVars,
         CreateRow, CreateRefused, CreateDenied, CreateAdd, CreateAddRaises, CreateFail,
         CreateActivate, CreateActivateRaises, Compensate, CompensateRaises, CompensateMark,
         RevokeMark, RevokeRemove, RevokeRestore, RevokeFinish, DeleteMark, DeleteRemove,
         DeleteFail, DeleteFinish, CheckActivate, CheckFail
    <2>2. QED
      BY <1>1, <2>1
  <1>3. CASE Crash
    BY <1>3 DEF Crash, StartupInv, Passes
  <1>4. CASE UNCHANGED vars
    BY <1>4 DEF vars, StartupInv, Closed
  <1>5. CASE StartupStep
    <2> USE DEF TypeOK, StartupInv, StartupFrame, Closed, Passes, Statuses, RowStatuses
    <2>1. CASE Start
      BY <2>1 DEF Start, StartupReconcile, AccessMayExist
    <2>2. CASE RowFinish
      BY <2>2 DEF RowFinish
    <2>3. CASE RowsEnd
      BY <2>3 DEF RowsEnd
    <2>4. CASE DriftRowsEnd
      BY <2>4, ForeignAssumption DEF DriftRowsEnd
    <2>5. CASE DriftOrphansEnd
      BY <2>5 DEF DriftOrphansEnd, ActiveKeys
    <2>6. CASE StartupRaises
      BY <2>6 DEF StartupRaises
    <2>7. CASE StartupClean
      BY <2>7 DEF StartupClean
    <2>8. ASSUME NEW k \in Keys, RowSkip(k) PROVE StartupInv'
      BY <2>8 DEF RowSkip
    <2>9. ASSUME NEW k \in Keys, RowApply(k) PROVE StartupInv'
      BY <2>9 DEF RowApply
    <2>10. ASSUME NEW k \in Keys, RowRemove(k) PROVE StartupInv'
      BY <2>10, NoneAssumption DEF RowRemove
    <2>11. ASSUME NEW k \in Keys, RowRemoveRaises(k) PROVE StartupInv'
      BY <2>11 DEF RowRemoveRaises
    <2>12. ASSUME NEW k \in Keys, RowWriteRaises(k) PROVE StartupInv'
      BY <2>12 DEF RowWriteRaises
    <2>13. ASSUME NEW k \in Keys \cup Foreign, DriftRemove(k) PROVE StartupInv'
      BY <2>13, ForeignAssumption DEF DriftRemove
    <2>14. ASSUME NEW k \in Keys, DriftRestore(k) PROVE StartupInv'
      BY <2>14 DEF DriftRestore
    <2>15. QED
      BY <1>5, <2>1, <2>2, <2>3, <2>4, <2>5, <2>6, <2>7, <2>8, <2>9, <2>10, <2>11, <2>12, <2>13, <2>14 DEF StartupStep
  <1>6. QED
    BY <1>2, <1>3, <1>4, <1>5 DEF Next

\* A step of a creation keeps the agreement of row and config of every key.
LEMMA CreateKeys ==
  ASSUME TypeOK, ControlInv, OneCall, KeysInv, OneCall', NEW t \in Tasks, CreateStep(t)
  PROVE  KeysInv'
  <1> USE DEF TypeOK, ControlInv, OneCall, KeysInv, RowInv, PointInv, RowMatchesClient, Agree, Settled,
          Suspects, At, Goto, Call, End, startupVars, CreatePoints, LockPoints, RevokePoints,
          DeletePoints, CheckPoints, BusyPoints, WorkPoints, RowStatuses, SetStatus, Raises
  <1>1. ASSUME NEW k \in Keys, CreateRow(t, k) PROVE KeysInv'
    BY <1>1 DEF CreateRow
  <1>2. CASE CreateRefused(t)
    BY <1>2 DEF CreateRefused
  <1>3. CASE CreateDenied(t)
    BY <1>3 DEF CreateDenied
  <1>4. CASE CreateAdd(t)
    BY <1>4 DEF CreateAdd
  <1>5. CASE CreateAddRaises(t)
    BY <1>5 DEF CreateAddRaises
  <1>6. CASE CreateFail(t)
    BY <1>6 DEF CreateFail
  <1>7. CASE CreateActivate(t)
    BY <1>7 DEF CreateActivate
  <1>8. CASE CreateActivateRaises(t)
    BY <1>8 DEF CreateActivateRaises
  <1>9. CASE Compensate(t)
    BY <1>9 DEF Compensate
  <1>10. CASE CompensateRaises(t)
    BY <1>10 DEF CompensateRaises
  <1>11. CASE CompensateMark(t)
    BY <1>11 DEF CompensateMark
  <1>12. QED
    BY <1>1, <1>2, <1>3, <1>4, <1>5, <1>6, <1>7, <1>8, <1>9, <1>10, <1>11 DEF CreateStep

\* A step of a locked operation keeps the agreement of row and config.
LEMMA LockedKeys ==
  ASSUME TypeOK, ControlInv, OneCall, KeysInv, OneCall', NEW t \in Tasks, LockedStep(t)
  PROVE  KeysInv'
  <1> USE DEF TypeOK, ControlInv, OneCall, KeysInv, RowInv, PointInv, RowMatchesClient, Agree, Settled,
          Suspects, At, Goto, Call, End, startupVars, CreatePoints, LockPoints, RevokePoints,
          DeletePoints, CheckPoints, BusyPoints, WorkPoints, RowStatuses, SetStatus, Raises,
          Remove, AccessMayExist
  <1>1. CASE RevokeMark(t)
    BY <1>1 DEF RevokeMark
  <1>2. CASE RevokeRemove(t)
    BY <1>2 DEF RevokeRemove
  <1>3. CASE RevokeRestore(t)
    BY <1>3 DEF RevokeRestore
  <1>4. CASE RevokeFinish(t)
    BY <1>4 DEF RevokeFinish
  <1>5. CASE DeleteMark(t)
    BY <1>5 DEF DeleteMark
  <1>6. CASE DeleteRemove(t)
    BY <1>6 DEF DeleteRemove
  <1>7. CASE DeleteFail(t)
    BY <1>7 DEF DeleteFail
  <1>8. CASE DeleteFinish(t)
    BY <1>8 DEF DeleteFinish
  <1>9. CASE CheckActivate(t)
    BY <1>9 DEF CheckActivate
  <1>10. CASE CheckFail(t)
    BY <1>10 DEF CheckFail
  <1>11. QED
    BY <1>1, <1>2, <1>3, <1>4, <1>5, <1>6, <1>7, <1>8, <1>9, <1>10 DEF LockedStep

\* A step of the startup keeps the agreement, and restores what a call left when
\* the process died.
LEMMA StartupKeys ==
  ASSUME TypeOK, ControlInv, StartupInv, KeysInv, StartupStep
  PROVE  KeysInv'
  <1>1. phase # "up" /\ (\A t \in Tasks : pc[t] = "idle" /\ pc'[t] = "idle")
    BY DEF StartupStep, ControlInv, StartupFrame, calls, Passes, Start, RowFinish, RowsEnd,
       DriftRowsEnd, DriftOrphansEnd, StartupRaises, StartupClean, RowSkip, RowApply,
       RowRemove, RowRemoveRaises, RowWriteRaises, DriftRemove, DriftRestore
  <1>2. SUFFICES RowMatchesClient'
    BY <1>1 DEF KeysInv, BusyPoints, CreatePoints, LockPoints, RevokePoints, DeletePoints,
       CheckPoints
  <1>3. \A k \in Keys \ Suspects : Agree(k)
    BY <1>1 DEF KeysInv, RowMatchesClient, Settled, WorkPoints, CreatePoints
  <1>4. SUFFICES ASSUME NEW j \in Keys, j \notin Suspects' PROVE Agree(j)'
    BY DEF RowMatchesClient
  <1> USE <1>3, <1>4 DEF TypeOK, StartupInv, Closed, Agree, Suspects, StartupFrame, Passes
  <1>5. CASE Start
    BY <1>5 DEF Start
  <1>6. CASE RowFinish
    BY <1>6 DEF RowFinish
  <1>7. CASE RowsEnd
    BY <1>7 DEF RowsEnd
  <1>8. CASE DriftRowsEnd
    BY <1>8 DEF DriftRowsEnd
  <1>9. CASE DriftOrphansEnd
    BY <1>9 DEF DriftOrphansEnd
  <1>10. CASE StartupRaises
    BY <1>10 DEF StartupRaises
  <1>11. CASE StartupClean
    BY <1>11 DEF StartupClean
  <1>12. ASSUME NEW k \in Keys, RowSkip(k) PROVE Agree(j)'
    BY <1>12 DEF RowSkip
  <1>13. ASSUME NEW k \in Keys, RowApply(k) PROVE Agree(j)'
    BY <1>13 DEF RowApply
  <1>14. ASSUME NEW k \in Keys, RowRemove(k) PROVE Agree(j)'
    BY <1>14 DEF RowRemove
  <1>15. ASSUME NEW k \in Keys, RowRemoveRaises(k) PROVE Agree(j)'
    BY <1>15 DEF RowRemoveRaises
  <1>16. ASSUME NEW k \in Keys, RowWriteRaises(k) PROVE Agree(j)'
    BY <1>16 DEF RowWriteRaises
  <1>17. ASSUME NEW k \in Keys \cup Foreign, DriftRemove(k) PROVE Agree(j)'
    BY <1>17 DEF DriftRemove
  <1>18. ASSUME NEW k \in Keys, DriftRestore(k) PROVE Agree(j)'
    BY <1>18 DEF DriftRestore
  <1>19. QED
    BY <1>5, <1>6, <1>7, <1>8, <1>9, <1>10, <1>11, <1>12, <1>13, <1>14, <1>15, <1>16, <1>17, <1>18 DEF StartupStep

\* Every step keeps the agreement of row and config.
LEMMA StepKeys ==
  ASSUME TypeOK, ControlInv, OneCall, StartupInv, KeysInv, OneCall', [Next]_vars
  PROVE  KeysInv'
  <1>1. ASSUME NEW t \in Tasks, Request(t) PROVE KeysInv'
    BY <1>1 DEF Request, RequestCreate, RequestOn, TypeOK, KeysInv, RowInv, PointInv, RowMatchesClient,
       Agree, Settled, Suspects, At, Goto, Call, startupVars, QueuePoints, BusyPoints,
       WorkPoints, CreatePoints, LockPoints, RevokePoints, DeletePoints, CheckPoints
  <1>2. ASSUME NEW t \in Tasks, Acquire(t) PROVE KeysInv'
    <2> USE DEF TypeOK, ControlInv, KeysInv, RowInv, PointInv, RowMatchesClient, Agree, Settled, Suspects,
            At, Call, End, startupVars, BusyPoints, WorkPoints, CreatePoints, LockPoints,
            RevokePoints, DeletePoints, CheckPoints, QueuePoints, AccessMayExist, Enter,
            EnterAndLeave, Creating
    <2>1. CASE RevokeRead(t)
      BY <2>1, NoneAssumption DEF RevokeRead
    <2>2. CASE DeleteRead(t)
      BY <2>2, NoneAssumption DEF DeleteRead
    <2>3. CASE CheckRead(t)
      BY <2>3, NoneAssumption DEF CheckRead
    <2>4. QED
      BY <1>2, <2>1, <2>2, <2>3 DEF Acquire
  <1>3. ASSUME NEW t \in Tasks, WriteRaises(t) PROVE KeysInv'
    BY <1>3 DEF WriteRaises, TypeOK, ControlInv, OneCall, KeysInv, RowInv, PointInv, RowMatchesClient,
       Agree, Settled, Suspects, Call, End, startupVars, BusyPoints, WorkPoints, CreatePoints,
       LockPoints, RevokePoints, DeletePoints, CheckPoints
  <1>4. CASE Crash
    BY <1>4 DEF Crash, TypeOK, KeysInv, RowInv, PointInv, RowMatchesClient, Agree, Settled, Suspects,
       BusyPoints, WorkPoints, CreatePoints, LockPoints, RevokePoints, DeletePoints, CheckPoints
  <1>5. CASE UNCHANGED vars
    BY <1>5 DEF vars, calls, KeysInv, RowInv, PointInv, RowMatchesClient, Agree, Settled, Suspects
  <1>6. QED
    BY <1>1, <1>2, <1>3, <1>4, <1>5, CreateKeys, LockedKeys, StartupKeys DEF Next, TaskStep

------------------------------------------------------------------------------

\* The invariant holds in every state, by induction over the steps.
LEMMA StepIInv == IInv /\ [Next]_vars => IInv'
  BY StepControl, StepStartup, StepKeys DEF IInv

\* It holds always.
LEMMA InvariantIInv == Spec => []IInv
  BY InitIInv, StepIInv, PTL DEF Spec

\* Every variable keeps its type: each call is at one of its points, each row in
\* one of the statuses the CHECK constraint of vpn_keys admits.
THEOREM TypeCorrect == Spec => []TypeOK
  BY InvariantIInv, PTL DEF IInv

\* For any number of keys, tasks, crashes and foreign clients: the vpn_keys row and
\* the Xray config agree on every settled key that neither raced with its own
\* creation nor was cut short.
THEOREM RowsMatchClients == Spec => []RowMatchesClient
  BY InvariantIInv, PTL DEF IInv, KeysInv

--------------------------------------------------------------------------------
(* What holds of a key that raced with its own creation, too.                   *)

\* what the row holds at each point of a call under the lock, raced or not: the
\* only status another call may write meanwhile is the last one of the creation
RacedRow(t) ==
  LET k == key[t]
      at == pc[t]
  IN /\ at \in {"r_mark"} \cup CheckPoints => status[k] \in RowStatuses \ {"revoked"}
     /\ at = "d_mark" => status[k] \in RowStatuses
     /\ at \in {"r_remove", "r_restore", "r_finish"} =>
          status[k] \in {"pending_revoke", "apply_failed"}
     /\ at \in {"d_remove", "d_fail", "d_finish"} =>
          status[k] \in {"pending_delete", "apply_failed"}
     /\ at \in LockPoints \cap WorkPoints /\ status[k] = "apply_failed" => ~Creating(k)

\* no key is created twice, whoever else works on it
RaceInv ==
  /\ \A t, u \in Tasks :
       pc[t] \in CreatePoints /\ pc[u] \in CreatePoints /\ key[t] = key[u] => t = u
  /\ \A t \in Tasks : pc[t] \in LockPoints => RacedRow(t)

\* Nothing runs in a stopped process.
LEMMA InitRaceInv == Init => RaceInv
  BY DEF Init, RaceInv, CreatePoints, LockPoints, RevokePoints, DeletePoints, CheckPoints

\* A step of a creation writes no status a call under the lock does not expect.
LEMMA CreateRace ==
  ASSUME TypeOK, ControlInv, RaceInv, NEW t \in Tasks, CreateStep(t)
  PROVE  RaceInv'
  <1> USE NoneAssumption
      DEF TypeOK, ControlInv, RaceInv, RacedRow, Creating, At, Goto, Call, End, startupVars,
          CreatePoints, LockPoints, RevokePoints, DeletePoints, CheckPoints, BusyPoints,
          WorkPoints, RowStatuses, SetStatus
  <1>1. ASSUME NEW k \in Keys, CreateRow(t, k) PROVE RaceInv'
    BY <1>1 DEF CreateRow
  <1>2. CASE CreateRefused(t)
    BY <1>2 DEF CreateRefused
  <1>3. CASE CreateDenied(t)
    BY <1>3 DEF CreateDenied
  <1>4. CASE CreateAdd(t)
    BY <1>4 DEF CreateAdd
  <1>5. CASE CreateAddRaises(t)
    BY <1>5 DEF CreateAddRaises
  <1>6. CASE CreateFail(t)
    BY <1>6 DEF CreateFail
  <1>7. CASE CreateActivate(t)
    BY <1>7 DEF CreateActivate
  <1>8. CASE CreateActivateRaises(t)
    BY <1>8 DEF CreateActivateRaises
  <1>9. CASE Compensate(t)
    BY <1>9 DEF Compensate
  <1>10. CASE CompensateRaises(t)
    BY <1>10 DEF CompensateRaises
  <1>11. CASE CompensateMark(t)
    BY <1>11 DEF CompensateMark
  <1>12. QED
    BY <1>1, <1>2, <1>3, <1>4, <1>5, <1>6, <1>7, <1>8, <1>9, <1>10, <1>11 DEF CreateStep

\* A call under the lock finds the row as it expects it at its next point.
LEMMA LockedRace ==
  ASSUME TypeOK, ControlInv, RaceInv, NEW t \in Tasks, LockedStep(t) \/ Acquire(t)
  PROVE  RaceInv'
  <1> USE NoneAssumption
      DEF TypeOK, ControlInv, RaceInv, RacedRow, Creating, At, Goto, Call, End, Enter, EnterAndLeave,
          startupVars, CreatePoints, LockPoints, RevokePoints, DeletePoints, CheckPoints,
          QueuePoints, BusyPoints, WorkPoints, RowStatuses, AccessMayExist, SetStatus, Remove
  <1>1. CASE RevokeMark(t)
    BY <1>1 DEF RevokeMark
  <1>2. CASE RevokeRemove(t)
    BY <1>2 DEF RevokeRemove
  <1>3. CASE RevokeRestore(t)
    BY <1>3 DEF RevokeRestore
  <1>4. CASE RevokeFinish(t)
    BY <1>4 DEF RevokeFinish
  <1>5. CASE DeleteMark(t)
    BY <1>5 DEF DeleteMark
  <1>6. CASE DeleteRemove(t)
    BY <1>6 DEF DeleteRemove
  <1>7. CASE DeleteFail(t)
    BY <1>7 DEF DeleteFail
  <1>8. CASE DeleteFinish(t)
    BY <1>8 DEF DeleteFinish
  <1>9. CASE CheckActivate(t)
    BY <1>9 DEF CheckActivate
  <1>10. CASE CheckFail(t)
    BY <1>10 DEF CheckFail
  <1>11. CASE RevokeRead(t)
    BY <1>11 DEF RevokeRead
  <1>12. CASE DeleteRead(t)
    BY <1>12 DEF DeleteRead
  <1>13. CASE CheckRead(t)
    BY <1>13 DEF CheckRead
  <1>14. QED
    BY <1>1, <1>2, <1>3, <1>4, <1>5, <1>6, <1>7, <1>8, <1>9, <1>10, <1>11, <1>12, <1>13
       DEF LockedStep, Acquire

\* So does every step.
LEMMA StepRace == IInv /\ RaceInv /\ [Next]_vars => RaceInv'
  <1> SUFFICES ASSUME IInv, RaceInv, [Next]_vars PROVE RaceInv'
    OBVIOUS
  <1>1. ASSUME NEW t \in Tasks, Request(t) PROVE RaceInv'
    BY <1>1 DEF Request, RequestCreate, RequestOn, IInv, TypeOK, RaceInv, RacedRow, Creating, At, Goto,
       Call, CreatePoints, LockPoints, RevokePoints, DeletePoints, CheckPoints, QueuePoints
  <1>2. ASSUME NEW t \in Tasks, WriteRaises(t) PROVE RaceInv'
    BY <1>2, NoneAssumption DEF WriteRaises, IInv, TypeOK, RaceInv, RacedRow, Creating, Call, End,
       CreatePoints, LockPoints, RevokePoints, DeletePoints, CheckPoints
  <1>3. ASSUME \A t \in Tasks : pc'[t] = "idle" PROVE RaceInv'
    BY <1>3 DEF RaceInv, CreatePoints, LockPoints, RevokePoints, DeletePoints, CheckPoints
  <1>4. CASE Crash
    BY <1>3, <1>4 DEF Crash
  <1>5. CASE StartupStep
    <2>1. phase # "up" /\ pc' = pc
      BY <1>5 DEF StartupStep, Start, RowFinish, RowsEnd, DriftRowsEnd, DriftOrphansEnd,
         StartupRaises, StartupClean, RowSkip, RowApply, RowRemove, RowRemoveRaises,
         RowWriteRaises, DriftRestore, DriftRemove, StartupFrame, calls, Passes
    <2>. QED
      BY <1>3, <2>1 DEF IInv, ControlInv
  <1>6. CASE UNCHANGED vars
    BY <1>6 DEF vars, calls, RaceInv, RacedRow, Creating
  <1>7. QED
    BY <1>1, <1>2, <1>4, <1>5, <1>6, CreateRace, LockedRace DEF IInv, Next, TaskStep

\* It holds always.
LEMMA InvariantRace == Spec => []RaceInv
  <1>1. Init /\ [][Next]_vars /\ []IInv => []RaceInv
    BY InitRaceInv, StepRace, PTL
  <1>. QED
    BY <1>1, InvariantIInv, PTL DEF Spec

\* What a step may change, in its three parts.
Changes == IntentStep /\ RevokedStep /\ ForeignStep

\* What a call may change in rows and config.
LEMMA TaskChanges ==
  ASSUME TypeOK, ControlInv, KeysInv, RaceInv, NEW t \in Tasks, CreateStep(t) \/ LockedStep(t)
  PROVE  Changes
  <1> USE ForeignAssumption
      DEF TypeOK, ControlInv, KeysInv, RowInv, RaceInv, RacedRow, RacesAt, Changes, IntentStep,
          RevokedStep, ForeignStep, At,
          CreatePoints, LockPoints, RevokePoints, DeletePoints, CheckPoints, BusyPoints,
          RowStatuses, AccessMayExist, SetStatus, Raises, Remove
  <1>1. ASSUME NEW k \in Keys, CreateRow(t, k) PROVE Changes
    BY <1>1 DEF CreateRow
  <1>2. CASE CreateRefused(t)
    BY <1>2 DEF CreateRefused
  <1>3. CASE CreateDenied(t)
    BY <1>3 DEF CreateDenied
  <1>4. CASE CreateAdd(t)
    BY <1>4 DEF CreateAdd
  <1>5. CASE CreateAddRaises(t)
    BY <1>5 DEF CreateAddRaises
  <1>6. CASE CreateFail(t)
    BY <1>6 DEF CreateFail
  <1>7. CASE CreateActivate(t)
    BY <1>7 DEF CreateActivate
  <1>8. CASE CreateActivateRaises(t)
    BY <1>8 DEF CreateActivateRaises
  <1>9. CASE Compensate(t)
    BY <1>9 DEF Compensate
  <1>10. CASE CompensateRaises(t)
    BY <1>10 DEF CompensateRaises
  <1>11. CASE CompensateMark(t)
    BY <1>11 DEF CompensateMark
  <1>12. CASE RevokeMark(t)
    BY <1>12 DEF RevokeMark
  <1>13. CASE RevokeRemove(t)
    BY <1>13 DEF RevokeRemove
  <1>14. CASE RevokeRestore(t)
    BY <1>14 DEF RevokeRestore
  <1>15. CASE RevokeFinish(t)
    BY <1>15 DEF RevokeFinish
  <1>16. CASE DeleteMark(t)
    BY <1>16 DEF DeleteMark
  <1>17. CASE DeleteRemove(t)
    BY <1>17 DEF DeleteRemove
  <1>18. CASE DeleteFail(t)
    BY <1>18 DEF DeleteFail
  <1>19. CASE DeleteFinish(t)
    BY <1>19 DEF DeleteFinish
  <1>20. CASE CheckActivate(t)
    BY <1>20 DEF CheckActivate
  <1>21. CASE CheckFail(t)
    BY <1>21 DEF CheckFail
  <1>22. QED
    BY <1>1, <1>2, <1>3, <1>4, <1>5, <1>6, <1>7, <1>8, <1>9, <1>10, <1>11,
       <1>12, <1>13, <1>14, <1>15, <1>16, <1>17, <1>18, <1>19, <1>20, <1>21 DEF CreateStep, LockedStep

\* What a step of the startup may change in rows and config.
LEMMA StartupChanges ==
  ASSUME TypeOK, StartupInv, StartupStep
  PROVE  Changes
  <1> USE ForeignAssumption
      DEF TypeOK, StartupInv, Changes, IntentStep, RevokedStep, ForeignStep, Passes, Statuses,
          RowStatuses
  <1>1. CASE Start
    BY <1>1 DEF Start
  <1>2. CASE RowFinish
    BY <1>2 DEF RowFinish
  <1>3. CASE RowsEnd
    BY <1>3 DEF RowsEnd
  <1>4. CASE DriftRowsEnd
    BY <1>4 DEF DriftRowsEnd
  <1>5. CASE DriftOrphansEnd
    BY <1>5 DEF DriftOrphansEnd
  <1>6. CASE StartupRaises
    BY <1>6 DEF StartupRaises
  <1>7. CASE StartupClean
    BY <1>7 DEF StartupClean
  <1>8. ASSUME NEW k \in Keys, RowSkip(k) PROVE Changes
    BY <1>8 DEF RowSkip
  <1>9. ASSUME NEW k \in Keys, RowApply(k) PROVE Changes
    BY <1>9 DEF RowApply
  <1>10. ASSUME NEW k \in Keys, RowRemove(k) PROVE Changes
    BY <1>10 DEF RowRemove
  <1>11. ASSUME NEW k \in Keys, RowRemoveRaises(k) PROVE Changes
    BY <1>11 DEF RowRemoveRaises
  <1>12. ASSUME NEW k \in Keys, RowWriteRaises(k) PROVE Changes
    BY <1>12 DEF RowWriteRaises
  <1>13. ASSUME NEW k \in Keys \cup Foreign, DriftRemove(k) PROVE Changes
    BY <1>13 DEF DriftRemove
  <1>14. ASSUME NEW k \in Keys, DriftRestore(k) PROVE Changes
    BY <1>14 DEF DriftRestore
  <1>15. QED
    BY <1>1, <1>2, <1>3, <1>4, <1>5, <1>6, <1>7, <1>8, <1>9, <1>10, <1>11, <1>12, <1>13, <1>14 DEF StartupStep

\* What any step may change in rows and config: the three action properties.
LEMMA StepChanges == IInv /\ RaceInv /\ [Next]_vars => Changes
  <1> SUFFICES ASSUME IInv, RaceInv, [Next]_vars PROVE Changes
    OBVIOUS
  <1>1. ASSUME status' = status, clients' = clients PROVE Changes
    BY <1>1 DEF Changes, IntentStep, RevokedStep, ForeignStep
  <1>2. ASSUME NEW t \in Tasks, Request(t) \/ Acquire(t) \/ WriteRaises(t) PROVE Changes
    BY <1>1, <1>2 DEF Request, RequestCreate, RequestOn, Acquire, RevokeRead, DeleteRead,
       CheckRead, Enter, EnterAndLeave, WriteRaises
  <1>3. CASE Crash \/ UNCHANGED vars
    BY <1>1, <1>3 DEF Crash, vars
  <1>4. QED
    BY <1>2, <1>3, TaskChanges, StartupChanges DEF IInv, Next, TaskStep

\* For every instance: clients appear only for pending or active rows, and
\* disappear only once the row is no longer active, but for the client of a key that
\* raced with its own creation: that creation may add it whatever the row says, and
\* its compensation may remove it.
THEOREM IntentComesFirst == Spec => IntentFirst
  BY InvariantIInv, InvariantRace, StepChanges, PTL DEF Spec, Changes, IntentFirst

\* For every instance: a revoked row is deleted or stays as it is, whatever calls
\* overlap, fail or are cut off, but for the failing end of the key's own creation
\* where the revocation overtook it: that writes apply_failed over it.
THEOREM RevocationIsFinal == Spec => RevokedStaysRevoked
  BY InvariantIInv, InvariantRace, StepChanges, PTL DEF Spec, Changes, RevokedStaysRevoked

\* For every instance: clients the bot did not make are neither added nor removed.
THEOREM ForeignClientsKept == Spec => ForeignKept
  BY InvariantIInv, InvariantRace, StepChanges, PTL DEF Spec, Changes, ForeignKept

--------------------------------------------------------------------------------
(* The service implements KeyAccess.                                          *)

\* what a step that is about the key k does to its stage and its access
Fits(k) ==
  \/ Stage(k)' = Stage(k) /\ (k \in clients' <=> k \in clients)
  \/ Stage(k) = "unclear" /\ Stage(k)' = "unclear"
  \/ Stage(k) = "none" /\ Stage(k)' = "opening" /\ (k \in clients' <=> k \in clients)
  \/ Stage(k) \in {"open", "closed"} /\ Stage(k)' = "closing" /\ (k \in clients' <=> k \in clients)
  \/ Stage(k) = "opening" /\ Stage(k)' = "opening" /\ k \in clients'
  \/ Stage(k) \in {"opening", "closing"} /\ Stage(k)' = Stage(k) /\ k \notin clients'
  \/ Stage(k) \in {"opening", "closing"} /\ Stage(k)' = "open" /\ k \in clients \cap clients'
  \/ Stage(k) \in {"opening", "closing"} /\ Stage(k)' = "closed" /\ k \notin clients \cup clients'
  \/ Stage(k) \in {"opening", "closing"} /\ Stage(k)' = "unclear"

\* every other key keeps its row, its history and its client
OthersKept(k) ==
  /\ \A j \in Keys \ {k} : status'[j] = status[j]
  /\ raced' \ {k} = raced \ {k} /\ hurt' \ {k} = hurt \ {k}
  /\ clients' \ {k} = clients \ {k}

\* A step is about one key, or about none.
AboutOneKey ==
  \/ UNCHANGED <<status, clients, raced, hurt>>
  \/ \E k \in Keys : Fits(k) /\ OthersKept(k)

\* what is mapped to the variables of KeyAccess
stages == [k \in Keys |-> Stage(k)]
reach  == clients \ Suspects

\* Every stage is one of those of KeyAccess, and "unclear" is that of the suspects.
LEMMA StageIsStage ==
    ASSUME NEW k \in Keys
    PROVE  Stage(k) \in Promise!Stages /\ (Stage(k) = "unclear" <=> k \in Suspects)
  BY DEF Stage, StageOf, Suspects, Promise!Stages

\* Where the rows and their history stay as they are, so do the stages.
LEMMA StageKept ==
    ASSUME NEW k \in Keys, status'[k] = status[k], k \in raced' <=> k \in raced, k \in hurt' <=> k \in hurt
    PROVE  Stage(k)' = Stage(k)
  BY DEF Stage, StageOf

\* A step about one key is a step of KeyAccess, or none.
LEMMA OneKeyIsPromised ==
    ASSUME AboutOneKey
    PROVE  [Promise!AccessNext]_Promise!accessVars
<1>1. CASE UNCHANGED <<status, clients, raced, hurt>>
  <2>1. stages' = stages /\ reach' = reach
    BY <1>1, StageKept DEF stages, reach, Suspects
  <2>. QED
    BY <2>1 DEF Promise!accessVars, stages, reach
<1>2. ASSUME NEW k \in Keys, Fits(k), OthersKept(k)
      PROVE  [Promise!AccessNext]_Promise!accessVars
  <2>1. \A j \in Keys \ {k} : Stage(j)' = Stage(j)
    BY <1>2, StageKept DEF OthersKept
  <2>2. stages' = [stages EXCEPT ![k] = Stage(k)']
    BY <2>1 DEF stages
  <2>3. Stage(k)' = Stage(k) => stages' = stages
    BY <2>2 DEF stages
  <2>4. Stage(k)' = "unclear" =>
          stages' = [j \in Keys |-> IF j \in {k} THEN "unclear" ELSE stages[j]]
    BY <2>1 DEF stages
  <2>5. /\ Stage(k) = "unclear" <=> k \in Suspects
        /\ Stage(k)' = "unclear" <=> k \in Suspects'
    BY DEF Stage, StageOf, Suspects
  <2>6. Stage(k) \in {"opening", "closing"} => k \in Promise!Changing
    BY DEF Promise!Changing
  <2>7. reach' \ {k} = reach \ {k}
    BY <1>2 DEF reach, Suspects, OthersKept
  <2>8. /\ k \in reach <=> k \in clients /\ Stage(k) # "unclear"
        /\ k \in reach' <=> k \in clients' /\ Stage(k)' # "unclear"
    BY <2>5 DEF reach
  <2>9. (k \in reach' <=> k \in reach) => reach' = reach
    BY <2>7
  <2>10. CASE Stage(k)' = Stage(k) /\ (k \in clients' <=> k \in clients)
    BY <2>3, <2>8, <2>9, <2>10 DEF Promise!accessVars, stages, reach
  <2>11. CASE Stage(k) = "unclear" /\ Stage(k)' = "unclear"
    BY <2>3, <2>8, <2>9, <2>11 DEF Promise!accessVars, stages, reach
  <2>12. CASE Stage(k) = "none" /\ Stage(k)' = "opening" /\ (k \in clients' <=> k \in clients)
    <3>1. Promise!Announce(k)
      BY <2>2, <2>8, <2>9, <2>12 DEF Promise!Announce, Promise!Turn, stages, reach
    <3>. QED
      BY <3>1 DEF Promise!AccessNext
  <2>13. CASE Stage(k) \in {"open", "closed"} /\ Stage(k)' = "closing" /\ (k \in clients' <=> k \in clients)
    <3>1. Promise!Withdraw(k)
      BY <2>2, <2>8, <2>9, <2>13 DEF Promise!Withdraw, Promise!Turn, stages, reach
    <3>. QED
      BY <3>1 DEF Promise!AccessNext
  <2>14. CASE Stage(k) = "opening" /\ Stage(k)' = "opening" /\ k \in clients'
    <3>1. stages' = stages /\ reach' = reach \cup {k}
      BY <2>3, <2>7, <2>8, <2>14
    <3>2. Promise!Give(k)
      BY <2>14, <3>1 DEF Promise!Give, stages, reach
    <3>. QED
      BY <2>6, <2>14, <3>2 DEF Promise!AccessNext
  <2>15. CASE Stage(k) \in {"opening", "closing"} /\ Stage(k)' = Stage(k) /\ k \notin clients'
    <3>1. stages' = stages /\ reach' = reach \ {k}
      BY <2>3, <2>7, <2>8, <2>15
    <3>2. Promise!Take(k)
      BY <3>1 DEF Promise!Take, stages, reach
    <3>. QED
      BY <2>6, <2>15, <3>2 DEF Promise!AccessNext
  <2>16. CASE Stage(k) \in {"opening", "closing"} /\ Stage(k)' = "open" /\ k \in clients \cap clients'
    <3>1. reach' = reach /\ k \in reach
      BY <2>8, <2>9, <2>16
    <3>2. Promise!Grant(k)
      BY <2>2, <2>16, <3>1 DEF Promise!Grant, Promise!Turn, stages, reach
    <3>. QED
      BY <2>6, <2>16, <3>2 DEF Promise!AccessNext
  <2>17. CASE Stage(k) \in {"opening", "closing"} /\ Stage(k)' = "closed" /\ k \notin clients \cup clients'
    <3>1. reach' = reach /\ k \notin reach
      BY <2>8, <2>9, <2>17
    <3>2. Promise!Close(k)
      BY <2>2, <2>17, <3>1 DEF Promise!Close, Promise!Turn, stages, reach
    <3>. QED
      BY <2>6, <2>17, <3>2 DEF Promise!AccessNext
  <2>18. CASE Stage(k) \in {"opening", "closing"} /\ Stage(k)' = "unclear"
    <3>1. reach' = reach \ {k}
      BY <2>7, <2>8, <2>18
    <3>2. Promise!Lose({k})
      BY <2>4, <2>18, <3>1 DEF Promise!Lose, stages, reach
    <3>3. {k} \in SUBSET Promise!Changing
      BY <2>6, <2>18
    <3>. QED
      BY <3>2, <3>3 DEF Promise!AccessNext
  <2>. QED
    BY <1>2, <2>10, <2>11, <2>12, <2>13, <2>14, <2>15, <2>16, <2>17, <2>18 DEF Fits
<1>. QED
  BY <1>1, <1>2 DEF AboutOneKey

\* A step of a creation is about the key it creates.
LEMMA CreationFits ==
  ASSUME TypeOK, ControlInv, KeysInv, NEW t \in Tasks, CreateStep(t), pc[t] \in CreatePoints,
         NEW k \in Keys, k = key[t]
  PROVE  Fits(k) /\ OthersKept(k)
<1>1. /\ RowInv(t) /\ PointInv(t)
      /\ k \notin raced => status[k] = "pending_apply"
  BY DEF KeysInv, BusyPoints, RowInv
<1>2. CASE CreateRow(t, k) \/ CreateRefused(t)
  BY <1>2 DEF CreateRow, CreateRefused, At, CreatePoints
<1>3. CASE CreateDenied(t) \/ CreateActivateRaises(t)
  BY <1>3, StageKept DEF CreateDenied, CreateActivateRaises, Fits, OthersKept
<1>4. CASE CreateAdd(t)
  BY <1>1, <1>4 DEF CreateAdd, Fits, OthersKept, Stage, StageOf
<1>5. CASE CreateAddRaises(t)
  BY <1>1, <1>5 DEF CreateAddRaises, Raises, Fits, OthersKept, Stage, StageOf
<1>6. CASE CreateFail(t) \/ CompensateMark(t)
  <2>1. k \notin Suspects => k \notin clients
    BY <1>1, <1>6 DEF CreateFail, CompensateMark, At, PointInv
  <2>. QED
    BY <1>1, <1>6, <2>1
    DEF CreateFail, CompensateMark, SetStatus, RowStatuses, Suspects, Fits, OthersKept, Stage, StageOf, TypeOK
<1>7. CASE CreateActivate(t)
  <2>1. k \notin Suspects => k \in clients
    BY <1>1, <1>7 DEF CreateActivate, At, PointInv
  <2>. QED
    BY <1>1, <1>7, <2>1 DEF CreateActivate, Suspects, Fits, OthersKept, Stage, StageOf, TypeOK
<1>8. CASE Compensate(t)
  BY <1>1, <1>8 DEF Compensate, Fits, OthersKept, Stage, StageOf
<1>9. CASE CompensateRaises(t)
  BY <1>1, <1>9 DEF CompensateRaises, Fits, OthersKept, Stage, StageOf
<1>. QED
  BY <1>2, <1>3, <1>4, <1>5, <1>6, <1>7, <1>8, <1>9 DEF CreateStep, CreateRow, At, CreatePoints

\* A creation that has no key yet takes a new one.
LEMMA CreateFits ==
  ASSUME TypeOK, ControlInv, KeysInv, NEW t \in Tasks, CreateStep(t)
  PROVE  AboutOneKey
<1>1. CASE pc[t] \in CreatePoints
  <2>1. key[t] \in Keys
    BY <1>1 DEF ControlInv, BusyPoints
  <2>. QED
    BY <1>1, <2>1, CreationFits DEF AboutOneKey
<1>2. CASE pc[t] \notin CreatePoints
  <2>1. CreateRefused(t) \/ \E k \in Keys : CreateRow(t, k)
    BY <1>2
    DEF CreateStep, CreateDenied, CreateAdd, CreateAddRaises, CreateFail, CreateActivate,
        CreateActivateRaises, Compensate, CompensateRaises, CompensateMark, At, CreatePoints
  <2>2. CASE CreateRefused(t)
    BY <2>2 DEF CreateRefused, AboutOneKey
  <2>3. ASSUME NEW k \in Keys, CreateRow(t, k) PROVE AboutOneKey
    <3>1. Fits(k)
      BY <2>3 DEF CreateRow, Fits, Stage, StageOf, TypeOK
    <3>2. OthersKept(k)
      BY <2>3 DEF CreateRow, OthersKept, TypeOK
    <3>. QED
      BY <3>1, <3>2 DEF AboutOneKey
  <2>. QED
    BY <2>1, <2>2, <2>3
<1>. QED
  BY <1>1, <1>2

\* The removal of a client while the row is in a closing status fits.
LEMMA RemoveFits ==
  ASSUME NEW t \in Tasks, NEW k \in Keys, k = key[t], UNCHANGED <<status, raced>>,
         k \notin raced => StageOf(status[k]) = "closing",
         NEW after, NEW orelse, Remove(t, after, orelse)
  PROVE  Fits(k) /\ OthersKept(k)
  BY DEF Remove, Raises, Fits, OthersKept, Stage

\* A step of a locked operation is about the key it works on.
LEMMA LockedFits ==
  ASSUME TypeOK, ControlInv, OneCall, KeysInv, NEW t \in Tasks, LockedStep(t)
  PROVE  AboutOneKey
<1>0. PICK k : k = key[t]
  OBVIOUS
<1>1. /\ pc[t] \in LockPoints /\ k \in Keys /\ RowInv(t) /\ PointInv(t)
      /\ prev[t] \in RowStatuses /\ RowMatchesClient
  <2>1. pc[t] \in LockPoints
    BY DEF LockedStep, RevokeMark, RevokeRemove, RevokeRestore, RevokeFinish, DeleteMark, DeleteRemove,
           DeleteFail, DeleteFinish, CheckActivate, CheckFail, At, LockPoints, RevokePoints,
           DeletePoints, CheckPoints
  <2>. QED
    BY <1>0, <2>1 DEF ControlInv, KeysInv, BusyPoints
<1>2. ASSUME Fits(k), OthersKept(k) PROVE AboutOneKey
  BY <1>0, <1>1, <1>2 DEF AboutOneKey
\* before its first write a call finds the row of a clear key settled
<1>3. ASSUME pc[t] \in {"r_mark", "d_mark"}, k \notin Suspects
      PROVE  Stage(k) \in {"open", "closed", "closing"}
  <2>4. Settled(k)
    BY <1>0, <1>1, <1>3
    DEF OneCall, Settled, Suspects, BusyPoints, WorkPoints, CreatePoints, LockPoints, RevokePoints, DeletePoints
  <2>1. Agree(k)
    BY <1>1, <1>3, <2>4 DEF RowMatchesClient
  <2>2. status[k] \in RowStatuses
    BY <1>0, <1>1, <1>3 DEF RowInv, Suspects
  <2>3. status[k] # "pending_apply"
    BY <1>0, <1>1, <1>3, <2>1 DEF Agree
  <2>. QED
    BY <1>3, <2>2, <2>3 DEF Stage, StageOf, Suspects, RowStatuses
<1>4. CASE RevokeMark(t)
  <2>1. Fits(k) /\ OthersKept(k)
    BY <1>0, <1>1, <1>3, <1>4 DEF RevokeMark, At, SetStatus, RowStatuses, Suspects, Fits, OthersKept, Stage, StageOf, TypeOK
  <2>. QED
    BY <1>2, <2>1
<1>5. CASE DeleteMark(t)
  <2>1. Fits(k) /\ OthersKept(k)
    BY <1>0, <1>1, <1>3, <1>5 DEF DeleteMark, At, SetStatus, RowStatuses, Suspects, Fits, OthersKept, Stage, StageOf, TypeOK
  <2>. QED
    BY <1>2, <2>1
<1>6. CASE RevokeRemove(t)
  <2>1. k \notin raced => StageOf(status[k]) = "closing"
    BY <1>0, <1>1, <1>6 DEF RevokeRemove, At, RowInv, StageOf
  <2>. QED
    BY <1>0, <1>1, <1>2, <1>6, <2>1, RemoveFits DEF RevokeRemove
<1>7. CASE DeleteRemove(t)
  <2>1. k \notin raced => StageOf(status[k]) = "closing"
    BY <1>0, <1>1, <1>7 DEF DeleteRemove, At, RowInv, StageOf
  <2>. QED
    BY <1>0, <1>1, <1>2, <1>7, <2>1, RemoveFits DEF DeleteRemove
<1>8. CASE RevokeRestore(t)
  <2>1. /\ k \notin raced => status[k] = "pending_revoke"
        /\ k \notin Suspects => /\ prev[t] \in {"active", "apply_failed", "delete_failed"}
                                /\ prev[t] = "active" => k \in clients
                                /\ k \in clients => prev[t] \in {"active", "delete_failed"}
    BY <1>0, <1>1, <1>8 DEF RevokeRestore, At, RowInv, PointInv
  <2>2. Fits(k) /\ OthersKept(k)
    BY <1>0, <1>1, <1>8, <2>1 DEF RevokeRestore, SetStatus, RowStatuses, Suspects, Fits, OthersKept, Stage, StageOf, TypeOK
  <2>. QED
    BY <1>2, <2>2
<1>9. CASE RevokeFinish(t) \/ DeleteFinish(t)
  <2>1. /\ k \notin raced => status[k] \in {"pending_revoke", "pending_delete"}
        /\ k \notin Suspects => k \notin clients
    BY <1>0, <1>1, <1>9 DEF RevokeFinish, DeleteFinish, At, RowInv, PointInv
  <2>2. Fits(k) /\ OthersKept(k)
    BY <1>0, <1>1, <1>9, <2>1 DEF RevokeFinish, DeleteFinish, SetStatus, RowStatuses, Suspects, Fits, OthersKept, Stage, StageOf, TypeOK
  <2>. QED
    BY <1>2, <2>2
<1>10. CASE DeleteFail(t)
  <2>1. k \notin raced => status[k] = "pending_delete"
    BY <1>0, <1>1, <1>10 DEF DeleteFail, At, RowInv
  <2>2. Fits(k) /\ OthersKept(k)
    BY <1>0, <1>1, <1>10, <2>1 DEF DeleteFail, SetStatus, RowStatuses, Suspects, Fits, OthersKept, Stage, StageOf, TypeOK
  <2>. QED
    BY <1>2, <2>2
<1>11. CASE CheckActivate(t) \/ CheckFail(t)
  <2>1. k \in Suspects
    BY <1>0, <1>1, <1>11 DEF CheckActivate, CheckFail, At, PointInv, CheckPoints
  <2>2. Fits(k) /\ OthersKept(k)
    BY <1>0, <1>1, <1>11, <2>1 DEF CheckActivate, CheckFail, SetStatus, Suspects, Fits, OthersKept, Stage, TypeOK
  <2>. QED
    BY <1>2, <2>2
<1>. QED
  BY <1>4, <1>5, <1>6, <1>7, <1>8, <1>9, <1>10, <1>11 DEF LockedStep

\* So is the acquisition of the lock, which finds out that a creation is under way,
\* and a write that raises.
LEMMA CallFits ==
  ASSUME TypeOK, ControlInv, KeysInv, NEW t \in Tasks, Request(t) \/ Acquire(t) \/ WriteRaises(t)
  PROVE  AboutOneKey
<1>1. CASE Request(t)
  BY <1>1 DEF Request, RequestCreate, RequestOn, AboutOneKey
<1>2. CASE EnterAndLeave(t)
  BY <1>2 DEF EnterAndLeave, AboutOneKey
<1>3. ASSUME NEW point, Enter(t, point), NEW k \in Keys, k = key[t] PROVE AboutOneKey
  <2>1. Creating(k) => k \in raced \/ status[k] = "pending_apply"
    BY DEF Creating, KeysInv, BusyPoints, RowInv
  <2>2. Fits(k) /\ OthersKept(k)
    BY <1>3, <2>1 DEF Enter, Fits, OthersKept, Stage, StageOf
  <2>. QED
    BY <1>3, <2>2 DEF AboutOneKey
<1>4. CASE Acquire(t)
  <2>1. key[t] \in Keys
    BY <1>4 DEF Acquire, RevokeRead, DeleteRead, CheckRead, At, ControlInv, QueuePoints
  <2>. QED
    BY <1>2, <1>3, <1>4, <2>1 DEF Acquire, RevokeRead, DeleteRead, CheckRead
<1>5. CASE WriteRaises(t)
  <2>1. PICK k : k = key[t]
    OBVIOUS
  <2>4. pc[t] \in WorkPoints =>
          /\ k \in Keys
          /\ k \notin raced => status[k] \in {"pending_apply", "pending_revoke", "pending_delete"}
    BY <2>1 DEF ControlInv, KeysInv, BusyPoints, WorkPoints, LockPoints, RevokePoints, DeletePoints, RowInv
  <2>2. CASE pc[t] \in WorkPoints
    <3>1. Fits(k) /\ OthersKept(k)
      BY <1>5, <2>1, <2>2, <2>4 DEF WriteRaises, Fits, OthersKept, Stage, StageOf
    <3>. QED
      BY <2>2, <2>4, <3>1 DEF AboutOneKey
  <2>3. CASE pc[t] \notin WorkPoints
    BY <1>5, <2>3 DEF WriteRaises, AboutOneKey
  <2>. QED
    BY <2>2, <2>3
<1>. QED
  BY <1>1, <1>4, <1>5

\* A pass of the startup is about one key at a time.
LEMMA StartupFits ==
  ASSUME TypeOK, ControlInv, StartupInv, KeysInv, StartupStep, ~StartupClean
  PROVE  AboutOneKey
<1>1. \A k \in Keys \ Suspects : Agree(k)
  <2>1. \A t \in Tasks : pc[t] = "idle"
    BY DEF StartupStep, StartupClean, ControlInv, Passes, Start, RowFinish, RowsEnd, DriftRowsEnd,
           DriftOrphansEnd, StartupRaises, RowSkip, RowApply, RowRemove, RowRemoveRaises,
           RowWriteRaises, DriftRemove, DriftRestore
  <2>. QED
    BY <2>1 DEF KeysInv, RowMatchesClient, Settled, WorkPoints, CreatePoints
<1>2. ASSUME NEW k \in Keys, Fits(k), OthersKept(k) PROVE AboutOneKey
  BY <1>2 DEF AboutOneKey
<1>3. CASE Start \/ RowsEnd \/ DriftRowsEnd \/ DriftOrphansEnd
  BY <1>3 DEF Start, RowsEnd, DriftRowsEnd, DriftOrphansEnd, StartupFrame, AboutOneKey
<1>4. ASSUME NEW k \in Keys, RowSkip(k) \/ RowWriteRaises(k) PROVE AboutOneKey
  BY <1>4 DEF RowSkip, RowWriteRaises, StartupFrame, AboutOneKey
<1>5. ASSUME NEW k \in Keys, RowApply(k) PROVE AboutOneKey
  <2>1. k \notin Suspects => status[k] = "apply_failed" /\ k \notin clients
    BY <1>1, <1>5 DEF RowApply, Agree
  <2>. QED
    BY <1>2, <1>5, <2>1
    DEF RowApply, StartupFrame, Suspects, Fits, OthersKept, Stage, StageOf, TypeOK
<1>6. ASSUME NEW k \in Keys, RowRemove(k) PROVE AboutOneKey
  BY <1>2, <1>6 DEF RowRemove, StartupFrame, Fits, OthersKept, Stage, StageOf
<1>7. ASSUME NEW k \in Keys, RowRemoveRaises(k) PROVE AboutOneKey
  BY <1>2, <1>7 DEF RowRemoveRaises, StartupFrame, Fits, OthersKept, Stage, StageOf, TypeOK
<1>8. CASE RowFinish
  <2>1. PICK k \in Keys : k = cur
    BY <1>8 DEF RowFinish, StartupInv, TypeOK
  <2>2. k \notin clients /\ status[k] \in {"pending_revoke", "pending_delete", "delete_failed"}
    BY <1>8, <2>1 DEF RowFinish, StartupInv
  <2>. QED
    BY <1>2, <1>8, <2>1, <2>2 DEF RowFinish, StartupFrame, Fits, OthersKept, Stage, StageOf, TypeOK
\* the drift touches no key that is clear: its row and its client agree
<1>9. ASSUME NEW k \in todo \ Foreign, phase \in {"drift_rows", "drift_orphans"}, clients' = clients \ {k},
             UNCHANGED <<status, raced, hurt>>
      PROVE  AboutOneKey
  <2>1. k \in Keys
    BY <1>9 DEF TypeOK
  <2>2. status[k] # "active"
    BY <1>9, <2>1 DEF StartupInv
  <2>3. CASE k \in clients
    <3>1. k \in Suspects \/ status[k] = "delete_failed"
      BY <1>1, <2>1, <2>2, <2>3 DEF Agree
    <3>. QED
      BY <1>2, <1>9, <2>1, <3>1 DEF Suspects, Fits, OthersKept, Stage, StageOf
  <2>4. CASE k \notin clients
    BY <1>9, <2>4 DEF AboutOneKey
  <2>. QED
    BY <2>3, <2>4
<1>10. ASSUME NEW k \in todo, k \in Keys, phase = "drift_restore", clients' = clients \cup {k},
              UNCHANGED <<status, raced, hurt>>
       PROVE  AboutOneKey
  <2>1. status[k] = "active"
    BY <1>10, <1>1 DEF StartupInv
  <2>2. CASE k \in clients
    BY <1>10, <2>2 DEF AboutOneKey
  <2>3. CASE k \notin clients
    <3>1. k \in Suspects
      BY <1>1, <1>10, <2>1, <2>3 DEF Agree
    <3>. QED
      BY <1>2, <1>10, <3>1 DEF Suspects, Fits, OthersKept, Stage
  <2>. QED
    BY <2>2, <2>3
<1>11. ASSUME NEW k \in Keys \cup Foreign, DriftRemove(k) PROVE AboutOneKey
  BY <1>9, <1>11 DEF DriftRemove, StartupFrame
<1>12. ASSUME NEW k \in Keys, DriftRestore(k) PROVE AboutOneKey
  BY <1>10, <1>12 DEF DriftRestore, StartupFrame
<1>13. CASE StartupRaises
  <2>1. UNCHANGED <<status, raced, hurt>>
    BY <1>13 DEF StartupRaises
  <2>2. CASE clients' = clients
    BY <2>1, <2>2 DEF AboutOneKey
  <2>3. ASSUME phase \in {"drift_rows", "drift_orphans"}, NEW c \in todo \ Foreign, clients' = clients \ {c}
        PROVE  AboutOneKey
    BY <1>9, <2>1, <2>3
  <2>4. ASSUME phase = "drift_restore", NEW k \in todo, clients' = clients \cup {k} PROVE AboutOneKey
    <3>1. k \in Keys
      BY <2>4 DEF StartupInv, TypeOK
    <3>. QED
      BY <1>10, <2>1, <2>4, <3>1
  <2>. QED
    BY <1>13, <2>2, <2>3, <2>4 DEF StartupRaises
<1>. QED
  BY <1>3, <1>4, <1>5, <1>6, <1>7, <1>8, <1>11, <1>12, <1>13 DEF StartupStep

\* A start without failure settles the keys it serves.
LEMMA CleanIsPromised ==
  ASSUME TypeOK, StartupInv, StartupClean
  PROVE  Promise!AccessNext
<1> DEFINE K == {k \in Keys : k \in Suspects /\ k \notin Suspects'}
<1>1. UNCHANGED <<status, clients>> /\ Suspects' = Suspects \ served
  BY DEF StartupClean, Suspects
<1>2. \A k \in Keys \ K : Stage(k)' = Stage(k)
  BY <1>1 DEF Stage, Suspects
<1>3. \A k \in K : Stage(k) = "unclear"
  BY DEF Stage, Suspects
<1>4. \A k \in K : Closed(k) /\ (status[k] = "active" <=> k \in clients)
  BY <1>1 DEF StartupClean, StartupInv, Passes
<1>5. \A k \in K : Stage(k)' \in Promise!Settled /\ (Stage(k)' = "open" <=> k \in clients)
  BY <1>1, <1>4 DEF Stage, StageOf, Suspects, Closed, Promise!Settled
<1>6. K \in SUBSET Promise!Unclear
  BY <1>3 DEF Promise!Unclear
<1> DEFINE s == [k \in K |-> Stage(k)']
<1>7. s \in [K -> Promise!Settled]
  BY <1>5
<1>8. stages' = [k \in Keys |-> IF k \in K THEN s[k] ELSE stages[k]]
  BY <1>2 DEF stages
<1>9. reach' = reach \cup {k \in K : s[k] = "open"}
  <2>1. served \subseteq Keys
    BY DEF TypeOK
  <2>. QED
    BY <1>1, <1>5, <2>1 DEF reach
<1>10. Promise!Settle(K)
  BY <1>7, <1>8, <1>9 DEF Promise!Settle, stages, reach
<1>. QED
  BY <1>6, <1>10 DEF Promise!AccessNext

\* A crash loses the keys that calls were working on, and no others.
LEMMA CrashIsPromised ==
  ASSUME TypeOK, ControlInv, KeysInv, Crash
  PROVE  Promise!AccessNext
<1> DEFINE K == {k \in Keys : k \notin Suspects /\ k \in Suspects'}
<1>1. UNCHANGED <<status, clients, raced>>
  BY DEF Crash
<1>2. \A k \in Keys \ K : Stage(k)' = Stage(k)
  BY <1>1 DEF Crash, Stage, Suspects
<1>3. \A k \in K : Stage(k)' = "unclear"
  BY DEF Stage, Suspects
<1>4. ASSUME NEW k \in K PROVE Stage(k) \in {"opening", "closing"}
  <2>1. PICK t \in Tasks : pc[t] \in WorkPoints /\ key[t] = k
    BY <1>1, <1>4 DEF Crash, Suspects
  <2>2. status[k] \in {"pending_apply", "pending_revoke", "pending_delete"}
    BY <1>4, <2>1 DEF KeysInv, RowInv, BusyPoints, WorkPoints, LockPoints, RevokePoints, DeletePoints, Suspects
  <2>. QED
    BY <1>4, <2>2 DEF Stage, StageOf, Suspects
<1>5. K \in SUBSET Promise!Changing
  BY <1>4 DEF Promise!Changing
<1>6. stages' = [k \in Keys |-> IF k \in K THEN "unclear" ELSE stages[k]]
  BY <1>2, <1>3 DEF stages
<1>7. Suspects' \ Keys = Suspects \ Keys /\ Suspects \subseteq Suspects'
  <2>1. \A t \in Tasks : pc[t] \in WorkPoints => key[t] \in Keys
    BY DEF ControlInv, BusyPoints, WorkPoints, LockPoints, RevokePoints, DeletePoints
  <2>. QED
    BY <2>1 DEF Crash, Suspects
<1>8. reach' = reach \ K
  BY <1>1, <1>7 DEF reach
<1>9. Promise!Lose(K)
  BY <1>6, <1>8 DEF Promise!Lose, stages, reach
<1>. QED
  BY <1>5, <1>9 DEF Promise!AccessNext

\* Every step of the service is one of KeyAccess, or none.
LEMMA StepIsPromised == IInv /\ [Next]_vars => [Promise!AccessNext]_Promise!accessVars
<1> SUFFICES ASSUME IInv, [Next]_vars PROVE [Promise!AccessNext]_Promise!accessVars
  OBVIOUS
<1> USE DEF IInv
<1>1. CASE UNCHANGED vars
  <2>1. AboutOneKey
    BY <1>1 DEF vars, AboutOneKey
  <2>. QED
    BY <2>1, OneKeyIsPromised
<1>2. ASSUME NEW t \in Tasks, Request(t) \/ Acquire(t) \/ TaskStep(t)
      PROVE  [Promise!AccessNext]_Promise!accessVars
  <2>1. AboutOneKey
    BY <1>2, CreateFits, LockedFits, CallFits DEF TaskStep
  <2>. QED
    BY <2>1, OneKeyIsPromised
<1>3. CASE StartupStep
  BY <1>3, StartupFits, CleanIsPromised, OneKeyIsPromised
<1>4. CASE Crash
  BY <1>4, CrashIsPromised
<1>. QED
  BY <1>1, <1>2, <1>3, <1>4 DEF Next

\* The Xray service implements KeyAccess, for every set of keys, calls and foreign
\* clients and any number of crashes: changes are announced by the row, are about one
\* key each, and a key whose history is clear is granted or closed only as the config is.
THEOREM ServiceKeepsPromise == Spec => KeepsPromise
<1>1. Init => Promise!AccessInit
  BY DEF Init, Promise!AccessInit, Stage, StageOf, Suspects
<1>. QED
  BY <1>1, InvariantIInv, StepIsPromised, PTL DEF Spec, KeepsPromise, Promise!AccessSpec

\* Every step of KeyAccess keeps what it means for the clear keys.
LEMMA PromiseStep ==
    Promise!PromiseKept /\ [Promise!AccessNext]_Promise!accessVars => Promise!PromiseKept'
<1> SUFFICES ASSUME Promise!PromiseKept, [Promise!AccessNext]_Promise!accessVars, NEW j \in Keys
             PROVE  /\ stages'[j] = "open" => j \in reach'
                    /\ stages'[j] \in {"none", "closed"} => j \notin reach'
  BY DEF Promise!PromiseKept, stages, reach
<1>1. /\ stages[j] = "open" => j \in reach
      /\ stages[j] \in {"none", "closed"} => j \notin reach
  BY DEF Promise!PromiseKept, stages, reach
<1>2. DOMAIN stages = Keys
  BY DEF stages
<1> DEFINE Kept == /\ stages'[j] = "open" => j \in reach'
                   /\ stages'[j] \in {"none", "closed"} => j \notin reach'
<1>3. CASE UNCHANGED Promise!accessVars
  BY <1>1, <1>3 DEF Promise!accessVars, stages, reach
<1>4. ASSUME NEW k \in Keys, NEW to, Promise!Turn(k, to),
             to \in {"opening", "closing"} \/ (to = "open" /\ k \in reach) \/ (to = "closed" /\ k \notin reach)
      PROVE  Kept
  <2>1. stages' = [stages EXCEPT ![k] = to] /\ reach' = reach
    BY <1>4 DEF Promise!Turn, stages, reach
  <2>. QED
    BY <1>1, <1>2, <1>4, <2>1
<1>5. ASSUME NEW k \in Keys, Promise!Announce(k) \/ Promise!Withdraw(k) PROVE Kept
  BY <1>4, <1>5 DEF Promise!Announce, Promise!Withdraw
<1>6. ASSUME NEW k \in Keys, Promise!Grant(k) \/ Promise!Close(k) PROVE Kept
  BY <1>4, <1>6 DEF Promise!Grant, Promise!Close, reach
<1>7. ASSUME NEW k \in Promise!Changing, Promise!Give(k) \/ Promise!Take(k) PROVE Kept
  <2>1. /\ stages[k] \in {"opening", "closing"}
        /\ stages' = stages /\ reach' \in {reach \cup {k}, reach \ {k}}
    BY <1>7 DEF Promise!Changing, Promise!Give, Promise!Take, stages, reach
  <2>. QED
    BY <1>1, <2>1
<1>8. ASSUME NEW K \in SUBSET Promise!Changing, Promise!Lose(K) PROVE Kept
  <2>1. stages'[j] = (IF j \in K THEN "unclear" ELSE stages[j]) /\ reach' = reach \ K
    BY <1>8 DEF Promise!Lose, stages, reach
  <2>. QED
    BY <1>1, <2>1
<1>9. ASSUME NEW K \in SUBSET Promise!Unclear, Promise!Settle(K) PROVE Kept
  <2>1. PICK s \in [K -> Promise!Settled] :
          /\ stages' = [k \in Keys |-> IF k \in K THEN s[k] ELSE stages[k]]
          /\ reach' = reach \cup {k \in K : s[k] = "open"}
    BY <1>9 DEF Promise!Settle, stages, reach
  <2>2. \A k \in K : k \notin reach
    BY <1>9, StageIsStage DEF Promise!Unclear, reach
  <2>3. stages'[j] = IF j \in K THEN s[j] ELSE stages[j]
    BY <2>1
  <2>. QED
    BY <1>1, <2>1, <2>2, <2>3 DEF Promise!Settled
<1>10. \A k \in Promise!Changing : k \in Keys
  BY DEF Promise!Changing
<1>. QED
  BY <1>3, <1>5, <1>6, <1>7, <1>8, <1>9, <1>10 DEF Promise!AccessNext

\* What the promise amounts to: a key that is not suspect can connect while it is
\* granted, and cannot before it is announced nor once it is closed.
THEOREM ClearKeysConnect == Spec => []Promise!PromiseKept
<1>1. Promise!AccessInit => Promise!PromiseKept
  BY ForeignAssumption DEF Promise!AccessInit, Promise!PromiseKept
<1>. QED
  BY <1>1, PromiseStep, ServiceKeepsPromise, PTL DEF KeepsPromise, Promise!AccessSpec

--------------------------------------------------------------------------------
(* The adapter (XrayApply).                                                  *)

\* The types of the state, each for itself.
RunPoints == {"free", "validate", "backup", "install", "restart", "restore", "restart old", "ok", "failed"}
EditPoints == {"idle", "read", "install", "retry", "wait", "apply", "restore", "restored"}
RunType == [at : RunPoints, new : SUBSET Entries, old : SUBSET Entries, staged : BOOLEAN]
EditType == [at : EditPoints, op : {"none", "add", "remove", "ensure"}, of : Entries \union {"none"}, fresh : BOOLEAN,
             new : SUBSET Entries, old : SUBSET Entries, by : HelperRuns \union {"nobody"}, tries : 0 .. 2]
ApplyTypes ==
    /\ applyMode \in ApplyModes /\ configFile \subseteq Entries /\ known \subseteq Entries
    /\ answeredEntries \subseteq Entries /\ unsure \subseteq Entries
    /\ helper \in [HelperRuns -> RunType] /\ edit \in EditType /\ overlapped \in BOOLEAN /\ adrift \in BOOLEAN

\* Where a change is, it has an entry, a run of the helper, and tries left.
EditInv ==
    /\ edit.at # "idle" => edit.of \in Entries /\ edit.op \in {"add", "remove", "ensure"}
    /\ edit.at = "wait" => edit.by \in HelperRuns /\ helper[edit.by].at # "free" /\ edit.tries \in 1 .. 2
    /\ edit.at = "retry" => edit.tries = 1
    /\ edit.at \in {"read", "install"} => edit.tries = 0

\* Unless a change began beside a run still at work, only its own run is at work.
AloneInv == edit.at # "idle" /\ ~overlapped => WorkingHelpers \subseteq (IF edit.at = "wait" THEN {edit.by} ELSE {})

\* A content of the file that differs from what was answered only where it may.
Touched == unsure \union (IF edit.at = "idle" THEN {} ELSE {edit.of})
Agrees(content) == \A c \in Entries \ Touched : c \in content <=> c \in answeredEntries
ContentInv ==
    ~overlapped =>
        /\ Agrees(configFile)
        /\ edit.at # "idle" => Agrees(edit.old)
        /\ edit.at \notin {"idle", "read"} => Agrees(edit.new)
        /\ \A h \in WorkingHelpers :
            /\ Agrees(helper[h].new)
            /\ helper[h].at \notin {"validate", "backup"} => Agrees(helper[h].old)

\* What a change is about to answer is what is in the file.
AnswerInv ==
    ~overlapped =>
        /\ edit.at \in {"install", "retry", "wait", "apply"} => (edit.of \in edit.new <=> edit.op # "remove")
        /\ edit.at = "apply" => configFile = edit.new
        /\ edit.at = "wait" =>
            /\ edit.by \in WorkingHelpers => helper[edit.by].new = edit.new
            /\ helper[edit.by].at \in {"restart", "ok"} => configFile = edit.new

\* The service knows the file, unless somebody is about to restart it.
Restarting ==
    \/ edit.at \in {"apply", "restore", "restored"}
    \/ \E h \in HelperRuns : helper[h].at \in {"restart", "restore", "restart old"}
KnownInv == adrift \/ Restarting \/ known = configFile

\* The inductive invariant of the adapter.
ApplyIInv == ApplyTypes /\ EditInv /\ AloneInv /\ ContentInv /\ AnswerInv /\ KnownInv

\* The records a step makes of a run and of a change.
LEMMA RunRecords ==
    ASSUME NEW r \in RunType, NEW at \in RunPoints, NEW old \in SUBSET Entries
    PROVE  /\ [r EXCEPT !.at = at] \in RunType
           /\ [r EXCEPT !.at = at, !.old = old] \in RunType
           /\ [r EXCEPT !.staged = FALSE] \in RunType
  BY DEF RunType
\* And of a change.
LEMMA EditRecords ==
    ASSUME NEW e \in EditType, NEW at \in EditPoints, NEW new \in SUBSET Entries
    PROVE  /\ [e EXCEPT !.at = at] \in EditType
           /\ [e EXCEPT !.at = at, !.new = new] \in EditType
           /\ [e EXCEPT !.fresh = FALSE] \in EditType
  BY DEF EditType
\* So are those of an edit and a run that are not there.
LEMMA NoneAtFirst == NoRun \in RunType /\ NoEdit \in EditType
  BY DEF NoRun, RunType, RunPoints, NoEdit, EditType, EditPoints
\* So is a new edit.
LEMMA EditAsked ==
    ASSUME NEW op \in {"add", "remove", "ensure"}, NEW c \in Entries, NEW old \in SUBSET Entries
    PROVE  [NoEdit EXCEPT !.at = "read", !.op = op, !.of = c, !.old = old] \in EditType
<1>1. "read" \in EditPoints
  BY DEF EditPoints
<1>2. \A e \in EditType : /\ [e EXCEPT !.at = "read"] \in EditType /\ [e EXCEPT !.op = op] \in EditType
                          /\ [e EXCEPT !.of = c] \in EditType /\ [e EXCEPT !.old = old] \in EditType
  BY <1>1 DEF EditType
<1>. DEFINE one == [NoEdit EXCEPT !.at = "read"]
            two == [one EXCEPT !.op = op]
            three == [two EXCEPT !.of = c]
<1>3. one \in EditType
  BY <1>2, NoneAtFirst
<1>4. two \in EditType
  BY <1>2, <1>3
<1>5. three \in EditType
  BY <1>2, <1>4
<1>. HIDE DEF three
<1>6. [three EXCEPT !.old = old] \in EditType
  BY <1>2, <1>5
<1>. QED
  BY <1>6 DEF three
\* A helper that starts is a well formed run.
LEMMA RunStarted ==
    ASSUME NEW new \in SUBSET Entries
    PROVE  [NoRun EXCEPT !.at = "validate", !.new = new, !.staged = TRUE] \in RunType
  BY DEF NoRun, RunType, RunPoints
\* An edit that is retried is a well formed edit.
LEMMA EditWaits ==
    ASSUME NEW e \in EditType, NEW h \in HelperRuns, e.tries \in 0 .. 1
    PROVE  [e EXCEPT !.at = "wait", !.by = h, !.tries = @ + 1] \in EditType
<1>1. "wait" \in EditPoints /\ e.tries + 1 \in 0 .. 2
  BY DEF EditPoints
<1>. QED
  BY <1>1 DEF EditType
\* A run that goes on is a well formed run.
LEMMA RunMoves ==
    ASSUME helper \in [HelperRuns -> RunType], NEW h \in HelperRuns, NEW at \in RunPoints, HelperMoves(h, at)
    PROVE  helper' \in [HelperRuns -> RunType]
<1>1. [helper[h] EXCEPT !.at = at] \in RunType
  BY DEF RunType
<1>2. helper' = [helper EXCEPT ![h] = [helper[h] EXCEPT !.at = at]]
  BY DEF HelperMoves
<1>. QED
  BY <1>1, <1>2

\* Every step keeps the types.
LEMMA ApplyTypeStep == ASSUME ApplyTypes, EditInv, [ApplyNext]_applyVars PROVE ApplyTypes' /\ EditInv'
<1>. DEFINE Plain == applyMode \in ApplyModes /\ configFile \subseteq Entries /\ known \subseteq Entries
            Answers == /\ answeredEntries \subseteq Entries /\ unsure \subseteq Entries
                       /\ overlapped \in BOOLEAN /\ adrift \in BOOLEAN
            Helpers == helper \in [HelperRuns -> RunType]
            Edit == edit \in EditType
<1>1. Plain /\ Answers /\ Helpers /\ Edit /\ EditInv
  BY DEF ApplyTypes
<1>. SUFFICES Plain' /\ Answers' /\ Helpers' /\ Edit' /\ EditInv'
  BY DEF ApplyTypes
<1>. USE DEF ReplacedBy, Restarted, NotRestarted, LeftAdrift, HelperMoves, EditAnswered, EditRaised, applyVars,
   applyWorld, editAnswers, applyHistory, WorkingHelpers
<1>2. ASSUME NEW op \in {"add", "remove", "ensure"}, NEW c \in Entries, AskEdit(op, c) PROVE Plain' /\ Answers' /\ Helpers' /\ Edit' /\ EditInv'
  <2>1. Plain'
    BY <1>1, <1>2 DEF AskEdit, EditType, EditInv
  <2>2. Answers'
    BY <1>1, <1>2 DEF AskEdit, EditInv, EditType
  <2>3. Helpers'
    BY <1>1, <1>2 DEF AskEdit, RunType, RunPoints, EditType, NoRun
  <2>4. Edit'
    BY <1>1, <1>2, EditAsked DEF AskEdit
  <2>5. EditInv'
    BY <1>1, <1>2 DEF AskEdit, EditInv, EditType, RunType, NoEdit, NoRun
  <2>. QED
    BY <2>1, <2>2, <2>3, <2>4, <2>5
<1>3. CASE ReadConfig
  <2>1. Plain'
    BY <1>1, <1>3 DEF ReadConfig, EditType, EditInv
  <2>2. Answers'
    BY <1>1, <1>3 DEF ReadConfig, EditInv, EditType
  <2>3. Helpers'
    BY <1>1, <1>3 DEF ReadConfig, RunType, RunPoints, EditType, NoRun
  <2>4. Edit'
    <3>1. edit' = NoEdit \/ \E new \in SUBSET Entries : edit' = [edit EXCEPT !.at = "install", !.new = new]
      <4>1. configFile \union {edit.of} \in SUBSET Entries /\ configFile \ {edit.of} \in SUBSET Entries
        BY <1>1, <1>3 DEF ReadConfig, EditInv
      <4>. QED
        BY <1>3, <4>1 DEF ReadConfig
    <3>2. "install" \in EditPoints
      BY DEF EditPoints
    <3>3. ASSUME NEW new \in SUBSET Entries, edit' = [edit EXCEPT !.at = "install", !.new = new] PROVE Edit'
      BY <1>1, <3>2, <3>3, EditRecords
    <3>. QED
      BY <3>1, <3>3, NoneAtFirst
  <2>5. EditInv'
    <3>1. \/ edit' = NoEdit /\ helper' = helper
          \/ edit' \in EditType /\ edit'.at = "install" /\ edit'.of = edit.of /\ edit'.op = edit.op
             /\ edit'.tries = edit.tries
      BY <1>1, <1>3, <2>4 DEF ReadConfig, EditType
    <3>. QED
      BY <1>1, <1>3, <3>1 DEF ReadConfig, EditInv, NoEdit
  <2>. QED
    BY <2>1, <2>2, <2>3, <2>4, <2>5
<1>4. CASE EditGivenUp
  <2>1. Plain'
    BY <1>1, <1>4 DEF EditGivenUp, EditType, EditInv
  <2>2. Answers'
    BY <1>1, <1>4 DEF EditGivenUp, EditInv, EditType
  <2>3. Helpers'
    BY <1>1, <1>4 DEF EditGivenUp, RunType, RunPoints, EditType, NoRun
  <2>4. Edit'
    BY <1>1, <1>4 DEF EditGivenUp, EditType, EditPoints, NoEdit, RunType
  <2>5. EditInv'
    BY <1>1, <1>4 DEF EditGivenUp, EditInv, EditType, RunType, NoEdit, NoRun
  <2>. QED
    BY <2>1, <2>2, <2>3, <2>4, <2>5
<1>5. CASE ConfigChanged
  <2>1. Plain'
    BY <1>1, <1>5 DEF ConfigChanged, EditType, EditInv
  <2>2. Answers'
    BY <1>1, <1>5 DEF ConfigChanged, EditInv, EditType
  <2>3. Helpers'
    BY <1>1, <1>5 DEF ConfigChanged, RunType, RunPoints, EditType, NoRun
  <2>4. Edit'
    BY <1>1, <1>5 DEF ConfigChanged, EditType, EditPoints, NoEdit, RunType
  <2>5. EditInv'
    BY <1>1, <1>5 DEF ConfigChanged, EditInv, EditType, RunType, NoEdit, NoRun
  <2>. QED
    BY <2>1, <2>2, <2>3, <2>4, <2>5
<1>6. CASE HelperAnswers
  <2>1. Plain'
    BY <1>1, <1>6 DEF HelperAnswers, EditType, EditInv
  <2>2. Answers'
    BY <1>1, <1>6 DEF HelperAnswers, EditInv, EditType
  <2>3. Helpers'
    BY <1>1, <1>6 DEF HelperAnswers, RunType, RunPoints, EditType, NoRun
  <2>4. Edit'
    <3>1. "retry" \in EditPoints
      BY DEF EditPoints
    <3>. QED
      BY <1>1, <1>6, <3>1, EditRecords, NoneAtFirst DEF HelperAnswers
  <2>5. EditInv'
    BY <1>1, <1>6 DEF HelperAnswers, EditInv, EditType, RunType, NoEdit, NoRun
  <2>. QED
    BY <2>1, <2>2, <2>3, <2>4, <2>5
<1>7. CASE HelperIsLate
  <2>1. Plain'
    BY <1>1, <1>7 DEF HelperIsLate, Unstaged, EditType, EditInv
  <2>2. Answers'
    BY <1>1, <1>7 DEF HelperIsLate, Unstaged, EditInv, EditType
  <2>3. Helpers'
    <3>1. [helper[edit.by] EXCEPT !.staged = FALSE] \in RunType
      BY <1>1, <1>7 DEF HelperIsLate, RunType
    <3>2. helper' = [helper EXCEPT ![edit.by] = [helper[edit.by] EXCEPT !.staged = FALSE]]
      BY <1>7 DEF HelperIsLate, Unstaged
    <3>. QED
      BY <1>1, <3>1, <3>2
  <2>4. Edit'
    BY <1>1, <1>7 DEF HelperIsLate, Unstaged, EditType, EditPoints, NoEdit, RunType
  <2>5. EditInv'
    BY <1>1, <1>7 DEF HelperIsLate, Unstaged, EditInv, EditType, RunType, NoEdit, NoRun
  <2>. QED
    BY <2>1, <2>2, <2>3, <2>4, <2>5
<1>8. ASSUME NEW h \in HelperRuns, StartHelper(h) PROVE Plain' /\ Answers' /\ Helpers' /\ Edit' /\ EditInv'
  <2>1. Plain'
    BY <1>1, <1>8 DEF StartHelper, NoRun, EditType, EditInv
  <2>2. Answers'
    BY <1>1, <1>8 DEF StartHelper, NoRun, EditInv, EditType
  <2>3. Helpers'
    BY <1>1, <1>8 DEF StartHelper, NoRun, RunType, RunPoints, EditType, NoRun
  <2>4. Edit'
    <3>1. edit.tries \in 0 .. 1
      BY <1>1, <1>8 DEF StartHelper, EditInv
    <3>. QED
      BY <1>1, <1>8, <3>1, EditWaits DEF StartHelper
  <2>5. EditInv'
    BY <1>1, <1>8 DEF StartHelper, NoRun, EditInv, EditType, RunType, NoEdit, NoRun
  <2>. QED
    BY <2>1, <2>2, <2>3, <2>4, <2>5
<1>9. ASSUME NEW h \in HelperRuns, HelperGone(h) PROVE Plain' /\ Answers' /\ Helpers' /\ Edit' /\ EditInv'
  <2>1. Plain'
    BY <1>1, <1>9 DEF HelperGone, EditType, EditInv
  <2>2. Answers'
    BY <1>1, <1>9 DEF HelperGone, EditInv, EditType
  <2>3. Helpers'
    BY <1>1, <1>9 DEF HelperGone, RunType, RunPoints, EditType, NoRun
  <2>4. Edit'
    BY <1>1, <1>9 DEF HelperGone, EditType, EditPoints, NoEdit, RunType
  <2>5. EditInv'
    BY <1>1, <1>9 DEF HelperGone, EditInv, EditType, RunType, NoEdit, NoRun
  <2>. QED
    BY <2>1, <2>2, <2>3, <2>4, <2>5
<1>10. ASSUME NEW h \in HelperRuns, HelperValidates(h) PROVE Plain' /\ Answers' /\ Helpers' /\ Edit' /\ EditInv'
  <2>1. Plain'
    BY <1>1, <1>10 DEF HelperValidates, EditType, EditInv
  <2>2. Answers'
    BY <1>1, <1>10 DEF HelperValidates, EditInv, EditType
  <2>3. Helpers'
    <3>1. \E at \in RunPoints : HelperMoves(h, at)
      BY <1>10 DEF HelperValidates, RunPoints
    <3>. QED
      BY <1>1, <3>1, RunMoves
  <2>4. Edit'
    BY <1>1, <1>10 DEF HelperValidates, EditType, EditPoints, NoEdit, RunType
  <2>5. EditInv'
    BY <1>1, <1>10 DEF HelperValidates, EditInv, EditType, RunType, NoEdit, NoRun
  <2>. QED
    BY <2>1, <2>2, <2>3, <2>4, <2>5
<1>11. ASSUME NEW h \in HelperRuns, HelperBacksUp(h) PROVE Plain' /\ Answers' /\ Helpers' /\ Edit' /\ EditInv'
  <2>1. Plain'
    BY <1>1, <1>11 DEF HelperBacksUp, EditType, EditInv
  <2>2. Answers'
    BY <1>1, <1>11 DEF HelperBacksUp, EditInv, EditType
  <2>3. Helpers'
    <3>1. \/ \E at \in RunPoints : HelperMoves(h, at)
          \/ helper' = [helper EXCEPT ![h].at = "install", ![h].old = configFile]
      BY <1>11 DEF HelperBacksUp, RunPoints
    <3>2. "install" \in RunPoints /\ helper[h] \in RunType
      BY <1>1 DEF RunPoints
    <3>3. [helper[h] EXCEPT !.at = "install", !.old = configFile] \in RunType
      BY <1>1, <3>2, RunRecords
    <3>. QED
      BY <1>1, <3>1, <3>2, <3>3, RunMoves
  <2>4. Edit'
    BY <1>1, <1>11 DEF HelperBacksUp, EditType, EditPoints, NoEdit, RunType
  <2>5. EditInv'
    BY <1>1, <1>11 DEF HelperBacksUp, EditInv, EditType, RunType, NoEdit, NoRun
  <2>. QED
    BY <2>1, <2>2, <2>3, <2>4, <2>5
<1>12. ASSUME NEW h \in HelperRuns, HelperInstalls(h) PROVE Plain' /\ Answers' /\ Helpers' /\ Edit' /\ EditInv'
  <2>1. Plain'
    <3>1. helper[h].new \in SUBSET Entries /\ helper[h].old \in SUBSET Entries
      BY <1>1 DEF RunType
    <3>. QED
      BY <1>1, <1>12, <3>1 DEF HelperInstalls
  <2>2. Answers'
    BY <1>1, <1>12 DEF HelperInstalls, EditInv, EditType
  <2>3. Helpers'
    <3>1. \E at \in RunPoints : HelperMoves(h, at)
      BY <1>12 DEF HelperInstalls, RunPoints
    <3>. QED
      BY <1>1, <3>1, RunMoves
  <2>4. Edit'
    BY <1>1, <1>12 DEF HelperInstalls, EditType, EditPoints, NoEdit, RunType
  <2>5. EditInv'
    BY <1>1, <1>12 DEF HelperInstalls, EditInv, EditType, RunType, NoEdit, NoRun
  <2>. QED
    BY <2>1, <2>2, <2>3, <2>4, <2>5
<1>13. ASSUME NEW h \in HelperRuns, HelperRestarts(h) PROVE Plain' /\ Answers' /\ Helpers' /\ Edit' /\ EditInv'
  <2>1. Plain'
    BY <1>1, <1>13 DEF HelperRestarts, EditType, EditInv
  <2>2. Answers'
    BY <1>1, <1>13 DEF HelperRestarts, EditInv, EditType
  <2>3. Helpers'
    <3>1. \E at \in RunPoints : HelperMoves(h, at)
      BY <1>13 DEF HelperRestarts, RunPoints
    <3>. QED
      BY <1>1, <3>1, RunMoves
  <2>4. Edit'
    BY <1>1, <1>13 DEF HelperRestarts, EditType, EditPoints, NoEdit, RunType
  <2>5. EditInv'
    BY <1>1, <1>13 DEF HelperRestarts, EditInv, EditType, RunType, NoEdit, NoRun
  <2>. QED
    BY <2>1, <2>2, <2>3, <2>4, <2>5
<1>14. ASSUME NEW h \in HelperRuns, HelperRestores(h) PROVE Plain' /\ Answers' /\ Helpers' /\ Edit' /\ EditInv'
  <2>1. Plain'
    <3>1. helper[h].new \in SUBSET Entries /\ helper[h].old \in SUBSET Entries
      BY <1>1 DEF RunType
    <3>. QED
      BY <1>1, <1>14, <3>1 DEF HelperRestores
  <2>2. Answers'
    BY <1>1, <1>14 DEF HelperRestores, EditInv, EditType
  <2>3. Helpers'
    <3>1. \E at \in RunPoints : HelperMoves(h, at)
      BY <1>14 DEF HelperRestores, RunPoints
    <3>. QED
      BY <1>1, <3>1, RunMoves
  <2>4. Edit'
    BY <1>1, <1>14 DEF HelperRestores, EditType, EditPoints, NoEdit, RunType
  <2>5. EditInv'
    <3>1. edit' = edit \/ edit' = [edit EXCEPT !.fresh = FALSE]
      BY <1>14 DEF HelperRestores
    <3>2. edit'.at = edit.at /\ edit'.of = edit.of /\ edit'.op = edit.op /\ edit'.by = edit.by /\ edit'.tries = edit.tries
      BY <1>1, <3>1 DEF EditType
    <3>3. \A g \in HelperRuns : helper[g].at # "free" => helper'[g].at # "free"
      BY <1>1, <1>14 DEF HelperRestores, RunType
    <3>. QED
      BY <1>1, <3>2, <3>3 DEF EditInv
  <2>. QED
    BY <2>1, <2>2, <2>3, <2>4, <2>5
<1>15. ASSUME NEW h \in HelperRuns, HelperRestartsOld(h) PROVE Plain' /\ Answers' /\ Helpers' /\ Edit' /\ EditInv'
  <2>1. Plain'
    BY <1>1, <1>15 DEF HelperRestartsOld, EditType, EditInv
  <2>2. Answers'
    BY <1>1, <1>15 DEF HelperRestartsOld, EditInv, EditType
  <2>3. Helpers'
    <3>1. \E at \in RunPoints : HelperMoves(h, at)
      BY <1>15 DEF HelperRestartsOld, RunPoints
    <3>. QED
      BY <1>1, <3>1, RunMoves
  <2>4. Edit'
    BY <1>1, <1>15 DEF HelperRestartsOld, EditType, EditPoints, NoEdit, RunType
  <2>5. EditInv'
    BY <1>1, <1>15 DEF HelperRestartsOld, EditInv, EditType, RunType, NoEdit, NoRun
  <2>. QED
    BY <2>1, <2>2, <2>3, <2>4, <2>5
<1>16. CASE ReplaceConfig
  <2>1. Plain'
    BY <1>1, <1>16 DEF ReplaceConfig, EditType, EditInv
  <2>2. Answers'
    BY <1>1, <1>16 DEF ReplaceConfig, EditInv, EditType
  <2>3. Helpers'
    BY <1>1, <1>16 DEF ReplaceConfig, RunType, RunPoints, EditType, NoRun
  <2>4. Edit'
    BY <1>1, <1>16 DEF ReplaceConfig, EditType, EditPoints, NoEdit, RunType
  <2>5. EditInv'
    BY <1>1, <1>16 DEF ReplaceConfig, EditInv, EditType, RunType, NoEdit, NoRun
  <2>. QED
    BY <2>1, <2>2, <2>3, <2>4, <2>5
<1>17. CASE ReloadOrRestart
  <2>1. Plain'
    BY <1>1, <1>17 DEF ReloadOrRestart, EditType, EditInv
  <2>2. Answers'
    BY <1>1, <1>17 DEF ReloadOrRestart, EditInv, EditType
  <2>3. Helpers'
    BY <1>1, <1>17 DEF ReloadOrRestart, RunType, RunPoints, EditType, NoRun
  <2>4. Edit'
    <3>1. "restore" \in EditPoints
      BY DEF EditPoints
    <3>. QED
      BY <1>1, <1>17, <3>1, EditRecords, NoneAtFirst DEF ReloadOrRestart
  <2>5. EditInv'
    BY <1>1, <1>17 DEF ReloadOrRestart, EditInv, EditType, RunType, NoEdit, NoRun
  <2>. QED
    BY <2>1, <2>2, <2>3, <2>4, <2>5
<1>18. CASE RestoreBackup
  <2>1. Plain'
    BY <1>1, <1>18 DEF RestoreBackup, EditType, EditInv
  <2>2. Answers'
    BY <1>1, <1>18 DEF RestoreBackup, EditInv, EditType
  <2>3. Helpers'
    BY <1>1, <1>18 DEF RestoreBackup, RunType, RunPoints, EditType, NoRun
  <2>4. Edit'
    <3>1. "restored" \in EditPoints
      BY DEF EditPoints
    <3>. QED
      BY <1>1, <1>18, <3>1, EditRecords, NoneAtFirst DEF RestoreBackup, ReplacedBy
  <2>5. EditInv'
    <3>1. edit' = NoEdit \/ (edit'.at = "restored" /\ edit'.of = edit.of /\ edit'.op = edit.op)
      BY <1>1, <1>18 DEF RestoreBackup, EditType
    <3>. QED
      BY <1>1, <1>18, <3>1 DEF RestoreBackup, EditInv, NoEdit
  <2>. QED
    BY <2>1, <2>2, <2>3, <2>4, <2>5
<1>19. CASE RestoredApplies
  <2>1. Plain'
    BY <1>1, <1>19 DEF RestoredApplies, EditType, EditInv
  <2>2. Answers'
    BY <1>1, <1>19 DEF RestoredApplies, EditInv, EditType
  <2>3. Helpers'
    BY <1>1, <1>19 DEF RestoredApplies, RunType, RunPoints, EditType, NoRun
  <2>4. Edit'
    BY <1>1, <1>19 DEF RestoredApplies, EditType, EditPoints, NoEdit, RunType
  <2>5. EditInv'
    BY <1>1, <1>19 DEF RestoredApplies, EditInv, EditType, RunType, NoEdit, NoRun
  <2>. QED
    BY <2>1, <2>2, <2>3, <2>4, <2>5
<1>20. CASE StopBot
  <2>1. Plain'
    BY <1>1, <1>20 DEF StopBot, EditType, EditInv
  <2>2. Answers'
    BY <1>1, <1>20 DEF StopBot, EditInv, EditType
  <2>3. Helpers'
    BY <1>1, <1>20 DEF StopBot, RunType, RunPoints, EditType, NoRun
  <2>4. Edit'
    BY <1>1, <1>20 DEF StopBot, EditType, EditPoints, NoEdit, RunType
  <2>5. EditInv'
    BY <1>1, <1>20 DEF StopBot, EditInv, EditType, RunType, NoEdit, NoRun
  <2>. QED
    BY <2>1, <2>2, <2>3, <2>4, <2>5
<1>21. CASE ServiceRestarts
  <2>1. Plain'
    BY <1>1, <1>21 DEF ServiceRestarts, EditType, EditInv
  <2>2. Answers'
    BY <1>1, <1>21 DEF ServiceRestarts, EditInv, EditType
  <2>3. Helpers'
    BY <1>1, <1>21 DEF ServiceRestarts, RunType, RunPoints, EditType, NoRun
  <2>4. Edit'
    BY <1>1, <1>21 DEF ServiceRestarts, EditType, EditPoints, NoEdit, RunType
  <2>5. EditInv'
    BY <1>1, <1>21 DEF ServiceRestarts, EditInv, EditType, RunType, NoEdit, NoRun
  <2>. QED
    BY <2>1, <2>2, <2>3, <2>4, <2>5
<1>22. CASE UNCHANGED applyVars
  <2>1. Plain'
    BY <1>1, <1>22 DEF applyVars, EditType, EditInv
  <2>2. Answers'
    BY <1>1, <1>22 DEF applyVars, EditInv, EditType
  <2>3. Helpers'
    BY <1>1, <1>22 DEF applyVars, RunType, RunPoints, EditType, NoRun
  <2>4. Edit'
    BY <1>1, <1>22 DEF applyVars, EditType, EditPoints, NoEdit, RunType
  <2>5. EditInv'
    BY <1>1, <1>22 DEF applyVars, EditInv, EditType, RunType, NoEdit, NoRun
  <2>. QED
    BY <2>1, <2>2, <2>3, <2>4, <2>5
<1>. QED
  BY <1>2, <1>3, <1>4, <1>5, <1>6, <1>7, <1>8, <1>9, <1>10, <1>11, <1>12, <1>13, <1>14, <1>15, <1>16, <1>17, <1>18,
     <1>19, <1>20, <1>21, <1>22 DEF ApplyNext, AddClient, RemoveClient, EnsureShortId, Helper

\* What a step of a run leaves alone.
LEMMA RunKept ==
    ASSUME helper \in [HelperRuns -> RunType], NEW h \in HelperRuns, NEW at, HelperMoves(h, at)
    PROVE  /\ helper'[h].at = at
           /\ \A g \in HelperRuns : /\ helper'[g].new = helper[g].new /\ helper'[g].old = helper[g].old
                                    /\ g # h => helper'[g] = helper[g]
  BY DEF HelperMoves, RunType

\* Every step keeps a change alone, and the service known.
LEMMA ApplyControlStep ==
    ASSUME ApplyIInv, [ApplyNext]_applyVars
    PROVE  AloneInv' /\ KnownInv'
<1>1. ApplyTypes /\ EditInv /\ AloneInv /\ KnownInv
  BY DEF ApplyIInv
<1>. USE DEF ReplacedBy, Restarted, NotRestarted, LeftAdrift, HelperMoves, NoEdit, NoRun, EditAnswered, EditRaised,
   applyVars, applyWorld, editAnswers, applyHistory
<1>2. ASSUME NEW op \in {"add", "remove", "ensure"}, NEW c \in Entries, AskEdit(op, c) PROVE AloneInv' /\ KnownInv'
  <2>1. AloneInv'
    BY <1>1, <1>2 DEF AskEdit, ApplyTypes, EditInv, AloneInv, EditType, RunType, WorkingHelpers
  <2>2. KnownInv'
    BY <1>1, <1>2 DEF AskEdit, ApplyTypes, EditInv, KnownInv, Restarting, EditType, RunType, WorkingHelpers
  <2>. QED
    BY <2>1, <2>2
<1>3. CASE ReadConfig
  <2>1. AloneInv'
    BY <1>1, <1>3 DEF ReadConfig, ApplyTypes, EditInv, AloneInv, EditType, RunType, WorkingHelpers
  <2>2. KnownInv'
    BY <1>1, <1>3 DEF ReadConfig, ApplyTypes, EditInv, KnownInv, Restarting, EditType, RunType, WorkingHelpers
  <2>. QED
    BY <2>1, <2>2
<1>4. CASE EditGivenUp
  <2>1. AloneInv'
    BY <1>1, <1>4 DEF EditGivenUp, ApplyTypes, EditInv, AloneInv, EditType, RunType, WorkingHelpers
  <2>2. KnownInv'
    BY <1>1, <1>4 DEF EditGivenUp, ApplyTypes, EditInv, KnownInv, Restarting, EditType, RunType, WorkingHelpers
  <2>. QED
    BY <2>1, <2>2
<1>5. CASE ConfigChanged
  <2>1. AloneInv'
    BY <1>1, <1>5 DEF ConfigChanged, ApplyTypes, EditInv, AloneInv, EditType, RunType, WorkingHelpers
  <2>2. KnownInv'
    BY <1>1, <1>5 DEF ConfigChanged, ApplyTypes, EditInv, KnownInv, Restarting, EditType, RunType, WorkingHelpers
  <2>. QED
    BY <2>1, <2>2
<1>6. CASE HelperAnswers
  <2>1. AloneInv'
    BY <1>1, <1>6 DEF HelperAnswers, ApplyTypes, EditInv, AloneInv, EditType, RunType, WorkingHelpers
  <2>2. KnownInv'
    BY <1>1, <1>6 DEF HelperAnswers, ApplyTypes, EditInv, KnownInv, Restarting, EditType, RunType, WorkingHelpers
  <2>. QED
    BY <2>1, <2>2
<1>7. CASE HelperIsLate
  <2>1. AloneInv'
    BY <1>1, <1>7 DEF HelperIsLate, Unstaged, ApplyTypes, EditInv, AloneInv, EditType, RunType, WorkingHelpers
  <2>2. KnownInv'
    <3>1. \A g \in HelperRuns : helper'[g].at = helper[g].at
      BY <1>1, <1>7 DEF HelperIsLate, Unstaged, ApplyTypes, RunType
    <3>. QED
      BY <1>1, <1>7, <3>1 DEF HelperIsLate, KnownInv, Restarting
  <2>. QED
    BY <2>1, <2>2
<1>8. ASSUME NEW h \in HelperRuns, StartHelper(h) PROVE AloneInv' /\ KnownInv'
  <2>1. AloneInv'
    BY <1>1, <1>8 DEF StartHelper, NoRun, ApplyTypes, EditInv, AloneInv, EditType, RunType, WorkingHelpers
  <2>2. KnownInv'
    BY <1>1, <1>8 DEF StartHelper, NoRun, ApplyTypes, EditInv, KnownInv, Restarting, EditType, RunType, WorkingHelpers
  <2>. QED
    BY <2>1, <2>2
<1>9. ASSUME NEW h \in HelperRuns, HelperGone(h) PROVE AloneInv' /\ KnownInv'
  <2>1. AloneInv'
    BY <1>1, <1>9 DEF HelperGone, ApplyTypes, EditInv, AloneInv, EditType, RunType, WorkingHelpers
  <2>2. KnownInv'
    BY <1>1, <1>9 DEF HelperGone, ApplyTypes, EditInv, KnownInv, Restarting, EditType, RunType, WorkingHelpers
  <2>. QED
    BY <2>1, <2>2
<1>10. ASSUME NEW h \in HelperRuns, HelperValidates(h) PROVE AloneInv' /\ KnownInv'
  <2>1. AloneInv'
    BY <1>1, <1>10 DEF HelperValidates, ApplyTypes, EditInv, AloneInv, EditType, RunType, WorkingHelpers
  <2>2. KnownInv'
    BY <1>1, <1>10 DEF HelperValidates, ApplyTypes, EditInv, KnownInv, Restarting, EditType, RunType, WorkingHelpers
  <2>. QED
    BY <2>1, <2>2
<1>11. ASSUME NEW h \in HelperRuns, HelperBacksUp(h) PROVE AloneInv' /\ KnownInv'
  <2>1. AloneInv'
    BY <1>1, <1>11 DEF HelperBacksUp, ApplyTypes, EditInv, AloneInv, EditType, RunType, WorkingHelpers
  <2>2. KnownInv'
    BY <1>1, <1>11 DEF HelperBacksUp, ApplyTypes, EditInv, KnownInv, Restarting, EditType, RunType, WorkingHelpers
  <2>. QED
    BY <2>1, <2>2
<1>12. ASSUME NEW h \in HelperRuns, HelperInstalls(h) PROVE AloneInv' /\ KnownInv'
  <2>1. AloneInv'
    BY <1>1, <1>12 DEF HelperInstalls, ApplyTypes, EditInv, AloneInv, EditType, RunType, WorkingHelpers
  <2>2. KnownInv'
    <3>1. helper'[h].at \in {"restart", "restore"}
      BY <1>1, <1>12 DEF HelperInstalls, ApplyTypes, RunType
    <3>. QED
      BY <3>1 DEF KnownInv, Restarting
  <2>. QED
    BY <2>1, <2>2
<1>13. ASSUME NEW h \in HelperRuns, HelperRestarts(h) PROVE AloneInv' /\ KnownInv'
  <2>1. AloneInv'
    BY <1>1, <1>13 DEF HelperRestarts, ApplyTypes, EditInv, AloneInv, EditType, RunType, WorkingHelpers
  <2>2. KnownInv'
    <3>1. (known' = configFile' \/ helper'[h].at = "restore")
      BY <1>1, <1>13 DEF HelperRestarts, ApplyTypes, RunType
    <3>. QED
      BY <3>1 DEF KnownInv, Restarting
  <2>. QED
    BY <2>1, <2>2
<1>14. ASSUME NEW h \in HelperRuns, HelperRestores(h) PROVE AloneInv' /\ KnownInv'
  <2>1. AloneInv'
    BY <1>1, <1>14 DEF HelperRestores, ApplyTypes, EditInv, AloneInv, EditType, RunType, WorkingHelpers
  <2>2. KnownInv'
    <3>1. adrift' \/ helper'[h].at = "restart old"
      <4>1. adrift' = TRUE \/ HelperMoves(h, "restart old")
        BY <1>14 DEF HelperRestores
      <4>. QED
        BY <1>1, <4>1, RunKept DEF ApplyTypes
    <3>. QED
      BY <3>1 DEF KnownInv, Restarting
  <2>. QED
    BY <2>1, <2>2
<1>15. ASSUME NEW h \in HelperRuns, HelperRestartsOld(h) PROVE AloneInv' /\ KnownInv'
  <2>1. AloneInv'
    BY <1>1, <1>15 DEF HelperRestartsOld, ApplyTypes, EditInv, AloneInv, EditType, RunType, WorkingHelpers
  <2>2. KnownInv'
    BY <1>1, <1>15 DEF HelperRestartsOld, ApplyTypes, EditInv, KnownInv, Restarting, EditType, RunType, WorkingHelpers
  <2>. QED
    BY <2>1, <2>2
<1>16. CASE ReplaceConfig
  <2>1. AloneInv'
    BY <1>1, <1>16 DEF ReplaceConfig, ApplyTypes, EditInv, AloneInv, EditType, RunType, WorkingHelpers
  <2>2. KnownInv'
    BY <1>1, <1>16 DEF ReplaceConfig, ApplyTypes, EditInv, KnownInv, Restarting, EditType, RunType, WorkingHelpers
  <2>. QED
    BY <2>1, <2>2
<1>17. CASE ReloadOrRestart
  <2>1. AloneInv'
    BY <1>1, <1>17 DEF ReloadOrRestart, ApplyTypes, EditInv, AloneInv, EditType, RunType, WorkingHelpers
  <2>2. KnownInv'
    BY <1>1, <1>17 DEF ReloadOrRestart, ApplyTypes, EditInv, KnownInv, Restarting, EditType, RunType, WorkingHelpers
  <2>. QED
    BY <2>1, <2>2
<1>18. CASE RestoreBackup
  <2>1. AloneInv'
    BY <1>1, <1>18 DEF RestoreBackup, ApplyTypes, EditInv, AloneInv, EditType, RunType, WorkingHelpers
  <2>2. KnownInv'
    BY <1>1, <1>18 DEF RestoreBackup, ApplyTypes, EditInv, KnownInv, Restarting, EditType, RunType, WorkingHelpers
  <2>. QED
    BY <2>1, <2>2
<1>19. CASE RestoredApplies
  <2>1. AloneInv'
    BY <1>1, <1>19 DEF RestoredApplies, ApplyTypes, EditInv, AloneInv, EditType, RunType, WorkingHelpers
  <2>2. KnownInv'
    BY <1>1, <1>19 DEF RestoredApplies, ApplyTypes, EditInv, KnownInv, Restarting, EditType, RunType, WorkingHelpers
  <2>. QED
    BY <2>1, <2>2
<1>20. CASE StopBot
  <2>1. AloneInv'
    BY <1>1, <1>20 DEF StopBot, ApplyTypes, EditInv, AloneInv, EditType, RunType, WorkingHelpers
  <2>2. KnownInv'
    BY <1>1, <1>20 DEF StopBot, ApplyTypes, EditInv, KnownInv, Restarting, EditType, RunType, WorkingHelpers
  <2>. QED
    BY <2>1, <2>2
<1>21. CASE ServiceRestarts
  <2>1. AloneInv'
    BY <1>1, <1>21 DEF ServiceRestarts, ApplyTypes, EditInv, AloneInv, EditType, RunType, WorkingHelpers
  <2>2. KnownInv'
    BY <1>1, <1>21 DEF ServiceRestarts, ApplyTypes, EditInv, KnownInv, Restarting, EditType, RunType, WorkingHelpers
  <2>. QED
    BY <2>1, <2>2
<1>22. CASE UNCHANGED applyVars
  <2>1. AloneInv'
    BY <1>1, <1>22 DEF applyVars, ApplyTypes, EditInv, AloneInv, EditType, RunType, WorkingHelpers
  <2>2. KnownInv'
    BY <1>1, <1>22 DEF applyVars, ApplyTypes, EditInv, KnownInv, Restarting, EditType, RunType, WorkingHelpers
  <2>. QED
    BY <2>1, <2>2
<1>. QED
  BY <1>2, <1>3, <1>4, <1>5, <1>6, <1>7, <1>8, <1>9, <1>10, <1>11, <1>12, <1>13, <1>14, <1>15, <1>16, <1>17, <1>18,
     <1>19, <1>20, <1>21, <1>22 DEF ApplyNext, AddClient, RemoveClient, EnsureShortId, Helper

\* Every step keeps the contents apart.
LEMMA ApplyContentStep ==
    ASSUME ApplyIInv, [ApplyNext]_applyVars
    PROVE  ContentInv' /\ AnswerInv'
<1>1. ApplyTypes /\ EditInv /\ AloneInv /\ ContentInv /\ AnswerInv
  BY DEF ApplyIInv
<1>. USE DEF ReplacedBy, Restarted, NotRestarted, LeftAdrift, HelperMoves, NoEdit, NoRun, EditAnswered, EditRaised,
   applyVars, applyWorld, editAnswers, applyHistory
<1>2. ASSUME NEW op \in {"add", "remove", "ensure"}, NEW c \in Entries, AskEdit(op, c) PROVE ContentInv' /\ AnswerInv'
  <2>1. ContentInv'
    BY <1>1, <1>2 DEF AskEdit, ApplyTypes, EditInv, AloneInv, ContentInv, AnswerInv, Agrees, Touched, EditType,
       RunType, WorkingHelpers
  <2>2. AnswerInv'
    BY <1>1, <1>2 DEF AskEdit, ApplyTypes, EditInv, AloneInv, AnswerInv, EditType, RunType, WorkingHelpers
  <2>. QED
    BY <2>1, <2>2
<1>3. CASE ReadConfig
  <2>1. ContentInv'
    <3>. DEFINE next == IF edit.op # "remove" THEN configFile \union {edit.of} ELSE configFile \ {edit.of}
    <3>1. edit.at = "read" /\ UNCHANGED <<configFile, helper, overlapped>> /\ edit.of \in Entries
      BY <1>1, <1>3 DEF ReadConfig, EditInv
    <3>2. CASE edit' = [edit EXCEPT !.at = "install", !.new = next] /\ UNCHANGED editAnswers
      <4>1. edit'.at = "install" /\ edit'.of = edit.of /\ edit'.new = next /\ edit'.old = edit.old
        BY <1>1, <3>2 DEF ApplyTypes, EditType
      <4>. QED
        BY <1>1, <3>1, <3>2, <4>1 DEF ContentInv, Agrees, Touched, WorkingHelpers
    <3>3. CASE edit' = NoEdit /\ EditRaised
      BY <1>1, <3>1, <3>3 DEF ContentInv, Agrees, Touched, WorkingHelpers, AloneInv
    <3>4. CASE edit' = NoEdit /\ next = configFile /\ EditAnswered
      BY <1>1, <3>1, <3>4 DEF ContentInv, Agrees, Touched, WorkingHelpers, AloneInv
    <3>. QED
      BY <1>3, <3>2, <3>3, <3>4 DEF ReadConfig
  <2>2. AnswerInv'
    <3>. DEFINE next == IF edit.op # "remove" THEN configFile \union {edit.of} ELSE configFile \ {edit.of}
    <3>1. edit' = NoEdit \/ edit' = [edit EXCEPT !.at = "install", !.new = next]
      BY <1>3 DEF ReadConfig
    <3>2. CASE edit' = NoEdit
      BY <3>2 DEF AnswerInv
    <3>3. CASE edit' = [edit EXCEPT !.at = "install", !.new = next]
      <4>1. edit'.at = "install" /\ edit'.of = edit.of /\ edit'.new = next /\ edit'.op = edit.op
        BY <1>1, <3>3 DEF ApplyTypes, EditType
      <4>. QED
        BY <4>1 DEF AnswerInv
    <3>. QED
      BY <3>1, <3>2, <3>3
  <2>. QED
    BY <2>1, <2>2
<1>4. CASE EditGivenUp
  <2>1. ContentInv'
    BY <1>1, <1>4 DEF EditGivenUp, ApplyTypes, EditInv, AloneInv, ContentInv, AnswerInv, Agrees, Touched, EditType,
       RunType, WorkingHelpers
  <2>2. AnswerInv'
    BY <1>1, <1>4 DEF EditGivenUp, ApplyTypes, EditInv, AloneInv, AnswerInv, EditType, RunType, WorkingHelpers
  <2>. QED
    BY <2>1, <2>2
<1>5. CASE ConfigChanged
  <2>1. ContentInv'
    BY <1>1, <1>5 DEF ConfigChanged, ApplyTypes, EditInv, AloneInv, ContentInv, AnswerInv, Agrees, Touched, EditType,
       RunType, WorkingHelpers
  <2>2. AnswerInv'
    BY <1>1, <1>5 DEF ConfigChanged, ApplyTypes, EditInv, AloneInv, AnswerInv, EditType, RunType, WorkingHelpers
  <2>. QED
    BY <2>1, <2>2
<1>6. CASE HelperAnswers
  <2>1. ContentInv'
    BY <1>1, <1>6 DEF HelperAnswers, ApplyTypes, EditInv, AloneInv, ContentInv, AnswerInv, Agrees, Touched, EditType,
       RunType, WorkingHelpers
  <2>2. AnswerInv'
    BY <1>1, <1>6 DEF HelperAnswers, ApplyTypes, EditInv, AloneInv, AnswerInv, EditType, RunType, WorkingHelpers
  <2>. QED
    BY <2>1, <2>2
<1>7. CASE HelperIsLate
  <2>1. ContentInv'
    BY <1>1, <1>7 DEF HelperIsLate, Unstaged, ApplyTypes, EditInv, AloneInv, ContentInv, AnswerInv, Agrees, Touched,
       EditType, RunType, WorkingHelpers
  <2>2. AnswerInv'
    BY <1>1, <1>7 DEF HelperIsLate, Unstaged, ApplyTypes, EditInv, AloneInv, AnswerInv, EditType, RunType,
       WorkingHelpers
  <2>. QED
    BY <2>1, <2>2
<1>8. ASSUME NEW h \in HelperRuns, StartHelper(h) PROVE ContentInv' /\ AnswerInv'
  <2>1. ContentInv'
    BY <1>1, <1>8 DEF StartHelper, NoRun, ApplyTypes, EditInv, AloneInv, ContentInv, AnswerInv, Agrees, Touched,
       EditType, RunType, WorkingHelpers
  <2>2. AnswerInv'
    BY <1>1, <1>8 DEF StartHelper, NoRun, ApplyTypes, EditInv, AloneInv, AnswerInv, EditType, RunType, WorkingHelpers
  <2>. QED
    BY <2>1, <2>2
<1>9. ASSUME NEW h \in HelperRuns, HelperGone(h) PROVE ContentInv' /\ AnswerInv'
  <2>1. ContentInv'
    BY <1>1, <1>9 DEF HelperGone, ApplyTypes, EditInv, AloneInv, ContentInv, AnswerInv, Agrees, Touched, EditType,
       RunType, WorkingHelpers
  <2>2. AnswerInv'
    BY <1>1, <1>9 DEF HelperGone, ApplyTypes, EditInv, AloneInv, AnswerInv, EditType, RunType, WorkingHelpers
  <2>. QED
    BY <2>1, <2>2
<1>10. ASSUME NEW h \in HelperRuns, HelperValidates(h) PROVE ContentInv' /\ AnswerInv'
  <2>1. ContentInv'
    BY <1>1, <1>10 DEF HelperValidates, ApplyTypes, EditInv, AloneInv, ContentInv, AnswerInv, Agrees, Touched,
       EditType, RunType, WorkingHelpers
  <2>2. AnswerInv'
    BY <1>1, <1>10 DEF HelperValidates, ApplyTypes, EditInv, AloneInv, AnswerInv, EditType, RunType, WorkingHelpers
  <2>. QED
    BY <2>1, <2>2
<1>11. ASSUME NEW h \in HelperRuns, HelperBacksUp(h) PROVE ContentInv' /\ AnswerInv'
  <2>1. ContentInv'
    BY <1>1, <1>11 DEF HelperBacksUp, ApplyTypes, EditInv, AloneInv, ContentInv, AnswerInv, Agrees, Touched,
       EditType, RunType, WorkingHelpers
  <2>2. AnswerInv'
    BY <1>1, <1>11 DEF HelperBacksUp, ApplyTypes, EditInv, AloneInv, AnswerInv, EditType, RunType, WorkingHelpers
  <2>. QED
    BY <2>1, <2>2
<1>12. ASSUME NEW h \in HelperRuns, HelperInstalls(h) PROVE ContentInv' /\ AnswerInv'
  <2>1. ContentInv'
    BY <1>1, <1>12 DEF HelperInstalls, ApplyTypes, EditInv, AloneInv, ContentInv, AnswerInv, Agrees, Touched,
       EditType, RunType, WorkingHelpers
  <2>2. AnswerInv'
    BY <1>1, <1>12 DEF HelperInstalls, ApplyTypes, EditInv, AloneInv, AnswerInv, EditType, RunType, WorkingHelpers
  <2>. QED
    BY <2>1, <2>2
<1>13. ASSUME NEW h \in HelperRuns, HelperRestarts(h) PROVE ContentInv' /\ AnswerInv'
  <2>1. ContentInv'
    BY <1>1, <1>13 DEF HelperRestarts, ApplyTypes, EditInv, AloneInv, ContentInv, AnswerInv, Agrees, Touched,
       EditType, RunType, WorkingHelpers
  <2>2. AnswerInv'
    BY <1>1, <1>13 DEF HelperRestarts, ApplyTypes, EditInv, AloneInv, AnswerInv, EditType, RunType, WorkingHelpers
  <2>. QED
    BY <2>1, <2>2
<1>14. ASSUME NEW h \in HelperRuns, HelperRestores(h) PROVE ContentInv' /\ AnswerInv'
  <2>1. ContentInv'
    <3>1. /\ UNCHANGED <<overlapped, answeredEntries, unsure>>
          /\ helper[h].at = "restore" /\ configFile' \in {configFile, helper[h].old}
          /\ \E at \in {"restart old", "failed"} : HelperMoves(h, at)
          /\ edit' = edit \/ edit' = [edit EXCEPT !.fresh = FALSE]
      BY <1>14 DEF HelperRestores
    <3>2. edit'.at = edit.at /\ edit'.of = edit.of /\ edit'.old = edit.old /\ edit'.new = edit.new
      BY <1>1, <3>1 DEF ApplyTypes, EditType
    <3>3. Touched' = Touched
      BY <3>1, <3>2 DEF Touched
    <3>4. \A g \in HelperRuns : /\ helper'[g].new = helper[g].new /\ helper'[g].old = helper[g].old
                                /\ g # h => helper'[g] = helper[g]
      BY <1>1, <3>1, RunKept DEF ApplyTypes
    <3>5. h \in WorkingHelpers
      BY <3>1 DEF WorkingHelpers
    <3>. QED
      BY <1>1, <3>1, <3>2, <3>3, <3>4, <3>5 DEF ContentInv, Agrees, WorkingHelpers
  <2>2. AnswerInv'
    <3>1. /\ UNCHANGED overlapped /\ helper[h].at = "restore"
          /\ \E at \in {"restart old", "failed"} : HelperMoves(h, at)
          /\ edit' = edit \/ edit' = [edit EXCEPT !.fresh = FALSE]
      BY <1>14 DEF HelperRestores
    <3>2. edit'.at = edit.at /\ edit'.of = edit.of /\ edit'.op = edit.op /\ edit'.new = edit.new /\ edit'.by = edit.by
      BY <1>1, <3>1 DEF ApplyTypes, EditType
    <3>3. helper'[h].at \in {"restart old", "failed"} /\ helper'[h].new = helper[h].new
      BY <1>1, <3>1, RunKept DEF ApplyTypes
    <3>4. h \in WorkingHelpers
      BY <3>1 DEF WorkingHelpers
    <3>. QED
      BY <1>1, <3>1, <3>2, <3>3, <3>4 DEF AnswerInv, AloneInv
  <2>. QED
    BY <2>1, <2>2
<1>15. ASSUME NEW h \in HelperRuns, HelperRestartsOld(h) PROVE ContentInv' /\ AnswerInv'
  <2>1. ContentInv'
    <3>1. /\ helper[h].at = "restart old" /\ UNCHANGED <<configFile, edit, answeredEntries, unsure, overlapped>>
          /\ HelperMoves(h, "failed")
      BY <1>15 DEF HelperRestartsOld
    <3>2. \A g \in HelperRuns : /\ helper'[g].new = helper[g].new /\ helper'[g].old = helper[g].old
                                /\ g # h => helper'[g] = helper[g]
      BY <1>1, <3>1, RunKept DEF ApplyTypes
    <3>. QED
      BY <1>1, <3>1, <3>2 DEF ContentInv, Agrees, Touched, WorkingHelpers
  <2>2. AnswerInv'
    <3>1. /\ helper[h].at = "restart old" /\ UNCHANGED <<configFile, edit, overlapped>> /\ HelperMoves(h, "failed")
      BY <1>15 DEF HelperRestartsOld
    <3>2. helper'[h].at = "failed" /\ \A g \in HelperRuns : g # h => helper'[g] = helper[g]
      BY <1>1, <3>1, RunKept DEF ApplyTypes
    <3>. QED
      BY <1>1, <3>1, <3>2 DEF AnswerInv, WorkingHelpers, EditInv
  <2>. QED
    BY <2>1, <2>2
<1>16. CASE ReplaceConfig
  <2>1. ContentInv'
    BY <1>1, <1>16 DEF ReplaceConfig, ApplyTypes, EditInv, AloneInv, ContentInv, AnswerInv, Agrees, Touched,
       EditType, RunType, WorkingHelpers
  <2>2. AnswerInv'
    BY <1>1, <1>16 DEF ReplaceConfig, ApplyTypes, EditInv, AloneInv, AnswerInv, EditType, RunType, WorkingHelpers
  <2>. QED
    BY <2>1, <2>2
<1>17. CASE ReloadOrRestart
  <2>1. ContentInv'
    BY <1>1, <1>17 DEF ReloadOrRestart, ApplyTypes, EditInv, AloneInv, ContentInv, AnswerInv, Agrees, Touched,
       EditType, RunType, WorkingHelpers
  <2>2. AnswerInv'
    BY <1>1, <1>17 DEF ReloadOrRestart, ApplyTypes, EditInv, AloneInv, AnswerInv, EditType, RunType, WorkingHelpers
  <2>. QED
    BY <2>1, <2>2
<1>18. CASE RestoreBackup
  <2>1. ContentInv'
    <3>1. edit.at = "restore" /\ UNCHANGED <<helper, overlapped>>
      BY <1>18 DEF RestoreBackup
    <3>2. CASE configFile' = edit.old /\ UNCHANGED editAnswers /\ edit'.at = "restored" /\ edit'.of = edit.of
               /\ edit'.old = edit.old /\ edit'.new = edit.new
      BY <1>1, <3>1, <3>2 DEF ContentInv, Agrees, Touched, WorkingHelpers
    <3>3. CASE edit' = NoEdit /\ EditRaised /\ UNCHANGED configFile
      BY <1>1, <3>1, <3>3 DEF ContentInv, Agrees, Touched, WorkingHelpers
    <3>. QED
      BY <1>1, <1>18, <3>2, <3>3 DEF RestoreBackup, ApplyTypes, EditType
  <2>2. AnswerInv'
    <3>1. edit'.at \in {"restored", "idle"}
      <4>1. edit' = NoEdit \/ edit' = [edit EXCEPT !.at = "restored", !.fresh = FALSE]
        BY <1>18 DEF RestoreBackup
      <4>2. NoEdit.at = "idle"
        OBVIOUS
      <4>3. [edit EXCEPT !.at = "restored", !.fresh = FALSE].at = "restored"
        BY <1>1 DEF ApplyTypes, EditType
      <4>. QED
        BY <4>1, <4>2, <4>3
    <3>. QED
      BY <3>1 DEF AnswerInv
  <2>. QED
    BY <2>1, <2>2
<1>19. CASE RestoredApplies
  <2>1. ContentInv'
    BY <1>1, <1>19 DEF RestoredApplies, ApplyTypes, EditInv, AloneInv, ContentInv, AnswerInv, Agrees, Touched,
       EditType, RunType, WorkingHelpers
  <2>2. AnswerInv'
    BY <1>1, <1>19 DEF RestoredApplies, ApplyTypes, EditInv, AloneInv, AnswerInv, EditType, RunType, WorkingHelpers
  <2>. QED
    BY <2>1, <2>2
<1>20. CASE StopBot
  <2>1. ContentInv'
    BY <1>1, <1>20 DEF StopBot, ApplyTypes, EditInv, AloneInv, ContentInv, AnswerInv, Agrees, Touched, EditType,
       RunType, WorkingHelpers
  <2>2. AnswerInv'
    BY <1>1, <1>20 DEF StopBot, ApplyTypes, EditInv, AloneInv, AnswerInv, EditType, RunType, WorkingHelpers
  <2>. QED
    BY <2>1, <2>2
<1>21. CASE ServiceRestarts
  <2>1. ContentInv'
    BY <1>1, <1>21 DEF ServiceRestarts, ApplyTypes, EditInv, AloneInv, ContentInv, AnswerInv, Agrees, Touched,
       EditType, RunType, WorkingHelpers
  <2>2. AnswerInv'
    BY <1>1, <1>21 DEF ServiceRestarts, ApplyTypes, EditInv, AloneInv, AnswerInv, EditType, RunType, WorkingHelpers
  <2>. QED
    BY <2>1, <2>2
<1>22. CASE UNCHANGED applyVars
  <2>1. ContentInv'
    BY <1>1, <1>22 DEF applyVars, ApplyTypes, EditInv, AloneInv, ContentInv, AnswerInv, Agrees, Touched, EditType,
       RunType, WorkingHelpers
  <2>2. AnswerInv'
    BY <1>1, <1>22 DEF applyVars, ApplyTypes, EditInv, AloneInv, AnswerInv, EditType, RunType, WorkingHelpers
  <2>. QED
    BY <2>1, <2>2
<1>. QED
  BY <1>2, <1>3, <1>4, <1>5, <1>6, <1>7, <1>8, <1>9, <1>10, <1>11, <1>12, <1>13, <1>14, <1>15, <1>16, <1>17, <1>18,
     <1>19, <1>20, <1>21, <1>22 DEF ApplyNext, AddClient, RemoveClient, EnsureShortId, Helper

\* The invariant holds at first and after every step.
LEMMA InitApply == ApplyInit => ApplyIInv
<1>. SUFFICES ASSUME ApplyInit PROVE ApplyIInv
  OBVIOUS
<1>1. ApplyTypes
  <2>1. helper \in [HelperRuns -> RunType] /\ edit \in EditType
    BY NoneAtFirst DEF ApplyInit
  <2>. QED
    BY <2>1 DEF ApplyInit, ApplyTypes
<1>2. \A h \in HelperRuns : helper[h].at = "free"
  BY DEF ApplyInit, NoRun
<1>3. edit.at = "idle"
  BY DEF ApplyInit, NoEdit
<1>4. EditInv /\ AloneInv /\ AnswerInv /\ KnownInv
  BY <1>3 DEF ApplyInit, EditInv, AloneInv, AnswerInv, KnownInv
<1>5. ContentInv
  BY <1>2, <1>3 DEF ApplyInit, ContentInv, Agrees, WorkingHelpers
<1>. QED
  BY <1>1, <1>4, <1>5 DEF ApplyIInv

\* Every step of the adapter keeps its invariant.
LEMMA NextApply == ApplyIInv /\ [ApplyNext]_applyVars => ApplyIInv'
  BY ApplyTypeStep, ApplyControlStep, ApplyContentStep DEF ApplyIInv

\* What it says between two changes.
LEMMA ServedAnswers == ApplyIInv => AnsweredIsServed
<1>. SUFFICES ASSUME ApplyIInv, edit.at = "idle", WorkingHelpers = {} PROVE AnsweredIsServed
  BY DEF AnsweredIsServed
<1>1. adrift \/ known = configFile
  BY DEF ApplyIInv, KnownInv, Restarting, WorkingHelpers
<1>2. overlapped \/ \A c \in Entries \ unsure : c \in configFile <=> c \in answeredEntries
  BY DEF ApplyIInv, ContentInv, Agrees, Touched
<1>. QED
  BY <1>1, <1>2 DEF AnsweredIsServed

--------------------------------------------------------------------------------
(* The service and its adapter: a behaviour of MCXrayKeys is one of either.   *)
BothInv == IInv /\ ApplyIInv

\* The invariant of the keys and of the adapter holds of every behaviour of either.
LEMMA BothAlways == BothSpec => []BothInv
<1>1. BothInit => BothInv
  BY InitIInv, InitApply DEF BothInit, KeysInit, ApplyPartInit, BothInv
<1>2. BothInv /\ [BothNext]_<<vars, applyVars, part>> => BothInv'
  <2>. SUFFICES ASSUME BothInv, [BothNext]_<<vars, applyVars, part>> PROVE BothInv'
    OBVIOUS
  <2>1. [Next]_vars /\ [ApplyNext]_applyVars
    BY DEF BothNext
  <2>. QED
    BY <2>1, StepIInv, NextApply DEF BothInv
<1>. QED
  BY <1>1, <1>2, PTL DEF BothSpec

(* Every variable of services/xray.py and of the adapter keeps its type: a      *)
(* change runs the helper at most twice (xray_config.py), for any number of    *)
(* entries, runs and changes.                                                *)
THEOREM TypesOfBoth == BothSpec => []TypesOK
<1>1. BothInv => TypesOK
  BY DEF BothInv, IInv, ApplyIInv, ApplyTypes, EditInv, TypesOK, ApplyTypeOK, RunType, RunPoints, EditType, EditPoints
<1>. QED
  BY <1>1, BothAlways, PTL

(* Between two changes the file says of every client what the last answer said, *)
(* and the service knows the file, whichever step failed, was rolled back,      *)
(* tried again, outlived its call or was cut off (adapters/xray_config.py).     *)
THEOREM ServedAsAnswered == BothSpec => []AnsweredIsServed
<1>1. BothInv => AnsweredIsServed
  BY ServedAnswers DEF BothInv
<1>. QED
  BY <1>1, BothAlways, PTL
=============================================================================
