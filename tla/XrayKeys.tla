------------------------------ MODULE XrayKeys ------------------------------
(***************************************************************************)
(* The life of Xray (VLESS) keys in services/xray.py: a row of vpn_keys on *)
(* one side, a client entry of the Xray config on the other, and no common *)
(* transaction.  Each coroutine is a task whose steps are separated by its *)
(* awaits; the process may crash at any step and reconciles at startup.    *)
(*                                                                         *)
(* revoke, delete and reconcile hold the service lock (self._lock).        *)
(* create does not: its "async with self._lock" is commented out, so it    *)
(* interleaves with the other three on the same key.                       *)
(*                                                                         *)
(* Left out: payload, notes, audit rows, the managed REALITY short ids,    *)
(* the role checks that refuse a call before it writes, and the per-user   *)
(* lock, which orders calls of one owner but never two calls on one key.   *)
(***************************************************************************)
EXTENDS Naturals, FiniteSets

CONSTANTS
  Keys,        \* ids of vpn_keys rows (AUTOINCREMENT: an id is used once)
  HttpKeys,    \* the keys whose transport is "http" (the XHTTP inbound)
  Foreign,     \* config clients the bot never made (no managed label, no row)
  Tasks,       \* coroutines serving requests
  None,        \* no key, no task
  MaxCrashes   \* bound on process crashes

ASSUME HttpKeysAssumption == HttpKeys \subseteq Keys
ASSUME ForeignAssumption  == Foreign \cap Keys = {}
ASSUME NoneAssumption     == None \notin Keys \cup Tasks \cup Foreign
ASSUME MaxCrashesAssumption == MaxCrashes \in Nat

VARIABLES
  status,    \* status[k]: the status column; "none" before the row, "gone" after
  clients,   \* client entries in the Xray config file
  lock,      \* the task holding XrayService._lock, or None
  pc,        \* pc[t]: the point the coroutine is at, "idle" between calls
  key,       \* key[t]: the key of its call
  prev,      \* prev[t]: its previous_status, read when it got the lock
  degraded,  \* BackendHealth: Xray is marked degraded
  phase,     \* the process: down, one of the startup passes, or up
  served,    \* keys of the inbounds this process has an adapter for
  todo,      \* what the running startup pass has left
  cur,       \* key whose client the row pass removed and whose row it must close
  failed,    \* startup_reconcile: summary["failed"] > 0
  crashes,
  raced,     \* history: keys touched by a locked call while being created
  hurt       \* history: keys left by a crash, a failed write or a raise with effect

calls == <<pc, key, prev>>
vars == <<status, clients, lock, calls, degraded, phase, served, todo, cur,
          failed, crashes, raced, hurt>>
startupVars == <<phase, served, todo, cur, failed, crashes>>

RowStatuses == {"pending_apply", "active", "apply_failed", "pending_revoke",
                "revoked", "pending_delete", "delete_failed"}
Statuses    == RowStatuses \cup {"none", "gone"}

AccessMayExist   == {"active", "pending_apply", "apply_failed",
                     "pending_revoke", "pending_delete", "delete_failed"}
StartupReconcile == AccessMayExist \ {"active"}

CreatePoints == {"add", "fail_create", "activate", "compensate", "comp_mark"}
RevokePoints == {"r_mark", "r_remove", "r_restore", "r_finish"}
DeletePoints == {"d_mark", "d_remove", "d_fail", "d_finish"}
CheckPoints  == {"k_activate", "k_fail"}
LockPoints   == RevokePoints \cup DeletePoints \cup CheckPoints
QueuePoints  == {"create", "revoke", "delete", "check"}
Points       == {"idle"} \cup QueuePoints \cup CreatePoints \cup LockPoints
\* between these points and the end of the call the row or the client is half done
WorkPoints   == CreatePoints \cup {"r_remove", "r_restore", "r_finish",
                                   "d_remove", "d_fail", "d_finish"}
Passes == {"rows", "drift_rows", "drift_orphans", "drift_restore"}

Creating(k) == \E t \in Tasks : pc[t] \in CreatePoints /\ key[t] = k
ActiveKeys  == {k \in Keys : status[k] = "active"}

------------------------------------------------------------------------------
(* Building blocks of the steps.                                             *)

At(t, point)  == pc[t] = point /\ phase = "up"
Call(t, point, k, s) == /\ pc' = [pc EXCEPT ![t] = point]
                        /\ key' = [key EXCEPT ![t] = k]
                        /\ prev' = [prev EXCEPT ![t] = s]
Goto(t, point) == pc' = [pc EXCEPT ![t] = point] /\ UNCHANGED <<key, prev>>

End(t) == /\ Call(t, "idle", None, "none")
          /\ lock' = IF lock = t THEN None ELSE lock

\* UPDATE ... WHERE id = ? writes nothing when the row is gone
SetStatus(k, s) ==
  status' = IF status[k] \in RowStatuses THEN [status EXCEPT ![k] = s] ELSE status

\* an adapter call that raises: the config as before, or already as asked
\* (restore failed, or the privileged helper timed out after it applied)
Raises(k, asked) ==
  \/ clients' = clients /\ hurt' = hurt
  \/ clients' = asked   /\ hurt' = IF clients = asked THEN hurt ELSE hurt \cup {k}

Init ==
  /\ status = [k \in Keys |-> "none"]
  /\ clients \in SUBSET Foreign
  /\ lock = None
  /\ pc = [t \in Tasks |-> "idle"]
  /\ key = [t \in Tasks |-> None]
  /\ prev = [t \in Tasks |-> "none"]
  /\ degraded = FALSE
  /\ phase = "down" /\ served = {} /\ todo = {} /\ cur = None /\ failed = FALSE
  /\ crashes = 0
  /\ raced = {} /\ hurt = {}

------------------------------------------------------------------------------
(* A request: require_mutation_allowed is read once, before any waiting.     *)

RequestCreate(t) ==
  /\ At(t, "idle") /\ ~degraded
  /\ Goto(t, "create")
  /\ UNCHANGED <<status, clients, lock, degraded, raced, hurt>> /\ UNCHANGED startupVars

RequestOn(t, k, op) ==
  /\ At(t, "idle") /\ ~degraded
  /\ status[k] \in RowStatuses
  /\ Call(t, op, k, "none")
  /\ UNCHANGED <<status, clients, lock, degraded, raced, hurt>> /\ UNCHANGED startupVars

------------------------------------------------------------------------------
(* create_xray_key, after the per-user lock: no service lock is taken.       *)

CreateRow(t, k) ==
  /\ At(t, "create")
  /\ k \in served /\ status[k] = "none"
  /\ status' = [status EXCEPT ![k] = "pending_apply"]
  /\ Call(t, "add", k, "none")
  /\ UNCHANGED <<clients, lock, degraded, raced, hurt>> /\ UNCHANGED startupVars

\* _ensure_can_create refuses, or the insert raises: nothing was written
CreateRefused(t) ==
  /\ At(t, "create")
  /\ End(t)
  /\ UNCHANGED <<status, clients, degraded, raced, hurt>> /\ UNCHANGED startupVars

\* the owner lost access meanwhile: the third _ensure_can_create raises
CreateDenied(t) ==
  /\ At(t, "add")
  /\ Goto(t, "fail_create")
  /\ UNCHANGED <<status, clients, lock, degraded, raced, hurt>> /\ UNCHANGED startupVars

CreateAdd(t) ==
  /\ At(t, "add")
  /\ clients' = clients \cup {key[t]}
  /\ Goto(t, "activate")
  /\ UNCHANGED <<status, lock, degraded, raced, hurt>> /\ UNCHANGED startupVars

CreateAddRaises(t) ==
  /\ At(t, "add")
  /\ Raises(key[t], clients \cup {key[t]})
  /\ Goto(t, "fail_create")
  /\ UNCHANGED <<status, lock, degraded, raced>> /\ UNCHANGED startupVars

\* set_status(APPLY_FAILED) carries no allowed_from_statuses
CreateFail(t) ==
  /\ At(t, "fail_create")
  /\ SetStatus(key[t], "apply_failed")
  /\ End(t)
  /\ UNCHANGED <<clients, degraded, raced, hurt>> /\ UNCHANGED startupVars

\* mark_active skips (with a warning) a row that left the two pending statuses
CreateActivate(t) ==
  LET k == key[t] IN
  /\ At(t, "activate")
  /\ status[k] \in RowStatuses
  /\ status' = IF status[k] \in {"pending_apply", "apply_failed"}
               THEN [status EXCEPT ![k] = "active"] ELSE status
  /\ End(t)
  /\ UNCHANGED <<clients, degraded, raced, hurt>> /\ UNCHANGED startupVars

\* mark_active raises: the row is gone, or the write failed
CreateActivateRaises(t) ==
  /\ At(t, "activate")
  /\ Goto(t, "compensate")
  /\ UNCHANGED <<status, clients, lock, degraded, raced, hurt>> /\ UNCHANGED startupVars

Compensate(t) ==
  /\ At(t, "compensate")
  /\ clients' = clients \ {key[t]}
  /\ Goto(t, "comp_mark")
  /\ UNCHANGED <<status, lock, degraded, raced, hurt>> /\ UNCHANGED startupVars

CompensateRaises(t) ==
  LET k == key[t] IN
  /\ At(t, "compensate")
  /\ clients' \in {clients, clients \ {k}}
  /\ hurt' = hurt \cup {k}
  /\ degraded' = TRUE
  /\ End(t)
  /\ UNCHANGED <<status, raced>> /\ UNCHANGED startupVars

CompensateMark(t) ==
  /\ At(t, "comp_mark")
  /\ SetStatus(key[t], "apply_failed")
  /\ End(t)
  /\ UNCHANGED <<clients, degraded, raced, hurt>> /\ UNCHANGED startupVars

------------------------------------------------------------------------------
(* The calls under the service lock.  The row is read when the lock is got;  *)
(* the first write comes an await later.                                     *)

\* take the lock, read the row of the queued key, go on at the given point
Enter(t, point) ==
  LET k == key[t] IN
  /\ lock = None /\ lock' = t
  /\ Call(t, point, k, status[k])
  /\ raced' = IF Creating(k) THEN raced \cup {k} ELSE raced
  /\ UNCHANGED <<status, clients, degraded, hurt>> /\ UNCHANGED startupVars

\* take the lock, read, return or raise at once
EnterAndLeave(t) ==
  /\ lock = None
  /\ End(t)
  /\ UNCHANGED <<status, clients, degraded, raced, hurt>> /\ UNCHANGED startupVars

\* mutant: no early return for a key that is already revoked
RevokeAgain(t) ==
  /\ At(t, "revoke")
  /\ \/ status[key[t]] \in RowStatuses /\ Enter(t, "r_mark")
     \/ status[key[t]] \notin RowStatuses /\ EnterAndLeave(t)

RevokeRead(t) ==
  /\ At(t, "revoke")
  /\ \/ status[key[t]] \in AccessMayExist /\ Enter(t, "r_mark")
     \/ status[key[t]] \notin AccessMayExist /\ EnterAndLeave(t)

RevokeMark(t) ==
  /\ At(t, "r_mark")
  /\ SetStatus(key[t], "pending_revoke")
  /\ Goto(t, "r_remove")
  /\ UNCHANGED <<clients, lock, degraded, raced, hurt>> /\ UNCHANGED startupVars

\* mutant: the exception of the adapter is swallowed
RemoveSwallows(t, after, orelse) ==
  LET k == key[t] IN
  /\ \/ k \in served /\ Raises(k, clients \ {k})
     \/ k \notin served /\ UNCHANGED <<clients, hurt>>
  /\ Goto(t, after)

\* remove_client; _adapter_for raises when the key's inbound is not configured
Remove(t, after, orelse) ==
  LET k == key[t] IN
  \/ /\ k \in served
     /\ clients' = clients \ {k} /\ hurt' = hurt
     /\ Goto(t, after)
  \/ /\ k \in served
     /\ Raises(k, clients \ {k})
     /\ Goto(t, orelse)
  \/ /\ k \notin served
     /\ UNCHANGED <<clients, hurt>>
     /\ Goto(t, orelse)

RevokeRemove(t) ==
  /\ At(t, "r_remove")
  /\ Remove(t, "r_finish", "r_restore")
  /\ UNCHANGED <<status, lock, degraded, raced>> /\ UNCHANGED startupVars

\* mutant: a failed revocation always restores an active row
RestoreActive(t) ==
  /\ At(t, "r_restore")
  /\ SetStatus(key[t], "active")
  /\ End(t)
  /\ UNCHANGED <<clients, degraded, raced, hurt>> /\ UNCHANGED startupVars

RevokeRestore(t) ==
  /\ At(t, "r_restore")
  /\ SetStatus(key[t], prev[t])
  /\ End(t)
  /\ UNCHANGED <<clients, degraded, raced, hurt>> /\ UNCHANGED startupVars

\* mark_revoked raises InvalidTransition on a revoked row, which changes nothing
RevokeFinish(t) ==
  /\ At(t, "r_finish")
  /\ SetStatus(key[t], "revoked")
  /\ End(t)
  /\ UNCHANGED <<clients, degraded, raced, hurt>> /\ UNCHANGED startupVars

DeleteRead(t) ==
  /\ At(t, "delete")
  /\ \/ status[key[t]] \in RowStatuses /\ Enter(t, "d_mark")
     \/ status[key[t]] \notin RowStatuses /\ EnterAndLeave(t)

DeleteMark(t) ==
  /\ At(t, "d_mark")
  /\ SetStatus(key[t], "pending_delete")
  /\ Goto(t, IF prev[t] \in AccessMayExist THEN "d_remove" ELSE "d_finish")
  /\ UNCHANGED <<clients, lock, degraded, raced, hurt>> /\ UNCHANGED startupVars

DeleteRemove(t) ==
  /\ At(t, "d_remove")
  /\ Remove(t, "d_finish", "d_fail")
  /\ UNCHANGED <<status, lock, degraded, raced>> /\ UNCHANGED startupVars

DeleteFail(t) ==
  /\ At(t, "d_fail")
  /\ SetStatus(key[t], "delete_failed")
  /\ End(t)
  /\ UNCHANGED <<clients, degraded, raced, hurt>> /\ UNCHANGED startupVars

\* mutant: a soft delete with a status the column does not know
DeleteSoftly(t) ==
  /\ At(t, "d_finish")
  /\ SetStatus(key[t], "removed")
  /\ End(t)
  /\ UNCHANGED <<clients, degraded, raced, hurt>> /\ UNCHANGED startupVars

DeleteFinish(t) ==
  /\ At(t, "d_finish")
  /\ SetStatus(key[t], "gone")
  /\ End(t)
  /\ UNCHANGED <<clients, degraded, raced, hurt>> /\ UNCHANGED startupVars

\* reconcile_key_status: row and config are read together, the write is later
CheckRead(t) ==
  LET k == key[t] IN
  /\ At(t, "check")
  /\ \/ k \in served /\ k \in clients
        /\ status[k] \in {"pending_apply", "apply_failed"} /\ Enter(t, "k_activate")
     \/ k \in served /\ k \notin clients
        /\ status[k] = "pending_apply" /\ Enter(t, "k_fail")
     \/ /\ \/ k \notin served
           \/ k \in clients /\ status[k] \notin {"pending_apply", "apply_failed"}
           \/ k \notin clients /\ status[k] # "pending_apply"
        /\ EnterAndLeave(t)

CheckActivate(t) ==
  LET k == key[t] IN
  /\ At(t, "k_activate")
  /\ status' = IF status[k] \in {"pending_apply", "apply_failed"}
               THEN [status EXCEPT ![k] = "active"] ELSE status
  /\ End(t)
  /\ UNCHANGED <<clients, degraded, raced, hurt>> /\ UNCHANGED startupVars

CheckFail(t) ==
  /\ At(t, "k_fail")
  /\ SetStatus(key[t], "apply_failed")
  /\ End(t)
  /\ UNCHANGED <<clients, degraded, raced, hurt>> /\ UNCHANGED startupVars

\* a status write raises (SQLite error): the call ends, the row stays as it is
WriteRaises(t) ==
  /\ pc[t] \in {"fail_create", "comp_mark", "r_mark", "r_restore", "r_finish",
                     "d_mark", "d_fail", "d_finish"} \cup CheckPoints
  /\ phase = "up"
  /\ hurt' = IF pc[t] \in WorkPoints THEN hurt \cup {key[t]} ELSE hurt
  /\ End(t)
  /\ UNCHANGED <<status, clients, degraded, raced>> /\ UNCHANGED startupVars

------------------------------------------------------------------------------
(* The process dies and starts again; startup_reconcile runs alone, before   *)
(* polling.  A pass that fails leaves the backend degraded.                  *)

Crash ==
  /\ phase # "down" /\ crashes < MaxCrashes
  /\ phase' = "down" /\ crashes' = crashes + 1
  /\ pc' = [t \in Tasks |-> "idle"] /\ key' = [t \in Tasks |-> None]
  /\ prev' = [t \in Tasks |-> "none"] /\ lock' = None /\ degraded' = FALSE
  /\ hurt' = hurt \cup {key[t] : t \in {u \in Tasks : pc[u] \in WorkPoints}}
  /\ served' = {} /\ todo' = {} /\ cur' = None /\ failed' = FALSE
  /\ UNCHANGED <<status, clients, raced>>

StartupFrame == UNCHANGED <<lock, calls, degraded, served, crashes, raced, hurt>>

\* the XHTTP inbound may be configured or not, from one start to the next
Start ==
  /\ phase = "down"
  /\ phase' = "rows"
  /\ served' \in {Keys, Keys \ HttpKeys}
  /\ todo' = {k \in Keys : status[k] \in StartupReconcile}
  /\ UNCHANGED <<status, clients, lock, calls, degraded, cur, failed, crashes, raced, hurt>>

RowSkip(k) ==
  /\ phase = "rows" /\ cur = None /\ k \in todo \ served
  /\ todo' = todo \ {k}
  /\ UNCHANGED <<status, clients, phase, cur, failed>> /\ StartupFrame

RowApply(k) ==
  /\ phase = "rows" /\ cur = None /\ k \in todo \cap served
  /\ status[k] \in {"pending_apply", "apply_failed"}
  /\ status' = [status EXCEPT ![k] = IF k \in clients THEN "active" ELSE "apply_failed"]
  /\ todo' = todo \ {k}
  /\ UNCHANGED <<clients, phase, cur, failed>> /\ StartupFrame

RowRemove(k) ==
  /\ phase = "rows" /\ cur = None /\ k \in todo \cap served
  /\ status[k] \in {"pending_revoke", "pending_delete", "delete_failed"}
  /\ clients' = clients \ {k}
  /\ cur' = k
  /\ UNCHANGED <<status, todo, phase, failed>> /\ StartupFrame

RowRemoveRaises(k) ==
  /\ phase = "rows" /\ cur = None /\ k \in todo \cap served
  /\ status[k] \in {"pending_revoke", "pending_delete", "delete_failed"}
  /\ clients' \in {clients, clients \ {k}}
  /\ status' \in {status, [status EXCEPT ![k] = "delete_failed"]}
  /\ status[k] = "pending_revoke" => status' = status
  /\ todo' = todo \ {k} /\ failed' = TRUE
  /\ UNCHANGED <<phase, cur>> /\ StartupFrame

RowFinish ==
  /\ phase = "rows" /\ cur # None
  /\ status' = [status EXCEPT ![cur] = IF @ = "pending_revoke" THEN "revoked" ELSE "gone"]
  /\ todo' = todo \ {cur} /\ cur' = None
  /\ UNCHANGED <<clients, phase, failed>> /\ StartupFrame

RowWriteRaises(k) ==
  /\ phase = "rows" /\ k \in todo \cap served
  /\ \/ cur = k
     \/ cur = None /\ status[k] \in {"pending_apply", "apply_failed"}
  /\ todo' = todo \ {k} /\ cur' = None /\ failed' = TRUE
  /\ UNCHANGED <<status, clients, phase>> /\ StartupFrame

RowsEnd ==
  /\ phase = "rows" /\ todo = {}
  /\ \/ failed /\ phase' = "up" /\ degraded' = TRUE /\ UNCHANGED todo
     \/ /\ ~failed /\ phase' = "drift_rows" /\ UNCHANGED degraded
        /\ todo' = {k \in served : /\ status[k] \in RowStatuses \ {"active"}
                                   /\ k \in clients}
  /\ UNCHANGED <<status, clients, lock, calls, served, cur, failed, crashes, raced, hurt>>

\* _remove_non_live_xray_clients, then _remove_or_degrade_xray_orphans
DriftRemove(c) ==
  /\ phase \in {"drift_rows", "drift_orphans"} /\ c \in todo \ Foreign
  /\ clients' = clients \ {c}
  /\ todo' = todo \ {c}
  /\ UNCHANGED <<status, phase, cur, failed>> /\ StartupFrame

DriftRowsEnd ==
  /\ phase = "drift_rows" /\ todo = {}
  /\ phase' = "drift_orphans"
  /\ todo' = {c \in clients : c \in Foreign \/ (c \in served /\ status[c] # "active")}
  /\ UNCHANGED <<status, clients, cur, failed>> /\ StartupFrame

DriftOrphansEnd ==
  /\ phase = "drift_orphans" /\ todo = {}
  /\ phase' = "drift_restore"
  /\ todo' = (ActiveKeys \cap served) \ clients
  /\ UNCHANGED <<status, clients, cur, failed>> /\ StartupFrame

\* _restore_missing_active_xray_clients
DriftRestore(k) ==
  /\ phase = "drift_restore" /\ k \in todo
  /\ clients' = clients \cup {k}
  /\ todo' = todo \ {k}
  /\ UNCHANGED <<status, phase, cur, failed>> /\ StartupFrame

\* a listing, an adapter call of the drift or the config parser raises, or a
\* foreign client is met: startup_reconcile stops there
StartupRaises ==
  /\ phase \in Passes /\ cur = None
  /\ \/ clients' = clients
     \/ phase \in {"drift_rows", "drift_orphans"}
        /\ \E c \in todo \ Foreign : clients' = clients \ {c}
     \/ phase = "drift_restore" /\ \E k \in todo : clients' = clients \cup {k}
  /\ failed' = TRUE /\ degraded' = TRUE /\ phase' = "up" /\ todo' = {}
  /\ UNCHANGED <<status, lock, calls, served, cur, crashes, raced, hurt>>

StartupClean ==
  /\ phase = "drift_restore" /\ todo = {}
  /\ phase' = "up"
  /\ raced' = raced \ served /\ hurt' = hurt \ served
  /\ UNCHANGED <<status, clients, lock, calls, degraded, served, todo, cur, failed, crashes>>

------------------------------------------------------------------------------
CreateStep(t) ==
  \/ \E k \in Keys : CreateRow(t, k)
  \/ CreateRefused(t) \/ CreateDenied(t) \/ CreateAdd(t) \/ CreateAddRaises(t)
  \/ CreateFail(t) \/ CreateActivate(t) \/ CreateActivateRaises(t)
  \/ Compensate(t) \/ CompensateRaises(t) \/ CompensateMark(t)

Acquire(t) == RevokeRead(t) \/ DeleteRead(t) \/ CheckRead(t)

LockedStep(t) ==
  \/ RevokeMark(t) \/ RevokeRemove(t) \/ RevokeRestore(t) \/ RevokeFinish(t)
  \/ DeleteMark(t) \/ DeleteRemove(t) \/ DeleteFail(t) \/ DeleteFinish(t)
  \/ CheckActivate(t) \/ CheckFail(t)

TaskStep(t) == CreateStep(t) \/ LockedStep(t) \/ WriteRaises(t)

Request(t) ==
  \/ RequestCreate(t)
  \/ \E k \in Keys, op \in QueuePoints \ {"create"} : RequestOn(t, k, op)

StartupStep ==
  \/ Start \/ RowFinish \/ RowsEnd \/ DriftRowsEnd \/ DriftOrphansEnd
  \/ StartupRaises \/ StartupClean
  \/ \E k \in Keys : \/ RowSkip(k) \/ RowApply(k) \/ RowRemove(k)
                     \/ RowRemoveRaises(k) \/ RowWriteRaises(k) \/ DriftRestore(k)
  \/ \E c \in Keys \cup Foreign : DriftRemove(c)

Next == StartupStep \/ Crash \/ \E t \in Tasks : Request(t) \/ Acquire(t) \/ TaskStep(t)

Spec == Init /\ [][Next]_vars

\* asyncio runs every ready coroutine, and asyncio.Lock wakes waiters in order
Fairness ==
  /\ WF_vars(StartupStep)
  /\ \A t \in Tasks : WF_vars(TaskStep(t)) /\ SF_vars(Acquire(t))

FairSpec == Spec /\ Fairness

------------------------------------------------------------------------------
TypeOK ==
  /\ status \in [Keys -> Statuses]
  /\ clients \subseteq Keys \cup Foreign
  /\ lock \in Tasks \cup {None}
  /\ pc \in [Tasks -> Points]
  /\ key \in [Tasks -> Keys \cup {None}]
  /\ prev \in [Tasks -> Statuses]
  /\ degraded \in BOOLEAN
  /\ phase \in {"down", "up"} \cup Passes
  /\ served \subseteq Keys
  /\ todo \subseteq Keys \cup Foreign
  /\ cur \in Keys \cup {None}
  /\ failed \in BOOLEAN
  /\ crashes \in 0..MaxCrashes
  /\ raced \subseteq Keys
  /\ hurt \subseteq Keys

(***************************************************************************)
(* A key is settled when no call is between its first and last effect on   *)
(* it, and suspect when a call overlapped its creation, or was cut short.  *)
(***************************************************************************)
Settled(k) == \A t \in Tasks : ~(pc[t] \in WorkPoints /\ key[t] = k)
Suspects   == raced \cup hurt

Agree(k) ==
  /\ status[k] \notin {"pending_apply", "pending_revoke", "pending_delete"}
  /\ status[k] = "active" => k \in clients
  /\ k \in clients => status[k] \in {"active", "delete_failed"}

\* Safety: the row and the config agree on every settled key: an active key has
\* its client, a client belongs to an active key (or to one whose deletion
\* failed), no key is left in a pending status.  The only exceptions are keys
\* that raced with their own creation or were cut short, and a startup
\* reconciliation without failure ends those for every inbound it serves.
RowMatchesClient == \A k \in Keys \ Suspects : Settled(k) => Agree(k)

\* a creation of the key is at one of these points, and another call has entered
\* beside it: create_xray_key takes no service lock
RacesAt(k, points) == k \in raced /\ \E t \in Tasks : pc[t] \in points /\ key[t] = k

\* Action: the row announces a change of access before the config changes: a
\* client appears only for a row that is pending or active, and disappears only
\* while the row is not active.  A crash in between leaves a row to start from.
\* The one step that is not announced is that of a creation another call raced
\* with: it adds the client of a row a revocation or deletion has ended, or its
\* compensation removes the client of a row a check has made active.
IntentStep ==
  \A k \in Keys :
    /\ k \in clients' \ clients =>
         status[k] \in {"pending_apply", "active"} \/ RacesAt(k, {"add"})
    /\ k \in clients \ clients' => status[k] # "active" \/ RacesAt(k, {"compensate"})
IntentFirst == [][IntentStep]_vars

\* Action: what leaves revoked.  A deletion does; no retry, check, failed
\* revocation, crash or startup pass writes another status over it, for a key
\* that raced as for any other.  The one exception is the failing end of the key's
\* own creation, which the revocation overtook: its set_status carries no
\* allowed_from_statuses, so the revoked row becomes apply_failed, never active.
RevokedStep ==
  \A k \in Keys :
    status[k] = "revoked" =>
      \/ status'[k] \in {"revoked", "pending_delete"}
      \/ status'[k] = "apply_failed" /\ RacesAt(k, {"fail_create", "comp_mark"})
RevokedStaysRevoked == [][RevokedStep]_vars

\* Action: neither a call nor a startup pass touches clients the bot did not make.
ForeignStep == clients' \cap Foreign = clients \cap Foreign
ForeignKept == [][ForeignStep]_vars

(***************************************************************************)
(* What the service promises (KeyAccess): the row says how far a key has   *)
(* come, the config who can connect, and a suspect key is unclear.         *)
(* Foreign clients are among those whose access no step may change.        *)
(***************************************************************************)
StageOf(s) ==
  CASE s = "none" -> "none"
    [] s = "active" -> "open"
    [] s = "pending_apply" -> "opening"
    [] s \in {"pending_revoke", "pending_delete", "delete_failed"} -> "closing"
    [] OTHER -> "closed"
Stage(k) == IF k \in raced \/ k \in hurt THEN "unclear" ELSE StageOf(status[k])

Promise == INSTANCE KeyAccess WITH
  Others <- Foreign, stage <- [k \in Keys |-> Stage(k)], access <- clients \ Suspects

\* Refinement: whatever calls overlap, fail or are cut off, the service is one whose
\* changes are announced first and are about one key each, and which grants and
\* closes a key only when the config agrees.
KeepsPromise == Promise!AccessSpec

\* Liveness: every call ends, whatever its adapter and SQLite calls answer; no
\* path keeps the service lock.
CallsEnd == \A t \in Tasks : pc[t] # "idle" ~> pc[t] = "idle"

\* Liveness: the process comes up again after a crash, at any of its steps, also
\* when reconciliation fails.
ComesUp == phase # "up" ~> phase = "up"

\* Liveness: a degraded backend comes to rest: calls admitted before the mark
\* finish, and none is admitted after it until the process restarts.
DegradedComesToRest ==
  degraded ~> (~degraded \/ \A t \in Tasks : pc[t] = "idle")

\* services/xray.py: "Serialise against concurrent create/revoke/delete for this
\* backend", said of the lock reconcile_key_status takes: while it decides on a
\* row, no creation of that row is under way.
CheckExcludesCreate ==
  \A t \in Tasks : pc[t] \in CheckPoints => ~Creating(key[t])
==============================================================================
