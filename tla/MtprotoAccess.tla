--------------------------- MODULE MtprotoAccess ---------------------------
(* MTProto accesses: services/mtproto.py over adapters/mtproxy.py.  In the    *)
(* managed mode every access has a secret of its own; all of them are in one  *)
(* file, which the proxy reads when it is restarted.  An operation writes the *)
(* whole set again, so the accesses of all users meet in it.  Operations hold *)
(* the apply lock: mStep is where the holder awaits, job where the adapter's  *)
(* apply_managed_secrets is.  The root helper (deploy/helpers/                *)
(* vpnbot-mtproxy-apply) cannot be killed by the bot: a run that exceeds its  *)
(* timeout goes on beside whatever the bot does next (late).                  *)
EXTENDS ProxyStatus

CONSTANTS MtUsers,       \* owners
          MaxMt,         \* rows the table may get: ids 1 .. MaxMt
          MaxMtCrashes,
          LateRuns,      \* runs of the helper that may be late, each once in the process's life
          MaxMtCalls,    \* bound on calls that wait for the apply lock
          NewCalls       \* bound: whether calls get the lock after a late run was overlapped

ASSUME MtBounds ==
    MaxMt \in Nat \ {0} /\ MaxMtCrashes \in Nat /\ MaxMtCalls \in Nat /\ NewCalls \in BOOLEAN

VARIABLES mode,       \* setting: static, or managed with direct access or the helper
          rollsBack,  \* setting: rollback_on_apply_failure, of the direct mode
          mRow,       \* id -> status
          mOwner,     \* id -> owner of the row
          file,       \* ids whose secret is in the managed secrets file
          running,    \* ids whose secret the running proxy serves
          mWaiting,   \* owners whose issue holds their user lock and waits
          mQueued,    \* ids whose revocation passed the health check and waits
          mStep, mId, \* the holder of the apply lock
          job,        \* apply_managed_secrets: none, begin .. rollback, ok, raised
          want, backup, \* its argument, and the file it saved
          mDegraded, mPhase, mLast, mCrashes,
          torn,       \* a restore was cut inside the file, which nothing can read since
          late,       \* the runs of the helper whose call has failed: where each is
          overlapped, \* history: the bot acted on the file while such a run was at work:
                      \* "no", "now", "before" (a crash ended it, no start settled it yet)
          cut         \* history: the file was changed and the proxy not seen to restart, or
                      \* a late run was overlapped

mtVars == <<mode, rollsBack, mRow, mOwner, file, running, mWaiting, mQueued, mStep, mId,
            job, want, backup, mDegraded, mPhase, mLast, mCrashes, torn, late, overlapped, cut>>
settings == <<mode, rollsBack>>
callers == <<mWaiting, mQueued>>
life == <<mDegraded, mPhase, mLast, mCrashes>>
others == <<torn, late, overlapped>>
disk == <<file, running, backup, cut, others>>

MtIds == 1 .. MaxMt
PendingRemoval == {"pending_revoke", "revoke_failed", "pending_delete", "delete_failed"}
Managed == mode # "static"
JobSteps == {"begin", "write", "restart", "check", "failed", "rollback"}
NotLate == [at |-> "none", new |-> {}, old |-> {}]
AtWork == {h \in LateRuns : late[h].at \in JobSteps}

MtInit ==
    /\ mode \in {"static", "direct", "helper"} /\ rollsBack \in {FALSE, mode = "direct"}
    /\ mRow = [a \in MtIds |-> NoRow] /\ mOwner \in [MtIds -> MtUsers]
    /\ file = {} /\ running = {} /\ backup = {} /\ want = {} /\ job = "none"
    /\ mWaiting = {} /\ mQueued = {} /\ mStep = "idle" /\ mId = 1
    /\ mDegraded = FALSE /\ mPhase = "up" /\ mLast = 0 /\ mCrashes = 0 /\ cut = FALSE
    /\ torn = FALSE /\ late = [h \in LateRuns |-> NotLate] /\ overlapped = "no"

SetMt(a, s) == mRow' = [mRow EXCEPT ![a] = s]
MtAllows(a, s) == IndexAllows(mRow, mOwner, a, s)

\* _desired_managed_secrets: the secrets of the active rows of all owners.
Desired == {a \in MtIds : mRow[a] = "active"}

-----------------------------------------------------------------------------
(* apply_managed_secrets.  A caller starts it with StartApply and goes on     *)
(* when job is "ok" or "raised".                                              *)

StartApply(s) == job' = "begin" /\ want' = s
Returns(r) == job' = r /\ want' = {} /\ backup' = {}
RollsBack == rollsBack \/ mode = "helper"
KeepCaller == UNCHANGED <<settings, mRow, mOwner, callers, mStep, mId, life>>
ReadsFile ==
    /\ overlapped' = IF AtWork = {} THEN overlapped ELSE "now"
    /\ cut' = (cut \/ AtWork # {})

\* The files are checked, and nothing is done when they already say what is wanted:
\* the running proxy is not asked.
ApplyUnchanged ==
    /\ job = "begin" /\ ~torn /\ file = want /\ Returns("ok")
    /\ ReadsFile /\ UNCHANGED <<file, running, torn, late>> /\ KeepCaller

\* ensure_managed_runtime_ready and backup_managed_files; either may raise.
ApplyBackup ==
    /\ job = "begin" /\ ReadsFile /\ UNCHANGED <<file, running, torn, late>> /\ KeepCaller
    /\ \/ Returns("raised")
       \/ ~torn /\ file # want /\ backup' = file /\ job' = "write" /\ UNCHANGED want

ApplyWrite ==
    /\ job = "write" /\ KeepCaller /\ UNCHANGED <<running, want, backup, others>>
    /\ \/ file' = want /\ cut' = TRUE /\ job' = "restart"
       \/ job' = "failed" /\ ((file' = want /\ cut' = TRUE) \/ UNCHANGED <<file, cut>>)

\* A restart that is not ok leaves the old proxy, none, or (a timeout) the new one.
ApplyRestart ==
    /\ job = "restart" /\ KeepCaller /\ UNCHANGED <<file, want, backup, cut, others>>
    /\ \/ running' = file /\ job' = "check"
       \/ running' \in {running, {}, file} /\ job' = "failed"

\* Active and listening within the timeout, or not.
ApplyCheck ==
    /\ job = "check" /\ KeepCaller /\ UNCHANGED <<file, others>>
    /\ \/ Returns("ok") /\ cut' = (overlapped = "now") /\ UNCHANGED running
       \/ job' = "failed" /\ running' \in {running, {}} /\ UNCHANGED <<want, backup, cut>>

\* The helper always rolls back; without it and without rollback_on_apply_failure the
\* new files stay.  Restoring the backup may raise; the helper replaces the file in one
\* step, restore_backup copies into it and may leave half of it.
ApplyFails ==
    /\ job = "failed" /\ KeepCaller /\ UNCHANGED <<running, cut, late, overlapped>>
    /\ \/ ~RollsBack /\ Returns("raised") /\ UNCHANGED <<file, torn>>
       \/ RollsBack /\ file' = backup /\ job' = "rollback" /\ UNCHANGED <<want, backup, torn>>
       \/ /\ RollsBack /\ file' \in {file, backup} /\ Returns("raised")
          /\ torn' \in {torn, mode = "direct"}

\* The proxy is restarted on the old files; whatever comes of it, the apply raises.
Rollback ==
    /\ job = "rollback" /\ KeepCaller /\ Returns("raised") /\ UNCHANGED <<file, others>>
    /\ \/ running' = file /\ cut' = (overlapped = "now")
       \/ running' \in {running, {}} /\ cut' = TRUE

\* ShellRunner kills sudo and the call fails; the helper is root's and goes on.
HelperTimesOut(h) ==
    /\ mode = "helper" /\ job \in JobSteps
    /\ (job = "begin" => file # want) /\ late[h].at = "none"
    /\ late' = [late EXCEPT ![h] = [at |-> job, old |-> backup,
                                new |-> IF job = "write" THEN want ELSE {}]]
    /\ Returns("raised") /\ ReadsFile /\ UNCHANGED <<file, running, torn>> /\ KeepCaller

(* The same run beside the bot, with the candidate and the backup of its time.  *)

LateMoves(h, to) ==
    /\ late' = [late EXCEPT ![h] = [@ EXCEPT !.at = to, !.new = {}]]
    /\ KeepCaller /\ UNCHANGED <<job, want, backup, torn, overlapped>>
LateEnds(h) ==
    /\ late' = [late EXCEPT ![h] = [NotLate EXCEPT !.at = "done"]]
    /\ KeepCaller /\ UNCHANGED <<job, want, backup, torn, overlapped>>

\* Its candidate is gone with the call: refused, or found missing after the backup.
LateBackup(h) ==
    /\ late[h].at = "begin" /\ UNCHANGED <<file, running, cut>>
    /\ \/ LateEnds(h)
       \/ /\ late' = [late EXCEPT ![h].at = "failed", ![h].old = file]
          /\ KeepCaller /\ UNCHANGED <<job, want, backup, torn, overlapped>>

\* The candidate it had opened is installed, or cannot be opened any more.
LateWrite(h) ==
    /\ late[h].at = "write" /\ UNCHANGED running
    /\ \/ file' = late[h].new /\ cut' = TRUE /\ (LateMoves(h, "restart") \/ LateMoves(h, "failed"))
       \/ LateMoves(h, "failed") /\ UNCHANGED <<file, cut>>

\* The proxy is restarted and verified, which may fail before or after it runs.
LateRestart(h) ==
    /\ late[h].at = "restart" /\ UNCHANGED file /\ cut' = TRUE
    /\ \/ running' = file /\ LateEnds(h)
       \/ running' \in {running, {}, file} /\ LateMoves(h, "failed")

LateCheck(h) ==
    /\ late[h].at = "check" /\ UNCHANGED file /\ cut' = TRUE
    /\ \/ LateEnds(h) /\ UNCHANGED running
       \/ running' \in {running, {}} /\ LateMoves(h, "failed")

\* restore_targets: its own backup, whatever was installed since.
LateRestore(h) ==
    /\ late[h].at = "failed" /\ UNCHANGED running /\ cut' = TRUE
    /\ \/ file' = late[h].old /\ LateMoves(h, "rollback")
       \/ file' \in {file, late[h].old} /\ LateEnds(h)

LateRollback(h) ==
    /\ late[h].at = "rollback" /\ UNCHANGED file /\ cut' = TRUE
    /\ running' \in {running, {}, file} /\ LateEnds(h)

LateActs(h) == LateBackup(h) \/ LateWrite(h) \/ LateRestart(h) \/ LateCheck(h) \/ LateRestore(h)
               \/ LateRollback(h)

Apply == ApplyUnchanged \/ ApplyBackup \/ ApplyWrite \/ ApplyRestart \/ ApplyCheck
         \/ ApplyFails \/ Rollback \/ \E h \in LateRuns : HelperTimesOut(h)

-----------------------------------------------------------------------------
(* issue_mtproto_proxy                                                       *)

Free == mPhase = "up" /\ mStep = "idle" /\ (overlapped = "no" \/ NewCalls)
EndCall == mStep' = "idle" /\ job' = "none" /\ mId' = 1
ActiveOf(u) == {a \in MtIds : mRow[a] = "active" /\ mOwner[a] = u}
MayCall ==
    /\ mPhase = "up" /\ Managed /\ ~mDegraded
    /\ Cardinality(mWaiting) + Cardinality(mQueued) < MaxMtCalls
FreshId(a) == mRow[a] = NoRow /\ \A b \in MtIds : b < a => mRow[b] # NoRow

AskMtproto(u) ==
    /\ MayCall /\ u \notin mWaiting /\ ActiveOf(u) = {}
    /\ mWaiting' = mWaiting \union {u}
    /\ UNCHANGED <<settings, mRow, mOwner, disk, mQueued, mStep, mId, job, want, life>>

\* The runtime is checked, then the row; a live row of the owner meets the unique index.
IssueManaged(u) ==
    /\ Free /\ u \in mWaiting
    /\ \/ \E a \in MtIds :
            /\ ~torn /\ FreshId(a) /\ mOwner[a] = u /\ ActiveOf(u) = {} /\ MtAllows(a, "pending_apply")
            /\ SetMt(a, "pending_apply") /\ mId' = a /\ mStep' = "issue"
            /\ StartApply(Desired \union {a}) /\ UNCHANGED mWaiting
       \/ mWaiting' = mWaiting \ {u} /\ UNCHANGED <<mRow, mId, mStep, job, want>>
    /\ UNCHANGED <<settings, mOwner, disk, mQueued, life>>

EndIssue == EndCall /\ mWaiting' = mWaiting \ {mOwner[mId]} /\ UNCHANGED want

IssueApplied ==
    /\ mStep = "issue" /\ job = "ok"
    /\ \/ CanActivate(mRow[mId]) /\ SetMt(mId, "active") /\ EndIssue
       \/ /\ mStep' = "compensate" /\ StartApply(Desired \ {mId})
          /\ UNCHANGED <<mRow, mWaiting, mId>>
    /\ UNCHANGED <<settings, mOwner, disk, mQueued, life>>

\* The row becomes apply_failed, if that write does not raise too.
IssueNotApplied ==
    /\ \/ mStep = "issue" /\ job = "raised"
       \/ mStep = "compensate" /\ job = "ok"
    /\ SetMt(mId, "apply_failed") \/ UNCHANGED mRow
    /\ EndIssue
    /\ UNCHANGED <<settings, mOwner, disk, mQueued, life>>

CompensationFails ==
    /\ mStep = "compensate" /\ job = "raised" /\ mDegraded' = TRUE /\ EndIssue
    /\ UNCHANGED <<settings, mRow, mOwner, disk, mQueued, mPhase, mLast, mCrashes>>

\* The static mode has one secret for all: only the row says who has an access.
IssueStatic(u) ==
    /\ mPhase = "up" /\ mode = "static" /\ ActiveOf(u) = {}
    /\ \E a \in MtIds : FreshId(a) /\ mOwner[a] = u /\ MtAllows(a, "active") /\ SetMt(a, "active")
    /\ UNCHANGED <<settings, mOwner, disk, callers, mStep, mId, job, want, life>>

-----------------------------------------------------------------------------
(* Revocation and deletion                                                   *)

AskRevoke(a) ==
    /\ MayCall /\ mRow[a] \notin FinalStatuses \union {NoRow} /\ a \notin mQueued
    /\ mQueued' = mQueued \union {a}
    /\ UNCHANGED <<settings, mRow, mOwner, disk, mWaiting, mStep, mId, job, want, life>>

\* With the lock the row is read again; the intent is recorded before the apply.
RevokeManaged(a) ==
    /\ Free /\ a \in mQueued /\ mQueued' = mQueued \ {a}
    /\ \/ /\ ~torn /\ mRow[a] \notin FinalStatuses /\ MtAllows(a, "pending_revoke")
          /\ SetMt(a, "pending_revoke") /\ mId' = a /\ mStep' = "revoke"
          /\ StartApply(Desired \ {a})
       \/ UNCHANGED <<mRow, mId, mStep, job, want>>
    /\ UNCHANGED <<settings, mOwner, disk, mWaiting, life>>

RevokeApplied ==
    /\ mStep = "revoke" /\ job = "ok" /\ EndCall
    /\ (~RevokeRaises(mRow[mId]) /\ SetMt(mId, "revoked")) \/ UNCHANGED mRow
    /\ UNCHANGED <<settings, mOwner, disk, callers, want, life>>

\* Mutant: the row says revoked although the apply failed.
RevokedAnyway ==
    /\ mStep = "revoke" /\ job = "raised" /\ EndCall /\ SetMt(mId, "revoked")
    /\ UNCHANGED <<settings, mOwner, disk, callers, want, life>>

RevokeNotApplied ==
    /\ mStep = "revoke" /\ job = "raised" /\ EndCall
    /\ SetMt(mId, "revoke_failed") \/ UNCHANGED mRow
    /\ UNCHANGED <<settings, mOwner, disk, callers, want, life>>

\* _deactivate_static takes no lock; the shared secret goes on working.
DeactivateStatic(a) ==
    /\ mPhase = "up" /\ mode = "static" /\ mRow[a] # NoRow
    /\ ~DeactivateRaises(mRow[a]) /\ SetMt(a, "inactive")
    /\ UNCHANGED <<settings, mOwner, disk, callers, mStep, mId, job, want, life>>

\* The second half of a deletion, whose revocation has returned (now or long before).
DeleteRow(a) ==
    /\ Free /\ ~mDegraded /\ mRow[a] \in {"revoked", "inactive"}
    /\ ~DeleteRaises(mRow[a]) /\ SetMt(a, "deleted")
    /\ UNCHANGED <<settings, mOwner, disk, callers, mStep, mId, job, want, life>>

-----------------------------------------------------------------------------
(* reconcile_mtproto_state: the pending rows by id, then the drift between    *)
(* the active rows and the file.  Whatever raises ends it with MTProto        *)
(* degraded; rows in apply_failed are left as they are.                       *)

Pending(a) == mRow[a] \in PendingRemoval \union {"pending_apply"} /\ a > mLast
NextPending(a) == Pending(a) /\ \A b \in MtIds : Pending(b) => a <= b
Reconciles == mPhase = "start" /\ mStep = "idle"

Fatal == EndCall /\ mDegraded' = TRUE /\ mPhase' = "up" /\ mLast' = 0 /\ UNCHANGED <<want, mRow>>
KeepFiles == UNCHANGED <<settings, mOwner, file, running, backup, torn, late, callers, mCrashes>>
KeepStart == KeepFiles /\ UNCHANGED <<overlapped, cut>>
Done(a) == mLast' = a /\ UNCHANGED mPhase

ReconcilePendingApply(a) ==
    /\ Reconciles /\ NextPending(a) /\ mRow[a] = "pending_apply" /\ ReadsFile /\ KeepFiles
    /\ \/ /\ ~torn /\ a \in file /\ SetMt(a, "active")
          /\ Done(a) /\ UNCHANGED <<mStep, mId, job, want, mDegraded>>
       \/ /\ ~torn /\ a \in file /\ mStep' = "start_compensate" /\ mId' = a
          /\ StartApply(Desired \ {a})
          /\ UNCHANGED <<mRow, mDegraded, mPhase, mLast>>
       \/ /\ ~torn /\ a \notin file /\ SetMt(a, "apply_failed")
          /\ Done(a) /\ UNCHANGED <<mStep, mId, job, want, mDegraded>>
       \/ Fatal

\* MTProto is degraded if the secret could not be taken out or the row not be marked.
ReconcileCompensated ==
    /\ mStep = "start_compensate" /\ job \in {"ok", "raised"} /\ EndCall /\ KeepStart
    /\ \/ job = "ok" /\ SetMt(mId, "apply_failed") /\ UNCHANGED mDegraded
       \/ mDegraded' = TRUE /\ UNCHANGED mRow
    /\ Done(mId) /\ UNCHANGED want

ReconcileRemoval(a) ==
    /\ Reconciles /\ NextPending(a) /\ mRow[a] \in PendingRemoval /\ KeepStart
    /\ \/ mStep' = "start_remove" /\ mId' = a /\ StartApply(Desired)
          /\ UNCHANGED <<mRow, mDegraded, mPhase, mLast>>
       \/ Fatal

ReconcileRemoved ==
    /\ mStep = "start_remove" /\ job \in {"ok", "raised"} /\ KeepStart
    /\ \/ /\ job = "ok"
          /\ SetMt(mId, IF mRow[mId] \in {"pending_revoke", "revoke_failed"} THEN "revoked" ELSE "deleted")
          /\ EndCall /\ Done(mId) /\ UNCHANGED <<want, mDegraded>>
       \/ Fatal

ReconcileDrift ==
    /\ Reconciles /\ \A a \in MtIds : ~Pending(a)
    /\ Managed /\ ~torn /\ file # Desired /\ mStep' = "start_drift" /\ StartApply(Desired)
    /\ KeepStart /\ UNCHANGED <<mRow, mId, mDegraded, mPhase, mLast>>

\* A start that degrades nothing has put right what was wrong before it.
MtReconcileEnds ==
    /\ KeepFiles /\ UNCHANGED cut
    /\ \/ /\ Reconciles /\ \A a \in MtIds : ~Pending(a)
          /\ (~torn /\ file = Desired) \/ mode = "static"
          /\ mPhase' = "up" /\ mLast' = 0 /\ UNCHANGED <<mRow, mStep, mId, job, want, mDegraded>>
       \/ Reconciles /\ (\A a \in MtIds : ~Pending(a)) /\ torn /\ Fatal
       \/ /\ mStep = "start_drift" /\ job = "ok" /\ EndCall
          /\ mPhase' = "up" /\ mLast' = 0 /\ UNCHANGED <<mRow, want, mDegraded>>
       \/ mStep = "start_drift" /\ job = "raised" /\ Fatal
    /\ overlapped' = IF mDegraded' THEN overlapped ELSE "no"

-----------------------------------------------------------------------------
\* systemd stops what is left of the unit's control group, late runs included.
MtCrash ==
    /\ mPhase # "down" /\ mCrashes < MaxMtCrashes
    /\ mPhase' = "down" /\ mCrashes' = mCrashes + 1
    /\ EndCall /\ want' = {} /\ backup' = {} /\ mLast' = 0
    /\ mWaiting' = {} /\ mQueued' = {} /\ mDegraded' = FALSE
    /\ late' = [h \in LateRuns |-> NotLate]
    /\ overlapped' = IF overlapped = "now" THEN "before" ELSE overlapped
    /\ torn' \in {torn, mode = "direct" /\ job = "failed" /\ rollsBack}
    /\ UNCHANGED <<settings, mRow, mOwner, file, running, cut>>

MtStart ==
    /\ mPhase = "down" /\ mPhase' = "start"
    /\ UNCHANGED <<settings, mRow, mOwner, disk, callers, mStep, mId, job, want, mDegraded, mLast,
                   mCrashes>>

MtCall ==
    \/ Apply \/ IssueApplied \/ IssueNotApplied \/ CompensationFails
    \/ RevokeApplied \/ RevokeNotApplied
MtStartup ==
    \/ MtStart \/ ReconcileCompensated \/ ReconcileRemoved \/ ReconcileDrift \/ MtReconcileEnds
    \/ \E a \in MtIds : ReconcilePendingApply(a) \/ ReconcileRemoval(a)

MtNext ==
    \/ MtCall \/ MtStartup \/ MtCrash \/ \E h \in LateRuns : LateActs(h)
    \/ \E u \in MtUsers : AskMtproto(u) \/ IssueManaged(u) \/ IssueStatic(u)
    \/ \E a \in MtIds : AskRevoke(a) \/ RevokeManaged(a) \/ DeactivateStatic(a) \/ DeleteRow(a)

MtSpec == MtInit /\ [][MtNext]_mtVars
MtFairness == WF_mtVars(MtCall) /\ WF_mtVars(MtStartup)

-----------------------------------------------------------------------------
(* Properties.                                                               *)

\* The values the state of the module takes.
MtTypeOK ==
    /\ mode \in {"static", "direct", "helper"} /\ {rollsBack, mDegraded, cut, torn} \subseteq BOOLEAN
    /\ mRow \in [MtIds -> ProxyStatuses \union {NoRow}] /\ mOwner \in [MtIds -> MtUsers]
    /\ {file, running, want, backup, mQueued} \subseteq SUBSET MtIds /\ mWaiting \subseteq MtUsers
    /\ mStep \in {"idle", "issue", "compensate", "revoke", "start_compensate", "start_remove",
                  "start_drift"} /\ mId \in MtIds
    /\ job \in JobSteps \union {"none", "ok", "raised"}
    /\ late \in [LateRuns -> [at: JobSteps \union {"none", "done"}, new: SUBSET MtIds, old: SUBSET MtIds]]
    /\ overlapped \in {"no", "now", "before"}
    /\ mPhase \in {"down", "start", "up"} /\ mLast \in 0 .. MaxMt /\ mCrashes \in 0 .. MaxMtCrashes

\* A secret that was revoked is in no file, and no proxy serves it unless the file was
\* changed and nothing has been seen to restart the proxy since.  A late run of the helper
\* does not disturb that by itself; it may once the bot has acted on the file beside it,
\* until a start has settled things.
RevokedNotServed ==
    overlapped = "no" =>
        \A a \in MtIds :
            mRow[a] \in FinalStatuses \union {NoRow} => a \notin file /\ (a \in running => cut)

\* Whatever fails in an apply for one access, a rollback included, and whatever a late run
\* still does, the secret of every active access stays in the file, and is served unless
\* the proxy was not seen to restart: as long as the bot did not act on the file beside a
\* late run, and no restore was cut inside the file.
ActiveServed ==
    overlapped = "no" /\ ~torn =>
        \A a \in MtIds :
            mRow[a] = "active" /\ Managed => a \in file /\ (a \in running \/ cut)

\* No operation and no late run takes an active secret of somebody else out of a proxy
\* that runs, as long as the bot did not act on the file beside a late run.
OthersKept ==
    [][overlapped = "no" =>
         \A a \in MtIds :
             mRow[a] = "active" /\ a \in running /\ a \notin running' => running' = {}]_mtVars

\* A reconciliation that does not degrade MTProto leaves exactly the secrets of the active
\* rows in the file, no row half way and no run of the helper that could change that,
\* whatever late runs had done before.
MtStartupSettles ==
    [][mPhase = "start" /\ mPhase' = "up" /\ ~mDegraded' /\ Managed
         => /\ file' = Desired' /\ ~torn' /\ AtWork' = {}
            /\ \A a \in MtIds : mRow'[a] \in FinalStatuses \union {NoRow, "active", "apply_failed"}]_mtVars

\* The apply lock is always given back and every start comes to its end.
MtReturns == []<>(mPhase = "up" /\ mStep = "idle")

\* Rows, the secrets file and the running proxy agree, in both directions.
RowMatchesSecret == RevokedNotServed /\ ActiveServed

\* What no apply and no startup may do to somebody else's secret or leave half way.
MtSteps == OthersKept /\ MtStartupSettles
=============================================================================
