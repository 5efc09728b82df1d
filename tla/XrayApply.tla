----------------------------- MODULE XrayApply -----------------------------
(* How a change of the Xray clients reaches the running service               *)
(* (adapters/xray_config.py): by the root helper (deploy/helpers/              *)
(* vpnbot-xray-apply), which the bot may stop waiting for but cannot stop, or  *)
(* by the bot itself with a reload or a restart of the service.              *)
EXTENDS Naturals

CONSTANTS
    Entries,          \* clients and short ids of the inbound
    HelperRuns,       \* runs of the helper that may exist at once
    MaxEdits,         \* how many changes are asked for
    MaxLateHelpers,   \* how many runs of the helper exceed the timeout
    MaxBotStops       \* how often the bot is stopped

ASSUME ApplyAssumption == {MaxEdits, MaxLateHelpers, MaxBotStops} \subseteq Nat

VARIABLES
    applyMode,        \* "helper", or how the bot itself applies: "reload", "restart"
    configFile,       \* the entries in the config file
    known,            \* the entries the service knows
    helper,           \* the runs of the helper
    edit,             \* the change under way, under the lock of the config file
    answeredEntries,  \* the entries as the answered changes left them
    unsure,           \* those whose last change raised or was cut off
    overlapped,       \* a change began while an earlier run was still at work
    adrift,           \* the service may not know what the file says
    edits, lates, stops

applyWorld == <<configFile, known>>
editAnswers == <<answeredEntries, unsure>>
applyHistory == <<overlapped, adrift, edits, lates, stops>>
applyVars == <<applyMode, applyWorld, helper, edit, editAnswers, applyHistory>>

ApplyModes == {"helper", "reload", "restart"}

NoRun == [at |-> "free", new |-> {}, old |-> {}, staged |-> FALSE]

NoEdit == [at |-> "idle", op |-> "none", of |-> "none", fresh |-> TRUE,
           new |-> {}, old |-> {}, by |-> "nobody", tries |-> 0]

WorkingHelpers == {h \in HelperRuns : helper[h].at \notin {"free", "ok", "failed"}}

ApplyInit ==
    /\ applyMode \in ApplyModes /\ configFile \in SUBSET Entries /\ known = configFile
    /\ helper = [h \in HelperRuns |-> NoRun] /\ edit = NoEdit /\ answeredEntries = configFile /\ unsure = {}
    /\ overlapped = FALSE /\ adrift = FALSE /\ edits = 0 /\ lates = 0 /\ stops = 0

\* The file is replaced: no snapshot taken before is of it any more.
ReplacedBy(content, next) == configFile' = content /\ edit' = [next EXCEPT !.fresh = FALSE]

\* systemctl restart and is-active, or a failure that may leave the service down.
Restarted == known' = configFile /\ adrift' = FALSE

NotRestarted == known' \in {known, configFile, {}} /\ UNCHANGED adrift

LeftAdrift == known' \in {known, configFile, {}} /\ adrift' = TRUE

--------------------------------------------------------------------------------
(* vpnbot-xray-apply apply: one run h                                        *)

HelperMoves(h, to) == helper' = [helper EXCEPT ![h].at = to]

\* The candidate is there, is JSON and passes `xray run -test`.
HelperValidates(h) ==
    /\ helper[h].at = "validate" /\ UNCHANGED <<applyMode, applyWorld, edit, editAnswers, applyHistory>>
    /\ \/ helper[h].staged /\ HelperMoves(h, "backup")
       \/ HelperMoves(h, "failed")

\* A failure so far changes nothing and rolls nothing back.
HelperBacksUp(h) ==
    /\ helper[h].at = "backup" /\ UNCHANGED <<applyMode, applyWorld, edit, editAnswers, applyHistory>>
    /\ \/ helper' = [helper EXCEPT ![h].at = "install", ![h].old = configFile]
       \/ HelperMoves(h, "failed")

\* The candidate is opened again: it is gone when the bot has given up.
HelperInstalls(h) ==
    /\ helper[h].at = "install" /\ UNCHANGED <<applyMode, known, editAnswers, applyHistory>>
    /\ \/ /\ helper[h].staged /\ ReplacedBy(helper[h].new, edit)
          /\ HelperMoves(h, "restart") \/ HelperMoves(h, "restore")
       \/ HelperMoves(h, "restore") /\ UNCHANGED <<configFile, edit>>

HelperRestarts(h) ==
    /\ helper[h].at = "restart" /\ UNCHANGED <<applyMode, configFile, edit, editAnswers>>
    /\ UNCHANGED <<overlapped, edits, lates, stops>>
    /\ \/ Restarted /\ HelperMoves(h, "ok")
       \/ NotRestarted /\ HelperMoves(h, "restore")

HelperRestores(h) ==
    /\ helper[h].at = "restore" /\ UNCHANGED <<applyMode, known, editAnswers>>
    /\ UNCHANGED <<overlapped, edits, lates, stops>>
    /\ \/ ReplacedBy(helper[h].old, edit) /\ HelperMoves(h, "restart old") /\ UNCHANGED adrift
       \/ HelperMoves(h, "failed") /\ adrift' = TRUE /\ UNCHANGED <<configFile, edit>>

\* Mutant: the old config is put back and the service left alone.
RestartsOldNever(h) ==
    /\ helper[h].at = "restart old" /\ HelperMoves(h, "failed")
    /\ UNCHANGED <<applyMode, applyWorld, edit, editAnswers, applyHistory>>

HelperRestartsOld(h) ==
    /\ helper[h].at = "restart old" /\ HelperMoves(h, "failed")
    /\ (Restarted \/ LeftAdrift)
    /\ UNCHANGED <<applyMode, configFile, edit, editAnswers, overlapped, edits, lates, stops>>

Helper(h) ==
    \/ HelperValidates(h) \/ HelperBacksUp(h) \/ HelperInstalls(h)
    \/ HelperRestarts(h) \/ HelperRestores(h) \/ HelperRestartsOld(h)

--------------------------------------------------------------------------------
(* add_client, remove_client and ensure_short_id, under the lock of the file *)

EditAnswered ==
    /\ answeredEntries' = IF edit.op = "remove" THEN answeredEntries \ {edit.of}
                          ELSE answeredEntries \union {edit.of}
    /\ unsure' = unsure \ {edit.of}

EditRaised == unsure' = unsure \union {edit.of} /\ UNCHANGED answeredEntries

\* The temporary file goes with the call that staged it.
Unstaged == helper' = [helper EXCEPT ![edit.by].staged = FALSE]

\* _snapshot_config and, without the helper, create_backup.
AskEdit(op, c) ==
    /\ edit.at = "idle" /\ edits < MaxEdits /\ edits' = edits + 1
    /\ edit' = [NoEdit EXCEPT !.at = "read", !.op = op, !.of = c, !.old = configFile]
    /\ overlapped' = (overlapped \/ WorkingHelpers # {})
    /\ UNCHANGED <<applyMode, applyWorld, helper, editAnswers, adrift, lates, stops>>

AddClient(c) == AskEdit("add", c)

RemoveClient(c) == AskEdit("remove", c)

EnsureShortId(c) == AskEdit("ensure", c)

\* The config is read, and must be the one of the snapshot.
ReadConfig ==
    LET new == IF edit.op # "remove" THEN configFile \union {edit.of} ELSE configFile \ {edit.of} IN
    /\ edit.at = "read" /\ UNCHANGED <<applyMode, applyWorld, helper, applyHistory>>
    /\ IF edit.fresh /\ new # configFile
       THEN edit' = [edit EXCEPT !.at = "install", !.new = new] /\ UNCHANGED editAnswers
       ELSE edit' = NoEdit /\ IF edit.fresh /\ edit.op # "add" THEN EditAnswered ELSE EditRaised

\* The lock is busy, or no copy or temporary file can be written.
EditGivenUp ==
    /\ edit.at \in {"read", "install"} /\ edit' = NoEdit /\ EditRaised
    /\ UNCHANGED <<applyMode, applyWorld, helper, applyHistory>>

\* _apply_helper: run, and run again after a failure, if the file is still the one
\* of the snapshot, which a helper that restored it has replaced.
StartHelper(h) ==
    /\ applyMode = "helper" /\ edit.at \in {"install", "retry"} /\ helper[h].at = "free" /\ edit.fresh
    /\ edit' = [edit EXCEPT !.at = "wait", !.by = h, !.tries = @ + 1]
    /\ helper' = [helper EXCEPT ![h] = [NoRun EXCEPT !.at = "validate", !.new = edit.new, !.staged = TRUE]]
    /\ UNCHANGED <<applyMode, applyWorld, editAnswers, applyHistory>>

ConfigChanged ==
    /\ edit.at \in {"install", "retry"} /\ ~edit.fresh /\ edit' = NoEdit /\ EditRaised
    /\ UNCHANGED <<applyMode, applyWorld, helper, applyHistory>>

HelperAnswers ==
    LET h == edit.by IN
    /\ edit.at = "wait" /\ helper[h].at \in {"ok", "failed"} /\ helper' = [helper EXCEPT ![h] = NoRun]
    /\ CASE helper[h].at = "ok" -> edit' = NoEdit /\ EditAnswered
         [] helper[h].at = "failed" /\ edit.tries = 1 ->
                edit' = [edit EXCEPT !.at = "retry"] /\ UNCHANGED editAnswers
         [] OTHER -> edit' = NoEdit /\ EditRaised
    /\ UNCHANGED <<applyMode, applyWorld, applyHistory>>

\* ShellRunner kills sudo; the helper is root's and goes on.
HelperIsLate ==
    /\ edit.at = "wait" /\ edit.by \in WorkingHelpers /\ lates < MaxLateHelpers /\ lates' = lates + 1
    /\ edit' = NoEdit /\ EditRaised /\ Unstaged
    /\ UNCHANGED <<applyMode, applyWorld, overlapped, adrift, edits, stops>>

\* A run nobody waits for has ended.
HelperGone(h) ==
    /\ helper[h].at \in {"ok", "failed"} /\ edit.by # h /\ helper' = [helper EXCEPT ![h] = NoRun]
    /\ UNCHANGED <<applyMode, applyWorld, edit, editAnswers, applyHistory>>

(* Without the helper *)

ReplaceConfig ==
    /\ applyMode # "helper" /\ edit.at = "install" /\ edit.fresh
    /\ ReplacedBy(edit.new, [edit EXCEPT !.at = "apply"])
    /\ UNCHANGED <<applyMode, known, helper, editAnswers, applyHistory>>

\* The first half of _reload_or_restore and _restart_or_restore.
ReloadOrRestart ==
    /\ edit.at = "apply" /\ UNCHANGED <<applyMode, configFile, helper, overlapped, edits, lates, stops>>
    /\ \/ Restarted /\ edit' = NoEdit /\ EditAnswered
       \/ NotRestarted /\ edit' = [edit EXCEPT !.at = "restore"] /\ UNCHANGED editAnswers

\* BackupAdapter.restore, which may raise.
RestoreBackup ==
    /\ edit.at = "restore" /\ UNCHANGED <<applyMode, known, helper, overlapped, edits, lates, stops>>
    /\ \/ ReplacedBy(edit.old, [edit EXCEPT !.at = "restored"]) /\ UNCHANGED <<editAnswers, adrift>>
       \/ edit' = NoEdit /\ EditRaised /\ adrift' = TRUE /\ UNCHANGED configFile

\* The restored config is tested; after a reload the service is restarted only when
\* allow_restart_on_rollback says so.
RestoredApplies ==
    /\ edit.at = "restored" /\ edit' = NoEdit /\ EditRaised
    /\ (Restarted \/ LeftAdrift)
    /\ UNCHANGED <<applyMode, configFile, helper, overlapped, edits, lates, stops>>

--------------------------------------------------------------------------------
(* The rest of the world *)

\* systemd stops the bot and, with its control group, every run of the helper.
StopBot ==
    /\ stops < MaxBotStops /\ stops' = stops + 1 /\ helper' = [h \in HelperRuns |-> NoRun] /\ edit' = NoEdit
    /\ IF edit.at = "idle" THEN UNCHANGED editAnswers ELSE EditRaised
    /\ adrift' = (adrift \/ known # configFile)
    /\ UNCHANGED <<applyMode, applyWorld, overlapped, edits, lates>>

\* The service is restarted by somebody else, or by a reboot.
ServiceRestarts ==
    /\ adrift /\ Restarted
    /\ UNCHANGED <<applyMode, configFile, helper, edit, editAnswers, overlapped, edits, lates, stops>>

ApplyNext ==
    \/ \E c \in Entries : AddClient(c) \/ RemoveClient(c) \/ EnsureShortId(c)
    \/ ReadConfig \/ EditGivenUp \/ ConfigChanged \/ HelperAnswers \/ HelperIsLate
    \/ \E h \in HelperRuns : StartHelper(h) \/ Helper(h) \/ HelperGone(h)
    \/ ReplaceConfig \/ ReloadOrRestart \/ RestoreBackup \/ RestoredApplies
    \/ StopBot \/ ServiceRestarts

ApplySpec == ApplyInit /\ [][ApplyNext]_applyVars

--------------------------------------------------------------------------------
(* Properties *)

(* Every variable keeps its type, and a change runs the helper at most twice. *)
ApplyTypeOK ==
    /\ applyMode \in ApplyModes /\ {configFile, known, answeredEntries, unsure} \subseteq SUBSET Entries
    /\ \A h \in HelperRuns :
        helper[h].at \in {"free", "validate", "backup", "install", "restart", "restore", "restart old",
                          "ok", "failed"}
    /\ edit.at \in {"idle", "read", "install", "retry", "wait", "apply", "restore", "restored"}
    /\ edit.at = "wait" => edit.by \in HelperRuns
    /\ edit.tries \in 0..2 /\ {overlapped, adrift} \subseteq BOOLEAN

(* Between two changes, with no helper left at work, the file says of every    *)
(* client what the last answer said, and the service knows what is in the     *)
(* file: whichever step of which change failed, was rolled back, tried again, *)
(* outlived its call or was cut off.  Of the file, what helpers write that    *)
(* were still at work when the next change began (OneApply) is left out; of   *)
(* the service, one whose rollback failed or whose helper was stopped, until  *)
(* it is restarted.                                                          *)
AnsweredIsServed ==
    edit.at = "idle" /\ WorkingHelpers = {} =>
        /\ overlapped \/ \A c \in Entries \ unsure : c \in configFile <=> c \in answeredEntries
        /\ adrift \/ known = configFile

(* adapters/xray_config.py:434-436, of a helper that timed out: it may still be *)
(* at work, and another one "could run two concurrent applies against the      *)
(* same config/runtime".                                                     *)
OneApply == \A g, h \in WorkingHelpers : g = h
=============================================================================
