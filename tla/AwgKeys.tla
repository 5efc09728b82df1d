------------------------------- MODULE AwgKeys -------------------------------
(***************************************************************************)
(* AmneziaWG keys: services/awg.py over adapters/awg_config.py.  A key is  *)
(* a row of vpn_keys, a [Peer] block of the server's config file, a peer   *)
(* of the running interface, and an address of the pool.                   *)
(*                                                                         *)
(* Every operation on keys, the startup reconciliation included, runs      *)
(* under AwgService._lock, so one control point ("at") serves them all; a  *)
(* call that was admitted waits in "queued".  What can go wrong is         *)
(* failure: the adapter changes two places one after the other and rolls   *)
(* back as well as it can, the row is a third place, the process may die   *)
(* between any two steps, and a privileged helper that timed out may still *)
(* be applying its candidate file.                                         *)
(*                                                                         *)
(* Left out: keys and payload text, preshared keys, notes, audit rows,     *)
(* config reads for the client.  The text of the file, its hand edits and  *)
(* the order of its peers are in AwgConfigFile.                            *)
(***************************************************************************)
EXTENDS Naturals, FiniteSets

CONSTANTS
  Keys,         \* ids of vpn_keys rows (AUTOINCREMENT: an id is used once)
  Foreign,      \* peers the bot never made (no marker, no row)
  Ips,          \* addresses of the pool
  None,         \* no key, no address
  Modes,        \* settings: the adapter works by itself or through the privileged helper
  MaxQueued,    \* bound on calls waiting for the lock
  MaxCrashes,   \* bound on process crashes
  MaxTimeouts   \* bound on helpers that time out and apply later

ASSUME ForeignAssumption == Foreign \cap Keys = {}
ASSUME NoneAssumption    == None \notin Keys \cup Foreign \cup Ips
ASSUME ModesAssumption   == Modes # {} /\ Modes \subseteq {"direct", "helper"}
ASSUME BoundsAssumption  == MaxQueued \in Nat /\ MaxCrashes \in Nat /\ MaxTimeouts \in Nat

VARIABLES
  status,    \* status[k]: the status column; "none" before the row, "gone" after
  column,    \* column[k]: the client_ip column
  ip,        \* ip[p]: the peer's address (payload, AllowedIPs)
  config,    \* peers of the config file
  runtime,   \* peers of the interface
  queued,    \* admitted calls that wait for the lock
  at,        \* where the holder of the lock is, "free" between calls
  key,       \* key of the running call
  prev,      \* its previous_status
  job,       \* the adapter call under way
  phase,     \* the process: down, a startup pass, or up
  todo,      \* what the pass has left
  failed,    \* startup_reconcile: summary["failed"] > 0
  degraded,  \* BackendHealth: AWG is marked degraded
  crashes,
  mode,      \* how this process works on the file and the interface
  late,      \* candidates of timed-out helpers that may still be installed
  timeouts,
  landed,    \* history: one was installed after its call had failed: "no", "now",
             \* or "before" the last start
  hurt       \* history: keys left by a crash or a failure that had an effect

rows     == <<status, column, ip>>
peers    == <<config, runtime>>
callVars == <<at, key, prev, job>>
bootVars == <<phase, todo, failed, degraded, crashes>>
lateVars == <<mode, late, timeouts, landed>>
vars == <<rows, peers, queued, callVars, bootVars, lateVars, hurt>>

Peers       == Keys \cup Foreign
RowStatuses == {"pending_apply", "active", "apply_failed", "pending_revoke",
                "revoked", "pending_delete", "delete_failed"}
Statuses    == RowStatuses \cup {"none", "gone"}
Operations  == {"create", "revoke", "delete", "check"}
Passes      == {"rows", "drift_rows", "drift_orphans", "drift_restore", "drift_runtime"}
Points      == {"free", "created", "adding", "create_failed", "activating", "compensating",
                "revoking", "deleting", "erasing", "row", "drift"}
Outcomes    == {"ok", "raised"}

\* AWG_ACCESS_MAY_EXIST_STATUSES, and the statuses that reserve an address
AccessMayExist == RowStatuses \ {"revoked"}
ReservedIn(statuses) == {column[k] : k \in {r \in Keys : status[r] \in statuses}}
ActiveKeys == {k \in Keys : status[k] = "active"}

NoJob == [op |-> "none", peer |-> None, step |-> "none", had |-> FALSE, text |-> {}]

------------------------------------------------------------------------------
(* Building blocks.                                                          *)

Ask(op, p, point) ==
  /\ at' = point
  /\ job' = [op |-> op, peer |-> p, step |-> "begin", had |-> p \in config, text |-> {}]

Answer(result) == job.step = result

SetStatus(k, s) == status' = [status EXCEPT ![k] = s] /\ UNCHANGED <<column, ip>>

\* the call ends and gives the lock back
Leave == at' = "free" /\ key' = None /\ prev' = "none" /\ job' = NoJob

\* the call waiting first is served, and ends without a change
Take(op, k) == /\ phase = "up" /\ at = "free"
               /\ [op |-> op, key |-> k] \in queued
               /\ queued' = queued \ {[op |-> op, key |-> k]}

CallFrame == UNCHANGED <<peers, queued, bootVars, lateVars>>

Init ==
  /\ status = [k \in Keys |-> "none"]
  /\ column = [k \in Keys |-> None]
  /\ config \in SUBSET Foreign /\ runtime \in SUBSET Foreign
  /\ \E f \in [config \cup runtime -> Ips] :
       /\ \A p, q \in DOMAIN f : f[p] = f[q] => p = q
       /\ ip = [p \in Peers |-> IF p \in DOMAIN f THEN f[p] ELSE None]
  /\ queued = {}
  /\ at = "free" /\ key = None /\ prev = "none" /\ job = NoJob
  /\ phase = "down" /\ todo = {} /\ failed = FALSE /\ degraded = FALSE /\ crashes = 0
  /\ mode \in Modes /\ late = {} /\ timeouts = 0 /\ landed = "no"
  /\ hurt = {}

------------------------------------------------------------------------------
(* adapters/awg_config.py.  A call has two effects, the file and then the    *)
(* interface, or one when the helper replaces both.                          *)

Clash(p) == \E q \in config \ {p} : ip[q] = ip[p]

JobAt(op, step) == job.op = op /\ job.step = step
Step(s) == job' = [job EXCEPT !.step = s]
AdapterFrame == UNCHANGED <<rows, queued, at, key, prev, bootVars, lateVars>>

\* add_peer: a marker of the key is already there, or the block is written
AddConfig ==
  /\ mode = "direct" /\ JobAt("add", "begin")
  /\ \/ /\ job.peer \in config
        /\ Step(IF job.peer \in runtime THEN "ok" ELSE "runtime") /\ UNCHANGED config
     \/ /\ job.peer \notin config /\ Clash(job.peer)
        /\ Step("raised") /\ UNCHANGED config
     \/ /\ job.peer \notin config /\ ~Clash(job.peer)
        /\ config' = config \cup {job.peer} /\ Step("runtime")
  /\ UNCHANGED <<runtime, hurt>> /\ AdapterFrame

AddRuntime ==
  /\ JobAt("add", "runtime")
  /\ runtime' = runtime \cup {job.peer}
  /\ Step("ok")
  /\ UNCHANGED <<config, hurt>> /\ AdapterFrame

\* remove_peer
RemoveConfig ==
  /\ mode = "direct" /\ JobAt("remove", "begin")
  /\ config' = config \ {job.peer}
  /\ Step("runtime")
  /\ UNCHANGED <<runtime, hurt>> /\ AdapterFrame

\* mutant: the peer is not taken off the interface
RemoveKeepsRuntime ==
  /\ JobAt("remove", "runtime")
  /\ Step("ok")
  /\ UNCHANGED <<peers, hurt>> /\ AdapterFrame

RemoveRuntime ==
  /\ JobAt("remove", "runtime")
  /\ runtime' = runtime \ {job.peer}
  /\ Step("ok")
  /\ UNCHANGED <<config, hurt>> /\ AdapterFrame

\* sync_runtime_from_config, and verify_runtime_peer after it
SyncRuntime ==
  /\ mode = "direct" /\ JobAt("sync", "begin")
  /\ runtime' = config
  /\ Step(IF job.peer \in config THEN "ok" ELSE "raised")
  /\ UNCHANGED <<config, hurt>> /\ AdapterFrame

\* an exception: the call had an effect unless its peer is as it was
Hurts == hurt' = IF {job.peer \in config', job.peer \in runtime'} = {job.had}
                 THEN hurt ELSE hurt \cup ({job.peer} \cap Keys)

\* the file before the call, which the rollback restores (or fails to)
Before == IF job.had THEN config \cup {job.peer} ELSE config \ {job.peer}

AddRaises ==
  /\ mode = "direct" /\ job.op = "add" /\ job.step \in {"begin", "runtime"}
  /\ IF job.step = "begin" THEN UNCHANGED peers
     ELSE /\ config' \in {config, Before}
          /\ runtime' \in {runtime, runtime \cup {job.peer}, runtime \ {job.peer}}
  /\ Step("raised") /\ Hurts
  /\ AdapterFrame

RemoveRaises ==
  /\ mode = "direct" /\ job.op = "remove" /\ job.step \in {"begin", "runtime"}
  /\ IF job.step = "begin" THEN UNCHANGED peers
     ELSE /\ config' \in {config, Before}
          /\ runtime' \in {runtime, runtime \ {job.peer}, config'}
  /\ Step("raised") /\ Hurts
  /\ AdapterFrame

SyncRaises ==
  /\ mode = "direct" /\ JobAt("sync", "begin")
  /\ runtime' \in {runtime, config}
  /\ Step("raised")
  /\ UNCHANGED <<config, hurt>> /\ AdapterFrame

\* helper mode: read the file, hand the helper a candidate
HelperCandidate ==
  /\ mode = "helper" /\ job.step = "begin"
  /\ IF job.op = "add" /\ job.peer \notin config /\ Clash(job.peer)
     THEN Step("raised")
     ELSE job' = [job EXCEPT !.step = "apply",
                             !.text = IF job.op = "add" THEN config \cup {job.peer}
                                      ELSE IF job.op = "remove" THEN config \ {job.peer}
                                      ELSE config]
  /\ UNCHANGED <<peers, hurt>> /\ AdapterFrame

\* vpnbot-awg-apply installs the candidate and runs syncconf
HelperApplies ==
  /\ job.step = "apply"
  /\ config' = job.text /\ runtime' = job.text
  /\ Step(IF job.op = "sync" /\ job.peer \notin job.text THEN "raised" ELSE "ok")
  /\ UNCHANGED hurt /\ AdapterFrame

\* it fails and restores the backup, or fails in that too; or the call fails
\* around it (file lock busy, config changed meanwhile)
HelperFails ==
  /\ mode = "helper" /\ job.step \in {"begin", "apply"}
  /\ IF job.step = "begin" THEN UNCHANGED peers
     ELSE /\ config' \in {config, job.text}
          /\ runtime' \in {runtime, config, job.text}
  /\ Step("raised") /\ Hurts
  /\ AdapterFrame

\* the call gives up; the root process cannot be killed and goes on
HelperTimesOut ==
  /\ job.step = "apply" /\ timeouts < MaxTimeouts
  /\ timeouts' = timeouts + 1 /\ late' = late \cup {job.text}
  /\ Step("raised")
  /\ UNCHANGED <<rows, peers, queued, at, key, prev, bootVars, mode, landed, hurt>>

LateHelper(text) ==
  /\ text \in late
  /\ late' = late \ {text}
  /\ config' = text /\ runtime' = text
  /\ landed' = "now"
  /\ UNCHANGED <<rows, queued, callVars, bootVars, mode, timeouts, hurt>>

------------------------------------------------------------------------------
(* Calls.  require_mutation_allowed is read before the lock is awaited.      *)

Admit(op, k) ==
  /\ phase = "up" /\ ~degraded
  /\ Cardinality(queued) < MaxQueued
  /\ queued' = queued \cup {[op |-> op, key |-> k]}
  /\ UNCHANGED <<rows, peers, callVars, bootVars, lateVars, hurt>>

Request == \/ Admit("create", None)
           \/ \E op \in Operations \ {"create"}, k \in Keys :
                status[k] \in RowStatuses /\ Admit(op, k)

\* refused, or nothing to do, or the first write fails
Refused(op, k) ==
  /\ Take(op, k)
  /\ UNCHANGED <<rows, peers, callVars, bootVars, lateVars, hurt>>

\* next_free_ip: reserved by no row and by no peer of the config
FreeIps == Ips \ (ReservedIn(AccessMayExist) \cup {ip[p] : p \in config})

CreateRow(k, i) ==
  /\ Take("create", None)
  /\ status[k] = "none" /\ i \in FreeIps
  /\ status' = [status EXCEPT ![k] = "pending_apply"]
  /\ column' = [column EXCEPT ![k] = i]
  /\ ip' = [ip EXCEPT ![k] = i]
  /\ at' = "created" /\ key' = k /\ UNCHANGED <<prev, job>>
  /\ UNCHANGED <<peers, bootVars, lateVars, hurt>>

CreateAdd ==
  /\ at = "created"
  /\ \/ Ask("add", key, "adding")
     \/ at' = "create_failed" /\ UNCHANGED job      \* the owner lost access meanwhile
  /\ UNCHANGED <<rows, key, prev, hurt>> /\ CallFrame

\* mutant: a peer that could not be added is activated all the same
CreateAddedAnyway ==
  /\ at = "adding" /\ job.step \in Outcomes
  /\ at' = "activating"
  /\ job' = NoJob
  /\ UNCHANGED <<rows, key, prev, hurt>> /\ CallFrame

CreateAdded ==
  /\ at = "adding" /\ job.step \in Outcomes
  /\ at' = (IF Answer("ok") THEN "activating" ELSE "create_failed")
  /\ job' = NoJob
  /\ UNCHANGED <<rows, key, prev, hurt>> /\ CallFrame

CreateFail ==
  /\ at = "create_failed"
  /\ SetStatus(key, "apply_failed")
  /\ Leave
  /\ UNCHANGED hurt /\ CallFrame

CreateActivate ==
  /\ at = "activating"
  /\ \/ SetStatus(key, "active") /\ Leave
     \/ Ask("remove", key, "compensating") /\ UNCHANGED <<rows, key, prev>>
  /\ UNCHANGED hurt /\ CallFrame

\* _compensate_failed_create_after_apply
Compensated ==
  /\ at = "compensating" /\ Answer("ok")
  /\ SetStatus(key, "apply_failed")
  /\ Leave
  /\ UNCHANGED hurt /\ CallFrame

CompensateRaised ==
  /\ at = "compensating" /\ Answer("raised")
  /\ degraded' = TRUE /\ hurt' = hurt \cup {key}
  /\ Leave
  /\ UNCHANGED <<rows, peers, queued, phase, todo, failed, crashes, lateVars>>

Revoke(k) ==
  /\ Take("revoke", k)
  /\ status[k] \in AccessMayExist
  /\ SetStatus(k, "pending_revoke")
  /\ Ask("remove", k, "revoking") /\ key' = k /\ prev' = status[k]
  /\ UNCHANGED <<peers, bootVars, lateVars, hurt>>

\* mutant: a key that could not be removed is revoked all the same
RevokedAnyway ==
  /\ at = "revoking" /\ job.step \in Outcomes
  /\ status' = [status EXCEPT ![key] = "revoked"]
  /\ column' = [column EXCEPT ![key] = None]
  /\ Leave
  /\ UNCHANGED <<ip, hurt>> /\ CallFrame

\* mark_revoked gives the address back; a failure restores previous_status
Revoked ==
  /\ at = "revoking" /\ job.step \in Outcomes
  /\ IF Answer("ok")
     THEN /\ status' = [status EXCEPT ![key] = "revoked"]
          /\ column' = [column EXCEPT ![key] = None]
          /\ UNCHANGED ip
     ELSE SetStatus(key, prev)
  /\ Leave
  /\ UNCHANGED hurt /\ CallFrame

Delete(k) ==
  /\ Take("delete", k)
  /\ status[k] \in RowStatuses
  /\ SetStatus(k, "pending_delete")
  /\ key' = k /\ prev' = status[k]
  /\ IF status[k] \in AccessMayExist THEN Ask("remove", k, "deleting")
     ELSE at' = "erasing" /\ UNCHANGED job
  /\ UNCHANGED <<peers, bootVars, lateVars, hurt>>

\* mutant: a soft delete, which keeps the row and its address
DeletedSoftly ==
  /\ \/ at = "erasing"
     \/ at = "deleting" /\ Answer("ok")
  /\ SetStatus(key, "deleted")
  /\ Leave
  /\ UNCHANGED hurt /\ CallFrame

\* hard_delete_with_stats, or delete_failed
Deleted ==
  /\ \/ at = "erasing"
     \/ at = "deleting" /\ Answer("ok")
  /\ status' = [status EXCEPT ![key] = "gone"]
  /\ column' = [column EXCEPT ![key] = None]
  /\ Leave
  /\ UNCHANGED <<ip, hurt>> /\ CallFrame

DeleteRaised ==
  /\ at = "deleting" /\ Answer("raised")
  /\ SetStatus(key, "delete_failed")
  /\ Leave
  /\ UNCHANGED hurt /\ CallFrame

\* reconcile_key_status looks at the config only
Check(k) ==
  /\ Take("check", k)
  /\ \/ k \in config /\ status[k] \in {"pending_apply", "apply_failed"}
        /\ SetStatus(k, "active")
     \/ k \notin config /\ status[k] = "pending_apply" /\ SetStatus(k, "apply_failed")
  /\ UNCHANGED <<peers, callVars, bootVars, lateVars, hurt>>

\* a status write at the end of a call raises: the row stays as it is
WriteRaises ==
  /\ \/ at \in {"create_failed", "erasing"}
     \/ at \in {"revoking", "deleting"} /\ job.step \in Outcomes
     \/ at = "compensating" /\ Answer("ok")
  /\ hurt' = hurt \cup {key}
  /\ Leave
  /\ UNCHANGED rows /\ CallFrame

------------------------------------------------------------------------------
(* The process dies and starts again; startup_reconcile runs before polling. *)

Crash ==
  /\ phase # "down" /\ crashes < MaxCrashes
  /\ crashes' = crashes + 1 /\ phase' = "down"
  /\ todo' = {} /\ failed' = FALSE /\ degraded' = FALSE
  /\ queued' = {} /\ Leave
  /\ hurt' = hurt \cup ({key, job.peer} \cap Keys)
  /\ \/ UNCHANGED peers
     \/ job.step = "apply" /\ config' = job.text /\ runtime' \in {runtime, job.text}
  /\ UNCHANGED <<rows, lateVars>>

BootFrame == UNCHANGED <<peers, queued, degraded, crashes, lateVars, hurt>>

Start ==
  /\ phase = "down"
  /\ phase' = "rows"
  /\ todo' = {k \in Keys : status[k] \in AccessMayExist \ {"active"}}
  /\ landed' = IF landed = "now" THEN "before" ELSE landed
  /\ UNCHANGED <<rows, peers, queued, callVars, failed, degraded, crashes, mode, late, timeouts, hurt>>

Waiting(pass) == phase = pass /\ at = "free"

\* find_peer(public_key, client_ip): by either
PeerFor(k, i) == k \in config \/ \E p \in config : i # None /\ ip[p] = i

\* a runtime that cannot be listed counts as one without the peer
RowApply(k) ==
  /\ Waiting("rows") /\ k \in todo
  /\ status[k] \in {"pending_apply", "apply_failed"}
  /\ \/ /\ ~PeerFor(k, column[k]) /\ k \in runtime
        /\ Ask("remove", k, "row") /\ UNCHANGED <<rows, todo>>
     \/ /\ SetStatus(k, IF PeerFor(k, column[k]) THEN "active" ELSE "apply_failed")
        /\ todo' = todo \ {k} /\ UNCHANGED <<at, job>>
  /\ UNCHANGED <<key, prev, phase, failed>> /\ BootFrame

RowRemove(k) ==
  /\ Waiting("rows") /\ k \in todo
  /\ status[k] \in {"pending_revoke", "pending_delete", "delete_failed"}
  /\ Ask("remove", k, "row")
  /\ UNCHANGED <<rows, key, prev, phase, todo, failed>> /\ BootFrame

RowRemoved ==
  LET k == job.peer
      next == CASE status[k] = "pending_revoke" -> "revoked"
                [] status[k] \in {"pending_delete", "delete_failed"} -> "gone"
                [] OTHER -> "apply_failed"
  IN /\ at = "row" /\ Answer("ok")
     /\ status' = [status EXCEPT ![k] = next]
     /\ column' = [column EXCEPT ![k] = IF next = "apply_failed" THEN @ ELSE None]
     /\ todo' = todo \ {k} /\ Leave
     /\ UNCHANGED <<ip, phase, failed>> /\ BootFrame

\* the row's removal or its write raised: it stays for the next start
RowFailed ==
  /\ phase = "rows" /\ failed' = TRUE
  /\ \/ /\ at = "row" /\ job.step \in Outcomes
        /\ todo' = todo \ {job.peer} /\ Leave
        /\ \/ UNCHANGED rows
           \/ /\ Answer("raised") /\ status[job.peer] \in {"pending_delete", "delete_failed"}
              /\ SetStatus(job.peer, "delete_failed")
     \/ /\ at = "free"
        /\ \E k \in todo : todo' = todo \ {k}
        /\ UNCHANGED <<rows, callVars>>
  /\ UNCHANGED phase /\ BootFrame

\* bot/app.py marks a backend whose reconciliation failed
GiveUp ==
  /\ phase' = "up" /\ failed' = TRUE /\ degraded' = TRUE /\ todo' = {} /\ Leave
  /\ UNCHANGED <<rows, peers, queued, crashes, lateVars, hurt>>

RowsGiveUp == Waiting("rows") /\ todo = {} /\ failed /\ GiveUp

\* what each pass of _startup_reconcile_drift has to look at
OwnedByActive(p) == p \in ActiveKeys \/ ip[p] \in {ip[k] : k \in ActiveKeys}
NonLive        == {k \in config \cup runtime : k \in Keys /\ status[k] \in RowStatuses \ {"active"}}
ConfigOrphans  == {p \in config : ~OwnedByActive(p)}
MissingActive  == {k \in ActiveKeys : ~PeerFor(k, ip[k]) \/ k \notin runtime}
RuntimeOrphans == runtime \ (ActiveKeys \cup config)

\* mutant: drift between the file and the interface is not looked for
NextPassConfigOnly ==
  CASE phase = "rows"          -> <<"drift_rows", NonLive>>
    [] phase = "drift_rows"    -> <<"drift_orphans", ConfigOrphans>>
    [] phase = "drift_orphans" -> <<"drift_restore", {k \in ActiveKeys : ~PeerFor(k, ip[k])}>>
    [] phase = "drift_restore" -> <<"drift_runtime", RuntimeOrphans>>
    [] OTHER                   -> <<"up", {}>>

NextPass ==
  CASE phase = "rows"          -> <<"drift_rows", NonLive>>
    [] phase = "drift_rows"    -> <<"drift_orphans", ConfigOrphans>>
    [] phase = "drift_orphans" -> <<"drift_restore", MissingActive>>
    [] phase = "drift_restore" -> <<"drift_runtime", RuntimeOrphans>>
    [] OTHER                   -> <<"up", {}>>

PassEnds ==
  /\ phase \in Passes /\ at = "free" /\ todo = {} /\ ~failed
  /\ phase' = NextPass[1] /\ todo' = NextPass[2]
  /\ hurt' = IF phase' = "up" THEN {} ELSE hurt
  /\ UNCHANGED <<rows, peers, queued, callVars, failed, degraded, crashes, lateVars>>

\* a peer with a row, or with a marker of the bot in the config; but of the markers
\* _parse_peer_blocks reads only the one before the first peer (AwgConfigFile)
Removable(p) == p \in Keys /\ (phase = "drift_runtime" => status[p] # "gone")
Ambiguous(p) == p \in Keys => phase \in {"drift_orphans", "drift_runtime"} /\ status[p] = "gone"

DriftRemove(p) ==
  /\ phase \in {"drift_rows", "drift_orphans", "drift_runtime"} /\ at = "free"
  /\ p \in todo /\ Removable(p)
  /\ Ask("remove", p, "drift")
  /\ UNCHANGED <<rows, key, prev, phase, todo, failed>> /\ BootFrame

DriftRestore(k) ==
  /\ Waiting("drift_restore") /\ k \in todo
  /\ Ask(IF PeerFor(k, ip[k]) THEN "sync" ELSE "add", k, "drift")
  /\ UNCHANGED <<rows, key, prev, phase, todo, failed>> /\ BootFrame

DriftDone ==
  /\ at = "drift" /\ Answer("ok")
  /\ todo' = todo \ {job.peer} /\ Leave
  /\ UNCHANGED <<rows, phase, failed>> /\ BootFrame

\* an adapter call raised, an ambiguous peer was met, or a listing failed
DriftFails ==
  /\ \/ at = "drift" /\ Answer("raised")
     \/ phase \in Passes /\ at = "free" /\ (todo = {} \/ \E p \in todo : Ambiguous(p))
  /\ GiveUp

------------------------------------------------------------------------------
AddStep    == AddConfig \/ AddRuntime \/ AddRaises
RemoveStep == RemoveConfig \/ RemoveRuntime \/ RemoveRaises
SyncStep   == SyncRuntime \/ SyncRaises
HelperStep == HelperCandidate \/ HelperApplies \/ HelperFails \/ HelperTimesOut
Adapter    == AddStep \/ RemoveStep \/ SyncStep \/ HelperStep

CallStep ==
  \/ CreateAdd \/ CreateAdded \/ CreateFail \/ CreateActivate \/ Compensated
  \/ CompensateRaised \/ Revoked \/ Deleted \/ DeleteRaised \/ WriteRaises
  \/ \E k \in Keys, i \in Ips : CreateRow(k, i)
  \/ \E k \in Keys : Revoke(k) \/ Delete(k) \/ Check(k)
  \/ \E r \in queued : Refused(r.op, r.key)

StartupStep ==
  \/ Start \/ RowRemoved \/ RowFailed \/ RowsGiveUp \/ PassEnds \/ DriftDone \/ DriftFails
  \/ \E k \in Keys : RowApply(k) \/ RowRemove(k) \/ DriftRestore(k) \/ DriftRemove(k)

Next == \/ Adapter \/ CallStep \/ StartupStep \/ Request \/ Crash
        \/ \E text \in late : LateHelper(text)

Spec == Init /\ [][Next]_vars

------------------------------------------------------------------------------
TypeOK ==
  /\ status \in [Keys -> Statuses]
  /\ column \in [Keys -> Ips \cup {None}]
  /\ ip \in [Peers -> Ips \cup {None}]
  /\ config \subseteq Peers /\ runtime \subseteq Peers
  /\ queued \subseteq [op : Operations, key : Keys \cup {None}]
  /\ at \in Points /\ key \in Keys \cup {None} /\ prev \in Statuses
  /\ job \in [op : {"none", "add", "remove", "sync"}, peer : Peers \cup {None},
              step : {"none", "begin", "runtime", "apply"} \cup Outcomes,
              had : BOOLEAN, text : SUBSET Peers]
  /\ phase \in Passes \cup {"down", "up"} /\ todo \subseteq Peers
  /\ failed \in BOOLEAN /\ degraded \in BOOLEAN /\ crashes \in 0..MaxCrashes
  /\ mode \in Modes /\ late \subseteq SUBSET Peers /\ timeouts \in 0..MaxTimeouts /\ landed \in {"no", "before", "now"}
  /\ hurt \subseteq Keys

\* Safety: a key that is revoked or deleted has no peer, neither in the file nor
\* on the interface, whatever failed and whenever the process died on the way.
\* Only a helper that lands after its timeout can bring one back.
RevokedHasNoPeer ==
  landed = "no" => \A k \in config \cup runtime : k \in Keys => status[k] \in AccessMayExist

\* Safety: an address belongs to one peer, in the file and on the interface, and
\* to one row (the unique index never has to refuse a status change), although
\* addresses of revoked and deleted keys are given out again.
IpExclusive ==
  landed = "no" =>
    /\ \A p, q \in config \cup (runtime \cap Keys) : ip[p] = ip[q] => p = q
    /\ \A k, l \in Keys :
         /\ {status[k], status[l]} \subseteq AccessMayExist
         /\ column[k] # None /\ column[k] = column[l]
         => k = l

\* a row in status s agrees with both places
Agrees(k, s) ==
  /\ s \notin {"pending_apply", "pending_revoke", "pending_delete"}
  /\ s = "active" => k \in config \cap runtime
  /\ k \in config \cup runtime => s \in {"active", "delete_failed"}

\* Safety: between two calls the row agrees with both places, for every key
\* that no crash and no failure with an effect has left behind.
RowMatchesPeer ==
  phase = "up" /\ at = "free" /\ landed = "no" => \A k \in Keys \ hurt : Agrees(k, status[k])

\* Safety: rows, peers and addresses agree, in every direction.
PeersAreSound == RevokedHasNoPeer /\ IpExclusive /\ RowMatchesPeer

CleanEnd == phase \in Passes /\ phase' = "up" /\ ~failed'

\* Action: a startup that ends without failure leaves exactly the active keys
\* and nothing foreign, alike in the file and on the interface, from whatever
\* failures and a crash have left.
CleanStep    == CleanEnd /\ landed = "no" => config' = ActiveKeys' /\ runtime' = ActiveKeys'
CleanStartup == [][CleanStep]_vars

\* tests/test_package4_drift_reconciliation.py: "awg_bot_managed_orphan_removed":
\* when the startup has looked through the config for orphans, the bot's peers left
\* there are those of active keys, whatever an earlier run left behind.
OrphansRemovedStep ==
  phase = "drift_orphans" /\ phase' = "drift_restore" /\ landed # "now" =>
    config' \cap Keys \subseteq ActiveKeys
OrphansRemoved == [][OrphansRemovedStep]_vars

------------------------------------------------------------------------------
(* What the service implements: the row says how far a key has come, the     *)
(* interface who can connect, and a key left by a failure is unclear.        *)
StageOf(s) ==
  CASE s = "none" -> "none"
    [] s = "active" -> "open"
    [] s = "pending_apply" -> "opening"
    [] s \in {"pending_revoke", "pending_delete", "delete_failed"} -> "closing"
    [] OTHER -> "closed"
Stage(k) == IF k \in hurt THEN "unclear" ELSE StageOf(status[k])

Promise == INSTANCE KeyAccess WITH
  Others <- {}, stage <- [k \in Keys |-> Stage(k)], access <- (runtime \cap Keys) \ hurt

\* Refinement: as long as no late helper has landed, the service is one whose changes
\* are announced first and are about one key each, which grants and closes a key only
\* when the interface agrees, and whose failures and crashes leave unclear no other
\* key than those that were being changed.
PromisedStep == landed' = "no" => [Promise!AccessNext]_Promise!accessVars
KeepsPromise == Promise!AccessInit /\ [][PromisedStep]_vars
==============================================================================
