# A formal model of the AmneziaWG / Xray / proxy access bot

The repository is a Telegram bot that hands out VPN keys (Xray VLESS, AmneziaWG) and
proxy accesses (SOCKS5, MTProto) on the server it runs on. One Python process, one asyncio
event loop and one SQLite connection decide who has access; the effect of a decision is in
places that share no transaction with the database: the Xray config, the AmneziaWG config
file and interface, the system users of Dante, the secrets of mtprotoproxy, the routes of a
WARP tunnel. What can go wrong is therefore mostly a matter of *order*: which of two places
was changed when a call raised, a task was overtaken at an await, or the process died.

This directory holds TLA+ models of that logic, the configurations with which TLC checks
them, and proofs that TLAPS checks.

| module | models | run | proved in |
|---|---|---|---|
| `XrayKeys` | `services/xray.py`, the status writes of `repositories/vpn_keys.py` | `xray_keys`, `operations_end` | `XrayKeysProofs` |
| `XrayApply` | `adapters/xray_config.py`, `deploy/helpers/vpnbot-xray-apply` | `xray_keys` | `XrayKeysProofs` |
| `AwgKeys` | `services/awg.py`, `adapters/awg_config.py`, `adapters/ip_allocator.py`, the apply helper | `awg_keys` | `AwgKeysProofs` |
| `AwgConfigFile` | the text of the config file: `adapters/awg_config.py`, `adapters/backup.py`, the apply helper | `awg_keys`, `awg_orphans` | `AwgKeysProofs` |
| `KeyAccess` | what `XrayKeys` and `AwgKeys` implement (abstract) | `xray_keys`, `awg_keys` | `XrayKeysProofs`, `AwgKeysProofs` |
| `DbGate` | the gate of `db/database.py` | `operations_end` | `DbGateProofs` |
| `UserAccess` | `services/users.py`, `access_approval.py`, `user_locks.py` | `user_access`, `calls_end` | `UserAccessProofs` |
| `TrialAccess` | `services/trial_access.py`, `repositories/trial_requests.py` | `frontend` | `FrontendProofs` |
| `ProxyStatus`, `Socks5Access`, `MtprotoAccess` | `services/socks5.py`, `mtproto.py`, `adapters/dante_users.py`, `mtproxy.py`, `repositories/proxy_accesses.py`, the helpers `vpnbot-socks5-user` and `vpnbot-mtproxy-apply` | `proxies` | `ProxiesProofs` |
| `ProtocolSwitch` | `services/protocol_modules.py`, the prompts of `bot/handlers/proxy.py` | `background` | `BackgroundProofs` |
| `Warp` | `warp/manager.py`, `warp/health.py` | `background`, `background_live` | `BackgroundProofs` |
| `Announcements` | `services/announcements.py` and its tables | `background`, `background_live` | `BackgroundProofs` |
| `KeyExpiry` | `services/key_expiry.py` | `background`, `background_live` | `BackgroundProofs` |
| `AnomalyDetection` | `services/anomaly_detection.py` | `background`, `anomaly_roaming` | `BackgroundProofs` |
| `TrafficStats` | `services/traffic_stats.py` and its tables | `background`, `background_live` | `BackgroundProofs` |
| `Migrations` | `bootstrap` and the migrations of `db/database.py` | `frontend`, `upgrade_rebuild` | `FrontendProofs` |
| `AtomicUpgrade` | what `Migrations` implements (abstract) | `frontend` | `FrontendProofs` |
| `ChatDialogs` | the dialogs of `bot/handlers/keys.py`, `admin.py`, `bot/fsm/` | `frontend` | `FrontendProofs` |
| `Lifecycle` | `main.py`, `bot/app.py`, `utils/single_instance.py` | `calls_end` | `LifecycleProofs` |

`MC<name>` are the instances TLC checks; the `.cfg` files name the bounds. `PROJECT.json` maps
every definition to the lines it translates, lists the hazards and, for each property, a
change of the code that breaks it.

## 1. Inventory

### 1.1 Who runs

- **One process.** `utils/single_instance.py` takes a file lock; a second bot gives up.
  Privileged helpers (`deploy/helpers/*`) are separate processes started through `sudo` by
  `adapters/shell_runner.py`; one that exceeds its timeout is abandoned, but the root process
  behind `sudo` goes on.
- **Request tasks.** Telegram updates and HTTP requests of the web app, one task each, any
  number at a time. They are the callers of every service operation.
- **Background tasks.** Key expiry, traffic statistics, anomaly detection, scheduled
  announcements, offsite backup, the WARP monitor. Only the last is cancelled while the bot
  runs; all of them are at the teardown.
- **The connection's thread.** aiosqlite runs the commands of all tasks one after the
  other in a thread of its own.
- **The start** (`main.py`, `bot/app.py`): lock, connect and migrate, reconcile Xray, AWG,
  MTProto, SOCKS5, start jobs and servers, poll. No request is served before the
  reconciliations are over; a backend whose reconciliation raised refuses changes.
- **The teardown** in its order: web app, jobs, WARP, database, lock.

### 1.2 Locks and their order

```
trial decision lock  ->  user lock  ->  service lock (per backend)  ->  database gate
                                         + config file lock (adapters, flock)
```

The modelled calls take them in that order and no other. `asyncio.Lock` hands over to its
waiters in the order they came. `create_xray_key` takes the user lock and **not** the service
lock (its `async with self._lock` is commented out), role changes take no lock at all, and the
role checks of creations are repeated after the row exists. WARP calls hold the manager's
lock, its monitor takes none. A late helper holds no lock.

### 1.3 Components

| component | state | operations | hard behaviour | correct when | status |
|---|---|---|---|---|---|
| Xray keys | rows; clients of the config; service lock; degraded mark | create, revoke, delete, check, startup reconciliation in four passes | create without the lock; a raise or crash between row and config; a raise with effect | row and config agree on settled keys; the row announces first; revoked is final but for an overtaken creation; foreign clients kept | service and adapter modelled; notes, fingerprints and statistics not |
| Xray apply | config file, running service, helper processes, backup | edit, helper run, reload, restart, rollback | a helper outlives its timeout; rollback fails; a stop cuts it | what was answered is in the file and served | modelled |
| AWG config file | lines with markers; administrator | add, remove, install, restore | edited by hand at any time, markers lost | an edit changes its own peer only | modelled; other parameters not |
| AmneziaWG keys | rows with an address; config file; interface; pool | as Xray, and drift of the interface | three places with rollbacks that may fail; late helper; address reuse | no peer for a revoked key; one owner per address; a clean start repairs everything | modelled; client configs, MTU and notes not |
| Database gate | lock, two owners, open transaction | `transaction()`, implicit write, `commit()`, reads | tasks share one transaction; cancelled tasks; failing BEGIN, statement or COMMIT | work of two tasks never in one transaction; the gate is given back | modelled; inherited transactions not |
| Users | `users.role`, `blocked_at` | block, unblock, set role | role changes without the lock; listing loops with failures | a block leaves nothing and nothing is created for the blocked | modelled; superadmins and profiles not |
| Access requests | `access_requests` | create or get, approve, reject | requests older than a block | | modelled |
| Trial access | requests, quota reset | request, approve, reject, reset | two admins; key first, mark second | one key per approval; one trial per quota | modelled |
| SOCKS5 | rows; Linux users | issue, revoke, delete, reconcile | every step fails, also after its effect or before a late one | a login belongs to a live row and the other way round | modelled |
| MTProto | rows; one secrets file for all; running proxy | the same | file, restart, probe and rollback, in three modes; a helper outlives its timeout | the same, and nobody else's secret is lost | modelled |
| Protocol modules | switch per protocol | enable, disable with its sweep | disabled between check and effect; a removal raises | what the sweep found is not live, but what it counted as failed | modelled |
| Key expiry | reminder marks, dates | remind, revoke | sent before marked | reminders come nearer; expired keys go | modelled |
| Anomaly detection | samples, cooldown | sample, alert, revoke | windows and forgetting | an alert has evidence, once in a cooldown | modelled |
| Traffic statistics | totals, last sample, archive | refresh, delete | counters restart, refreshes overlap | every byte once | modelled |
| Announcements | batch and delivery rows | send, schedule, resume, retry, cancel | crash between send and mark, two senders | nobody twice, nobody passed over | modelled |
| WARP | row, interface, routes, monitor | start, stop, enable, disable, restart, install, delete | monitor beside the calls, helpers that fail | nothing left on the host after a stop | modelled |
| Migrations | version, rows, indexes | bootstrap | DDL outside transactions, crash anywhere | a version is taken whole or not at all | modelled; unreachable branches not |
| Dialogs | state and data of a chat | questions, confirmations | double presses, old buttons, expiry of the state | what is done is what was shown | modelled; menus, texts, keyboards not |
| Life cycle | instance lock, connection, jobs, servers | start, stop, kill | failures of each step | one at work; database outlives the jobs | modelled; updates that outlive polling not |
| BackendHealth, ConfigFileLock, ShellRunner, VpnKeyRepository | marks, flock, processes, rows | called by the above | | | inside the modules that call them |
| Offsite backup, audit log, dashboard, health endpoint, web app, settings, install scripts | | | | | not modelled (section 6) |

### 1.4 Hazards

`PROJECT.json` lists each with its line and the properties that would show it: interleavings
of creation with the locked operations, with blocks and with checks; the gaps between two
places, for a crash and for a failing second step; the raise *with effect* (the adapter
changed the config and then failed); late helpers; reads whose value is used after an await;
cancellations at an await; marks written after what they mark; statements outside a
transaction; counters that restart; loops that list again what they could not change.

## 2. The modules

An action is one step of a coroutine: what runs between two awaits that can suspend it. A
step that awaits an adapter or the database has one alternative in which the call returns and
one in which it raises; an adapter call that raises may have had its effect. Data is cut down
to what the properties tell apart: a key is an id, a config is a set of ids, a role is a
string. Some modules carry *history* variables, which the code does not have: they remember
which exceptional thing happened to which key, so that a property can name the exceptions
instead of being silent about everything after them.

### XrayKeys

`pc[t]` is the point at which task `t` awaits; `key[t]` and `prev[t]` are its locals.
`CreateRow .. CompensateMark` are `create_xray_key`; `RevokeRead .. RevokeFinish`,
`DeleteRead .. DeleteFinish` and `CheckRead .. CheckFail` are the operations under the
service lock, where `*Read` is the acquisition with the read of the row that follows it.
`phase` is the process: `down`, one of the four startup passes (`rows`, `drift_rows`,
`drift_orphans`, `drift_restore`), `up`. `Crash` may come at any step. `served` is the set of
keys of the inbounds this start has an adapter for: the XHTTP inbound is optional.

Two history variables remember what may be wrong with a key: `raced` (a locked operation ran
on it between the first and last step of its creation, which the missing lock allows)
and `hurt` (a crash, a failed status write or a raise with effect cut an operation short).
`RowMatchesClient` leaves both out. `RevokedStaysRevoked` and `IntentFirst` do not: they speak of
every key, and name the steps of an overtaken creation (`RacesAt`) that are not as promised. Its
`set_status(apply_failed)` can write over `revoked`; it can add a client whose row a revocation or
deletion has ended, and its compensation can remove one whose row a check has made active.
Both are emptied by a startup reconciliation that ends without failure (`StartupClean`), so
the exceptions are not for ever: that reconciliation repairs is part of the invariant.

### KeyAccess

What both key services promise, without their parts: a key is not there, being opened, open,
being closed, closed, or *unclear*; and it can connect or not. A change is announced
(`Announce`, `Withdraw`) before access is given or taken (`Give`, `Take`); it ends with `Grant` or
`Close` only when access is what the answer says; a failure or crash (`Lose`) leaves unclear keys
that were being changed and no others; only a start without failure settles them (`Settle`), and
nothing is said of the access of an unclear key in between. The mapping is `Promise` in each
service: the row gives the stage, a key in `raced` or `hurt` is unclear, and who can connect is the
config for Xray, and the interface for AmneziaWG. A step that changes two keys, gives access
before the row says so, takes a client of somebody else or answers wrongly is none of these.

### XrayApply

What `XrayKeys` calls "the adapter changed the config, or raised, or both" is here in its
steps. `edit` is the one change under the lock of the config file: it reads, writes a staged
file or the config, waits for a run of the helper or reloads and restarts the service itself,
and restores the backup when that fails. `helper[h]` is a run of `vpnbot-xray-apply` with its
own backup, test, restart and rollback; after `HelperIsLate` nobody waits for it and it goes
on beside the next edit. `answeredEntries` is what the callers were told; `unsure` are the
entries whose last change raised. `StopBot` is a stop by systemd, which takes the helpers
of the control group with it.

### AwgKeys

All operations, the startup included, run under `AwgService._lock`, so one control point
`at` replaces the program counters; calls that passed `require_mutation_allowed` wait in
`queued`. The adapter is a second, small machine (`job`): in direct mode it writes the file
(`AddConfig`, `RemoveConfig`), then the interface (`AddRuntime`, `RemoveRuntime`,
`SyncRuntime`), and rolls back as well as it can; in helper mode it reads the file, hands over
a candidate (`HelperCandidate`) that replaces both, and may time out while the helper goes on
(`HelperTimesOut`, `LateHelper`). `landed` remembers that a late helper has installed its
candidate; until then the service implements `KeyAccess` (`KeepsPromise`).

### AwgConfigFile

The same file as a sequence of lines: heads, options (one line stands for the public key with
the rest of its section), and the comments by which the bot marks its blocks. `Section`,
`FindPeer`, `HasBlock` and `Mark` are the four ways in which the adapter reads it, `Removed` and
`Block` how it changes it. `edit` is one `add_peer` or `remove_peer` under the lock of the file,
which remembers its first look (`changed` stands for the comparison with it), its candidate and
its backup. The administrator (`HandStep`) takes no lock; when he writes after the last
comparison, `overlooked` says so. `AwgKeys` takes from here only that a peer without a row may
not be recognised as the bot's (`Ambiguous`).

### DbGate

The commands of all tasks in one queue `sent`, run in order by the connection's thread;
`dirty` is the set of tasks whose uncommitted work is in the one open transaction, `saw[t]`
whose uncommitted work the running read of `t` met. A read is two commands (`execute`
steps to the first row, `fetchall` to the rest). `Monitors` are tasks that are cancelled while
the bot runs, at any await, with the command they had sent still in the queue.

### UserAccess and TrialAccess

`UserAccess` is one user. `live` are the items in a status in which access may exist, `active`
those that are active. A block reads the target (`BlockRead`), writes the role (`BlockWrites`),
and then lists and revokes in rounds (`BlockLists`, `BlockRevokes`, `BlockFails`), keys first;
`Batch` is the `limit=500` of the listings. Creations check the role with the lock, insert,
check again, apply, mark. `ChangeRole`, `Unblock`, `Ask`, `Approve`, `Reject` are single
transactions and take no user lock. The inside of one revocation is left to the key modules.

`TrialAccess` has the requests of one user and the decisions of several admins: the decision
(`Decide`) waits for the lock, reads the request again (`Enter`), creates the key, then marks.
`issued[r]` counts keys made for a request, `hurt` the requests whose approval was lost after
its key was made.

### Socks5Access, MtprotoAccess, ProxyStatus

`ProxyStatus` has the statuses of `proxy_accesses` and the partial index over the live ones.
`Socks5Access` relates the rows of one user to his Linux users: without a password, open, locked
or gone. An issue takes the user lock and then the service lock, and looks at the role again
before it runs `useradd` and then `chpasswd`; a revocation locks the account, a deletion removes
it; each adapter call may fail (`Raises`) without its effect, with it, or with its effect still to
come: a root helper that exceeds its timeout is not killed, and its command (`sLate`) may be
carried out at any time later (`CommandLands`). Each database call may raise, also in the
compensation. A crash between the two commands leaves a user without a password, whose row the
start makes active. `sHurt` are the rows whose adapter call raised or was cut off like this,
`sLanded` those whose Linux user a late command has changed.

`MtprotoAccess` is about the set of secrets that all accesses share: an operation computes the
wanted set from the rows and hands it to the adapter (`job`), which writes the file, restarts
or calls the helper, probes and rolls back; `mode` is the static, direct or helper way. The
reconciliation at the start finishes what was half way, and degrades MTProto when it cannot.
`late[h]` is a run of the helper whose call has timed out: it goes on from where it was
(`LateBackup` .. `LateRollback`), with its candidate and its own backup, beside whatever the bot
does. By itself it does no harm, and the models show that: what it writes or restores serves
whom it should as long as the bot has not acted on the file meanwhile. When the bot does
(`ReadsFile` sees a run at work), `overlapped` says so; from then on the stale run may take back
an answered change, and nothing is claimed until a start in which MTProto is not degraded has
settled the file. `torn` is a file that a restore of the direct mode (`shutil.copy2`) was cut in;
nothing reads it any more, and every apply raises.

### ProtocolSwitch

The switch of one protocol, two administrators' sweeps, and those who create: presses of a
prompt, whose nonce is taken out of the session under the user's lock, and requests of the web
app. A removal that raises may do so before it touched its row (`Raises`: the backend is
degraded or not ready, or the first status write fails), and then the access is what it was. The
sweep counts it and goes on, and the module is disabled all the same. `known` is what a sweep
answers for, what it found but what it counted as failed, and `swept` is that of the last sweep
that disabled the module.

### Warp, Announcements, KeyExpiry, AnomalyDetection, TrafficStats

`Warp`: a call of the manager is a list of steps (`stepsLeft`) under its lock; the monitor
probes, flips the routes and writes the row in between. `Announcements`: two senders over the
delivery rows of one batch, in pages, with messages whose fate is unknown. `KeyExpiry`: a run
of the job with its reminders, nearest threshold first, and the revocation of what expired,
while owners revoke and days pass. `AnomalyDetection`: samples with their times, the two
windows and the cooldown, for an AWG and an Xray key. `TrafficStats`: one direction of one
key: the backend's counter `raw`, the stored sample and total, two overlapping refreshes.

### Migrations and AtomicUpgrade

`Migrations` runs `connect`, `schema.sql` and the migrations statement by statement. A database
(`disk`) is its version, what is wrong with its rows, its unique indexes, whether `users_new`
was left behind and whether the rows that refer to users are there; `work` is the same as the
connection sees it, and `open` whether a transaction is: Python's `sqlite3` opens one before a
statement that changes rows and never before one that changes tables. `AtomicUpgrade` says
what that amounts to: the version and exactly the repairs of the versions passed change in one
step, and only a sound database of the present version is served. `Upgrades` is the refinement
(the stages of the start are mapped to down, starting and serving), checked by TLC and proved.

### ChatDialogs

One administrator's chat: the state of the dialog, its answers, and the presses being handled.
A handler is cut where it awaits Telegram or a service; `Wipe` is everything that clears the
state in between. `shown` is what the last confirmation said.

### Lifecycle

`at[p]` is where `main()` of process `p` is; `holder` the lock of the instance, `dbOpen`,
`job`, `web`, `polled` what of it is at work. Each step of the start may raise, and then the
finally block runs from where it has to; `Kill` is SIGKILL.

## 3. What is checked

Modules that share no state share a run to save its overhead: a variable `part` says which of
them moves and is a conjunct of each fairness condition, the others keep their initial state.
No property relates two parts.

| run | instance | shows |
|---|---|---|
| `xray_keys` | service: 2 keys (one on the optional inbound), 1 foreign client, 2 tasks, 1 crash; adapter: 2 entries, 2 helper runs, 2 edits, 1 late helper, 1 stop, three ways to apply | `RowMatchesClient`, `RevokedStaysRevoked`, `KeepsPromise` (refinement); `AnsweredIsServed`; types |
| `operations_end` | gate: 3 tasks, one of them cancelled once, units of 2 statements; Xray: 1 key, 2 tasks, 1 crash; fairness | `Isolated`, `EndsOwnWork`, `EverythingEnds`, types |
| `awg_keys` | 2 keys, 1 foreign peer, 2 addresses, both modes, 1 waiting call, 1 crash, 1 timeout; file: 2 keys, 1 peer of the administrator, 3 changes by hand | `PeersAreSound` (revoked keys have no peer, one key per address, active keys have theirs), `CleanStartup`, `KeepsPromise` (refinement), `EditsAreExact`, types |
| `user_access` | 2 keys, 1 proxy, 2 tasks, listings of 1, 2 seconds, 1 crash | `NothingSurvivesBlock`, `NoAccessForBlocked`, types |
| `calls_end` | users: as above without crash; life cycle: 2 processes, 1 job, 2 backends, 1 kill, any number of signals and failures; fairness | `LifeIsOrdered`, `CallsAndProcessesEnd` |
| `proxies` | SOCKS5: 2 rows, 1 crash, 1 late command; MTProto: 2 accesses, 2 users, 3 modes, with and without rollback, 1 crash, 1 late run of the helper, 2 waiting calls, no further call once the bot has acted beside a late run (`NewCalls`: nothing is claimed there before the next start); fairness | `RowsMatchAccesses`, `ProxySteps`, `ServicesReturn`, types |
| `background` | WARP: thresholds 2 and 3, 1 crash; announcements: 2 recipients, pages of 1, 2 senders, 2 passes, 1 crash; expiry: 2 keys, 2 thresholds, 4 days, 1 trouble; anomalies: 2 addresses, windows of 1 and 2 ticks, a cooldown of 3, automatic revocation allowed (an alert may also leave the key); traffic: 2 refreshes, 4 bytes, 2 restarts; switch: 2 administrators and 2 calls, three of them at work at once, 2 accesses, 2 prompts, 1 failing removal | `WarpAtRest`, `LedgerIsTrue`, `AnnouncementSteps`, `RemindersComeNearer`, `AlertsAreSound`, `CountedOnce`, `SweptIsNotLive`, `OneForEachPrompt`, types |
| `background_live` | the same without anomalies and switch, smaller; fairness | `WarpSettles`, `JobsProgress` |
| `frontend` | upgrade: ten old versions, up to 2 kinds of unsound rows, 2 faults or crashes; dialogs: 2 presses, 5 answers, 2 owners, 1 old key; trials: 3 requests, 2 admins, 3 seconds, 2 keys, 1 crash | `Upgrades` (refinement), `UpgradeSound`, `ActsAreAsShown`, `DecidedOnce`, `OneTrial`, types |
| `anomaly_roaming` | anomalies as above, a cooldown of 4 | counterexample to `RoamingIsNotRevoked` |
| `upgrade_rebuild` | upgrade as above | counterexample to `RebuildIsOneTransaction` |
| `awg_orphans` | file: 2 keys, nobody else | counterexample to `ManagedOrphansAreRemoved` |

### Why the bounds are enough

- **Tasks, processes.** The properties relate at most two calls on one object, and the locks
  make a third caller wait where the second does; `DbGate` takes a third task so that a waiter
  can be overtaken. For the modules of section 4 the safety properties are also proved for any
  number.
- **Keys, addresses, accesses.** Two keys and two addresses let an address go from one key to
  the other while the first still has a peer; two MTProto accesses of two users meet in the
  one file; calls on different objects meet only there, in the locks and in the startup passes.
- **Crashes.** One crash at every point, the points of the start that follows included,
  because a crash during the recovery of another leaves states of the same kind (a prefix of
  a pass over rows in any status). The upgrade has two, since a fault of the second start may
  meet what the first one left. The proofs cover any number.
- **The file.** Two keys and a peer of the administrator put a block first, between two others
  and last; three changes by hand drop the markers and then take out a peer and write it
  elsewhere among what is left.
- **Timeouts.** One late helper is enough to undo one later call; with two edits the other
  one is answered before the late one begins, or beside or after its helper. The one late run
  of the MTProto helper is caught at any of its steps, and ends before, beside or after the
  next apply. That it works on a file nobody else changes is what matters, and for any number
  of runs the proof says so.
- **Listings, pages.** With a listing of one and two keys, one round never shows everything, as
  500 does not for 501 keys; pages of one recipient put a page boundary behind each.
- **Time.** Whole seconds, days or ticks: enough of them for before, at and after each
  threshold, window and cooldown (of 3 ticks in 4).
- **Counters.** Four bytes and two restarts give a counter that comes back lower, equal and
  higher than its last sample.
- **Old versions.** Those before each migration that can refuse a row, rebuild a table or fill
  a column; each of the others adds a column or an index and is one step.
- **No symmetry** is used where liveness is checked. `CHECK_DEADLOCK FALSE` appears where all
  tasks may be idle with the bounds used up, where a cancelled task took the gate with it, or
  where a process has ended.

### Fairness

The event loop runs every ready coroutine, the connection's thread runs every command, adapter
calls end because each has a timeout, and the body of a transaction ends: weak fairness of
those steps. Acquiring a lock gets strong fairness, since the lock may be taken in between but
`asyncio.Lock` serves its waiters in order. The loops of the jobs, the WARP monitor and
`main()` go on: weak fairness of their next step. No fairness is assumed of requests, signals,
crashes, the passing of days, owners and administrators, or of any particular outcome of a
call: liveness holds also if every call raises.

### What the liveness properties leave out

`EverythingEnds` speaks of the gate as long as nobody was cancelled: `execute` releases it in
`except Exception`, which does not see a `CancelledError`, so a monitor cancelled in the wrong
await may keep it. `CallsAndProcessesEnd` leaves out a process whose `connect()` raised half
way: the thread of its connection keeps it. `JobsProgress` assumes fewer keys that cannot be
revoked than one listing holds. `WarpSettles` ends with the first route helper that fails: the
monitor takes the flip for done.

### Findings

Each is a run whose counterexample contradicts a sentence of the code.

1. `anomaly_roaming`: an Xray key is revoked for addresses that were not in use within the
   concurrent window, because every reading of the log records all its lines as of now
   (`services/anomaly_detection.py:69-71` says a roaming user is not revoked).
2. `upgrade_rebuild`: a crash or a refused row in the rebuild of the users table leaves
   `users_new` behind, and no later start gets past it (`db/database.py:687-690` says the
   rebuild is one raw transaction).
3. `awg_orphans`: the reading of a peer's section swallows the marker of the next block
   (`adapters/awg_config.py:646-651`), so that only the first peer of the file is known as the
   bot's; the startup degrades AWG over any other one whose row is gone instead of removing it
   (`tests/test_package4_drift_reconciliation.py:541` claims the removal, for a file in which
   the block is the first).

### Divergences with a configuration, but no run

TLC shows each in seconds with `tlc -config <cfg> <module>`; they are weaker contradictions, or
known consequences of a design.

| cfg | module | property | what happens |
|---|---|---|---|
| `XrayKeysCheckRace.cfg` | `XrayKeys` | `CheckExcludesCreate` | the check of a key decides on a row whose creation is under way: the lock it takes is not taken by creations |
| `DbGateDirtyRead.cfg` | `DbGate` | `ReadsCommitted` | a reader past the gate fetches later rows from another task's uncommitted transaction |
| `AwgKeysOrphan.cfg` | `AwgKeys` | `OrphansRemoved` | a peer of a deleted key, brought back by a late helper, survives the startup when its address now belongs to an active key |
| `TrialAccessTwice.cfg` | `TrialAccess` | `ProvisionedOnce` | an approval cut off between its key and its mark is repeated, with a second key (`services/trial_access.py:119-120` excludes that for concurrent decisions) |
| `UserAccessRepeat.cfg` | `MCUserAccess` | `RepeatCanBeApproved` | a request left pending when its user is blocked answers every later `/start` and can never be approved |
| `AdminConfirm.cfg` | `ChatDialogs` | `ChosenUser` | the confirmation of a key for another user, handled after its state was cleared, makes a key for the administrator (`bot/handlers/admin.py:1340-1350`) |
| `ModuleDisable.cfg` | `ProtocolSwitch` | `DisabledIsEmpty` | a creation that looked at the switch before the sweep ends lives on in a disabled protocol (`services/protocol_modules.py:24-27`); so does an access whose removal raised before it touched the row (`services/xray.py:307`, `services/socks5.py:211`), which 75-76 says is left in a failed status |

`XrayApply!OneApply` is false too, with the constants of `XrayKeys.cfg`: the helper of an edit that
timed out works beside the helper of the next edit (`adapters/xray_config.py:434-436` avoids this
only for the repetition within one edit).

Hazards that bite, and so have no property that holds; each has its reason in `PROJECT.json`:

- a moderator's block can overwrite a promotion made after its check (`services/users.py:213`);
- a block cut short by a crash is completed by nobody (`services/users.py:223`);
- the pending request from before a block (`services/access_approval.py:36`), the second approval
  after a crash (`services/trial_access.py:154`), the creation a sweep cannot see
  (`services/protocol_modules.py:71`) and the wrong peer at a row's address
  (`services/awg.py:935`), all reproduced above;
- the WARP monitor cancelled inside a database call, which may keep the gate
  (`warp/health.py:172`), and the route helper that failed and is taken for done
  (`warp/health.py:129`);
- two senders of one announcement, and a message that went out unmarked
  (`services/announcements.py:98`).

Others are covered in part, and the exception is in the property: a revoked row that becomes
`apply_failed` (`services/xray.py:180`), an active SOCKS5 row whose user has no password
(`services/socks5.py:335-341`), what a late command or a late run of a helper does to logins
and secrets, a request in the second of a reset (`repositories/trial_requests.py:86`), an alert
within a forgotten cooldown (`services/anomaly_detection.py:175`). Outside the modules: a key made although
the reading of its config then raises, and made again by the retry (`webapp/app.py:1107`).

## 4. What is proved

Each proof module shows an invariant inductive, with one lemma for the initial state and one
for each kind of step, and derives the theorems from it. The assumptions are those the
modules name about their constants, and no others: every theorem holds for any finite or
infinite sets of tasks, keys, processes and so on that satisfy them, and any bounds.

`XrayKeysProofs`: `TypeCorrect`, `RowsMatchClients`, `IntentComesFirst`, `RevocationIsFinal`,
`ForeignClientsKept`, `ServiceKeepsPromise`, `ClearKeysConnect`. The
invariant is `IInv == TypeOK /\ ControlInv /\ OneCall /\ StartupInv /\
KeysInv`. `RowMatchesClient` is not inductive: it speaks of settled keys and says nothing of a
call in its middle. `KeysInv` adds, for each program point, what the row (`RowInv`) and the
config (`PointInv`) hold there; that needs that the row is not changed by another call
meanwhile, which is `OneCall` (outside `raced`, one call works on a key), which follows from
the lock (`ControlInv`). What is left of that for raced keys is `RaceInv`, proved by itself: a key
is created once, and a call under the lock finds, at each of its points, a row which only that
creation can have changed since (`RacedRow`); `IntentComesFirst` and `RevocationIsFinal` need it, since
they speak of all keys. `StartupInv` says how far each pass has brought the served keys, and
is what makes emptying the history at the end of a clean start sound.

`ServiceKeepsPromise` is the refinement: the service implements `KeyAccess`. The argument is that a
step is about one key (`AboutOneKey`): it changes that key's row, history and client as `Fits` allows,
and every other key keeps all three (`OthersKept`). That `Fits` holds is what the invariant says of
each program point; `OneKeyIsPromised` turns it into an action of `KeyAccess`. Only two steps are
about many keys: a crash is a `Lose` of the keys that calls are working on, each of which was being
changed, and `StartupClean` is a `Settle`, for which `StartupInv` says that every served key is open
and in the config or closed and out of it. `ClearKeysConnect` is what this means at any moment.

The adapter, in the second half of `XrayKeysProofs`: `ServedAsAnswered`, `TypesOfBoth`.
`AnsweredIsServed` speaks of the moments between two changes; `ContentInv` extends it to every
moment: the file, what the change at work has read and is about to write, and what each helper
holds agree with the answers except on the entries that are `Touched`, those of the present
change and of changes that raised. `AloneInv` says that without an overlap only the helper the
change waits for is at work, `AnswerInv` that what is about to be answered is in the file, and
`KnownInv` that the service knows the file unless a restart is under way; the last holds with
overlapping helpers too, and so the property leaves them out only where it speaks of the
contents. The two machines share no variable, and `BothSpec` is a behaviour of either.

`DbGateProofs`: `UnitsAreIsolated`, `UnitsEndByTheirOwner`, `GateTypes`. That the work of two
tasks is never in one transaction is a fact about the commands still in the queue: those of a
task that has given the gate back, or was cancelled, run later. `LeavesOnly(q, d, n, t)` says
that when the first `n` commands of the queue have run there is uncommitted work of `t` at
most. `WorkInv` says that every command meets only the work of its own task (`MeetOwn`), that
the whole queue leaves only the lock holder's, and nothing when the holder has not begun;
`QueueInv` that a task has one command in the queue, the one it awaits or was cancelled at;
`OwnerInv` that an owner of the gate holds its lock; `WaitersInv` that a task waits at one place.
The lemmas about the two queues (one more at the end, the head run, any one removed) are stated
for sequences; `SendStep`, `WaitStep`, `ReturnStep` and `FollowStep` lift them to the steps, and
each action is one of those.

`LifecycleProofs`: `ProcessLifeIsOrdered`. `LifeInv` says for each place of `main()` who holds
the instance lock, whether the connection is there and what of the process may be at work
(`Placed`); a step changes only its own process and the lock (`Own`).

`UserAccessProofs`: `TypeCorrect`, `BlockLeavesNothing`, `BlockedGetNothing`. The invariant says
that the user lock excludes (`LockInv`), that no creation is under way while the user is
blocked (`RoleInv`), that a block which has come to the proxies without an error has left no
key (`PassInv`), and that a block that ended without one has left nothing (`CleanInv`).
`PassInv` needs that an empty listing means that nothing is live although the listing is cut
at its limit: `EmptyListing`, from the fact that finitely many rows have a first one in the
order of the query (`FirstOfFinite`, from the well-foundedness of strict inclusion on finite
sets).

`AwgKeysProofs`: `PeersAgree`, `StartupIsClean`, `TypeCorrect`, `ServiceKeepsPromise`. A late helper
puts back a file of the past, about which nothing can be promised; so the invariant is types and control
(`ControlInv`, always) and, as long as none has landed, `KeysInv`. Its parts: `JobInv`, what the
adapter has done when its call has come to a step, rollbacks included; `AddressInv`, that an
address in the rows belongs to one key, that whatever has a peer has its address, and that no
peer of somebody else has it; `PointInv`, row and peer of the key at hand at each point of a
call; `RestInv`, that every other key that is not `hurt` agrees with its row; and `StartupInv`,
how far each of the five passes has brought rows, file and interface. Addresses make it differ
from Xray: that no key gets the address of another one's peer needs that a row keeps its
address as long as its peer may exist, which is why `AddressInv` speaks of statuses.

That `AwgKeys` implements `KeyAccess` too needs one more invariant, `Alike`: a key that is not `hurt`
is in the file and on the interface or in neither, but for the one whose adapter call stands
between the two. Without it a copy of the file to the interface (`SyncRuntime`, a rollback, a
helper's candidate) would give or take the access of keys the call is not about.

The file, in the second half of `AwgKeysProofs`: `FileIsTyped`, `EditsKeepTheRest`. `EditsAreExact`
speaks of the peers before and after a step and is not inductive: which peers a text has, and what
is left when lines are taken out of it, depends on what texts there can be. `Shape` says it: a head
and its options stand together, once for every peer, a start marker is followed by the whole block it
names, and an end marker ends the options it names. From it follow what the ways of reading
find (`SectionOf`, `PeersAreNamed`, `FindPeerOf`, `BlockOf`). The text that is left (`Without`) is
counted out in `Places`: its `n`-th line is the `n`-th of those that stay, so lines keep their order;
`WithoutLines` and `Neighbours` say that of texts, and when what stays is `Whole` (no head without
its options, no start marker without its block) it has `Shape` again (`WithoutShape`). `EditInv` says
that the file is the one the edit has read until it was changed or a change was overlooked, and that
the peers of the candidate are those of that file with the change asked for. `BothAreTyped` and
`BothAreSound` join the service and the file for the specification of the run `awg_keys`.

`ProxiesProofs`: `AccessesMatchRows`, `ProxiesKeepOthers`, `TypesOfTheProxies`. SOCKS5 (`SInv`): row
and login of the access at hand at each step (`AtHand`), that a login whose row may still become
active is a whole one unless an adapter call on it raised or was cut off (`LoginsInv`), and that
what a start without failure has listed is settled behind it (`SettledInv`); a late command spoils
these for its own login only. MTProto (`MInv`): the file, the backup of the apply *and whatever a
late run still holds*, its candidate and its backup (`RunServes`), serve the active rows and no final
one (`ServeInv`), which is what makes a rollback or a late write harmless whichever step it undoes;
`LateInv` says where the bot can be while a late run is at work and nothing was overlapped, that
is, not past the reading of the file in an apply; the file is the target once the apply has answered (`ApplyInv`); the proxy
runs on the file unless an apply was cut off (`RunningInv`). Why the target
of a call cannot go stale is `HolderInv`: the apply lock is held from the reading of the rows to
the answer, and the row at hand keeps its status.

`BackgroundProofs` has one invariant for each job and joins them for `MCBackground`
(`BackgroundInv`).

- Traffic, `BytesAreCountedOnce`: `TInv` says of every stored or fetched sample that counting it
  now, *and counting whatever the backend says after it*, stays within what was carried
  (`SampleIsSound`). A refresh may hold an old sample while another one stores a newer; the first
  conjunct alone is lost by that step. Before a restart `FirstRunInv` has the exact value.
- Expiry, `NearerAndNearer`: a run tells the nearest threshold first and marks the larger ones.
  The listing is cut at its LIMIT, so a key may be passed over at its threshold; `RankInv` shows
  that a key this run has told, or still holds, is within the LIMIT of every larger threshold
  also, because whatever is listed before it there was due and listed before it here. This
  counts the rows before a key, and a lost mark of one of *those* upsets it: the theorem speaks
  of keys of which, and before which, no mark was lost (`Recorded`).
- Announcements, `LedgerOfAnyBatch` and `SendersOfAnyBatch`: `PassInv` says that a sender has
  passed over nobody who is pending (a page holds the first of what is behind the last id),
  `CopiesInv` that whoever has the message is in the ledger, on his way there, or unclear after
  a crash, `AloneInv` that without an overlap nobody else settles what a sender has before it.
- Anomalies, `AlertsOfAnyKey`: `AwgInv` says for *every* moment of the windows that whatever was
  seen since was in use since, but for the one address the peer table showed at that moment;
  `CooldownInv` that the time of an alert is forgotten only after the samples it rested on.
- WARP, `RestOfAnyTunnel`: a call is a list of steps, and what is left of it is a path in the
  relation `Follows`; so the next step says what came before it, and `RunsInv`, `ConfigInv` and
  `HostInv` say for each next step what runs, is watched and is on the host. The lemmas about
  paths (`PartsJoin`, `NextOfRest`, `SkipOfRest`) stand for the ways in which the calls are put
  together from starts, stops and what comes between.
- Switch, `SweptStaysDown`, `PromptsAreUsedOnce`: `SweepsInv` says that what a sweep answers for and
  has no more to do on is not live, from the fact that ids are given out in order and a creation takes
  a new one; `NoncesInv` that a press inside the user's lock is alone there and that the nonce
  it goes on with has made nothing and is no more in the session.
- `TypesOfAnyPart`: the types of all of them, in which the bounded counters are the point.

`FrontendProofs`, of the three parts of `MCFrontend`:

- Upgrade, `UpgradesAreSound` and `UpgradesAreAtomic`. The second is the refinement: `Upgrades` is
  the specification of `AtomicUpgrade` under the mapping of `Migrations`, every initial state maps
  to an initial state and each step to `Begin`, `Advance`, `Serve`, `Stop`, `Correct` or a stutter. The
  write of a version opens a transaction which nothing but a commit of a later migration, or
  the last one, ends. So a commit is an `Advance` over several versions, and one has to know what
  lies between file and connection. `StepsInv` says that the
  connection sees the flaws of the file without those the versions in between repair, and the
  statements before this one, and that none of those versions refuses the file. `PassedInv` keeps
  what each statement has checked or made until the version is written, `LineInv` that foreign
  keys are off at lines 3 to 7 of version 17 and nowhere else, `OpenInv` that without a
  transaction the connection sees the file. What stands at which line of each migration is
  counted out in `MigrationsAre` and `PlacesAre`.
- Dialogs, `PressesDoAsShown`. A press is handled long after it was made: `PressInv` says that the
  chat is still where it was pressed unless it was wiped, `ChatInv` that a chat which waits for a
  confirmation has shown its present answers or was wiped, `TakenInv` that what a handler took
  with it is what was shown until the rate limit is spent.
- Trials, `TypeCorrect`, `DecisionsAreMadeOnce`, `OneTrialPerQuota`. The invariant adds to `TypeOK` that
  whoever decides holds the lock and works on a request that is still pending (`DecisionInv`),
  the number of keys of a request in each status, with one more while its approval is between
  key and mark (`IssuedInv`), and that no request is later than the present (`QuotaInv`), so that a
  reset discounts all earlier ones.
- `TypesOfTheFrontend`: the types of the three.

## 5. What is only model-checked

- All liveness, and the fairness it rests on (`EverythingEnds`, `CallsAndProcessesEnd`,
  `ServicesReturn`, `WarpSettles`, `JobsProgress`): ENABLED and fairness are out of the prover's reach.
- The properties of the runs that end in a counterexample, which are false, and those of the
  configurations without a run.

## 6. Not modelled

- **Offsite backup**: a linear script around an external service, with no state between runs.
- **Audit log, dashboard, health endpoint, notes**: appends and reads; a failing audit write is
  one of the steps that raise in the service modules.
- **Web app**: an HTTP front end without state over the same services; its handlers are the
  requests of the service modules, its start and stop are in `Lifecycle`.
- **Menus, keyboards, formatters, translations**: wording, which no property is about.
- **Settings, logging, install scripts**: values that do not change while the bot runs.
- Of the Xray adapter: the way over the HandlerService API, and edits of a client's note or
  fingerprint. Of AWG: client configs, MTU. Of the gate: child tasks that inherit a
  transaction's context (nothing under `services/` starts one inside a transaction). Of the
  migrations: the rebuild branches of versions 9 and 16, which the shipped `schema.sql` makes
  unreachable. Of the life cycle: updates still handled when polling has ended.
- Which statements the gate takes for writes (`_is_write_statement`, `db/database.py:1235-1360`):
  a scan of SQL text, given to `DbGate` as a fact. Its docstring (1285-1291) is not true of a
  column list in `WITH t(a) AS ...` nor of a comment behind the last parenthesis; the
  repository has neither kind of statement.
- Payloads, labels, short ids and addresses as text. The helper of the Linux users is seen only
  through the command it runs; those of AWG, Xray and MTProto step by step.

## 7. Plan

1. `KeyAccess` for the SOCKS5 and MTProto accesses, whose rows have the same life.
2. `KeyAccess` after a late helper has landed: every key unclear until the next clean start,
   instead of a promise that ends there.
3. A serial database, one unit at a time, as what `DbGate` implements for tasks that are not
   cancelled.
4. The web app's retries against `XrayKeys` and `AwgKeys` (`webapp/app.py:1107`).
