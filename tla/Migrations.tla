----------------------------- MODULE Migrations -----------------------------
(* The start of the database (db/database.py): connect, schema.sql and the    *)
(* migrations of bootstrap, statement by statement, with a process that may  *)
(* die, and statements that may fail, anywhere.                              *)
(* Python's sqlite3 opens a transaction before a statement that changes rows; *)
(* one that changes tables is durable at once unless a transaction is open.  *)
(* A database is its version, what is wrong with its rows, its unique        *)
(* indexes, whether users_new was left behind and whether the rows that      *)
(* refer to users are all there.                                             *)
EXTENDS Naturals, Sequences

CONSTANTS
    OldVersions,       \* the versions a database may come from; 0 is a new one
    MaxFlaws,          \* how many things are wrong with it at most
    MaxUpgradeFaults   \* how many deaths and failing statements there are

ASSUME MigrationsAssumption ==
    /\ OldVersions \subseteq 0..24 /\ MaxFlaws \in Nat /\ MaxUpgradeFaults \in Nat

CurrentVersion == 23

Flaws ==
    {"pending_requests",  \* two pending requests of one user, before 4
     "reserved_ips",      \* two reserved AWG keys with one address, before 6
     "live_proxies",      \* two live proxies of one user and type, before 10
     "old_tables",        \* announcement_batches without scheduled_at, 7 to 15
     "legacy_roles",      \* a role under an old name, before 11
     "unknown_roles",     \* a role nothing knows, before 17
     "pending_trials",    \* two pending trial requests of one user, 13 to 17
     "shared_ips",        \* a revoked AWG key keeps an address in use, before 19
     "orphans"}           \* rows that refer to no user

Possible(f, v) ==
    CASE f = "pending_requests" -> v \in 1..3
      [] f = "reserved_ips" -> v \in 1..5
      [] f = "live_proxies" -> v \in 8..9
      [] f = "old_tables" -> v \in 7..15
      [] f = "legacy_roles" -> v \in 1..10
      [] f = "unknown_roles" -> v \in 1..16
      [] f = "pending_trials" -> v \in 13..17
      [] f = "shared_ips" -> v \in 1..18
      [] f = "orphans" -> v \in 1..CurrentVersion

UniqueIndexes == {"one_pending_request", "reserved_ip", "one_live_proxy", "one_pending_trial"}

IndexesOf(v) ==
    {i \in UniqueIndexes : v >= CASE i = "one_pending_request" -> 4 [] i = "reserved_ip" -> 5
                                  [] i = "one_live_proxy" -> 10 [] i = "one_pending_trial" -> 18}

(* What the migration to a version runs, after what changes no table or row   *)
(* another statement here depends on.                                        *)
\* _collapse_duplicate_pending_requests
OnePendingRequest == <<[do |-> "repair", of |-> "pending_requests"], [do |-> "index", of |-> "one_pending_request"]>>

\* _validate_reserved_awg_client_ip_duplicates, and the index with the statuses of the time.
ReservedIps ==
    <<[do |-> "check", of |-> "reserved_ips"], [do |-> "drop", of |-> "reserved_ip"], [do |-> "index", of |-> "reserved_ip"]>>

OneLiveProxy == <<[do |-> "check", of |-> "live_proxies"], [do |-> "index", of |-> "one_live_proxy"]>>

\* _normalize_legacy_roles
NewRoles == <<[do |-> "repair", of |-> "legacy_roles"]>>

Rebuild == <<[do |-> "create"], [do |-> "copy"], [do |-> "swap"], [do |-> "commit"], [do |-> "enforce"]>>

\* Mutant: the rebuild starts inside the open transaction.
RebuiltUncommitted == <<[do |-> "unenforce"]>> \o Rebuild

\* _migrate_v17 commits what came before, since the PRAGMA is ignored inside a transaction.
RebuiltUsers == <<[do |-> "commit"], [do |-> "unenforce"]>> \o Rebuild

OnePendingTrial == <<[do |-> "check", of |-> "pending_trials"], [do |-> "index", of |-> "one_pending_trial"]>>

\* Mutant: the repair is committed before the version.
FreedIpsEarly == <<[do |-> "repair", of |-> "shared_ips"], [do |-> "commit"]>>

\* _migrate_v19 takes the addresses of the AWG keys that are gone off their rows.
FreedIps == <<[do |-> "repair", of |-> "shared_ips"]>>

\* The other versions add tables, columns and indexes where they are missing.
Additions == <<>>

Migration(v) ==
    CASE v = 4 -> OnePendingRequest
      [] v \in {5, 6} -> ReservedIps
      [] v = 10 -> OneLiveProxy
      [] v = 11 -> NewRoles
      [] v = 17 -> RebuiltUsers
      [] v = 18 -> OnePendingTrial
      [] v = 19 -> FreedIps
      [] OTHER -> Additions

Stamp == <<[do |-> "stamp"]>>

Statements(v) == Migration(v) \o Stamp

VARIABLES
    disk,      \* the database as a crash would leave it
    work,      \* the database as the connection sees it
    open,      \* a transaction is open
    enforced,  \* PRAGMA foreign_keys of the connection
    stage,     \* where the start is
    line,      \* the next statement of the migration to work.version + 1
    upgradeFaults

migVars == <<disk, work, open, enforced, stage, line, upgradeFaults>>

Database == [version : 0..24, flaws : SUBSET Flaws, indexes : SUBSET UniqueIndexes, leftover : BOOLEAN, children : BOOLEAN]

MigInit ==
    /\ \E v \in OldVersions, fs \in SUBSET Flaws :
        /\ \A f \in fs : Possible(f, v)
        /\ \E used \in [1..MaxFlaws -> Flaws \union {"none"}] : fs = {used[i] : i \in 1..MaxFlaws} \ {"none"}
        /\ disk = [version |-> v, flaws |-> fs, indexes |-> IndexesOf(v), leftover |-> FALSE, children |-> TRUE]
    /\ work = disk /\ open = FALSE /\ enforced = FALSE /\ stage = "down" /\ line = 1 /\ upgradeFaults = 0

--------------------------------------------------------------------------------
(* Statements *)

\* DDL: durable at once outside a transaction.
Define(db) == work' = db /\ disk' = (IF open THEN disk ELSE db) /\ UNCHANGED open

\* DML: opens a transaction where none is.
Change(db) == work' = db /\ open' = TRUE /\ UNCHANGED disk

\* Database.commit
Commit == disk' = work /\ open' = FALSE /\ UNCHANGED work

\* bootstrap's except: Database.rollback, and the finally of _migrate_v17.
GiveUp == stage' = "failed" /\ work' = disk /\ open' = FALSE /\ enforced' = TRUE /\ line' = 1 /\ UNCHANGED disk

\* A PRAGMA is ignored inside a transaction.
Enforce(on) == enforced' = IF open THEN enforced ELSE on

(* Database.connect, and schema.sql, which executescript runs outside any     *)
(* transaction.  Its unique index over live proxies, and its index over       *)
(* scheduled_at, meet the old rows and the old table.                        *)
ConnectDb ==
    /\ stage = "down" /\ stage' = "script" /\ enforced' = TRUE /\ open' = FALSE /\ work' = disk
    /\ UNCHANGED <<disk, line, upgradeFaults>>

Script ==
    /\ stage = "script" /\ UNCHANGED upgradeFaults
    /\ IF work.flaws \cap {"old_tables", "live_proxies"} # {} \/ work.version > CurrentVersion
       THEN GiveUp
       ELSE /\ Define([work EXCEPT !.indexes = @ \union {"one_live_proxy"}])
            /\ stage' = "migrate" /\ line' = 1 /\ UNCHANGED enforced

Run(s) ==
    \/ /\ s.do = "check" /\ s.of \notin work.flaws /\ UNCHANGED <<disk, work, open, enforced>>
    \/ s.do = "repair" /\ Change([work EXCEPT !.flaws = @ \ {s.of}]) /\ UNCHANGED enforced
    \/ s.do = "index" /\ Define([work EXCEPT !.indexes = @ \union {s.of}]) /\ UNCHANGED enforced
    \/ s.do = "drop" /\ Define([work EXCEPT !.indexes = @ \ {s.of}]) /\ UNCHANGED enforced
    \/ s.do = "commit" /\ Commit /\ UNCHANGED enforced
    \/ s.do = "unenforce" /\ Enforce(FALSE) /\ UNCHANGED <<disk, work, open>>
    \/ s.do = "enforce" /\ Enforce(TRUE) /\ UNCHANGED <<disk, work, open>>
    \/ s.do = "create" /\ ~work.leftover /\ Define([work EXCEPT !.leftover = TRUE]) /\ UNCHANGED enforced
    \/ s.do = "copy" /\ "unknown_roles" \notin work.flaws /\ Change(work) /\ UNCHANGED enforced
    \* DROP TABLE users deletes its rows first where foreign keys are enforced.
    \/ /\ s.do = "swap" /\ UNCHANGED enforced
       /\ Define([work EXCEPT !.leftover = FALSE, !.children = @ /\ ~enforced])

\* _validate_..., the CHECK of users_new, and "table users_new already exists".
Refused(s) ==
    \/ s.do = "check" /\ s.of \in work.flaws
    \/ s.do = "create" /\ work.leftover
    \/ s.do = "copy" /\ "unknown_roles" \in work.flaws

\* _set_schema_version
SetVersion ==
    /\ Change([work EXCEPT !.version = @ + 1]) /\ UNCHANGED enforced

\* _apply_migrations, one statement.
Migrate ==
    LET statements == Statements(work.version + 1) IN
    /\ stage = "migrate" /\ work.version < CurrentVersion /\ UNCHANGED upgradeFaults
    /\ \/ Refused(statements[line]) /\ GiveUp
       \/ /\ ~Refused(statements[line]) /\ UNCHANGED stage
          /\ IF line = Len(statements)
             THEN SetVersion /\ line' = 1
             ELSE Run(statements[line]) /\ line' = line + 1

\* _validate_reference_integrity, _validate_enum_values and the last commit.
Validate ==
    /\ stage = "migrate" /\ work.version >= CurrentVersion /\ UNCHANGED upgradeFaults
    /\ IF "orphans" \in work.flaws
       THEN GiveUp
       ELSE Commit /\ stage' = "committed" /\ UNCHANGED <<enforced, line>>

\* bootstrap returns and the program goes on.
Up == stage = "committed" /\ stage' = "up" /\ UNCHANGED <<disk, work, open, enforced, line, upgradeFaults>>

--------------------------------------------------------------------------------
(* The rest of the world *)

GoDown == stage' = "down" /\ work' = disk /\ open' = FALSE /\ enforced' = FALSE /\ line' = 1 /\ UNCHANGED disk

\* The service stops, or ends because its start failed.
Exit == stage \in {"up", "failed"} /\ GoDown /\ UNCHANGED upgradeFaults

Crash ==
    /\ stage \in {"script", "migrate", "committed"} /\ upgradeFaults < MaxUpgradeFaults
    /\ GoDown /\ upgradeFaults' = upgradeFaults + 1

\* A statement fails: the disk is full, the file is locked.
Fault ==
    /\ stage \in {"script", "migrate"} /\ upgradeFaults < MaxUpgradeFaults
    /\ GiveUp /\ upgradeFaults' = upgradeFaults + 1

\* The messages ask the operator to put rows right by hand.
Mend ==
    /\ stage = "down"
    /\ \E f \in disk.flaws : disk' = [disk EXCEPT !.flaws = @ \ {f}]
    /\ work' = disk' /\ UNCHANGED <<open, enforced, stage, line, upgradeFaults>>

MigNext == ConnectDb \/ Script \/ Migrate \/ Validate \/ Up \/ Exit \/ Crash \/ Fault \/ Mend

MigSpec == MigInit /\ [][MigNext]_migVars

--------------------------------------------------------------------------------
(* Properties *)

MigTypeOK ==
    /\ disk \in Database /\ work \in Database /\ {open, enforced} \subseteq BOOLEAN
    /\ stage \in {"down", "script", "migrate", "committed", "up", "failed"} /\ line \in 1..8
    /\ upgradeFaults \in 0..MaxUpgradeFaults

RefusesOf(v) == {f \in Flaws : \E i \in DOMAIN Migration(v) : Migration(v)[i] = [do |-> "check", of |-> f]}

Promise == INSTANCE AtomicUpgrade WITH
    Current <- CurrentVersion,
    RepairedBy <- [v \in 1..CurrentVersion |->
        {f \in Flaws : \E i \in DOMAIN Migration(v) : Migration(v)[i] = [do |-> "repair", of |-> f]}],
    RefusedBy <- [v \in 1..CurrentVersion |->
        RefusesOf(v) \union (CASE v = 16 -> {"old_tables"} [] v = 17 -> {"unknown_roles"} [] OTHER -> {})],
    level <- disk.version, flaws <- disk.flaws,
    phase <- IF stage = "down" THEN "down" ELSE IF stage = "up" THEN "serving" ELSE "starting"

(* db/database.py bootstrap: whatever dies or fails in it, the file goes from  *)
(* version to version only together with the repairs of the versions passed, *)
(* and the program comes up on none but a sound database of the present one. *)
Upgrades == Promise!UpgradeSpec

(* When the program comes up, every unique index the services rely on is     *)
(* there, no row was lost to the rebuild of users and foreign keys are       *)
(* enforced on the connection they use, whatever earlier starts ran into; and *)
(* a start that no fault disturbed gives up only for a row it must refuse,   *)
(* for a newer database, or for a users_new that was left behind.            *)
UpgradeSound ==
    /\ disk.children
    /\ stage = "up" => enforced /\ ~open /\ work = disk /\ disk.indexes = UniqueIndexes
    /\ stage = "failed" /\ upgradeFaults = 0 =>
        disk.leftover \/ disk.version > CurrentVersion \/ disk.flaws \ {"legacy_roles", "pending_requests", "shared_ips"} # {}

(* The comment in _migrate_v16 says of the rebuilds of both migrations that   *)
(* they run "on a single raw transaction": an interrupted one would leave     *)
(* nothing that stops the next start.                                        *)
RebuildIsOneTransaction == stage \in {"down", "failed"} => ~disk.leftover
=============================================================================
