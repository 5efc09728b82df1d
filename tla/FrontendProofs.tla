--------------------------- MODULE FrontendProofs ---------------------------
(* Proofs about the upgrade of the database (Migrations), the dialogs of a    *)
(* chat (ChatDialogs) and the trial requests (TrialAccess), each for itself   *)
(* and in a behaviour of any of them (MCFrontend): for every set of old       *)
(* versions, presses, users, requests and admins, and every bound.           *)
EXTENDS MCFrontend, TLAPS

--------------------------------------------------------------------------------
(* The upgrade of the database (Migrations).                                 *)

\* The types of the state, each for itself.
Stages == {"down", "script", "migrate", "committed", "up", "failed"}
MigTypes ==
    /\ disk \in Database /\ work \in Database /\ open \in BOOLEAN /\ enforced \in BOOLEAN
    /\ stage \in Stages /\ line \in 1..8 /\ upgradeFaults \in 0..MaxUpgradeFaults

\* Without a transaction the connection sees what is on the disk; only migrations leave one open.
OpenInv ==
    /\ ~open => work = disk
    /\ stage # "migrate" => ~open
    /\ stage \in {"script", "committed", "up"} => enforced
    /\ stage \in {"committed", "up"} => work.version = CurrentVersion /\ work.flaws = {}

\* Where the migrations are: foreign keys are off while users is rebuilt, and only then.
Under == work.version + 1
Migrating == stage = "migrate" /\ work.version < CurrentVersion
LineInv ==
    /\ stage = "migrate" => work.version <= CurrentVersion
    /\ Migrating => line <= Len(Statements(Under))
    /\ Migrating /\ Under = 17 /\ line \in {2, 3, 7} => ~open
    /\ stage = "migrate" => (enforced <=> ~(Under = 17 /\ line \in 3..7))

\* The statements before this one have had their effect.
Passed(s, db) ==
    /\ s.do \in {"check", "repair"} => s.of \notin db.flaws
    /\ s.do = "index" => s.of \in db.indexes
    /\ s.do = "copy" => "unknown_roles" \notin db.flaws
\* The statements before it have had their effect.
PassedInv == Migrating => \A i \in 1..(line - 1) : Passed(Statements(Under)[i], work)

\* No row that refers to a user is lost.
RowsInv == disk.children /\ work.children

\* A database of a version has its indexes, but for one that the next migration makes anew.
HasIndexes(db) == IndexesOf(db.version) \ (IF db.version = 5 THEN {"reserved_ip"} ELSE {}) \subseteq db.indexes
IndexInv == HasIndexes(disk) /\ HasIndexes(work)

\* A flaw is in no database of a later version than the last it can be in.
LastOf(f) ==
    CASE f = "pending_requests" -> 3 [] f = "reserved_ips" -> 5 [] f = "live_proxies" -> 9 [] f = "old_tables" -> 15
      [] f = "legacy_roles" -> 10 [] f = "unknown_roles" -> 16 [] f = "pending_trials" -> 17 [] f = "shared_ips" -> 18
      [] f = "orphans" -> CurrentVersion
InTime(db) == \A f \in db.flaws : db.version <= LastOf(f)
FlawsInv ==
    /\ InTime(disk) /\ InTime(work)
    /\ stage = "migrate" => work.flaws \cap {"old_tables", "live_proxies"} = {}

\* What separates the connection from the disk: the repairs of the versions in between.
Repairs(v) == {f \in Flaws : \E i \in DOMAIN Migration(v) : Migration(v)[i] = [do |-> "repair", of |-> f]}
Refuses(v) == RefusesOf(v) \union (CASE v = 16 -> {"old_tables"} [] v = 17 -> {"unknown_roles"} [] OTHER -> {})
Between == (disk.version + 1)..work.version
RepairedBefore(v, l) == {f \in Flaws : \E i \in 1..(l - 1) : Statements(v)[i] = [do |-> "repair", of |-> f]}
Partly == IF Migrating THEN RepairedBefore(Under, line) ELSE {}
\* The flaws the connection sees are those of the file but the repaired ones, and no
\* upgrade in between refuses one.
StepsInv ==
    /\ disk.version <= work.version
    /\ work.flaws = disk.flaws \ (Partly \union UNION {Repairs(v) : v \in Between})
    /\ \A v \in Between : disk.flaws \cap Refuses(v) = {}

\* A start without faults gives up for a reason that is on the disk.
Mendable == Flaws \ {"legacy_roles", "pending_requests", "shared_ips"}
FailedInv ==
    stage = "failed" /\ upgradeFaults = 0 =>
        disk.leftover \/ disk.version > CurrentVersion \/ disk.flaws \cap Mendable # {}

\* The inductive invariant of the upgrade.
MigIInv ==
    MigTypes /\ OpenInv /\ LineInv /\ PassedInv /\ RowsInv /\ IndexInv /\ FlawsInv /\ StepsInv /\ FailedInv

\* What the migration to a version runs.
LEMMA MigrationsAre ==
    ASSUME NEW v \in 1..CurrentVersion
    PROVE  /\ v = 4 => Migration(v) = OnePendingRequest
           /\ v \in {5, 6} => Migration(v) = ReservedIps
           /\ v = 10 => Migration(v) = OneLiveProxy
           /\ v = 11 => Migration(v) = NewRoles
           /\ v = 17 => Migration(v) = RebuiltUsers
           /\ v = 18 => Migration(v) = OnePendingTrial
           /\ v = 19 => Migration(v) = FreedIps
           /\ v \notin {4, 5, 6, 10, 11, 17, 18, 19} => Migration(v) = <<>>
  BY DEF Migration, Additions

\* Where a statement of a kind is found.
Place(v, l, s) ==
    \/ v = 4 /\ l = 1 /\ s = [do |-> "repair", of |-> "pending_requests"]
    \/ v = 4 /\ l = 2 /\ s = [do |-> "index", of |-> "one_pending_request"]
    \/ v \in {5, 6} /\ l = 1 /\ s = [do |-> "check", of |-> "reserved_ips"]
    \/ v \in {5, 6} /\ l = 2 /\ s = [do |-> "drop", of |-> "reserved_ip"]
    \/ v \in {5, 6} /\ l = 3 /\ s = [do |-> "index", of |-> "reserved_ip"]
    \/ v = 10 /\ l = 1 /\ s = [do |-> "check", of |-> "live_proxies"]
    \/ v = 10 /\ l = 2 /\ s = [do |-> "index", of |-> "one_live_proxy"]
    \/ v = 11 /\ l = 1 /\ s = [do |-> "repair", of |-> "legacy_roles"]
    \/ v = 17 /\ l \in {1, 6} /\ s = [do |-> "commit"]
    \/ v = 17 /\ l = 2 /\ s = [do |-> "unenforce"]
    \/ v = 17 /\ l = 3 /\ s = [do |-> "create"]
    \/ v = 17 /\ l = 4 /\ s = [do |-> "copy"]
    \/ v = 17 /\ l = 5 /\ s = [do |-> "swap"]
    \/ v = 17 /\ l = 7 /\ s = [do |-> "enforce"]
    \/ v = 18 /\ l = 1 /\ s = [do |-> "check", of |-> "pending_trials"]
    \/ v = 18 /\ l = 2 /\ s = [do |-> "index", of |-> "one_pending_trial"]
    \/ v = 19 /\ l = 1 /\ s = [do |-> "repair", of |-> "shared_ips"]

\* The last statement of an upgrade, counted out.
LastLine(v) ==
    CASE v \in {5, 6} -> 4 [] v \in {4, 10, 18} -> 3 [] v \in {11, 19} -> 2 [] v = 17 -> 8 [] OTHER -> 1

\* Which statement stands at which place of each upgrade.
LEMMA PlacesAre ==
    ASSUME NEW v \in 1..CurrentVersion
    PROVE  /\ Len(Statements(v)) = LastLine(v)
           /\ \A l \in 1..(LastLine(v) - 1) : Place(v, l, Statements(v)[l])
           /\ Statements(v)[LastLine(v)] = [do |-> "stamp"]
  <1>1. CASE v = 4
    <2>1. Statements(v) = OnePendingRequest \o Stamp
      BY <1>1, MigrationsAre DEF Statements
    <2>2. /\ Len(Statements(v)) = 3
          /\ Statements(v)[1] = [do |-> "repair", of |-> "pending_requests"]
          /\ Statements(v)[2] = [do |-> "index", of |-> "one_pending_request"]
          /\ Statements(v)[3] = [do |-> "stamp"]
      BY <2>1 DEF Stamp, OnePendingRequest
    <2>3. QED
      BY <1>1, <2>2 DEF LastLine, Place
  <1>2. CASE v \in {5, 6}
    <2>1. Statements(v) = ReservedIps \o Stamp
      BY <1>2, MigrationsAre DEF Statements
    <2>2. /\ Len(Statements(v)) = 4
          /\ Statements(v)[1] = [do |-> "check", of |-> "reserved_ips"]
          /\ Statements(v)[2] = [do |-> "drop", of |-> "reserved_ip"]
          /\ Statements(v)[3] = [do |-> "index", of |-> "reserved_ip"]
          /\ Statements(v)[4] = [do |-> "stamp"]
      BY <2>1 DEF Stamp, ReservedIps
    <2>3. QED
      BY <1>2, <2>2 DEF LastLine, Place
  <1>3. CASE v = 10
    <2>1. Statements(v) = OneLiveProxy \o Stamp
      BY <1>3, MigrationsAre DEF Statements
    <2>2. /\ Len(Statements(v)) = 3
          /\ Statements(v)[1] = [do |-> "check", of |-> "live_proxies"]
          /\ Statements(v)[2] = [do |-> "index", of |-> "one_live_proxy"]
          /\ Statements(v)[3] = [do |-> "stamp"]
      BY <2>1 DEF Stamp, OneLiveProxy
    <2>3. QED
      BY <1>3, <2>2 DEF LastLine, Place
  <1>4. CASE v = 11
    <2>1. Statements(v) = NewRoles \o Stamp
      BY <1>4, MigrationsAre DEF Statements
    <2>2. /\ Len(Statements(v)) = 2
          /\ Statements(v)[1] = [do |-> "repair", of |-> "legacy_roles"]
          /\ Statements(v)[2] = [do |-> "stamp"]
      BY <2>1 DEF Stamp, NewRoles
    <2>3. QED
      BY <1>4, <2>2 DEF LastLine, Place
  <1>5. CASE v = 17
    <2>1. Statements(v) = RebuiltUsers \o Stamp
      BY <1>5, MigrationsAre DEF Statements
    <2>2. /\ Len(Statements(v)) = 8
          /\ Statements(v)[1] = [do |-> "commit"]
          /\ Statements(v)[2] = [do |-> "unenforce"]
          /\ Statements(v)[3] = [do |-> "create"]
          /\ Statements(v)[4] = [do |-> "copy"]
          /\ Statements(v)[5] = [do |-> "swap"]
          /\ Statements(v)[6] = [do |-> "commit"]
          /\ Statements(v)[7] = [do |-> "enforce"]
          /\ Statements(v)[8] = [do |-> "stamp"]
      BY <2>1 DEF Stamp, RebuiltUsers, Rebuild
    <2>3. QED
      BY <1>5, <2>2 DEF LastLine, Place
  <1>6. CASE v = 18
    <2>1. Statements(v) = OnePendingTrial \o Stamp
      BY <1>6, MigrationsAre DEF Statements
    <2>2. /\ Len(Statements(v)) = 3
          /\ Statements(v)[1] = [do |-> "check", of |-> "pending_trials"]
          /\ Statements(v)[2] = [do |-> "index", of |-> "one_pending_trial"]
          /\ Statements(v)[3] = [do |-> "stamp"]
      BY <2>1 DEF Stamp, OnePendingTrial
    <2>3. QED
      BY <1>6, <2>2 DEF LastLine, Place
  <1>7. CASE v = 19
    <2>1. Statements(v) = FreedIps \o Stamp
      BY <1>7, MigrationsAre DEF Statements
    <2>2. /\ Len(Statements(v)) = 2
          /\ Statements(v)[1] = [do |-> "repair", of |-> "shared_ips"]
          /\ Statements(v)[2] = [do |-> "stamp"]
      BY <2>1 DEF Stamp, FreedIps
    <2>3. QED
      BY <1>7, <2>2 DEF LastLine, Place
  <1>8. CASE v \notin {4, 5, 6, 10, 11, 17, 18, 19}
    <2>1. Statements(v) = <<>> \o Stamp
      BY <1>8, MigrationsAre DEF Statements
    <2>2. /\ Len(Statements(v)) = 1
          /\ Statements(v)[1] = [do |-> "stamp"]
      BY <2>1 DEF Stamp
    <2>3. QED
      BY <1>8, <2>2 DEF LastLine, Place
  <1>9. QED
    BY <1>1, <1>2, <1>3, <1>4, <1>5, <1>6, <1>7, <1>8

\* The flaws that a migration repairs, and those it refuses.
LEMMA RepairsAre ==
    ASSUME NEW v \in 1..CurrentVersion
    PROVE  Repairs(v) = CASE v = 4 -> {"pending_requests"} [] v = 11 -> {"legacy_roles"}
                          [] v = 19 -> {"shared_ips"} [] OTHER -> {}
  <1> USE MigrationsAre DEF Repairs, Flaws
  <1>1. CASE v = 4
    BY <1>1 DEF OnePendingRequest
  <1>2. CASE v \in {5, 6}
    BY <1>2 DEF ReservedIps
  <1>3. CASE v = 10
    BY <1>3 DEF OneLiveProxy
  <1>4. CASE v = 11
    BY <1>4 DEF NewRoles
  <1>5. CASE v = 17
    BY <1>5 DEF RebuiltUsers, Rebuild
  <1>6. CASE v = 18
    BY <1>6 DEF OnePendingTrial
  <1>7. CASE v = 19
    BY <1>7 DEF FreedIps
  <1>8. CASE v \notin {4, 5, 6, 10, 11, 17, 18, 19}
    BY <1>8
  <1>9. QED
    BY <1>1, <1>2, <1>3, <1>4, <1>5, <1>6, <1>7, <1>8

\* What each upgrade refuses.
LEMMA RefusesAre ==
    ASSUME NEW v \in 1..CurrentVersion
    PROVE  Refuses(v) = CASE v \in {5, 6} -> {"reserved_ips"} [] v = 10 -> {"live_proxies"} [] v = 16 -> {"old_tables"}
                          [] v = 17 -> {"unknown_roles"} [] v = 18 -> {"pending_trials"} [] OTHER -> {}
  <1> USE MigrationsAre DEF Refuses, RefusesOf, Flaws
  <1>1. CASE v = 4
    BY <1>1 DEF OnePendingRequest
  <1>2. CASE v \in {5, 6}
    BY <1>2 DEF ReservedIps
  <1>3. CASE v = 10
    BY <1>3 DEF OneLiveProxy
  <1>4. CASE v = 11
    BY <1>4 DEF NewRoles
  <1>5. CASE v = 17
    BY <1>5 DEF RebuiltUsers, Rebuild
  <1>6. CASE v = 18
    BY <1>6 DEF OnePendingTrial
  <1>7. CASE v = 19
    BY <1>7 DEF FreedIps
  <1>8. CASE v \notin {4, 5, 6, 10, 11, 17, 18, 19}
    BY <1>8
  <1>9. QED
    BY <1>1, <1>2, <1>3, <1>4, <1>5, <1>6, <1>7, <1>8

--------------------------------------------------------------------------------
(* One statement of a migration.                                             *)

\* The statement that comes next.
Statement == Statements(Under)[line]

\* Where a statement of a migration that is not its last stands.
LEMMA StandsAt ==
    ASSUME MigTypes, LineInv, Migrating
    PROVE  /\ Under \in 1..CurrentVersion /\ Len(Statements(Under)) = LastLine(Under) /\ line \in 1..LastLine(Under)
           /\ line # LastLine(Under) => line \in 1..(LastLine(Under) - 1) /\ Place(Under, line, Statement)
           /\ line = LastLine(Under) => Statement = [do |-> "stamp"]
  <1>1. work.version \in Nat /\ work.version < 23
    BY DEF MigTypes, Database, Migrating, CurrentVersion
  <1>2. Under \in 1..CurrentVersion
    BY <1>1 DEF Under, CurrentVersion
  <1>3. Len(Statements(Under)) = LastLine(Under) /\ LastLine(Under) \in 1..8
    BY <1>2, PlacesAre DEF LastLine
  <1>4. line \in 1..LastLine(Under)
    BY <1>3 DEF LineInv, MigTypes
  <1>5. QED
    BY <1>2, <1>3, <1>4, PlacesAre DEF Statement

\* The repairs of the statements before a line are all of the version's or none.
LEMMA RepairsBefore ==
    ASSUME NEW v \in 1..CurrentVersion, NEW l \in 1..LastLine(v)
    PROVE  RepairedBefore(v, l) = IF l = 1 THEN {} ELSE Repairs(v)
  <1>2. \A i \in 1..(LastLine(v) - 1) : Place(v, i, Statements(v)[i])
    BY PlacesAre
  <1>4. \A i \in 1..(l - 1), f \in Flaws :
            Statements(v)[i] = [do |-> "repair", of |-> f] => i = 1 /\ f \in Repairs(v)
    BY <1>2, RepairsAre DEF Place, LastLine
  <1>5. l # 1 => \A f \in Repairs(v) : f \in Flaws /\ Statements(v)[1] = [do |-> "repair", of |-> f]
    BY <1>2, RepairsAre DEF Place, LastLine, Flaws
  <1>6. QED
    BY <1>4, <1>5 DEF RepairedBefore, LastLine

\* What the running of a statement does to the database.
LEMMA RunMoves ==
    ASSUME MigTypes, OpenInv, LineInv, RowsInv, IndexInv, Migrating, line # LastLine(Under),
           Run(Statement), ~Refused(Statement)
    PROVE  /\ work' \in Database /\ disk' \in Database /\ open' \in BOOLEAN /\ enforced' \in BOOLEAN
           /\ work'.version = work.version /\ work'.children /\ disk'.children
           /\ work'.flaws = work.flaws \ {f \in Flaws : Statement = [do |-> "repair", of |-> f]}
           /\ disk' = disk \/ (disk' = work' /\ work'.flaws = work.flaws /\ (Under = 17 \/ work = disk))
           /\ ~open' => work' = disk'
           /\ Passed(Statement, work') /\ HasIndexes(work')
           /\ \A i \in UniqueIndexes : Statement.do # "drop" /\ i \in work.indexes => i \in work'.indexes
           /\ Under = 17 /\ line \in {1, 2, 6} => ~open'
           /\ enforced' <=> ~(Under = 17 /\ line + 1 \in 3..7)
  <1> DEFINE v == Under
  <1> DEFINE s == Statement
  <1>1. v \in 1..CurrentVersion /\ Place(v, line, s)
    BY StandsAt
  <1>2. /\ disk \in Database /\ work \in Database /\ open \in BOOLEAN /\ enforced \in BOOLEAN
        /\ ~open => work = disk
        /\ work.children /\ disk.children /\ HasIndexes(work)
        /\ v = 17 /\ line \in {2, 3, 7} => ~open
        /\ enforced <=> ~(v = 17 /\ line \in 3..7)
        /\ v = work.version + 1 /\ line \in 1..8
    BY DEF MigTypes, OpenInv, LineInv, RowsInv, IndexInv, Migrating, Under
  <1> HIDE DEF v, s
  <1>3. Run(s) /\ ~Refused(s)
    BY DEF s
  <1> DEFINE freed == {f \in Flaws : s = [do |-> "repair", of |-> f]}
  <1>a. (s.do # "repair" => freed = {}) /\ \A c \in Flaws : s = [do |-> "repair", of |-> c] => freed = {c}
    <2>1. ASSUME NEW f, NEW c, [do |-> "repair", of |-> c] = [do |-> "repair", of |-> f] PROVE c = f
      <3>1. [do |-> "repair", of |-> c].of = c /\ [do |-> "repair", of |-> f].of = f
        OBVIOUS
      <3>2. QED
        BY <2>1, <3>1
    <2>2. QED
      BY <2>1
  <1> DEFINE Moves ==
        /\ work' \in Database /\ disk' \in Database /\ open' \in BOOLEAN /\ enforced' \in BOOLEAN
        /\ work'.version = work.version /\ work'.children /\ disk'.children
        /\ work'.flaws = work.flaws \ freed
        /\ disk' = disk \/ (disk' = work' /\ work'.flaws = work.flaws /\ (v = 17 \/ work = disk))
        /\ ~open' => work' = disk'
        /\ s.do \in {"check", "repair"} => s.of \notin work'.flaws
        /\ s.do = "index" => s.of \in work'.indexes
        /\ s.do = "copy" => "unknown_roles" \notin work'.flaws
        /\ HasIndexes(work')
        /\ \A i \in UniqueIndexes : s.do # "drop" /\ i \in work.indexes => i \in work'.indexes
        /\ v = 17 /\ line \in {1, 2, 6} => ~open'
        /\ enforced' <=> ~(v = 17 /\ line + 1 \in 3..7)
  <1> HIDE DEF freed
  <1>4. ASSUME NEW c \in Flaws, s = [do |-> "check", of |-> c], v # 17 PROVE Moves
    <2>1. UNCHANGED <<disk, work, open, enforced>> /\ c \notin work.flaws
      BY <1>3, <1>4 DEF Run
    <2>2. QED
      BY <1>2, <1>a, <1>4, <2>1 DEF Database
  <1>5. ASSUME NEW c \in Flaws, s = [do |-> "repair", of |-> c], v # 17 PROVE Moves
    <2>1. work' = [work EXCEPT !.flaws = @ \ {c}] /\ open' = TRUE /\ UNCHANGED <<disk, enforced>>
      BY <1>3, <1>5 DEF Run, Change
    <2>2. QED
      BY <1>2, <1>a, <1>5, <2>1 DEF Database, HasIndexes
  <1>6. ASSUME NEW i \in UniqueIndexes, s = [do |-> "index", of |-> i], v # 17 PROVE Moves
    <2>1. /\ work' = [work EXCEPT !.indexes = @ \union {i}] /\ UNCHANGED <<open, enforced>>
          /\ disk' = IF open THEN disk ELSE work'
      BY <1>3, <1>6 DEF Run, Define
    <2>2. QED
      BY <1>2, <1>a, <1>6, <2>1 DEF Database, HasIndexes
  <1>7. ASSUME s = [do |-> "drop", of |-> "reserved_ip"] /\ v \in {5, 6} PROVE Moves
    <2>1. /\ work' = [work EXCEPT !.indexes = @ \ {"reserved_ip"}] /\ UNCHANGED <<open, enforced>>
          /\ disk' = IF open THEN disk ELSE work'
      BY <1>3, <1>7 DEF Run, Define
    <2>2. work.version \in {4, 5}
      BY <1>2, <1>7 DEF Database
    <2>3. HasIndexes(work')
      <3>1. \A n \in {4, 5} : IndexesOf(n) \ (IF n = 5 THEN {"reserved_ip"} ELSE {}) = {"one_pending_request"}
        BY DEF IndexesOf, UniqueIndexes
      <3>2. work'.version = work.version /\ work'.indexes = work.indexes \ {"reserved_ip"}
        BY <1>2, <2>1 DEF Database
      <3>3. QED
        BY <1>2, <2>2, <3>1, <3>2 DEF HasIndexes
    <2>4. QED
      BY <1>2, <1>a, <1>7, <2>1, <2>3 DEF Database
  <1>8. ASSUME s = [do |-> "commit"] /\ v = 17 /\ line \in {1, 6} PROVE Moves
    <2>1. disk' = work /\ work' = work /\ open' = FALSE /\ enforced' = enforced
      BY <1>3, <1>8 DEF Run, Commit
    <2>2. enforced' <=> ~(v = 17 /\ line + 1 \in 3..7)
      BY <1>2, <1>8, <2>1
    <2>3. QED
      BY <1>2, <1>a, <1>8, <2>1, <2>2
  <1>9. ASSUME s = [do |-> "unenforce"] /\ v = 17 /\ line = 2 PROVE Moves
    <2>1. enforced' = FALSE /\ UNCHANGED <<disk, work, open>>
      BY <1>2, <1>3, <1>9 DEF Run, Enforce
    <2>2. enforced' <=> ~(v = 17 /\ line + 1 \in 3..7)
      BY <1>2, <1>9, <2>1
    <2>3. QED
      BY <1>2, <1>a, <1>9, <2>1, <2>2
  <1>10. ASSUME s = [do |-> "create"] /\ v = 17 /\ line = 3 PROVE Moves
    <2>1. /\ work' = [work EXCEPT !.leftover = TRUE] /\ UNCHANGED <<open, enforced>>
          /\ disk' = work'
      BY <1>2, <1>3, <1>10 DEF Run, Define
    <2>2. enforced' <=> ~(v = 17 /\ line + 1 \in 3..7)
      BY <1>2, <1>10, <2>1
    <2>3. QED
      BY <1>2, <1>a, <1>10, <2>1, <2>2 DEF Database, HasIndexes
  <1>11. ASSUME s = [do |-> "copy"] /\ v = 17 /\ line = 4 PROVE Moves
    <2>1. work' = work /\ open' = TRUE /\ UNCHANGED <<disk, enforced>> /\ "unknown_roles" \notin work.flaws
      BY <1>3, <1>11 DEF Run, Change
    <2>2. QED
      BY <1>2, <1>a, <1>11, <2>1
  <1>12. ASSUME s = [do |-> "swap"] /\ v = 17 /\ line = 5 PROVE Moves
    <2>0. /\ work' = [work EXCEPT !.leftover = FALSE, !.children = @ /\ ~enforced] /\ UNCHANGED <<open, enforced>>
          /\ disk' = IF open THEN disk ELSE work'
      BY <1>3, <1>12 DEF Run, Define
    <2>1. UNCHANGED <<open, enforced>> /\ disk' = IF open THEN disk ELSE work'
      BY <2>0
    <2>2. ~enforced
      BY <1>2, <1>12
    <2>3. work' = [work EXCEPT !.leftover = FALSE]
      BY <1>2, <2>0, <2>2 DEF Database
    <2>4. enforced' <=> ~(v = 17 /\ line + 1 \in 3..7)
      BY <1>2, <1>12, <2>1
    <2>5. /\ work' \in Database /\ work'.version = work.version /\ work'.flaws = work.flaws
          /\ work'.indexes = work.indexes /\ work'.children
      BY <1>2, <2>3 DEF Database
    <2>6. disk' \in Database /\ disk'.children
      BY <1>2, <2>1, <2>5
    <2>7. HasIndexes(work')
      BY <1>2, <2>5 DEF HasIndexes
    <2>8. disk' = disk \/ (disk' = work' /\ work'.flaws = work.flaws)
      BY <2>1, <2>5
    <2>9. ~open' => work' = disk'
      BY <1>2, <2>1
    <2>10. QED
      BY <1>2, <1>a, <1>12, <2>1, <2>4, <2>5, <2>6, <2>7, <2>8, <2>9
  <1>13. ASSUME s = [do |-> "enforce"] /\ v = 17 /\ line = 7 PROVE Moves
    <2>1. enforced' = TRUE /\ UNCHANGED <<disk, work, open>>
      BY <1>2, <1>3, <1>13 DEF Run, Enforce
    <2>2. QED
      BY <1>2, <1>a, <1>13, <2>1
  <1>14. Moves
    <2>1. {"pending_requests", "reserved_ips", "live_proxies", "legacy_roles", "pending_trials", "shared_ips"} \subseteq Flaws
      BY DEF Flaws
    <2>2. QED
      BY <1>1, <1>4, <1>5, <1>6, <1>7, <1>8, <1>9, <1>10, <1>11, <1>12, <1>13, <2>1 DEF Place, UniqueIndexes
  <1>15. QED
    BY <1>14 DEF s, v, freed, Passed

\* A statement that runs keeps the invariant.
LEMMA RunStep ==
    ASSUME MigIInv, Migrating, line # LastLine(Under), Run(Statement), ~Refused(Statement),
           line' = line + 1, UNCHANGED <<stage, upgradeFaults>>
    PROVE  MigIInv'
  <1> DEFINE v == Under
  <1> DEFINE freed == {f \in Flaws : Statement = [do |-> "repair", of |-> f]}
  <1>1. MigTypes /\ OpenInv /\ LineInv /\ PassedInv /\ RowsInv /\ IndexInv /\ FlawsInv /\ StepsInv
    BY DEF MigIInv
  <1>2. /\ v \in 1..CurrentVersion /\ v = work.version + 1 /\ Len(Statements(v)) = LastLine(v) /\ LastLine(v) \in 1..8
        /\ line \in 1..(LastLine(v) - 1) /\ Place(v, line, Statement) /\ Statement = Statements(v)[line]
    BY <1>1, StandsAt DEF Statement, Under, LastLine
  <1>3. /\ work' \in Database /\ disk' \in Database /\ open' \in BOOLEAN /\ enforced' \in BOOLEAN
        /\ work'.version = work.version /\ work'.children /\ disk'.children
        /\ work'.flaws = work.flaws \ freed
        /\ disk' = disk \/ (disk' = work' /\ work'.flaws = work.flaws)
        /\ ~open' => work' = disk'
        /\ Passed(Statement, work') /\ HasIndexes(work')
        /\ \A i \in UniqueIndexes : Statement.do # "drop" /\ i \in work.indexes => i \in work'.indexes
        /\ v = 17 /\ line \in {1, 2, 6} => ~open'
        /\ enforced' <=> ~(v = 17 /\ line + 1 \in 3..7)
    BY <1>1, RunMoves
  <1>4. stage = "migrate" /\ stage' = "migrate" /\ work.version < CurrentVersion /\ Migrating' /\ Under' = v
    BY <1>3 DEF Migrating, Under
  <1>5. Statements(v)' = Statements(v) /\ LastLine(v)' = LastLine(v)
    BY <1>4 DEF Statements, LastLine
  <1> HIDE DEF v, freed
  <1>6. MigTypes'
    BY <1>1, <1>2, <1>3 DEF MigTypes
  <1>7. OpenInv'
    BY <1>1, <1>3, <1>4 DEF OpenInv
  <1>8. LineInv'
    BY <1>1, <1>2, <1>3, <1>4, <1>5 DEF LineInv
  <1>9. PassedInv'
    <2>1. SUFFICES ASSUME NEW i \in 1..line PROVE Passed(Statements(v)[i], work')
      BY <1>2, <1>4, <1>5 DEF PassedInv
    <2>2. CASE i = line
      BY <1>2, <1>3, <2>2
    <2>3. CASE i \in 1..(line - 1)
      <3>1. Passed(Statements(v)[i], work)
        BY <1>1, <2>3 DEF PassedInv, v
      <3>a. Place(v, i, Statements(v)[i])
        BY <1>2, <2>3, PlacesAre
      <3>2. Statements(v)[i].do = "index" => Statements(v)[i].of \in UniqueIndexes /\ Statement.do # "drop"
        BY <1>2, <2>3, <3>a DEF Place, UniqueIndexes
      <3>3. QED
        BY <1>3, <3>1, <3>2 DEF Passed
    <2>4. QED
      BY <1>2, <2>2, <2>3
  <1>10. RowsInv' /\ IndexInv'
    BY <1>1, <1>3 DEF RowsInv, IndexInv
  <1>11. FlawsInv'
    BY <1>1, <1>3, <1>4 DEF FlawsInv, InTime
  <1>12. StepsInv'
    <2>1. Partly = (IF line = 1 THEN {} ELSE Repairs(v)) /\ Partly' = Repairs(v)
      <3>1. RepairedBefore(v, line) = (IF line = 1 THEN {} ELSE Repairs(v)) /\ RepairedBefore(v, line + 1) = Repairs(v)
        <4>1. line \in 1..LastLine(v) /\ line + 1 \in 1..LastLine(v) /\ line + 1 # 1
          BY <1>2
        <4>2. QED
          BY <1>2, <4>1, RepairsBefore
      <3>2. Partly = RepairedBefore(v, line)
        BY DEF Partly, v
      <3>3. Partly' = RepairedBefore(v, line + 1)
        BY <1>4 DEF Partly, RepairedBefore, Statements
      <3>4. QED
        BY <3>1, <3>2, <3>3
    <2>2. freed = IF line = 1 THEN Repairs(v) ELSE {}
      <3>1. RepairedBefore(v, 2) = Repairs(v)
        BY <1>2, RepairsBefore
      <3>2. line = 1 => freed = RepairedBefore(v, 2)
        BY <1>2 DEF freed, RepairedBefore
      <3>3. line # 1 => freed = {}
        BY <1>2 DEF freed, Place
      <3>4. QED
        BY <3>1, <3>2, <3>3
    <2> DEFINE earlier == UNION {Repairs(w) : w \in Between}
    <2>a. /\ work.flaws = disk.flaws \ (earlier \union Partly)
          /\ disk.version <= work.version /\ \A w \in Between : disk.flaws \cap Refuses(w) = {}
      BY <1>1 DEF StepsInv
    <2> HIDE DEF earlier
    <2>3. work'.flaws = disk.flaws \ (earlier \union Repairs(v))
      BY <1>3, <2>1, <2>2, <2>a
    <2>4. CASE disk' = disk
      <3>1. Between' = Between
        BY <1>3, <2>4 DEF Between
      <3>2. (UNION {Repairs(w) : w \in Between})' = earlier
        BY <3>1 DEF earlier, Repairs, Migration
      <3>3. (\A w \in Between : disk.flaws \cap Refuses(w) = {})'
        BY <2>a, <2>4, <3>1
      <3>4. QED
        BY <1>3, <2>1, <2>3, <2>4, <2>a, <3>2, <3>3 DEF StepsInv
    <2>5. CASE disk' = work' /\ work'.flaws = work.flaws
      <3>1. disk'.version = work'.version /\ work'.version \in Nat
        BY <1>3, <2>5 DEF Database
      <3>a. Between' = {}
        BY <3>1 DEF Between
      <3>2. work'.flaws \cap Repairs(v) = {}
        BY <2>3
      <3>3. QED
        BY <2>1, <2>5, <3>1, <3>2, <3>a DEF StepsInv
    <2>6. QED
      BY <1>3, <2>4, <2>5
  <1>13. FailedInv'
    BY <1>4 DEF FailedInv
  <1>14. QED
    BY <1>6, <1>7, <1>8, <1>9, <1>10, <1>11, <1>12, <1>13 DEF MigIInv

\* The version is stored when every statement of its migration has had its effect.
LEMMA StampStep ==
    ASSUME MigIInv, Migrating, line = LastLine(Under), SetVersion, line' = 1, UNCHANGED <<stage, upgradeFaults>>
    PROVE  MigIInv'
  <1> DEFINE v == Under
  <1>1. MigTypes /\ OpenInv /\ LineInv /\ PassedInv /\ RowsInv /\ IndexInv /\ FlawsInv /\ StepsInv
    BY DEF MigIInv
  <1>a. v \in 1..CurrentVersion /\ Len(Statements(v)) = LastLine(v) /\ line = LastLine(v)
    BY <1>1, StandsAt
  <1>b. LastLine(v) \in 1..8
    BY DEF LastLine
  <1>c. work.version \in Nat /\ work.version < CurrentVersion
    BY <1>1 DEF MigTypes, Database, Migrating
  <1>2. v \in 1..CurrentVersion /\ v = work.version + 1 /\ v - 1 = work.version
    BY <1>a, <1>c DEF Under
  <1>3. /\ work' = [work EXCEPT !.version = @ + 1] /\ open' = TRUE /\ UNCHANGED <<disk, enforced>>
    BY DEF SetVersion, Change
  <1>4. /\ work' \in Database /\ work'.version = v /\ work'.flaws = work.flaws /\ work'.indexes = work.indexes
        /\ work'.children = work.children
    BY <1>1, <1>2, <1>3 DEF MigTypes, Database, CurrentVersion
  <1>5. stage = "migrate" /\ stage' = "migrate"
    BY DEF Migrating
  <1>6. \A l \in 1..(LastLine(v) - 1) : Place(v, l, Statements(v)[l]) /\ Passed(Statements(v)[l], work)
    BY <1>1, <1>a, PlacesAre DEF PassedInv
  <1> HIDE DEF v
  <1>7. MigTypes'
    BY <1>1, <1>3, <1>4, <1>5 DEF MigTypes
  <1>8. OpenInv'
    BY <1>3, <1>5 DEF OpenInv
  <1>9. LineInv'
    <2>1. Migrating' => Under' \in 1..CurrentVersion
      <3>1. Under' = v + 1 /\ (Migrating' => v < CurrentVersion)
        BY <1>4 DEF Under, Migrating
      <3>2. QED
        BY <1>2, <3>1 DEF CurrentVersion
    <2>2. Migrating' => Len(Statements(Under))' >= 1
      <3>1. \A w \in 1..CurrentVersion : Len(Statements(w)) >= 1
        BY PlacesAre DEF LastLine
      <3>2. \A w : Statements(w)' = Statements(w)
        BY DEF Statements, Migration
      <3>3. QED
        BY <2>1, <3>1, <3>2
    <2>3. enforced
      <3>1. v = 17 => line = 8
        BY <1>a DEF LastLine
      <3>2. stage = "migrate" => (enforced <=> ~(v = 17 /\ line \in 3..7))
        BY <1>1 DEF LineInv, v
      <3>3. QED
        BY <1>5, <3>1, <3>2
    <2>4. v <= CurrentVersion
      BY <1>2 DEF CurrentVersion
    <2>5. QED
      BY <1>3, <1>4, <1>5, <2>2, <2>3, <2>4 DEF LineInv
  <1>10. PassedInv' /\ RowsInv'
    BY <1>1, <1>3, <1>4 DEF PassedInv, RowsInv
  <1>11. IndexInv'
    <2>1. ASSUME NEW i \in UniqueIndexes, i \in IndexesOf(v), i # "reserved_ip" \/ v # 5 PROVE i \in work.indexes
      <3>1. work.version = v - 1 /\ HasIndexes(work)
        BY <1>1, <1>2 DEF IndexInv
      <3>2. CASE i \in IndexesOf(v - 1) /\ (i # "reserved_ip" \/ v - 1 # 5)
        BY <3>1, <3>2 DEF HasIndexes
      <3>3. CASE v = 4 /\ i = "one_pending_request"
        BY <1>6, <3>3 DEF LastLine, Place, Passed
      <3>4. CASE v = 6 /\ i = "reserved_ip"
        BY <1>6, <3>4 DEF LastLine, Place, Passed
      <3>5. CASE v = 10 /\ i = "one_live_proxy"
        BY <1>6, <3>5 DEF LastLine, Place, Passed
      <3>6. CASE v = 18 /\ i = "one_pending_trial"
        BY <1>6, <3>6 DEF LastLine, Place, Passed
      <3>7. QED
        BY <1>2, <2>1, <3>2, <3>3, <3>4, <3>5, <3>6 DEF IndexesOf, UniqueIndexes
    <2>a. IndexesOf(v) \subseteq UniqueIndexes
      BY DEF IndexesOf
    <2>b. HasIndexes(work')
      BY <1>4, <2>1, <2>a DEF HasIndexes
    <2>2. QED
      BY <1>1, <1>3, <2>b DEF IndexInv
  <1>12. FlawsInv'
    <2>1. ASSUME NEW f \in work.flaws PROVE v <= LastOf(f)
      <3>1. /\ f \in Flaws /\ v - 1 <= LastOf(f) /\ f \notin {"old_tables", "live_proxies"}
        BY <1>1, <1>2, <1>5 DEF FlawsInv, InTime, MigTypes, Database
      <3>2. ~(v = 4 /\ f = "pending_requests")
        BY <1>6 DEF LastLine, Place, Passed
      <3>3. ~(v = 6 /\ f = "reserved_ips")
        BY <1>6 DEF LastLine, Place, Passed
      <3>4. ~(v = 11 /\ f = "legacy_roles")
        BY <1>6 DEF LastLine, Place, Passed
      <3>5. ~(v = 17 /\ f = "unknown_roles")
        BY <1>6 DEF LastLine, Place, Passed
      <3>6. ~(v = 18 /\ f = "pending_trials")
        BY <1>6 DEF LastLine, Place, Passed
      <3>7. ~(v = 19 /\ f = "shared_ips")
        BY <1>6 DEF LastLine, Place, Passed
      <3>8. QED
        BY <1>2, <3>1, <3>2, <3>3, <3>4, <3>5, <3>6, <3>7 DEF LastOf, Flaws, CurrentVersion
    <2>a. InTime(work')
      BY <1>4, <2>1 DEF InTime
    <2>2. QED
      BY <1>1, <1>3, <1>4, <1>5, <2>a DEF FlawsInv
  <1>13. StepsInv'
    <2>1. Partly = Repairs(v)
      <3>1. RepairedBefore(v, line) = IF line = 1 THEN {} ELSE Repairs(v)
        <4>1. line \in 1..LastLine(v)
          BY <1>a, <1>b
        <4>2. QED
          BY <1>2, <4>1, RepairsBefore
      <3>2. line = 1 => Repairs(v) = {}
        BY <1>a, RepairsAre DEF LastLine
      <3>3. Partly = RepairedBefore(v, line)
        BY DEF Partly, v
      <3>4. QED
        BY <3>1, <3>2, <3>3
    <2>2. Partly' = {}
      BY DEF Partly, RepairedBefore
    <2>3. /\ Between' = Between \union {v} /\ disk.version <= work.version
      <3>1. disk.version \in Nat /\ disk.version <= work.version
        BY <1>1 DEF StepsInv, MigTypes, Database
      <3>2. Between = (disk.version + 1)..work.version /\ Between' = (disk.version + 1)..v
        BY <1>3, <1>4 DEF Between
      <3>3. QED
        BY <1>2, <3>1, <3>2
    <2> DEFINE earlier == UNION {Repairs(w) : w \in Between}
    <2>4. /\ work.flaws = disk.flaws \ (Partly \union earlier)
          /\ \A w \in Between : disk.flaws \cap Refuses(w) = {}
      BY <1>1 DEF StepsInv
    <2>5. disk.flaws \cap Refuses(v) = {}
      <3>1. ASSUME NEW f \in disk.flaws, f \in Refuses(v) PROVE FALSE
        <4>1. f \in {"reserved_ips", "live_proxies", "old_tables", "unknown_roles", "pending_trials"}
          BY <1>2, <3>1, RefusesAre
        <4>2. \A w \in 1..CurrentVersion : f \notin Repairs(w)
          BY <4>1, RepairsAre
        <4>3. Between \subseteq 1..CurrentVersion
          <5>1. disk.version \in Nat /\ work.version \in Nat /\ work.version < 23
            BY <1>1, <1>c DEF MigTypes, Database, CurrentVersion
          <5>2. QED
            BY <5>1 DEF Between, CurrentVersion
        <4>4. f \in work.flaws
          BY <1>2, <2>1, <2>4, <4>2, <4>3
        <4>5. f \notin {"old_tables", "live_proxies"}
          BY <1>1, <1>5, <4>4 DEF FlawsInv
        <4>6. v \in {5, 6} /\ f = "reserved_ips" => FALSE
          BY <1>6, <4>4 DEF LastLine, Place, Passed
        <4>7. v = 17 /\ f = "unknown_roles" => FALSE
          BY <1>6, <4>4 DEF LastLine, Place, Passed
        <4>8. v = 18 /\ f = "pending_trials" => FALSE
          BY <1>6, <4>4 DEF LastLine, Place, Passed
        <4>9. QED
          BY <1>2, <3>1, <4>5, <4>6, <4>7, <4>8, RefusesAre
      <3>2. QED
        BY <3>1
    <2>6. (UNION {Repairs(w) : w \in Between})' = Repairs(v) \union earlier
      BY <2>3 DEF Repairs, Migration
    <2>7. (\A w \in Between : disk.flaws \cap Refuses(w) = {})'
      BY <1>3, <2>3, <2>4, <2>5 DEF Refuses, RefusesOf, Migration
    <2> HIDE DEF earlier
    <2>8. disk'.version <= work'.version
      <3>1. disk.version \in Nat /\ disk.version <= v
        BY <1>1, <1>2, <1>c, <2>3 DEF MigTypes, Database
      <3>2. QED
        BY <1>3, <1>4, <3>1
    <2>9. QED
      BY <1>3, <1>4, <2>1, <2>2, <2>4, <2>6, <2>7, <2>8 DEF StepsInv
  <1>14. FailedInv'
    BY <1>5 DEF FailedInv
  <1>15. QED
    BY <1>7, <1>8, <1>9, <1>10, <1>11, <1>12, <1>13, <1>14 DEF MigIInv

--------------------------------------------------------------------------------
(* The other steps of a start, and the rest of the world.                    *)

\* Outside the migrations the connection sees the disk, which is all there is to show.
Resting ==
    /\ disk \in Database /\ disk.children /\ HasIndexes(disk) /\ InTime(disk) /\ FailedInv
    /\ work = disk /\ open = FALSE /\ enforced \in BOOLEAN /\ line \in 1..8
    /\ stage \in Stages \ {"migrate"} /\ upgradeFaults \in 0..MaxUpgradeFaults
    /\ stage \in {"script", "committed", "up"} => enforced
    /\ stage \in {"committed", "up"} => disk.version = CurrentVersion /\ disk.flaws = {}

\* At rest there is no connection at work: the invariant is about the file alone.
LEMMA AtRest ==
    ASSUME Resting'
    PROVE  MigIInv'
  <1> USE DEF Resting
  <1>1. MigTypes' /\ OpenInv' /\ RowsInv' /\ IndexInv'
    BY DEF MigTypes, OpenInv, RowsInv, IndexInv
  <1>2. ~Migrating'
    BY DEF Migrating
  <1>3. LineInv' /\ PassedInv' /\ FlawsInv'
    BY <1>2 DEF LineInv, PassedInv, FlawsInv
  <1>4. StepsInv'
    <2>1. disk'.version \in Nat
      BY DEF Database
    <2>2. Between' = {} /\ disk'.version <= work'.version
      BY <2>1 DEF Between
    <2>3. Partly' = {}
      BY <1>2 DEF Partly
    <2>4. QED
      BY <2>2, <2>3 DEF StepsInv
  <1>5. QED
    BY <1>1, <1>3, <1>4 DEF MigIInv

\* A start that gives up leaves what is on the disk, where the reason is found.
LEMMA GaveUp ==
    ASSUME MigIInv, GiveUp, upgradeFaults' \in 0..MaxUpgradeFaults,
           upgradeFaults' = 0 => disk.leftover \/ disk.version > CurrentVersion \/ disk.flaws \cap Mendable # {}
    PROVE  MigIInv'
  <1>1. disk \in Database /\ disk.children /\ HasIndexes(disk) /\ InTime(disk)
    BY DEF MigIInv, MigTypes, RowsInv, IndexInv, FlawsInv
  <1>2. work' = disk' /\ disk' = disk /\ open' = FALSE /\ enforced' = TRUE /\ line' = 1 /\ stage' = "failed"
    BY DEF GiveUp
  <1>3. FailedInv'
    BY <1>2 DEF FailedInv, Mendable, Flaws
  <1>4. Resting'
    BY <1>1, <1>2, <1>3 DEF Resting, Stages
  <1>5. QED
    BY <1>4, AtRest

\* A process that ends leaves what is on the disk.
LEMMA WentDown ==
    ASSUME MigIInv, GoDown, upgradeFaults' \in 0..MaxUpgradeFaults
    PROVE  MigIInv'
  <1>1. disk \in Database /\ disk.children /\ HasIndexes(disk) /\ InTime(disk)
    BY DEF MigIInv, MigTypes, RowsInv, IndexInv, FlawsInv
  <1>2. work' = disk' /\ disk' = disk /\ open' = FALSE /\ enforced' = FALSE /\ line' = 1 /\ stage' = "down"
    BY DEF GoDown
  <1>3. FailedInv'
    BY <1>2 DEF FailedInv
  <1>a. enforced' \in BOOLEAN
    BY <1>2
  <1>4. Resting'
    BY <1>1, <1>2, <1>3, <1>a DEF Resting, Stages
  <1>5. QED
    BY <1>4, AtRest

\* The invariant holds at first.
LEMMA MigInitIInv == MigInit => MigIInv
  <1> SUFFICES ASSUME MigInit PROVE MigIInv
    OBVIOUS
  <1>1. PICK v \in OldVersions, fs \in SUBSET Flaws :
            /\ \A f \in fs : Possible(f, v)
            /\ disk = [version |-> v, flaws |-> fs, indexes |-> IndexesOf(v), leftover |-> FALSE, children |-> TRUE]
    BY DEF MigInit
  <1>2. work = disk /\ open = FALSE /\ enforced = FALSE /\ stage = "down" /\ line = 1 /\ upgradeFaults = 0
    BY DEF MigInit
  <1>3. v \in 0..24 /\ MaxUpgradeFaults \in Nat
    BY MigrationsAssumption
  <1>4. MigTypes
    <2>1. IndexesOf(v) \subseteq UniqueIndexes
      BY DEF IndexesOf
    <2>2. disk \in Database
      BY <1>1, <1>3, <2>1 DEF Database
    <2>a. open \in BOOLEAN
      BY <1>2
    <2>b. enforced \in BOOLEAN
      BY <1>2
    <2>3. work \in Database /\ stage \in Stages /\ line \in 1..8
      BY <1>2, <2>2 DEF Stages
    <2>4. upgradeFaults \in 0..MaxUpgradeFaults
      BY <1>2, <1>3
    <2>5. QED
      BY <2>2, <2>3, <2>4, <2>a, <2>b DEF MigTypes
  <1>5. OpenInv /\ RowsInv /\ LineInv /\ PassedInv /\ FailedInv
    BY <1>1, <1>2 DEF OpenInv, RowsInv, LineInv, PassedInv, FailedInv, Migrating
  <1>6. IndexInv
    BY <1>1, <1>2 DEF IndexInv, HasIndexes
  <1>7. FlawsInv
    <2>1. ASSUME NEW f \in Flaws, Possible(f, v) PROVE v <= LastOf(f)
      <3>1. v \in Nat
        BY <1>3
      <3>2. CASE f = "pending_requests"
        BY <2>1, <3>1, <3>2 DEF Possible, LastOf
      <3>3. CASE f = "reserved_ips"
        BY <2>1, <3>1, <3>3 DEF Possible, LastOf
      <3>4. CASE f = "live_proxies"
        BY <2>1, <3>1, <3>4 DEF Possible, LastOf
      <3>5. CASE f = "old_tables"
        BY <2>1, <3>1, <3>5 DEF Possible, LastOf
      <3>6. CASE f = "legacy_roles"
        BY <2>1, <3>1, <3>6 DEF Possible, LastOf
      <3>7. CASE f = "unknown_roles"
        BY <2>1, <3>1, <3>7 DEF Possible, LastOf
      <3>8. CASE f = "pending_trials"
        BY <2>1, <3>1, <3>8 DEF Possible, LastOf
      <3>9. CASE f = "shared_ips"
        BY <2>1, <3>1, <3>9 DEF Possible, LastOf
      <3>10. CASE f = "orphans"
        BY <2>1, <3>1, <3>10 DEF Possible, LastOf, CurrentVersion
      <3>11. QED
        BY <3>2, <3>3, <3>4, <3>5, <3>6, <3>7, <3>8, <3>9, <3>10 DEF Flaws
    <2>2. QED
      BY <1>1, <1>2, <2>1 DEF FlawsInv, InTime, Flaws
  <1>8. StepsInv
    <2>1. Between = {}
      BY <1>1, <1>2, <1>3 DEF Between
    <2>2. Partly = {}
      BY <1>2 DEF Partly, Migrating
    <2>3. QED
      BY <1>1, <1>2, <1>3, <2>1, <2>2 DEF StepsInv
  <1>9. QED
    BY <1>4, <1>5, <1>6, <1>7, <1>8 DEF MigIInv

\* Why a statement is refused: the disk says so too.
LEMMA RefusalIsOnDisk ==
    ASSUME MigIInv, Migrating, Refused(Statement)
    PROVE  disk.leftover \/ disk.flaws \cap Mendable # {}
  <1>1. MigTypes /\ OpenInv /\ LineInv /\ StepsInv
    BY DEF MigIInv
  <1>2. Statement # [do |-> "stamp"] /\ Place(Under, line, Statement)
    <2>1. Statement = [do |-> "stamp"] => FALSE
      BY DEF Refused
    <2>2. QED
      BY <1>1, <2>1, StandsAt
  <1>3. work.flaws \subseteq disk.flaws
    BY <1>1 DEF StepsInv
  <1>4. CASE Statement.do = "check"
    <2>1. Statement.of \in work.flaws
      BY <1>4 DEF Refused
    <2>2. Statement.of \in Mendable
      BY <1>2, <1>4 DEF Place, Mendable, Flaws
    <2>3. QED
      BY <1>3, <2>1, <2>2
  <1>5. CASE Statement.do = "create"
    <2>1. work.leftover /\ Under = 17 /\ line = 3
      BY <1>2, <1>5 DEF Refused, Place
    <2>2. work = disk
      BY <1>1, <2>1 DEF LineInv, OpenInv
    <2>3. QED
      BY <2>1, <2>2
  <1>6. CASE Statement.do = "copy"
    <2>1. "unknown_roles" \in work.flaws
      BY <1>6 DEF Refused
    <2>2. QED
      BY <1>3, <2>1 DEF Mendable, Flaws
  <1>7. QED
    BY <1>4, <1>5, <1>6 DEF Refused

\* Every step of a start keeps the invariant.
LEMMA MigStepIInv == MigIInv /\ [MigNext]_migVars => MigIInv'
  <1> SUFFICES ASSUME MigIInv, [MigNext]_migVars PROVE MigIInv'
    OBVIOUS
  <1>1. /\ disk \in Database /\ work \in Database /\ disk.children /\ HasIndexes(disk) /\ InTime(disk)
        /\ enforced \in BOOLEAN /\ line \in 1..8 /\ upgradeFaults \in 0..MaxUpgradeFaults /\ MaxUpgradeFaults \in Nat
        /\ work.version \in 0..24
    BY MigrationsAssumption DEF MigIInv, MigTypes, RowsInv, IndexInv, FlawsInv, Database
  <1>2. CASE ConnectDb
    <2>1. stage' = "script" /\ enforced' = TRUE /\ open' = FALSE /\ work' = disk /\ UNCHANGED <<disk, line, upgradeFaults>>
      BY <1>2 DEF ConnectDb
    <2>2. FailedInv'
      BY <2>1 DEF FailedInv
    <2>3. Resting'
      BY <1>1, <2>1, <2>2 DEF Resting, Stages
    <2>4. QED
      BY <2>3, AtRest
  <1>3. CASE Script
    <2>1. stage = "script" /\ work = disk /\ ~open /\ enforced /\ UNCHANGED upgradeFaults
      BY <1>3 DEF Script, MigIInv, OpenInv
    <2> DEFINE old == work.flaws \cap {"old_tables", "live_proxies"} # {} \/ work.version > CurrentVersion
    <2>2. CASE old
      <3>1. GiveUp
        BY <1>3, <2>2 DEF Script
      <3>2. disk.leftover \/ disk.version > CurrentVersion \/ disk.flaws \cap Mendable # {}
        BY <2>1, <2>2 DEF Mendable, Flaws
      <3>3. upgradeFaults' \in 0..MaxUpgradeFaults
        BY <1>1, <2>1
      <3>4. QED
        BY <3>1, <3>2, <3>3, GaveUp
    <2>3. CASE ~old
      <3>1. /\ work' = [work EXCEPT !.indexes = @ \union {"one_live_proxy"}] /\ disk' = work' /\ UNCHANGED <<open, enforced>>
            /\ stage' = "migrate" /\ line' = 1
        BY <1>3, <2>1, <2>3 DEF Script, Define
      <3>2. /\ work' \in Database /\ work'.version = work.version /\ work'.flaws = work.flaws
            /\ work'.indexes = work.indexes \union {"one_live_proxy"} /\ work'.children = work.children
        BY <1>1, <3>1 DEF Database, UniqueIndexes
      <3>3. work.version \in 0..CurrentVersion
        BY <1>1, <2>3 DEF CurrentVersion
      <3>4. MigTypes' /\ OpenInv' /\ RowsInv' /\ FailedInv'
        BY <1>1, <2>1, <3>1, <3>2 DEF MigTypes, OpenInv, RowsInv, FailedInv, Stages, MigIInv
      <3>5. LineInv'
        <4>1. Migrating' => Under' \in 1..CurrentVersion
          BY <3>2, <3>3 DEF Migrating, Under, CurrentVersion
        <4>2. Migrating' => Len(Statements(Under))' >= 1
          <5>1. \A w \in 1..CurrentVersion : Len(Statements(w)) >= 1
            BY PlacesAre DEF LastLine
          <5>2. \A w : Statements(w)' = Statements(w)
            BY DEF Statements, Migration
          <5>3. QED
            BY <4>1, <5>1, <5>2
        <4>3. work'.version <= CurrentVersion
          BY <3>2, <3>3 DEF CurrentVersion
        <4>4. enforced'
          BY <2>1, <3>1
        <4>5. QED
          BY <3>1, <4>2, <4>3, <4>4 DEF LineInv
      <3>6. PassedInv'
        BY <3>1 DEF PassedInv
      <3>7. IndexInv'
        <4>1. HasIndexes(work')
          BY <1>1, <2>1, <3>2 DEF HasIndexes
        <4>2. QED
          BY <3>1, <4>1 DEF IndexInv
      <3>8. FlawsInv'
        BY <1>1, <2>1, <2>3, <3>1, <3>2 DEF FlawsInv, InTime
      <3>9. StepsInv'
        <4>1. Between' = {} /\ disk'.version <= work'.version
          BY <1>1, <3>1, <3>2 DEF Between
        <4>2. Partly' = {}
          BY <3>1 DEF Partly, RepairedBefore
        <4>3. QED
          BY <3>1, <4>1, <4>2 DEF StepsInv
      <3>10. QED
        BY <3>4, <3>5, <3>6, <3>7, <3>8, <3>9 DEF MigIInv
    <2>4. QED
      BY <2>2, <2>3
  <1>4. CASE Migrate
    <2>1. Migrating /\ Len(Statements(Under)) = LastLine(Under) /\ UNCHANGED upgradeFaults
      BY <1>4, StandsAt DEF Migrate, Migrating, MigIInv
    <2>2. CASE Refused(Statement) /\ GiveUp
      BY <1>1, <2>1, <2>2, GaveUp, RefusalIsOnDisk
    <2>3. CASE ~Refused(Statement) /\ line = LastLine(Under) /\ SetVersion /\ line' = 1 /\ UNCHANGED stage
      BY <2>1, <2>3, StampStep
    <2>4. CASE ~Refused(Statement) /\ line # LastLine(Under) /\ Run(Statement) /\ line' = line + 1 /\ UNCHANGED stage
      BY <2>1, <2>4, RunStep
    <2>5. QED
      BY <1>4, <2>1, <2>2, <2>3, <2>4 DEF Migrate, Statement, Under
  <1>5. CASE Validate
    <2>1. stage = "migrate" /\ work.version = CurrentVersion /\ UNCHANGED upgradeFaults
      BY <1>1, <1>5 DEF Validate, MigIInv, LineInv, CurrentVersion
    <2>2. CASE "orphans" \in work.flaws /\ GiveUp
      <3>1. "orphans" \in disk.flaws
        BY <2>2 DEF MigIInv, StepsInv
      <3>2. disk.flaws \cap Mendable # {}
        BY <3>1 DEF Mendable, Flaws
      <3>3. QED
        BY <1>1, <2>1, <2>2, <3>2, GaveUp
    <2>3. CASE "orphans" \notin work.flaws /\ Commit /\ stage' = "committed" /\ UNCHANGED <<enforced, line>>
      <3>1. disk' = work /\ work' = work /\ open' = FALSE
        BY <2>3 DEF Commit
      <3>2. work.flaws = {}
        <4>1. \A f \in work.flaws : f \in Flaws /\ 23 <= LastOf(f)
          BY <1>1, <2>1 DEF MigIInv, FlawsInv, InTime, Database, CurrentVersion
        <4>2. \A f \in Flaws : 23 <= LastOf(f) => f = "orphans"
          BY DEF Flaws, LastOf, CurrentVersion
        <4>3. QED
          BY <2>3, <4>1, <4>2
      <3>3. work.children /\ HasIndexes(work) /\ InTime(work) /\ enforced
        BY <2>1 DEF MigIInv, RowsInv, IndexInv, FlawsInv, LineInv, Under, CurrentVersion
      <3>4. FailedInv'
        BY <2>3 DEF FailedInv
      <3>5. Resting'
        BY <1>1, <2>1, <2>3, <3>1, <3>2, <3>3, <3>4 DEF Resting, Stages
      <3>6. QED
        BY <3>5, AtRest
    <2>4. QED
      BY <1>5, <2>1, <2>2, <2>3 DEF Validate
  <1>6. CASE Up
    <2>1. stage = "committed" /\ stage' = "up" /\ UNCHANGED <<disk, work, open, enforced, line, upgradeFaults>>
      BY <1>6 DEF Up
    <2>2. ~open /\ work = disk /\ enforced /\ disk.version = CurrentVersion /\ disk.flaws = {}
      BY <2>1 DEF MigIInv, OpenInv
    <2>3. FailedInv'
      BY <2>1 DEF FailedInv
    <2>4. Resting'
      BY <1>1, <2>1, <2>2, <2>3 DEF Resting, Stages, MigIInv, MigTypes
    <2>5. QED
      BY <2>4, AtRest
  <1>7. CASE Exit
    BY <1>1, <1>7, WentDown DEF Exit
  <1>8. CASE Crash
    BY <1>1, <1>8, WentDown DEF Crash
  <1>9. CASE Fault
    <2>1. upgradeFaults' \in 0..MaxUpgradeFaults /\ upgradeFaults' # 0
      BY <1>1, <1>9 DEF Fault
    <2>2. QED
      BY <1>9, <2>1, GaveUp DEF Fault
  <1>10. CASE Mend
    <2>1. PICK f \in disk.flaws : disk' = [disk EXCEPT !.flaws = @ \ {f}]
      BY <1>10 DEF Mend
    <2>2. stage = "down" /\ work' = disk' /\ UNCHANGED <<open, enforced, stage, line, upgradeFaults>> /\ ~open
      BY <1>10 DEF Mend, MigIInv, OpenInv
    <2>3. /\ disk' \in Database /\ disk'.version = disk.version /\ disk'.flaws = disk.flaws \ {f}
          /\ disk'.indexes = disk.indexes /\ disk'.children
      BY <1>1, <2>1 DEF Database
    <2>4. HasIndexes(disk') /\ InTime(disk')
      BY <1>1, <2>3 DEF HasIndexes, InTime
    <2>5. FailedInv'
      BY <2>2 DEF FailedInv
    <2>6. Resting'
      BY <1>1, <2>2, <2>3, <2>4, <2>5 DEF Resting, Stages, MigIInv, MigTypes
    <2>7. QED
      BY <2>6, AtRest
  <1>11. CASE UNCHANGED migVars
    <2>1. UNCHANGED <<disk, work, open, enforced, stage, line, upgradeFaults>>
      BY <1>11 DEF migVars
    <2>2. Migrating' = Migrating /\ Under' = Under
      BY <2>1 DEF Migrating, Under
    <2>3. MigTypes' /\ OpenInv' /\ RowsInv' /\ IndexInv' /\ FlawsInv' /\ FailedInv'
      BY <2>1 DEF MigIInv, MigTypes, OpenInv, RowsInv, IndexInv, FlawsInv, FailedInv
    <2>4. \A w : Statements(w)' = Statements(w)
      BY DEF Statements, Migration
    <2>5. LineInv'
      BY <2>1, <2>2, <2>4 DEF MigIInv, LineInv
    <2>6. PassedInv'
      BY <2>1, <2>2, <2>4 DEF MigIInv, PassedInv
    <2>7. StepsInv'
      BY <2>1, <2>2 DEF MigIInv, StepsInv, Between, Partly
    <2>8. QED
      BY <2>3, <2>5, <2>6, <2>7 DEF MigIInv
  <1>12. QED
    BY <1>2, <1>3, <1>4, <1>5, <1>6, <1>7, <1>8, <1>9, <1>10, <1>11 DEF MigNext

--------------------------------------------------------------------------------
(* What follows.                                                             *)

\* The upgrade's invariant, in a behaviour of any of the three modules.
LEMMA MigAlways == FrontendSpec => []MigIInv
  <1>1. FrontendInit => MigIInv
    BY MigInitIInv DEF FrontendInit
  <1>2. MigIInv /\ [FrontendNext]_<<migVars, dlgVars, vars, part>> => MigIInv'
    <2>1. [FrontendNext]_<<migVars, dlgVars, vars, part>> => [MigNext]_migVars
      BY DEF FrontendNext
    <2>2. QED
      BY <2>1, MigStepIInv
  <1>3. QED
    BY <1>1, <1>2, PTL DEF FrontendSpec

\* bootstrap, from any version and with any deaths and failing statements: what comes
\* up has all indexes and enforces foreign keys, the rebuild of users loses no row, and
\* a start without faults gives up only for a reason that an operator can see.
THEOREM UpgradesAreSound == FrontendSpec => []UpgradeSound
  <1>1. MigIInv => UpgradeSound
    <2> SUFFICES ASSUME MigIInv PROVE UpgradeSound
      OBVIOUS
    <2>1. disk.children
      BY DEF MigIInv, RowsInv
    <2>2. stage = "up" => enforced /\ ~open /\ work = disk /\ disk.indexes = UniqueIndexes
      <3>1. SUFFICES ASSUME stage = "up" PROVE enforced /\ ~open /\ work = disk /\ disk.indexes = UniqueIndexes
        OBVIOUS
      <3>2. enforced /\ ~open /\ work = disk /\ disk.version = 23 /\ HasIndexes(disk) /\ disk \in Database
        BY <3>1 DEF MigIInv, OpenInv, IndexInv, MigTypes, CurrentVersion
      <3>3. IndexesOf(23) = UniqueIndexes
        BY DEF IndexesOf, UniqueIndexes
      <3>4. QED
        BY <3>2, <3>3 DEF HasIndexes, Database
    <2>3. FailedInv => (stage = "failed" /\ upgradeFaults = 0 =>
              disk.leftover \/ disk.version > CurrentVersion
                \/ disk.flaws \ {"legacy_roles", "pending_requests", "shared_ips"} # {})
      BY DEF FailedInv, Mendable
    <2>4. QED
      BY <2>1, <2>2, <2>3 DEF UpgradeSound, MigIInv
  <1>2. QED
    BY MigAlways, <1>1, PTL

\* Who commits moves the disk to the connection's version, past the migrations in between.
LEMMA CommitAdvances ==
    ASSUME MigIInv, disk'.version = work.version, disk'.flaws = work.flaws, work.version <= CurrentVersion,
           Partly = {} \/ work = disk,
           stage \notin {"down", "up"}, stage' \notin {"down", "up"}
    PROVE  Promise!Advance \/ UNCHANGED Promise!upgradeVars
  <1>1. disk.version \in Nat /\ work.version \in Nat /\ disk.version <= work.version
    BY DEF MigIInv, MigTypes, Database, StepsInv
  <1>2. CASE disk.version = work.version
    <2>1. Between = {}
      BY <1>1, <1>2 DEF Between
    <2>2. work.flaws = disk.flaws
      BY <2>1 DEF MigIInv, StepsInv
    <2>3. QED
      BY <1>2, <2>2 DEF Promise!upgradeVars
  <1>3. CASE disk.version # work.version
    <2>1. work.version \in (disk.version + 1)..CurrentVersion
      BY <1>1, <1>3 DEF CurrentVersion
    <2>2. Promise!Passed(work.version) = Between /\ Between \subseteq 1..CurrentVersion
      BY <1>1, <2>1 DEF Promise!Passed, Between, CurrentVersion
    <2>3. disk'.flaws = disk.flaws \ UNION {Repairs(v) : v \in Between}
      BY <1>3 DEF MigIInv, StepsInv
    <2>4. \A v \in Between : disk.flaws \cap Refuses(v) = {}
      BY DEF MigIInv, StepsInv
    <2> DEFINE repairedBy == [v \in 1..CurrentVersion |->
                    {f \in Flaws : \E i \in DOMAIN Migration(v) : Migration(v)[i] = [do |-> "repair", of |-> f]}]
               refusedBy == [v \in 1..CurrentVersion |->
                    RefusesOf(v) \union (CASE v = 16 -> {"old_tables"} [] v = 17 -> {"unknown_roles"} [] OTHER -> {})]
    <2>a. \A v \in Between : repairedBy[v] = Repairs(v) /\ refusedBy[v] = Refuses(v)
      BY <2>2 DEF Repairs, Refuses
    <2> HIDE DEF repairedBy, refusedBy
    <2>b. /\ disk'.flaws = disk.flaws \ UNION {repairedBy[v] : v \in Promise!Passed(work.version)}
          /\ \A v \in Promise!Passed(work.version) : disk.flaws \cap refusedBy[v] = {}
      <3>1. {repairedBy[v] : v \in Between} = {Repairs(v) : v \in Between}
        BY <2>a
      <3>2. disk'.flaws = disk.flaws \ UNION {repairedBy[v] : v \in Between}
        BY <2>3, <3>1
      <3>3. \A v \in Between : disk.flaws \cap refusedBy[v] = {}
        BY <2>4, <2>a
      <3>4. QED
        BY <2>2, <3>2, <3>3
    <2>5. Promise!Advance
      <3> DEFINE phase == IF stage = "down" THEN "down" ELSE IF stage = "up" THEN "serving" ELSE "starting"
      <3>1. phase = "starting" /\ phase' = phase
        OBVIOUS
      <3> HIDE DEF phase
      <3>2. \E to \in (disk.version + 1)..CurrentVersion :
                /\ phase = "starting" /\ disk'.version = to /\ phase' = phase
                /\ \A v \in Promise!Passed(to) : disk.flaws \cap refusedBy[v] = {}
                /\ disk'.flaws = disk.flaws \ UNION {repairedBy[v] : v \in Promise!Passed(to)}
        BY <2>1, <2>b, <3>1
      <3>3. QED
        BY <3>2 DEF Promise!Advance, phase, repairedBy, refusedBy
    <2>6. QED
      BY <2>5
  <1>4. QED
    BY <1>2, <1>3

\* A step that leaves version, flaws and phase alone is none of the promise's.
LEMMA PromiseStutters ==
    ASSUME disk'.version = disk.version, disk'.flaws = disk.flaws, stage \notin {"down", "up"}, stage' \notin {"down", "up"}
    PROVE  UNCHANGED Promise!upgradeVars
  BY DEF Promise!upgradeVars

\* Every step of a start is a step of the promise, or none.
LEMMA StepIsPromised == MigIInv /\ [MigNext]_migVars => [Promise!UpgradeNext]_Promise!upgradeVars
  <1> SUFFICES ASSUME MigIInv, [MigNext]_migVars PROVE Promise!UpgradeNext \/ UNCHANGED Promise!upgradeVars
    OBVIOUS
  <1>1. CASE ConnectDb
    <2>1. Promise!Begin
      BY <1>1 DEF ConnectDb, Promise!Begin
    <2>2. QED
      BY <2>1 DEF Promise!UpgradeNext
  <1>2. CASE Script
    <2>1. stage = "script" /\ stage' \in {"failed", "migrate"}
      BY <1>2 DEF Script, GiveUp
    <2>2. disk'.version = disk.version /\ disk'.flaws = disk.flaws
      <3>1. work = disk /\ ~open /\ work \in Database
        BY <2>1 DEF MigIInv, MigTypes, OpenInv
      <3>2. disk' = disk \/ disk' = [work EXCEPT !.indexes = @ \union {"one_live_proxy"}]
        BY <1>2, <3>1 DEF Script, GiveUp, Define
      <3>3. QED
        BY <3>1, <3>2 DEF Database
    <2>3. QED
      BY <2>1, <2>2, PromiseStutters
  <1>3. CASE Migrate
    <2>1. Migrating /\ Len(Statements(Under)) = LastLine(Under) /\ stage = "migrate" /\ stage' \in {"failed", "migrate"}
      BY <1>3, StandsAt DEF Migrate, Migrating, MigIInv, GiveUp
    <2>2. CASE GiveUp \/ SetVersion
      BY <2>1, <2>2, PromiseStutters DEF GiveUp, SetVersion, Change
    <2>3. CASE ~Refused(Statement) /\ line # LastLine(Under) /\ Run(Statement)
      <3>1. /\ work'.version = work.version
            /\ disk' = disk \/ (disk' = work' /\ work'.flaws = work.flaws /\ (Under = 17 \/ work = disk))
        BY <2>1, <2>3, RunMoves DEF MigIInv
      <3>2. CASE disk' = disk
        BY <2>1, <3>2, PromiseStutters
      <3>3. CASE disk'.version = work.version /\ disk'.flaws = work.flaws /\ (Under = 17 \/ work = disk)
        <4>1. Under \in 1..CurrentVersion /\ line \in 1..LastLine(Under) /\ work.version <= CurrentVersion
          BY <2>1, StandsAt DEF MigIInv, LineInv
        <4>2. Under = 17 => Partly = {}
          BY <2>1, <4>1, RepairsBefore, RepairsAre DEF Partly
        <4>3. Promise!Advance \/ UNCHANGED Promise!upgradeVars
          BY <2>1, <3>3, <4>1, <4>2, CommitAdvances
        <4>4. QED
          BY <4>3 DEF Promise!UpgradeNext
      <3>4. QED
        BY <3>1, <3>2, <3>3
    <2>4. QED
      BY <1>3, <2>1, <2>2, <2>3 DEF Migrate, Statement, Under
  <1>4. CASE Validate
    <2>1. stage = "migrate" /\ stage' \in {"failed", "committed"} /\ work.version <= CurrentVersion /\ Partly = {}
      <3>1. stage = "migrate" => work.version <= CurrentVersion
        BY DEF MigIInv, LineInv
      <3>2. ~(work.version < CurrentVersion)
        <4>1. work.version \in 0..24 /\ work.version >= CurrentVersion
          BY <1>4 DEF Validate, MigIInv, MigTypes, Database
        <4>2. QED
          BY <4>1 DEF CurrentVersion
      <3>3. QED
        BY <1>4, <3>1, <3>2 DEF Validate, GiveUp, Partly, Migrating
    <2>2. CASE GiveUp
      BY <2>1, <2>2, PromiseStutters DEF GiveUp
    <2>3. CASE Commit
      <3>1. Promise!Advance \/ UNCHANGED Promise!upgradeVars
        BY <2>1, <2>3, CommitAdvances DEF Commit
      <3>2. QED
        BY <3>1 DEF Promise!UpgradeNext
    <2>4. QED
      BY <1>4, <2>2, <2>3 DEF Validate
  <1>5. CASE Up
    <2>1. disk.version = CurrentVersion /\ disk.flaws = {}
      BY <1>5 DEF Up, MigIInv, OpenInv
    <2>2. Promise!Serve
      BY <1>5, <2>1 DEF Up, Promise!Serve
    <2>3. QED
      BY <2>2 DEF Promise!UpgradeNext
  <1>6. CASE Exit \/ Crash
    <2>1. Promise!Stop
      BY <1>6 DEF Exit, Crash, GoDown, Promise!Stop
    <2>2. QED
      BY <2>1 DEF Promise!UpgradeNext
  <1>7. CASE Fault
    BY <1>7, PromiseStutters DEF Fault, GiveUp
  <1>8. CASE Mend
    <2>1. PICK f \in disk.flaws : disk' = [disk EXCEPT !.flaws = @ \ {f}]
      BY <1>8 DEF Mend
    <2>2. disk'.version = disk.version /\ disk'.flaws = disk.flaws \ {f}
      BY <2>1 DEF MigIInv, MigTypes, Database
    <2>3. Promise!Correct
      BY <1>8, <2>2 DEF Mend, Promise!Correct
    <2>4. QED
      BY <2>3 DEF Promise!UpgradeNext
  <1>9. CASE UNCHANGED migVars
    BY <1>9 DEF migVars, Promise!upgradeVars
  <1>10. QED
    BY <1>1, <1>2, <1>3, <1>4, <1>5, <1>6, <1>7, <1>8, <1>9 DEF MigNext

\* bootstrap implements the upgrade that AtomicUpgrade promises: versions and repairs
\* reach the disk together, and only a sound database is served.
THEOREM UpgradesAreAtomic == FrontendSpec => Upgrades
  <1>1. FrontendInit => Promise!UpgradeInit
    <2> SUFFICES ASSUME FrontendInit PROVE Promise!UpgradeInit
      OBVIOUS
    <2>1. MigIInv /\ stage = "down"
      BY MigInitIInv DEF FrontendInit, MigInit
    <2>2. QED
      BY <2>1 DEF Promise!UpgradeInit, MigIInv, MigTypes, Database
  <1>2. MigIInv /\ [FrontendNext]_<<migVars, dlgVars, vars, part>> => [Promise!UpgradeNext]_Promise!upgradeVars
    <2>1. [FrontendNext]_<<migVars, dlgVars, vars, part>> => [MigNext]_migVars
      BY DEF FrontendNext
    <2>2. QED
      BY <2>1, StepIsPromised
  <1>3. QED
    BY MigAlways, <1>1, <1>2, PTL DEF FrontendSpec, Upgrades, Promise!UpgradeSpec

--------------------------------------------------------------------------------
(* The dialogs of a chat (ChatDialogs).                                      *)

Kinds == {"user", "admin", "note", "fp", "announce"}
DialogSteps ==
    {"none", "type", "note", "option", "option text", "expiry", "days", "text", "message", "time",
     "confirming"}
Dialogs == (Kinds \union {"none"}) \X DialogSteps
AnswerType == [Fields -> KeyTypes \union Owners \union OldKeys \union {"given", Nothing}]
AskingStep == [do : {"step"}, to : {"user", "admin"} \X {"option", "expiry"}]
ShowType == [do : {"show"}]
ConfirmType == [do : {"confirm"}, kind : {"admin", "note"}, data : AnswerType]
PressType ==
    [at : {"free", "sent", "taken"}, kind : Kinds \union {"none"}, from : Dialogs,
     data : AnswerType, slow : BOOLEAN]

\* The types of the state.
DlgTypes ==
    /\ dialog \in Dialogs /\ answers \in AnswerType /\ \A f \in Fields : answers[f] \in Choices[f] \union {Nothing}
    /\ busy = Nothing \/ busy \in AskingStep \union ShowType \union ConfirmType
    /\ press \in [Presses -> PressType] /\ hot \subseteq {"create", "announce"} /\ given \in 0..MaxAnswers

\* A handler between its parts has no confirmation beside it, and shows or confirms what was answered or wiped.
BusyInv ==
    busy # Nothing =>
        /\ \A p \in Presses : press[p].at = "free"
        /\ busy \in ShowType => dialog \in {NoDialog, Confirming("user")}
        /\ busy \in ConfirmType => answers \in {busy.data, Empty}

\* A confirmation in flight was pressed where the chat still is, unless the chat was wiped.
PressInv ==
    \A p \in Presses : press[p].at # "free" =>
        /\ press[p].kind # "none" /\ dialog \in {press[p].from, NoDialog}
        /\ press[p].kind \in {"user", "note", "fp"} => press[p].from = Confirming(press[p].kind)
        /\ press[p].kind = "announce" => press[p].from \in {Confirming("announce"), <<"announce", "time">>}
        /\ press[p].at = "taken" => press[p].kind \in {"user", "admin"}

\* A wiped chat has no answers; one that waits for a confirmation has shown what it would confirm.
ChatInv ==
    /\ dialog = NoDialog => answers = Empty
    /\ busy = Nothing => \A kind \in Kinds :
           dialog = Confirming(kind) \/ (kind = "announce" /\ dialog = <<"announce", "time">>) =>
               shown = Says(kind, answers) \/ answers = Empty

\* What a confirmation took is what was shown, until the rate limit is spent.
TakenInv ==
    \A p \in Presses :
        press[p].at = "taken" /\ press[p].from = Confirming(press[p].kind) /\ ~press[p].slow =>
            shown = Says(press[p].kind, press[p].data) \/ press[p].data = Empty \/ "create" \in hot

\* The inductive invariant of the dialogs.
DlgIInv == DlgTypes /\ BusyInv /\ PressInv /\ ChatInv /\ TakenInv

\* Where a question waits for its answer.
Asking == Dialogs \ ({Confirming(kind) : kind \in Kinds} \union {NoDialog, <<"announce", "time">>})

\* Every answer that has been given is one of the choices.
AnswersTyped(a) == a \in AnswerType /\ \A f \in Fields : a[f] \in Choices[f] \union {Nothing}

\* Setting one answer to a choice keeps them so.
LEMMA SetTyped ==
    ASSUME DlgTypes, NEW f \in Fields, NEW v \in Choices[f], Set(f, v)
    PROVE  AnswersTyped(answers')
  <1>1. v \in KeyTypes \union Owners \union OldKeys \union {"given", Nothing}
    BY DEF Choices, Fields
  <1>2. answers' = [answers EXCEPT ![f] = v] /\ answers \in AnswerType
    BY DEF Set, DlgTypes
  <1>3. answers' \in AnswerType
    BY <1>1, <1>2 DEF AnswerType
  <1>4. \A g \in Fields : answers'[g] = IF g = f THEN v ELSE answers[g]
    BY <1>2 DEF AnswerType
  <1>5. QED
    BY <1>3, <1>4 DEF AnswersTyped, DlgTypes

\* So are no answers.
LEMMA EmptyTyped == AnswersTyped(Empty)
  BY DEF AnswersTyped, AnswerType, Empty

\* What can be chosen for each question.
LEMMA ChoicesAre ==
    /\ "owner" \in Fields /\ "type" \in Fields /\ "note" \in Fields /\ "option" \in Fields /\ "expires" \in Fields
    /\ "key" \in Fields /\ "message" \in Fields
    /\ Choices["owner"] = Owners /\ Choices["type"] = KeyTypes /\ Choices["key"] = OldKeys
    /\ Choices["note"] = {"given"} /\ Choices["option"] = {"given"} /\ Choices["expires"] = {"given"}
    /\ Choices["message"] = {"given"}
  BY DEF Fields, Choices

\* Where the chat may be.
LEMMA DialogsAre ==
    /\ NoDialog \in Dialogs /\ NoDialog \notin Asking /\ \A kind \in Kinds : Confirming(kind) \in Dialogs
    /\ \A kind \in {"user", "admin"}, s \in {"note", "option", "option text", "expiry", "days"} : <<kind, s>> \in Asking
    /\ <<"admin", "type">> \in Asking /\ <<"note", "text">> \in Asking /\ <<"announce", "message">> \in Asking
    /\ <<"announce", "time">> \in Dialogs /\ Asking \subseteq Dialogs
    /\ \A kind \in Kinds : Confirming(kind) # NoDialog /\ Confirming(kind) # <<"announce", "time">>
    /\ \A k1, k2 \in Kinds : Confirming(k1) = Confirming(k2) => k1 = k2
    /\ <<"announce", "time">> # NoDialog
  <1>1. /\ NoDialog \in Dialogs /\ \A kind \in Kinds : Confirming(kind) \in Dialogs
        /\ <<"announce", "time">> \in Dialogs /\ Asking \subseteq Dialogs
    BY DEF NoDialog, Dialogs, DialogSteps, Kinds, Confirming, Asking
  <1>2. /\ \A kind \in Kinds : Confirming(kind) # NoDialog /\ Confirming(kind) # <<"announce", "time">>
        /\ \A k1, k2 \in Kinds : Confirming(k1) = Confirming(k2) => k1 = k2
        /\ <<"announce", "time">> # NoDialog
    BY DEF NoDialog, Confirming
  <1>3. ASSUME NEW kind \in Kinds, NEW s \in DialogSteps \ {"none", "confirming", "time"}
        PROVE  <<kind, s>> \in Asking
    BY <1>3 DEF Asking, Dialogs, Confirming, NoDialog
  <1>4. NoDialog \notin Asking
    BY DEF Asking
  <1>5. \A kind \in {"user", "admin"}, s \in {"note", "option", "option text", "expiry", "days"} : <<kind, s>> \in Asking
    BY <1>3 DEF Kinds, DialogSteps
  <1>6. <<"admin", "type">> \in Asking /\ <<"note", "text">> \in Asking /\ <<"announce", "message">> \in Asking
    BY <1>3 DEF Kinds, DialogSteps
  <1>7. QED
    BY <1>1, <1>2, <1>4, <1>5, <1>6

\* What an answer does to the chat.
Moves ==
    \/ dialog' = NoDialog /\ answers' = Empty /\ busy' = Nothing /\ UNCHANGED shown
    \/ dialog' \in Asking /\ busy' = Nothing /\ UNCHANGED shown
    \/ dialog' \in Asking /\ busy' \in AskingStep /\ UNCHANGED shown
    \/ dialog' = Confirming("user") /\ busy' \in ShowType /\ busy' # Nothing /\ UNCHANGED shown
    \/ dialog' \in Asking /\ busy' \in ConfirmType /\ busy'.data = answers' /\ UNCHANGED shown
    \/ \E kind \in {"fp", "announce"} : dialog' = Confirming(kind) /\ busy' = Nothing /\ shown' = Says(kind, answers')
    \/ /\ dialog = Confirming("announce") /\ dialog' = <<"announce", "time">>
       /\ UNCHANGED <<answers, busy, shown>>

\* What any answer does: it asks the next question, shows what was chosen, or waits
\* for a helper.
LEMMA AnswerMoves ==
    ASSUME DlgTypes, Answer
    PROVE  /\ busy = Nothing /\ (\A p \in Presses : press[p].at = "free") /\ UNCHANGED <<press, hot>>
           /\ given' \in 0..MaxAnswers /\ AnswersTyped(answers') /\ Moves
  <1>1. ASSUME Answering
        PROVE  /\ busy = Nothing /\ (\A p \in Presses : press[p].at = "free") /\ UNCHANGED <<press, hot>>
               /\ given' \in 0..MaxAnswers
    BY <1>1, DialogsAssumption DEF Answering, DlgTypes
  <1>2. ASSUME NEW f \in Fields, NEW v \in Choices[f], Set(f, v) PROVE AnswersTyped(answers')
    BY <1>2, SetTyped
  <1>3. answers' = answers => AnswersTyped(answers')
    BY DEF DlgTypes, AnswersTyped
  <1>4. answers' = Empty => AnswersTyped(answers')
    BY EmptyTyped
  <1> DEFINE Goal == Answering /\ AnswersTyped(answers') /\ Moves
  <1>10. ASSUME ChooseType PROVE Goal
    BY <1>1, <1>2, <1>10, DialogsAre, ChoicesAre DEF ChooseType, Moves, Answering
  <1>11. ASSUME ChooseUser PROVE Goal
    BY <1>1, <1>2, <1>11, DialogsAre, ChoicesAre DEF ChooseUser, Moves, Answering
  <1>12. ASSUME ChooseTypeFor PROVE Goal
    BY <1>1, <1>2, <1>4, <1>12, DialogsAre, ChoicesAre DEF ChooseTypeFor, Moves, Answering
  <1>13. ASSUME ShowTransports PROVE Goal
    BY <1>1, <1>4, <1>13, DialogsAre, ChoicesAre DEF ShowTransports, Moves, Answering
  <1>14. ASSUME NEW kind \in {"user", "admin"}, NoteGiven(kind) PROVE Goal
    BY <1>1, <1>2, <1>14, DialogsAre, ChoicesAre DEF NoteGiven, Moves, AskingStep
  <1>15. ASSUME NEW kind \in {"user", "admin"}, OptionChosen(kind) PROVE Goal
    BY <1>1, <1>2, <1>15, DialogsAre, ChoicesAre DEF OptionChosen, Moves, Answering
  <1>16. ASSUME NEW kind \in {"user", "admin"}, TextAsked(kind) PROVE Goal
    <2>1. Answering /\ dialog' \in {<<kind, "option text">>, <<kind, "days">>} /\ UNCHANGED <<answers, busy, shown>>
      <3>1. PICK step \in {<<"option", "option text">>, <<"expiry", "days">>} :
               /\ Answering /\ dialog = <<kind, step[1]>>
               /\ dialog' = <<kind, step[2]>>
               /\ UNCHANGED <<answers, busy, shown>>
        BY <1>16, Zenon DEF TextAsked
      <3>2. CASE step = <<"option", "option text">>
        BY <3>1, <3>2
      <3>3. CASE step = <<"expiry", "days">>
        BY <3>1, <3>3
      <3>4. QED
        BY <3>2, <3>3, Zenon
    <2>2. dialog' \in Asking
      BY <2>1, DialogsAre
    <2>3. QED
      BY <1>1, <1>3, <2>1, <2>2 DEF Moves
  <1>17. ASSUME NEW kind \in {"user", "admin"}, OptionGiven(kind) PROVE Goal
    BY <1>1, <1>2, <1>17, DialogsAre, ChoicesAre DEF OptionGiven, Moves, AskingStep
  <1>18. ASSUME GiveExpiry PROVE Goal
    BY <1>1, <1>2, <1>18, DialogsAre, ChoicesAre, DialogsAssumption DEF GiveExpiry, Moves, ShowType
  <1>19. ASSUME GiveExpiryFor PROVE Goal
    <2>1. Answering /\ UNCHANGED shown /\ dialog \in Asking /\ busy = Nothing
      BY <1>19, DialogsAre DEF GiveExpiryFor, Answering
    <2>2. CASE Set("expires", "given") /\ UNCHANGED dialog /\ busy' = [do |-> "confirm", kind |-> "admin", data |-> answers']
      <3>1. AnswersTyped(answers')
        BY <1>2, <2>2, ChoicesAre
      <3>2. busy' \in ConfirmType /\ busy'.data = answers'
        BY <2>2, <3>1 DEF ConfirmType, AnswersTyped
      <3>3. QED
        BY <2>1, <2>2, <3>1, <3>2 DEF Moves
    <2>3. CASE dialog' = NoDialog /\ answers' = Empty /\ UNCHANGED busy
      BY <1>4, <2>1, <2>3 DEF Moves
    <2>4. CASE Set("expires", "given") /\ UNCHANGED <<dialog, busy>>
      BY <1>2, <2>1, <2>4, ChoicesAre DEF Moves
    <2>5. QED
      BY <1>19, <2>2, <2>3, <2>4 DEF GiveExpiryFor
  <1>20. ASSUME AskNote PROVE Goal
    BY <1>1, <1>2, <1>20, DialogsAre, ChoicesAre DEF AskNote, Moves, Answering
  <1>21. ASSUME EditNote PROVE Goal
    <2>1. Answering /\ UNCHANGED shown /\ dialog \in Asking /\ busy = Nothing
      BY <1>21, DialogsAre DEF EditNote, Answering
    <2>2. CASE Set("note", "given") /\ UNCHANGED dialog /\ busy' = [do |-> "confirm", kind |-> "note", data |-> answers']
      <3>1. AnswersTyped(answers')
        BY <1>2, <2>2, ChoicesAre
      <3>2. busy' \in ConfirmType /\ busy'.data = answers'
        BY <2>2, <3>1 DEF ConfirmType, AnswersTyped
      <3>3. QED
        BY <2>1, <2>2, <3>1, <3>2 DEF Moves
    <2>3. CASE dialog' = NoDialog /\ answers' = Empty /\ UNCHANGED busy
      BY <1>4, <2>1, <2>3 DEF Moves
    <2>4. QED
      BY <1>21, <2>2, <2>3 DEF EditNote
  <1>22. ASSUME AskFingerprint PROVE Goal
    BY <1>1, <1>2, <1>22, DialogsAre, ChoicesAre DEF AskFingerprint, Moves, Answering
  <1>23. ASSUME Announce PROVE Goal
    BY <1>1, <1>4, <1>23, DialogsAre, ChoicesAre DEF Announce, Moves, Answering
  <1>24. ASSUME GiveMessage PROVE Goal
    BY <1>1, <1>2, <1>24, DialogsAre, ChoicesAre DEF GiveMessage, Moves, Answering
  <1>25. ASSUME AskTime PROVE Goal
    BY <1>1, <1>3, <1>25, DialogsAre, ChoicesAre DEF AskTime, Moves, Answering
  <1>26. Goal
    BY <1>10, <1>11, <1>12, <1>13, <1>14, <1>15, <1>16, <1>17, <1>18, <1>19, <1>20, <1>21, <1>22, <1>23, <1>24, <1>25
       DEF Answer, GiveNote, GiveNoteFor, ChooseOption, ChooseOptionFor, AskForText, AskForTextFor, GiveOption,
          GiveOptionFor
  <1>27. QED
    BY <1>1, <1>26

\* An answer keeps the invariant.
LEMMA AnswerStep ==
    ASSUME DlgIInv, Answer
    PROVE  DlgIInv'
  <1>1. /\ busy = Nothing /\ (\A p \in Presses : press[p].at = "free") /\ UNCHANGED <<press, hot>>
        /\ given' \in 0..MaxAnswers /\ AnswersTyped(answers') /\ Moves
    BY AnswerMoves DEF DlgIInv
  <1>2. /\ press \in [Presses -> PressType] /\ hot \subseteq {"create", "announce"} /\ dialog \in Dialogs /\ ChatInv
    BY DEF DlgIInv, DlgTypes
  <1>3. DlgTypes'
    <2>1. dialog' \in Dialogs
      BY <1>1, DialogsAre DEF Moves, Kinds
    <2>2. busy' = Nothing \/ busy' \in AskingStep \union ShowType \union ConfirmType
      BY <1>1 DEF Moves
    <2>3. QED
      BY <1>1, <1>2, <2>1, <2>2 DEF DlgTypes, AnswersTyped
  <1>4. BusyInv'
    <2>1. AskingStep \cap ShowType = {} /\ AskingStep \cap ConfirmType = {} /\ ShowType \cap ConfirmType = {}
      BY DEF AskingStep, ShowType, ConfirmType
    <2>2. /\ busy' = Nothing \/ busy' \in AskingStep \/ (busy' \in ShowType /\ dialog' = Confirming("user"))
             \/ (busy' \in ConfirmType /\ busy'.data = answers')
      BY <1>1 DEF Moves
    <2>3. \A p \in Presses : press'[p].at = "free"
      BY <1>1
    <2>4. QED
      BY <2>1, <2>2, <2>3 DEF BusyInv
  <1>5. PressInv' /\ TakenInv'
    BY <1>1 DEF PressInv, TakenInv
  <1>6. ChatInv'
    <2>1. CASE dialog' = NoDialog /\ answers' = Empty
      BY <2>1, DialogsAre DEF ChatInv
    <2>2. CASE dialog' \in Asking
      <3>1. dialog' # NoDialog /\ dialog' # <<"announce", "time">> /\ \A kind \in Kinds : dialog' # Confirming(kind)
        BY <2>2 DEF Asking
      <3>2. QED
        BY <3>1 DEF ChatInv
    <2>3. CASE dialog' = Confirming("user") /\ busy' # Nothing
      BY <2>3, DialogsAre DEF ChatInv, Kinds
    <2>4. ASSUME NEW k \in {"fp", "announce"}, dialog' = Confirming(k), shown' = Says(k, answers') PROVE ChatInv'
      BY <2>4, DialogsAre DEF ChatInv, Kinds
    <2>5. CASE dialog = Confirming("announce") /\ dialog' = <<"announce", "time">> /\ UNCHANGED <<answers, busy, shown>>
      <3>1. shown = Says("announce", answers) \/ answers = Empty
        BY <1>1, <1>2, <2>5 DEF ChatInv, Kinds
      <3>2. QED
        BY <2>5, <3>1, DialogsAre DEF ChatInv
    <2>6. QED
      BY <1>1, <2>1, <2>2, <2>3, <2>4, <2>5 DEF Moves
  <1>7. QED
    BY <1>3, <1>4, <1>5, <1>6 DEF DlgIInv

\* The second part of a handler keeps the invariant.
LEMMA GoOnStep ==
    ASSUME DlgIInv, GoOn
    PROVE  DlgIInv'
  <1>1. busy # Nothing /\ busy' = Nothing /\ UNCHANGED <<answers, press, hot, given>>
    BY DEF GoOn
  <1>2. \A p \in Presses : press[p].at = "free"
    BY <1>1 DEF DlgIInv, BusyInv
  <1>3. busy \in AskingStep \union ShowType \union ConfirmType
    BY <1>1 DEF DlgIInv, DlgTypes
  <1>4. /\ dialog' \in Dialogs
        /\ dialog' = NoDialog => dialog = NoDialog
        /\ \A kind \in Kinds : dialog' = Confirming(kind) \/ (kind = "announce" /\ dialog' = <<"announce", "time">>) =>
               shown' = Says(kind, answers) \/ answers = Empty
    <2>1. CASE busy \in AskingStep
      <3>1. dialog' = busy.to /\ busy.to \in {"user", "admin"} \X {"option", "expiry"}
        BY <1>1, <2>1 DEF GoOn, AskingStep
      <3>2. dialog' \in Asking
        <4>1. PICK k \in {"user", "admin"}, s \in {"option", "expiry"} : busy.to = <<k, s>>
          BY <3>1
        <4>2. QED
          BY <3>1, <4>1, DialogsAre
      <3>3. QED
        BY <3>2, DialogsAre DEF Asking
    <2>2. CASE busy \in ShowType
      <3>1. shown' = Says("user", answers) /\ dialog' = dialog /\ dialog \in {NoDialog, Confirming("user")}
        BY <1>1, <2>2 DEF GoOn, ShowType, DlgIInv, BusyInv
      <3>2. "user" \in Kinds
        BY DEF Kinds
      <3>3. QED
        BY <3>1, <3>2, DialogsAre
    <2>3. CASE busy \in ConfirmType
      <3>1. dialog' = Confirming(busy.kind) /\ shown' = Says(busy.kind, busy.data) /\ answers \in {busy.data, Empty}
        BY <1>1, <2>3 DEF GoOn, ConfirmType, DlgIInv, BusyInv
      <3>2. busy.kind \in Kinds
        BY <2>3 DEF ConfirmType, Kinds
      <3>3. QED
        BY <3>1, <3>2, DialogsAre
    <2>4. QED
      BY <1>3, <2>1, <2>2, <2>3
  <1>5. DlgTypes' /\ BusyInv' /\ PressInv' /\ TakenInv'
    BY <1>1, <1>2, <1>4 DEF DlgIInv, DlgTypes, BusyInv, PressInv, TakenInv
  <1>6. ChatInv'
    BY <1>1, <1>4 DEF DlgIInv, ChatInv
  <1>7. QED
    BY <1>5, <1>6 DEF DlgIInv

\* A chat that is wiped keeps the invariant, with no press or one less in flight.
LEMMA ClearStep ==
    ASSUME DlgIInv, Clear, busy' \in {busy, Nothing}, press' \in [Presses -> PressType],
           \A p \in Presses : press'[p].at # "free" => press'[p] = press[p],
           hot' \subseteq {"create", "announce"}, given' = given,
           \A p \in Presses : press'[p].at = "taken" /\ press'[p].from = Confirming(press'[p].kind) /\ ~press'[p].slow =>
               shown' = Says(press'[p].kind, press'[p].data) \/ press'[p].data = Empty \/ "create" \in hot'
    PROVE  DlgIInv'
  <1>1. dialog' = NoDialog /\ answers' = Empty
    BY DEF Clear
  <1>2. DlgTypes'
    BY <1>1, EmptyTyped, DialogsAre DEF DlgIInv, DlgTypes, AnswersTyped
  <1>3. BusyInv'
    BY <1>1 DEF DlgIInv, BusyInv
  <1>4. PressInv'
    BY <1>1 DEF DlgIInv, PressInv
  <1>5. ChatInv'
    BY <1>1 DEF ChatInv
  <1>6. TakenInv'
    BY DEF TakenInv
  <1>7. QED
    BY <1>2, <1>3, <1>4, <1>5, <1>6 DEF DlgIInv

\* A confirmation that is not in flight is a well formed record.
NoPressTyped == NoPress \in PressType /\ NoPress.at = "free"

\* It is one.
LEMMA NoPressIsTyped == NoPressTyped
  <1>1. Empty \in AnswerType /\ NoDialog \in Dialogs
    BY EmptyTyped, DialogsAre DEF AnswersTyped
  <1>2. QED
    BY <1>1 DEF NoPressTyped, NoPress, PressType

\* A confirmation that is over leaves the others as they are.
LEMMA Dropped ==
    ASSUME DlgIInv, NEW p \in Presses, Drop(p)
    PROVE  /\ press' \in [Presses -> PressType] /\ press'[p].at = "free"
           /\ \A q \in Presses : press'[q].at # "free" => q # p /\ press'[q] = press[q]
  <1>1. press' = [press EXCEPT ![p] = NoPress] /\ press \in [Presses -> PressType]
    BY DEF Drop, DlgIInv, DlgTypes
  <1>2. QED
    BY <1>1, NoPressIsTyped DEF NoPressTyped

\* With answers to act on, no press of another dialog took what was shown.
LEMMA OnlyOne ==
    ASSUME DlgIInv, NEW p \in Presses, NEW q \in Presses, answers # Empty,
           press[p].at # "free", press[p].kind \in {"note", "fp", "announce"},
           press[q].at = "taken", press[q].from = Confirming(press[q].kind)
    PROVE  FALSE
  <1>1. dialog # NoDialog
    BY DEF DlgIInv, ChatInv
  <1>2. dialog = press[p].from /\ dialog = press[q].from /\ press[q].kind \in {"user", "admin"}
    BY <1>1 DEF DlgIInv, PressInv
  <1>3. press[p].from \in {Confirming("note"), Confirming("fp"), Confirming("announce"), <<"announce", "time">>}
    BY DEF DlgIInv, PressInv
  <1>4. QED
    BY <1>2, <1>3, DialogsAre DEF Kinds

\* What a note, a fingerprint or an announcement that is acted on leaves.
LEMMA ActStep ==
    ASSUME DlgIInv, NEW p \in Presses, NEW kind \in {"note", "fp", "announce"}, Sent(p, kind), answers # Empty, Act(p),
           hot' \subseteq {"create", "announce"}
    PROVE  DlgIInv'
  <1>1. Clear /\ Drop(p) /\ busy' = busy /\ given' = given /\ press[p].at = "sent" /\ press[p].kind = kind
    BY DEF Act, Drop, Sent
  <1>2. /\ press' \in [Presses -> PressType]
        /\ \A q \in Presses : press'[q].at # "free" => press'[q] = press[q]
    BY <1>1, Dropped
  <1>3. ASSUME NEW q \in Presses, press'[q].at = "taken", press'[q].from = Confirming(press'[q].kind)
        PROVE  FALSE
    BY <1>1, <1>2, <1>3, OnlyOne
  <1>4. QED
    BY <1>1, <1>2, <1>3, ClearStep

\* What a key that is made leaves.
LEMMA MadeStep ==
    ASSUME DlgIInv, NEW p \in Presses, PassesLimit, Act(p), UNCHANGED <<busy, given>>
    PROVE  DlgIInv'
  <1>1. Clear /\ Drop(p) /\ hot' = hot \union {"create"}
    BY DEF Act, Drop, PassesLimit
  <1>2. /\ press' \in [Presses -> PressType]
        /\ \A q \in Presses : press'[q].at # "free" => press'[q] = press[q]
    BY <1>1, Dropped
  <1>3. hot' \subseteq {"create", "announce"}
    BY <1>1 DEF DlgIInv, DlgTypes
  <1>4. QED
    BY <1>1, <1>2, <1>3, ClearStep

\* What a press that does nothing leaves, in a chat it clears.
LEMMA LeaveStep ==
    ASSUME DlgIInv, NEW p \in Presses, Clear, Drop(p), UNCHANGED <<busy, given, shown>>,
           hot' = hot \/ hot' = hot \union {"create"}
    PROVE  DlgIInv'
  <1>1. /\ press' \in [Presses -> PressType]
        /\ \A q \in Presses : press'[q].at # "free" => press'[q] = press[q]
    BY Dropped
  <1>2. hot' \subseteq {"create", "announce"}
    BY DEF DlgIInv, DlgTypes
  <1>3. ASSUME NEW q \in Presses, press'[q].at = "taken", press'[q].from = Confirming(press'[q].kind), ~press'[q].slow
        PROVE  shown' = Says(press'[q].kind, press'[q].data) \/ press'[q].data = Empty \/ "create" \in hot'
    BY <1>1, <1>3 DEF DlgIInv, TakenInv
  <1>4. QED
    BY <1>1, <1>2, <1>3, ClearStep

\* What it leaves in a chat it does not touch.
LEMMA DropStep ==
    ASSUME DlgIInv, NEW p \in Presses, Drop(p), UNCHANGED <<busy, given, dialog, answers, hot, shown>>
    PROVE  DlgIInv'
  <1>1. /\ press' \in [Presses -> PressType]
        /\ \A q \in Presses : press'[q].at # "free" => press'[q] = press[q]
    BY Dropped
  <1>2. DlgTypes' /\ ChatInv'
    BY <1>1 DEF DlgIInv, DlgTypes, ChatInv
  <1>3. BusyInv'
    BY <1>1 DEF DlgIInv, BusyInv
  <1>4. PressInv'
    BY <1>1 DEF DlgIInv, PressInv
  <1>5. TakenInv'
    BY <1>1 DEF DlgIInv, TakenInv
  <1>6. QED
    BY <1>2, <1>3, <1>4, <1>5 DEF DlgIInv

\* A confirmation is pressed where the chat is.
LEMMA PressStep ==
    ASSUME DlgIInv, NEW p \in Presses, Press(p)
    PROVE  DlgIInv'
  <1>1. PICK kind \in Kinds :
            /\ Free(p) /\ busy = Nothing /\ Accepts(kind)
            /\ press' = [press EXCEPT ![p] = [at |-> "sent", kind |-> kind, from |-> dialog, data |-> Empty, slow |-> FALSE]]
            /\ UNCHANGED <<dialog, answers, busy, hot, shown, given>>
    BY DEF Press, Kinds
  <1> DEFINE new == [at |-> "sent", kind |-> kind, from |-> dialog, data |-> Empty, slow |-> FALSE]
  <1>2. press \in [Presses -> PressType] /\ new \in PressType
    BY EmptyTyped DEF DlgIInv, DlgTypes, PressType, AnswersTyped
  <1>3. new.at = "sent" /\ new.kind = kind /\ new.from = dialog
    OBVIOUS
  <1> HIDE DEF new
  <1>4. /\ press' \in [Presses -> PressType] /\ press'[p] = new
        /\ \A q \in Presses : q # p => press'[q] = press[q]
    BY <1>1, <1>2 DEF new
  <1>5. DlgTypes' /\ ChatInv' /\ BusyInv'
    BY <1>1, <1>4 DEF DlgIInv, DlgTypes, ChatInv, BusyInv
  <1>6. PressInv'
    <2>1. /\ kind \in {"user", "note", "fp"} => dialog = Confirming(kind)
          /\ kind = "announce" => dialog \in {Confirming("announce"), <<"announce", "time">>}
          /\ kind # "none"
      BY <1>1 DEF Accepts, Kinds
    <2>2. QED
      BY <1>1, <1>3, <1>4, <2>1 DEF DlgIInv, PressInv
  <1>7. TakenInv'
    BY <1>1, <1>3, <1>4 DEF DlgIInv, TakenInv
  <1>8. QED
    BY <1>5, <1>6, <1>7 DEF DlgIInv

\* What a confirmation takes is what the chat has, which is what it showed.
LEMMA TakeStep ==
    ASSUME DlgIInv, NEW p \in Presses, Take(p)
    PROVE  DlgIInv'
  <1>1. /\ press[p].at = "sent" /\ press[p].kind \in {"user", "admin"}
        /\ press' = [press EXCEPT ![p].at = "taken", ![p].data = answers]
        /\ UNCHANGED <<dialog, answers, busy, hot, shown, given>>
    BY DEF Take
  <1>2. press \in [Presses -> PressType] /\ answers \in AnswerType
    BY DEF DlgIInv, DlgTypes
  <1>3. /\ press' \in [Presses -> PressType] /\ \A q \in Presses : q # p => press'[q] = press[q]
        /\ press'[p].at = "taken" /\ press'[p].data = answers /\ press'[p].from = press[p].from
        /\ press'[p].kind = press[p].kind
    BY <1>1, <1>2 DEF PressType
  <1>4. DlgTypes' /\ ChatInv'
    BY <1>1, <1>3 DEF DlgIInv, DlgTypes, ChatInv
  <1>5. busy = Nothing
    BY <1>1 DEF DlgIInv, BusyInv
  <1>6. BusyInv'
    BY <1>1, <1>5 DEF BusyInv
  <1>7. PressInv'
    BY <1>1, <1>3 DEF DlgIInv, PressInv
  <1>8. TakenInv'
    <2>1. press[p].from = Confirming(press[p].kind) => shown = Says(press[p].kind, answers) \/ answers = Empty
      <3>1. dialog \in {press[p].from, NoDialog} /\ (dialog = NoDialog => answers = Empty)
        BY <1>1 DEF DlgIInv, PressInv, ChatInv
      <3>2. press[p].kind \in Kinds
        BY <1>1 DEF Kinds
      <3>3. QED
        BY <1>5, <3>1, <3>2 DEF DlgIInv, ChatInv
    <2>2. QED
      BY <1>1, <1>3, <2>1 DEF DlgIInv, TakenInv
  <1>9. QED
    BY <1>4, <1>6, <1>7, <1>8 DEF DlgIInv

\* A rate limit that passes makes what is in flight slow.
LEMMA CoolStep ==
    ASSUME DlgIInv, Cool
    PROVE  DlgIInv'
  <1>1. /\ hot' \subseteq hot
        /\ press' = [p \in Presses |-> IF Free(p) THEN press[p] ELSE [press[p] EXCEPT !.slow = TRUE]]
        /\ UNCHANGED <<dialog, answers, busy, shown, given>>
    BY DEF Cool
  <1>2. press \in [Presses -> PressType]
    BY DEF DlgIInv, DlgTypes
  <1>3. ASSUME NEW p \in Presses
        PROVE  /\ press'[p] \in PressType /\ press'[p].at = press[p].at /\ press'[p].kind = press[p].kind
               /\ press'[p].from = press[p].from /\ (press[p].at # "free" => press'[p].slow)
    BY <1>1, <1>2 DEF PressType, Free
  <1>4. press' \in [Presses -> PressType]
    BY <1>1, <1>3
  <1>5. DlgTypes' /\ ChatInv'
    BY <1>1, <1>4 DEF DlgIInv, DlgTypes, ChatInv
  <1>6. BusyInv' /\ PressInv'
    BY <1>1, <1>3 DEF DlgIInv, BusyInv, PressInv
  <1>7. TakenInv'
    BY <1>3 DEF TakenInv
  <1>8. QED
    BY <1>5, <1>6, <1>7 DEF DlgIInv

\* The chat has no answers before a question.
LEMMA DlgInitIInv == DlgInit => DlgIInv
  <1> SUFFICES ASSUME DlgInit PROVE DlgIInv
    OBVIOUS
  <1>1. /\ dialog = NoDialog /\ answers = Empty /\ busy = Nothing /\ press = [p \in Presses |-> NoPress]
        /\ hot = {} /\ given = 0
    BY DEF DlgInit
  <1>2. DlgTypes
    <2>1. dialog \in Dialogs /\ AnswersTyped(answers) /\ hot \subseteq {"create", "announce"}
      BY <1>1, EmptyTyped, DialogsAre
    <2>2. press \in [Presses -> PressType]
      BY <1>1, NoPressIsTyped DEF NoPressTyped
    <2>3. given \in 0..MaxAnswers
      BY <1>1, DialogsAssumption
    <2>4. QED
      BY <1>1, <2>1, <2>2, <2>3 DEF DlgTypes, AnswersTyped
  <1>3. \A p \in Presses : press[p].at = "free"
    BY <1>1, NoPressIsTyped DEF NoPressTyped
  <1>4. BusyInv /\ ChatInv
    BY <1>1 DEF BusyInv, ChatInv
  <1>5. PressInv /\ TakenInv
    BY <1>3 DEF PressInv, TakenInv
  <1>6. QED
    BY <1>2, <1>4, <1>5 DEF DlgIInv

\* Every step of a chat keeps the invariant.
LEMMA DlgStepIInv == DlgIInv /\ [DlgNext]_dlgVars => DlgIInv'
  <1> SUFFICES ASSUME DlgIInv, [DlgNext]_dlgVars PROVE DlgIInv'
    OBVIOUS
  <1>1. CASE Answer
    BY <1>1, AnswerStep
  <1>2. CASE GoOn
    BY <1>2, GoOnStep
  <1>3. press \in [Presses -> PressType] /\ hot \subseteq {"create", "announce"}
    BY DEF DlgIInv, DlgTypes
  <1>4. CASE Wipe
    <2>1. Clear /\ UNCHANGED <<busy, press, hot, shown, given>>
      BY <1>4 DEF Wipe
    <2>2. ASSUME NEW p \in Presses, press'[p].at = "taken", press'[p].from = Confirming(press'[p].kind), ~press'[p].slow
          PROVE  shown' = Says(press'[p].kind, press'[p].data) \/ press'[p].data = Empty \/ "create" \in hot'
      BY <2>1, <2>2 DEF DlgIInv, TakenInv
    <2>3. QED
      BY <1>3, <2>1, <2>2, ClearStep
  <1>5. CASE RestartBot
    <2>1. /\ Clear /\ busy' = Nothing /\ press' = [p \in Presses |-> NoPress] /\ hot' = {} /\ given' = given
      BY <1>5 DEF RestartBot
    <2>2. press' \in [Presses -> PressType] /\ \A p \in Presses : press'[p].at = "free"
      BY <2>1, NoPressIsTyped DEF NoPressTyped
    <2>3. QED
      BY <2>1, <2>2, ClearStep
  <1>6. CASE Cool
    BY <1>6, CoolStep
  <1>7. ASSUME NEW p \in Presses, Press(p) PROVE DlgIInv'
    BY <1>7, PressStep
  <1>8. "key" \in Fields /\ "message" \in Fields /\ \A f \in Fields : Empty[f] = Nothing
    BY DEF Fields, Empty
  <1>9. ASSUME NEW p \in Presses, ConfirmNote(p) \/ SelectFingerprint(p) PROVE DlgIInv'
    <2>1. CASE NoteChanged(p)
      <3>1. Sent(p, "note") /\ answers # Empty /\ Act(p) /\ hot' = hot
        BY <1>8, <2>1 DEF NoteChanged
      <3>2. QED
        BY <1>3, <3>1, ActStep
    <2>2. CASE FingerprintChanged(p)
      <3>1. Sent(p, "fp") /\ answers # Empty /\ Act(p) /\ hot' = hot
        BY <1>8, <2>2 DEF FingerprintChanged
      <3>2. QED
        BY <1>3, <3>1, ActStep
    <2>3. CASE (Sent(p, "note") \/ Sent(p, "fp")) /\ Leave(p)
      BY <2>3, LeaveStep DEF Leave, Sent
    <2>4. QED
      BY <1>9, <2>1, <2>2, <2>3 DEF ConfirmNote, SelectFingerprint
  <1>10. ASSUME NEW p \in Presses, SendAnnouncement(p) \/ ScheduleAnnouncement(p) PROVE DlgIInv'
    <2>1. CASE AnnouncementSent(p)
      <3>1. Sent(p, "announce") /\ answers # Empty /\ Act(p) /\ hot' = hot \union {"announce"}
        BY <1>8, <2>1 DEF AnnouncementSent
      <3>2. hot' \subseteq {"create", "announce"}
        BY <1>3, <3>1
      <3>3. QED
        BY <3>1, <3>2, ActStep
    <2>2. CASE AnnouncementScheduled(p)
      <3>1. Sent(p, "announce") /\ answers # Empty /\ Act(p) /\ hot' = hot
        BY <1>8, <2>2 DEF AnnouncementScheduled
      <3>2. QED
        BY <1>3, <3>1, ActStep
    <2>3. CASE Sent(p, "announce") /\ Leave(p)
      BY <2>3, LeaveStep DEF Leave, Sent
    <2>4. CASE Sent(p, "announce") /\ Drop(p) /\ UNCHANGED <<dialog, answers, hot, shown>>
      BY <2>4, DropStep DEF Sent
    <2>5. QED
      BY <1>10, <2>1, <2>2, <2>3, <2>4 DEF SendAnnouncement, ScheduleAnnouncement
  <1>11. ASSUME NEW p \in Presses, Take(p) PROVE DlgIInv'
    BY <1>11, TakeStep
  <1>12. ASSUME NEW p \in Presses, ConfirmKey(p) \/ ConfirmKeyFor(p) PROVE DlgIInv'
    <2>1. CASE KeyMade(p)
      BY <2>1, MadeStep DEF KeyMade, Taken
    <2>2. CASE KeyMadeFor(p)
      BY <2>2, MadeStep DEF KeyMadeFor, Taken
    <2>3. CASE (Taken(p, "user") \/ Taken(p, "admin")) /\ Drop(p) /\ UNCHANGED <<dialog, answers, hot, shown>>
      BY <2>3, DropStep DEF Taken
    <2>4. CASE Taken(p, "user") /\ PassesLimit /\ Clear /\ Drop(p) /\ UNCHANGED shown
      BY <2>4, LeaveStep DEF Taken, PassesLimit
    <2>5. QED
      BY <1>12, <2>1, <2>2, <2>3, <2>4 DEF ConfirmKey, ConfirmKeyFor
  <1>13. CASE UNCHANGED dlgVars
    BY <1>13 DEF dlgVars, DlgIInv, DlgTypes, BusyInv, PressInv, ChatInv, TakenInv
  <1>14. QED
    BY <1>1, <1>2, <1>4, <1>5, <1>6, <1>7, <1>9, <1>10, <1>11, <1>12, <1>13 DEF DlgNext

\* The chat's invariant, in a behaviour of any of the three modules.
LEMMA DlgAlways == FrontendSpec => []DlgIInv
  <1>1. FrontendInit => DlgIInv
    BY DlgInitIInv DEF FrontendInit
  <1>2. DlgIInv /\ [FrontendNext]_<<migVars, dlgVars, vars, part>> => DlgIInv'
    <2>1. [FrontendNext]_<<migVars, dlgVars, vars, part>> => [DlgNext]_dlgVars
      BY DEF FrontendNext
    <2>2. QED
      BY <2>1, DlgStepIInv
  <1>3. QED
    BY <1>1, <1>2, PTL DEF FrontendSpec

\* The dialogs of bot/handlers, for any number of presses and answers: what is made, changed
\* or sent on a press is what the chat was last shown, whatever was wiped or pressed before.
THEOREM PressesDoAsShown == FrontendSpec => ActsAreAsShown
  <1>1. DlgIInv => \A p \in Presses : DoneAsShown(p)
    <2> SUFFICES ASSUME DlgIInv, NEW p \in Presses PROVE DoneAsShown(p)
      OBVIOUS
    <2>1. "key" \in Fields /\ "message" \in Fields /\ "type" \in Fields /\ "owner" \in Fields
          /\ \A f \in Fields : Empty[f] = Nothing
      BY DEF Fields, Empty
    <2>2. ASSUME press[p].at = "sent", answers # Empty, press[p].kind \in {"note", "fp", "announce"}
          PROVE  shown = Says(press[p].kind, answers)
      <3>1. dialog = press[p].from
        BY <2>2 DEF DlgIInv, PressInv, ChatInv
      <3>2. busy = Nothing
        BY <2>2 DEF DlgIInv, BusyInv
      <3>3. press[p].kind \in Kinds
        BY <2>2 DEF Kinds
      <3>4. \/ dialog = Confirming(press[p].kind)
            \/ press[p].kind = "announce" /\ dialog = <<"announce", "time">>
        BY <2>2, <3>1 DEF DlgIInv, PressInv
      <3>5. QED
        BY <2>2, <3>2, <3>3, <3>4 DEF DlgIInv, ChatInv
    <2>3. NoteChanged(p) \/ FingerprintChanged(p) \/ AnnouncementSent(p) \/ AnnouncementScheduled(p) =>
              shown = Says(press[p].kind, answers)
      BY <2>1, <2>2 DEF NoteChanged, FingerprintChanged, AnnouncementSent, AnnouncementScheduled, Sent
    <2>4. ASSUME KeyMade(p) \/ KeyMadeFor(p), press[p].from = Confirming(press[p].kind)
          PROVE  \/ press[p].slow
                 \/ press[p].kind = "admin" /\ press[p].data.owner = Nothing
                 \/ shown = Says(press[p].kind, press[p].data)
      <3>1. press[p].at = "taken" /\ "create" \notin hot
        BY <2>4 DEF KeyMade, KeyMadeFor, Taken, PassesLimit
      <3>2. press[p].data = Empty => press[p].data["type"] = Nothing /\ press[p].data["owner"] = Nothing
        BY <2>1
      <3>3. press[p].data = Empty => press[p].kind = "admin"
        BY <2>4, <3>2 DEF KeyMade, KeyMadeFor, Taken
      <3>4. QED
        BY <2>4, <3>1, <3>2, <3>3 DEF DlgIInv, TakenInv
    <2>5. QED
      BY <2>3, <2>4 DEF DoneAsShown
  <1>2. DlgIInv /\ [FrontendNext]_<<migVars, dlgVars, vars, part>> => [\A p \in Presses : DoneAsShown(p)]_dlgVars
    BY <1>1
  <1>3. QED
    BY DlgAlways, <1>2, PTL DEF FrontendSpec, ActsAreAsShown

--------------------------------------------------------------------------------
(* The trial requests (TrialAccess).                                         *)

LockPoints == {"create", "mark", "refuse"}

\* who decides holds the lock, and the request it read is still pending
DecisionInv ==
  /\ \A a \in Admins : pc[a] # "idle" => req[a] \in Requests
  /\ \A a \in Admins : pc[a] \in LockPoints => lock = a /\ status[req[a]] = "pending"

Marking(r) == \E a \in Admins : pc[a] = "mark" /\ req[a] = r

\* the keys of a request, in each of its statuses
IssuedInv ==
  \A r \in Requests \ hurt :
    /\ status[r] \in {"none", "rejected"} => issued[r] = 0
    /\ status[r] = "approved" => issued[r] = 1
    /\ status[r] = "pending" => issued[r] = IF Marking(r) THEN 1 ELSE 0

\* no request is later than the present
QuotaInv == /\ \A r \in Requests : status[r] # "none" => askedAt[r] \in 0..clock
            /\ OneTrial

\* The inductive invariant of the trial requests.
IInv == TypeOK /\ DecisionInv /\ IssuedInv /\ QuotaInv

------------------------------------------------------------------------------

\* A user without requests satisfies the invariant.
LEMMA InitIInv == Init => IInv
  <1> SUFFICES ASSUME Init PROVE IInv
    OBVIOUS
  <1>1. TypeOK
    BY TrialBounds DEF Init, TypeOK, Statuses, Points
  <1>2. DecisionInv /\ IssuedInv
    BY DEF Init, DecisionInv, IssuedInv, LockPoints, Marking
  <1>3. QuotaInv
    BY DEF Init, QuotaInv, OneTrial, Counted
  <1>4. QED
    BY <1>1, <1>2, <1>3 DEF IInv

\* The type invariant, the unique index included.
LEMMA StepType ==
  ASSUME TypeOK, DecisionInv, [Next]_vars
  PROVE  TypeOK'
  <1> USE TrialBounds, TrialNone DEF TypeOK, Statuses, Points
  <1>1. ASSUME NEW r \in Requests, CreateRequest(r) PROVE TypeOK'
    BY <1>1 DEF CreateRequest, Insert, UserFrame
  <1>2. ASSUME NEW a \in Admins, NEW r \in Requests, NEW how \in {"approve", "reject"},
               Decide(a, r, how)
        PROVE  TypeOK'
    BY <1>2 DEF Decide, Goto, DecisionFrame
  <1>3. ASSUME NEW a \in Admins, DecisionStep(a) PROVE TypeOK'
    <2> USE DEF Goto, End, DecisionFrame, DecisionInv, LockPoints
    <2>1. CASE Enter(a)
      BY <2>1 DEF Enter
    <2>2. CASE AlreadyDecided(a)
      BY <2>2 DEF AlreadyDecided
    <2>3. CASE CreateKey(a)
      BY <2>3 DEF CreateKey
    <2>4. CASE CreateRaises(a)
      BY <2>4 DEF CreateRaises
    <2>5. CASE Mark(a, "mark", "approved")
      BY <2>5 DEF Mark
    <2>6. CASE Mark(a, "refuse", "rejected")
      BY <2>6 DEF Mark
    <2>7. CASE MarkRaises(a)
      BY <2>7 DEF MarkRaises
    <2>8. QED
      BY <1>3, <2>1, <2>2, <2>3, <2>4, <2>5, <2>6, <2>7 DEF DecisionStep
  <1>4. CASE Tick
    BY <1>4 DEF Tick, rowVars
  <1>5. CASE ResetQuota
    BY <1>5 DEF ResetQuota
  <1>6. CASE Restart
    <2>1. {req[a] : a \in {b \in Admins : pc[b] = "mark"}} \subseteq Requests
      BY DEF DecisionInv
    <2>2. QED
      BY <1>6, <2>1 DEF Restart, rowVars
  <1>7. CASE UNCHANGED vars
    BY <1>7 DEF vars, rowVars
  <1>8. QED
    BY <1>1, <1>2, <1>3, <1>4, <1>5, <1>6, <1>7 DEF Next

\* The lock keeps the status that Enter read, and counts the keys.
LEMMA StepDecision ==
  ASSUME TypeOK, DecisionInv, IssuedInv, [Next]_vars
  PROVE  DecisionInv' /\ IssuedInv'
  <1> USE TrialBounds, TrialNone DEF TypeOK, Statuses, Points, DecisionInv, IssuedInv, LockPoints, Marking
  <1>1. ASSUME NEW r \in Requests, CreateRequest(r) PROVE DecisionInv' /\ IssuedInv'
    BY <1>1 DEF CreateRequest, Insert, UserFrame
  <1>2. ASSUME NEW a \in Admins, NEW r \in Requests, NEW how \in {"approve", "reject"},
               Decide(a, r, how)
        PROVE  DecisionInv' /\ IssuedInv'
    BY <1>2 DEF Decide, Goto, DecisionFrame
  <1>3. ASSUME NEW a \in Admins, DecisionStep(a) PROVE DecisionInv' /\ IssuedInv'
    <2> USE DEF Goto, End, DecisionFrame
    <2>1. CASE Enter(a)
      BY <2>1 DEF Enter
    <2>2. CASE AlreadyDecided(a)
      BY <2>2 DEF AlreadyDecided
    <2>3. CASE CreateKey(a)
      BY <2>3 DEF CreateKey
    <2>4. CASE CreateRaises(a)
      BY <2>4 DEF CreateRaises
    <2>5. CASE Mark(a, "mark", "approved")
      BY <2>5 DEF Mark
    <2>6. CASE Mark(a, "refuse", "rejected")
      BY <2>6 DEF Mark
    <2>7. CASE MarkRaises(a)
      BY <2>7 DEF MarkRaises
    <2>8. QED
      BY <1>3, <2>1, <2>2, <2>3, <2>4, <2>5, <2>6, <2>7 DEF DecisionStep
  <1>4. CASE Tick
    BY <1>4 DEF Tick, rowVars
  <1>5. CASE ResetQuota
    BY <1>5 DEF ResetQuota
  <1>6. CASE Restart
    BY <1>6 DEF Restart, rowVars
  <1>7. CASE UNCHANGED vars
    BY <1>7 DEF vars, rowVars
  <1>8. QED
    BY <1>1, <1>2, <1>3, <1>4, <1>5, <1>6, <1>7 DEF Next

\* A reset counts nothing that was asked for before it; a request is made when
\* nothing is counted; a decision counts no more than before.
LEMMA StepQuota ==
  ASSUME TypeOK, DecisionInv, QuotaInv, [Next]_vars
  PROVE  QuotaInv'
  <1> USE TrialBounds, TrialNone DEF TypeOK, Statuses, QuotaInv, OneTrial, Counted
  <1>1. ASSUME NEW r \in Requests, CreateRequest(r) PROVE QuotaInv'
    BY <1>1 DEF CreateRequest, CanRequestTrial, Insert, UserFrame
  <1>2. ASSUME NEW a \in Admins, NEW r \in Requests, NEW how \in {"approve", "reject"},
               Decide(a, r, how)
        PROVE  QuotaInv'
    BY <1>2 DEF Decide, DecisionFrame
  <1>3. ASSUME NEW a \in Admins, DecisionStep(a) PROVE QuotaInv'
    BY <1>3 DEF DecisionStep, Enter, AlreadyDecided, CreateKey, CreateRaises, Mark, MarkRaises,
       DecisionFrame, DecisionInv, LockPoints
  <1>4. CASE Tick
    BY <1>4 DEF Tick, rowVars
  <1>5. CASE ResetQuota
    BY <1>5 DEF ResetQuota
  <1>6. CASE Restart
    BY <1>6 DEF Restart, rowVars
  <1>7. CASE UNCHANGED vars
    BY <1>7 DEF vars, rowVars
  <1>8. QED
    BY <1>1, <1>2, <1>3, <1>4, <1>5, <1>6, <1>7 DEF Next

\* The invariant holds in every state, by induction over the steps.
LEMMA InvariantIInv == Spec => []IInv
  <1>1. IInv /\ [Next]_vars => IInv'
    BY StepType, StepDecision, StepQuota DEF IInv
  <1>2. QED
    BY InitIInv, <1>1, PTL DEF Spec

\* Every variable keeps its type, and one request is pending at most, for any
\* number of requests and admins.
THEOREM TypeCorrect == Spec => []TypeOK
  BY InvariantIInv, PTL DEF IInv

\* For any number of admins who decide at the same time, and any crashes: one key for
\* an approved request and none for a rejected one, unless an approval was lost.
THEOREM DecisionsAreMadeOnce == Spec => []DecidedOnce
  <1>1. IInv => DecidedOnce
    BY DEF IInv, TypeOK, Statuses, IssuedInv, DecidedOnce
  <1>2. QED
    BY InvariantIInv, <1>1, PTL

\* However often the user asks and admins decide or reset, at most one request of
\* those the quota counts is pending or approved.
THEOREM OneTrialPerQuota == Spec => []OneTrial
  BY InvariantIInv, PTL DEF IInv, QuotaInv

--------------------------------------------------------------------------------
(* The three together.                                                       *)

\* The trial requests' invariant, in a behaviour of any of the three modules.
LEMMA TrialAlways == FrontendSpec => []IInv
  <1>1. FrontendInit => IInv
    BY InitIInv DEF FrontendInit
  <1>2. IInv /\ [FrontendNext]_<<migVars, dlgVars, vars, part>> => IInv'
    <2>1. [FrontendNext]_<<migVars, dlgVars, vars, part>> => [Next]_vars
      BY DEF FrontendNext
    <2>2. QED
      BY <2>1, StepType, StepDecision, StepQuota DEF IInv
  <1>3. QED
    BY <1>1, <1>2, PTL DEF FrontendSpec

\* Every variable of the upgrade, the dialogs and the trial requests keeps its type, for
\* any old versions, flaws, presses, answers, requests and admins.
THEOREM TypesOfTheFrontend == FrontendSpec => []TypesOK
  <1>1. MigIInv => MigTypeOK
    BY DEF MigIInv, MigTypes, MigTypeOK, Stages
  <1>2. DlgIInv => DlgTypeOK
    BY DEF DlgIInv, DlgTypes, DlgTypeOK, PressType
  <1>3. MigIInv /\ DlgIInv /\ IInv => TypesOK
    BY <1>1, <1>2 DEF TypesOK, IInv
  <1>4. QED
    BY MigAlways, DlgAlways, TrialAlways, <1>3, PTL
=============================================================================
