-------------------------- MODULE UserAccessProofs --------------------------
(***************************************************************************)
(* Proofs about UserAccess, for any number of keys, proxies and tasks, any *)
(* length of the listings and any number of crashes.                       *)
(***************************************************************************)
EXTENDS UserAccess, FiniteSetTheorems, WellFoundedInduction, TLAPS

CreateWork == {"row", "add", "mark", "trial_row", "trial_add", "proxy_row", "proxy_add"}
LockPoints == CreateWork \cup BlockPoints

\* the lock excludes; what a creation or a block has in its locals
LockInv ==
  /\ \A t \in Tasks : pc[t] \in LockPoints => lock = t
  /\ \A t \in Tasks : item[t] # None => pc[t] \in CreateWork
  /\ \A t \in Tasks : pc[t] = "role" => now \in 0..MaxClock

\* only a block makes a user blocked, and it excludes every creation
RoleInv == \A t \in Tasks : pc[t] \in CreateWork => role # "blocked_user"

\* a block that has come to the proxies without error has left no key
PassInv == \A t \in Tasks : pc[t] \in {"list_proxies", "proxies"} /\ ~errors
                               => live \cap Keys = {}

CleanInv == clean => role = "blocked_user" /\ live = {}

IInv == /\ TypeOK /\ IsFiniteSet(used)
        /\ LockInv /\ RoleInv /\ PassInv /\ CleanInv

------------------------------------------------------------------------------
(* The listings.                                                             *)

\* Among finitely many things, one comes before all others of a strict order.
LEMMA FirstOfFinite ==
  ASSUME NEW S, IsFiniteSet(S), S # {}, NEW R,
         \A i \in S : <<i, i>> \notin R,
         \A i, j, k \in S : <<i, j>> \in R /\ <<j, k>> \in R => <<i, k>> \in R
  PROVE  \E i \in S : \A j \in S : <<j, i>> \notin R
  <1> DEFINE Below(i) == {j \in S : <<j, i>> \in R}
             T == {Below(i) : i \in S}
  <1>1. IsWellFoundedOn(StrictSubsetOrdering(S), SUBSET S)
    BY FS_StrictSubsetOrderingWellFounded, FS_FiniteSubsetsOfFinite
  <1>2. PICK B \in T : \A C \in T : <<C, B>> \notin StrictSubsetOrdering(S)
    <2>1. \A B \in T : B \in SUBSET S
      OBVIOUS
    <2>2. PICK x \in S : TRUE
      OBVIOUS
    <2>3. Below(x) \in T
      BY <2>2
    <2> HIDE DEF T
    <2>4. QED
      BY <1>1, <2>1, <2>3, WFMin
  <1>3. PICK i \in S : B = Below(i)
    BY <1>2
  <1>4. ASSUME NEW j \in S, <<j, i>> \in R PROVE FALSE
    <2>1. Below(j) \subseteq Below(i) /\ j \in Below(i) /\ j \notin Below(j)
      BY <1>4
    <2>2. <<Below(j), Below(i)>> \in StrictSubsetOrdering(S)
      BY <2>1 DEF StrictSubsetOrdering
    <2>3. QED
      BY <1>2, <1>3, <2>2
  <1>5. QED
    BY <1>4

\* LIMIT hides rows, but never all of them: a listing is empty only if nothing is
\* live.  This is why block_user may stop at an empty listing.
LEMMA EmptyListing ==
  ASSUME TypeOK, IsFiniteSet(used), NEW kind \in {Keys, Proxies}, Listed(kind) = {}
  PROVE  live \cap kind = {}
  <1> DEFINE S == live \cap kind
             R == {p \in S \X S : Before(p[1], p[2])}
  <1>1. SUFFICES ASSUME S # {} PROVE FALSE
    OBVIOUS
  <1>2. IsFiniteSet(S)
    BY FS_Subset DEF TypeOK
  <1>3. S \subseteq Nat /\ \A i \in S : touched[i] \in Nat
    BY ItemsAssumption, BoundsAssumption DEF TypeOK, Items
  <1>4. (S \subseteq Proxies) \/ (S \cap Proxies = {})
    BY ItemsAssumption
  <1>5. \A i \in S : ~Before(i, i)
    BY <1>3 DEF Before
  <1>6. \A i, j, k \in S : Before(i, j) /\ Before(j, k) => Before(i, k)
    BY <1>3, <1>4 DEF Before
  <1>7. \A i, j \in S : <<i, j>> \in R <=> Before(i, j)
    OBVIOUS
  <1>8. PICK i \in S : \A j \in S : <<j, i>> \notin R
    <2> HIDE DEF R, S
    <2>1. /\ \A j \in S : <<j, j>> \notin R
          /\ \A j, k, l \in S : <<j, k>> \in R /\ <<k, l>> \in R => <<j, l>> \in R
      BY <1>5, <1>6, <1>7
    <2>2. QED
      BY <1>1, <1>2, <2>1, FirstOfFinite
  <1>9. {j \in live \cap kind : Before(j, i)} = {}
    BY <1>7, <1>8
  <1>10. i \in Listed(kind)
    BY <1>9, FS_EmptySet, BoundsAssumption DEF Listed
  <1>11. QED
    BY <1>10


------------------------------------------------------------------------------
\* A new user, who owns nothing and has no call running, satisfies the invariant.
LEMMA InitIInv == Init => IInv
  <1> SUFFICES ASSUME Init PROVE IInv
    OBVIOUS
  <1>1. TypeOK
    <2>1. pc \in [Tasks -> Points] /\ role \in Roles
      BY DEF Init, Points, Roles
    <2>2. touched \in [Items -> 0..MaxClock] /\ crashes \in 0..MaxCrashes /\ clock \in 0..MaxClock
      BY BoundsAssumption DEF Init
    <2>3. QED
      BY <2>1, <2>2 DEF Init, TypeOK
  <1>2. IsFiniteSet(used)
    BY FS_EmptySet DEF Init
  <1>3. LockInv /\ RoleInv /\ PassInv /\ CleanInv
    BY DEF Init, LockInv, RoleInv, PassInv, CleanInv, LockPoints, CreateWork, BlockPoints
  <1>4. QED
    BY <1>1, <1>2, <1>3 DEF IInv
------------------------------------------------------------------------------
(* The steps.                                                                *)

\* A step of block_user keeps the types.
LEMMA BlockType ==
  ASSUME TypeOK, LockInv, NEW t \in Tasks, BlockStep(t)
  PROVE  TypeOK'
  <1> USE BoundsAssumption, NoneAssumption
      DEF TypeOK, LockInv, Items, Roles, Actors, Points, CreateCalls, BlockCalls, BlockPoints, Listed,
          Goto, End, NoJob, decisionVars, itemVars, jobVars, BlockFrame, BlockNext, Drop, SetRole
  <1>1. CASE BlockWrites(t)
    <2>1. /\ now \in 0..MaxClock /\ now # None
      BY <1>1 DEF BlockWrites
    <2>2. CASE End(t) /\ UNCHANGED <<role, blockedAt, asked, clean>>
      BY <1>1, <2>2 DEF BlockWrites
    <2>3. CASE SetRole("blocked_user", now) /\ asked' = FALSE /\ Goto(t, "list_keys")
               /\ UNCHANGED <<lock, item, jobVars>>
      BY <1>1, <2>1, <2>3 DEF BlockWrites
    <2>4. QED
      BY <1>1, <2>2, <2>3 DEF BlockWrites
  <1>2. CASE BlockLists(t, Keys, "list_keys", "keys")
    BY <1>2 DEF BlockLists
  <1>3. CASE BlockRevokes(t, "list_keys", "keys")
    BY <1>3 DEF BlockRevokes
  <1>4. CASE BlockFails(t, "list_keys", "keys")
    BY <1>4 DEF BlockFails
  <1>5. CASE BlockKeysListed(t)
    BY <1>5 DEF BlockKeysListed
  <1>6. CASE BlockLists(t, Proxies, "list_proxies", "proxies")
    BY <1>6 DEF BlockLists
  <1>7. CASE BlockRevokes(t, "list_proxies", "proxies")
    BY <1>7 DEF BlockRevokes
  <1>8. CASE BlockFails(t, "list_proxies", "proxies")
    BY <1>8 DEF BlockFails
  <1>9. CASE BlockEnds(t)
    BY <1>9 DEF BlockEnds
  <1>10. QED
    BY <1>1, <1>2, <1>3, <1>4, <1>5, <1>6, <1>7, <1>8, <1>9 DEF BlockStep

\* A step of a creation keeps the types.
LEMMA CreateType ==
  ASSUME TypeOK, LockInv, NEW t \in Tasks, CreateStep(t)
  PROVE  TypeOK'
  <1> USE BoundsAssumption, NoneAssumption
      DEF TypeOK, LockInv, Items, Roles, Actors, Points, CreateCalls, BlockCalls, BlockPoints, Listed,
          Goto, End, NoJob, decisionVars, itemVars, jobVars, CreateFrame, NewRow, Drop, Allowed
  <1>1. CASE CreateRow(t, Keys, "row", "add")
    <2>1. ASSUME NEW i \in Keys, NewRow(i), item' = [item EXCEPT ![t] = i], Goto(t, "add"),
                 UNCHANGED <<active, lock>>, CreateFrame
          PROVE  TypeOK'
      BY <2>1
    <2>2. CASE End(t) /\ UNCHANGED <<clock, decisionVars, itemVars, crashes>>
      BY <2>2
    <2>3. QED
      BY <1>1, <2>1, <2>2 DEF CreateRow
  <1>2. CASE CreateRow(t, Keys, "trial_row", "trial_add")
    <2>1. ASSUME NEW i \in Keys, NewRow(i), item' = [item EXCEPT ![t] = i], Goto(t, "trial_add"),
                 UNCHANGED <<active, lock>>, CreateFrame
          PROVE  TypeOK'
      BY <2>1
    <2>2. CASE End(t) /\ UNCHANGED <<clock, decisionVars, itemVars, crashes>>
      BY <2>2
    <2>3. QED
      BY <1>2, <2>1, <2>2 DEF CreateRow
  <1>3. CASE CreateRow(t, Proxies, "proxy_row", "proxy_add")
    <2>1. ASSUME NEW i \in Proxies, NewRow(i), item' = [item EXCEPT ![t] = i], Goto(t, "proxy_add"),
                 UNCHANGED <<active, lock>>, CreateFrame
          PROVE  TypeOK'
      BY <2>1
    <2>2. CASE End(t) /\ UNCHANGED <<clock, decisionVars, itemVars, crashes>>
      BY <2>2
    <2>3. QED
      BY <1>3, <2>1, <2>2 DEF CreateRow
  <1>4. CASE IssueStatic(t)
    <2>1. PICK i \in Proxies : NewRow(i) /\ active' = active \cup {i}
      BY <1>4 DEF IssueStatic
    <2>2. End(t) /\ UNCHANGED <<clock, decisionVars, crashes>>
      BY <1>4 DEF IssueStatic
    <2>3. QED
      BY <2>1, <2>2
  <1>5. CASE CreateAdd(t)
    BY <1>5 DEF CreateAdd
  <1>6. CASE CreateFails(t)
    BY <1>6 DEF CreateFails
  <1>7. CASE CreateMarks(t)
    BY <1>7 DEF CreateMarks
  <1>8. CASE CreateCompensates(t)
    BY <1>8 DEF CreateCompensates
  <1>9. QED
    BY <1>1, <1>2, <1>3, <1>4, <1>5, <1>6, <1>7, <1>8 DEF CreateStep

\* Every step keeps the types.
LEMMA StepType ==
  ASSUME TypeOK, LockInv, [Next]_vars
  PROVE  TypeOK'
  <1> USE BoundsAssumption, NoneAssumption
      DEF TypeOK, LockInv, Items, Roles, Actors, Points, CreateCalls, BlockCalls, BlockPoints, Listed,
          decisionVars, itemVars, jobVars
  <1>1. CASE Decision
    BY <1>1 DEF Decision, ChangeRole, Unblock, Ask, Approve, Reject, SetRole, DecisionFrame
  <1>2. ASSUME NEW t \in Tasks, Request(t) PROVE TypeOK'
    BY <1>2 DEF Request, RequestBlock, RequestCreate, Goto, BlockFrame, CreateFrame, CreateCalls
  <1>3. ASSUME NEW t \in Tasks, Enter(t) PROVE TypeOK'
    <2> USE DEF Goto, BlockFrame, CreateFrame, Allowed, CreateCalls, BlockCalls
    <2>1. CASE BlockRefused(t)
      BY <2>1 DEF BlockRefused
    <2>2. CASE BlockRead(t)
      BY <2>2 DEF BlockRead
    <2>3. CASE CreateRefused(t)
      BY <2>3 DEF CreateRefused
    <2>4. CASE CreateEnter(t)
      BY <2>4 DEF CreateEnter
    <2>5. QED
      BY <1>3, <2>1, <2>2, <2>3, <2>4 DEF Enter
  <1>4. ASSUME NEW i \in Items, Revoke(i) \/ Check(i) PROVE TypeOK'
    BY <1>4 DEF Revoke, Check, Drop
  <1>5. CASE Tick
    BY <1>5 DEF Tick
  <1>6. CASE Restart
    <2>1. PICK gone \in SUBSET (live \ active) :
            /\ live' = live \ gone
            /\ \E done \in SUBSET (live' \ active) : active' = active \cup done
      BY <1>6 DEF Restart
    <2>2. PICK done \in SUBSET (live' \ active) : active' = active \cup done
      BY <2>1
    <2>3. live' \subseteq live /\ active' \subseteq live'
      BY <2>1, <2>2
    <2>4. pc' \in [Tasks -> Points] /\ item' \in [Tasks -> Items \cup {None}]
      BY <1>6 DEF Restart
    <2>5. /\ crashes < MaxCrashes /\ crashes' = crashes + 1
          /\ lock' = None /\ NoJob
          /\ UNCHANGED <<clock, decisionVars, used, touched>>
      BY <1>6 DEF Restart
    <2>6. crashes' \in 0..MaxCrashes
      BY <2>5
    <2>7. now' = None /\ batch' = {} /\ tried' = {} /\ errors' = FALSE
      BY <2>5 DEF NoJob
    <2>8. UNCHANGED <<clock, role, blockedAt, request, asked, clean, used, touched>>
      BY <2>5
    <2>9. live' \subseteq used'
      BY <2>3, <2>8
    <2>10. QED
      BY <2>3, <2>4, <2>5, <2>6, <2>7, <2>8, <2>9
  <1>7. CASE UNCHANGED vars
    BY <1>7 DEF vars
  <1>8. QED
    BY <1>1, <1>2, <1>3, <1>4, <1>5, <1>6, <1>7, BlockType, CreateType DEF Next

\* The lock excludes, so a role can become blocked only while nothing is created.
LEMMA BlockLock ==
  ASSUME TypeOK, LockInv, RoleInv, NEW t \in Tasks, BlockStep(t)
  PROVE  LockInv' /\ RoleInv'
  <1> USE BoundsAssumption, NoneAssumption
      DEF TypeOK, LockInv, RoleInv, LockPoints, CreateWork, BlockPoints,
          Goto, End, NoJob, decisionVars, itemVars, jobVars, BlockFrame, BlockNext, Drop, SetRole
  <1>1. CASE BlockWrites(t)
    BY <1>1 DEF BlockWrites
  <1>2. CASE BlockLists(t, Keys, "list_keys", "keys")
    BY <1>2 DEF BlockLists
  <1>3. CASE BlockRevokes(t, "list_keys", "keys")
    BY <1>3 DEF BlockRevokes
  <1>4. CASE BlockFails(t, "list_keys", "keys")
    BY <1>4 DEF BlockFails
  <1>5. CASE BlockKeysListed(t)
    BY <1>5 DEF BlockKeysListed
  <1>6. CASE BlockLists(t, Proxies, "list_proxies", "proxies")
    BY <1>6 DEF BlockLists
  <1>7. CASE BlockRevokes(t, "list_proxies", "proxies")
    BY <1>7 DEF BlockRevokes
  <1>8. CASE BlockFails(t, "list_proxies", "proxies")
    BY <1>8 DEF BlockFails
  <1>9. CASE BlockEnds(t)
    BY <1>9 DEF BlockEnds
  <1>10. QED
    BY <1>1, <1>2, <1>3, <1>4, <1>5, <1>6, <1>7, <1>8, <1>9 DEF BlockStep

\* A creation leaves the role alone and works under the lock until it ends.
LEMMA CreateLock ==
  ASSUME TypeOK, LockInv, RoleInv, NEW t \in Tasks, CreateStep(t)
  PROVE  LockInv' /\ RoleInv'
  <1> USE BoundsAssumption, NoneAssumption
      DEF TypeOK, LockInv, RoleInv, LockPoints, CreateWork, BlockPoints,
          Goto, End, NoJob, decisionVars, itemVars, jobVars, CreateFrame, NewRow, Drop, Allowed
  <1>1. CASE CreateRow(t, Keys, "row", "add")
    BY <1>1 DEF CreateRow
  <1>2. CASE CreateRow(t, Keys, "trial_row", "trial_add")
    BY <1>2 DEF CreateRow
  <1>3. CASE CreateRow(t, Proxies, "proxy_row", "proxy_add")
    BY <1>3 DEF CreateRow
  <1>4. CASE IssueStatic(t)
    BY <1>4 DEF IssueStatic
  <1>5. CASE CreateAdd(t)
    BY <1>5 DEF CreateAdd
  <1>6. CASE CreateFails(t)
    BY <1>6 DEF CreateFails
  <1>7. CASE CreateMarks(t)
    BY <1>7 DEF CreateMarks
  <1>8. CASE CreateCompensates(t)
    BY <1>8 DEF CreateCompensates
  <1>9. QED
    BY <1>1, <1>2, <1>3, <1>4, <1>5, <1>6, <1>7, <1>8 DEF CreateStep

\* Every step keeps what is true of the lock and of the role.
LEMMA StepLock ==
  ASSUME TypeOK, LockInv, RoleInv, [Next]_vars
  PROVE  LockInv' /\ RoleInv'
  <1> USE BoundsAssumption, NoneAssumption
      DEF TypeOK, LockInv, RoleInv, LockPoints, CreateWork, BlockPoints,
          decisionVars, itemVars, jobVars
  <1>1. CASE Decision
    BY <1>1 DEF Decision, ChangeRole, Unblock, Ask, Approve, Reject, SetRole, DecisionFrame
  <1>2. ASSUME NEW t \in Tasks, Request(t) PROVE LockInv' /\ RoleInv'
    BY <1>2 DEF Request, RequestBlock, RequestCreate, Goto, BlockFrame, CreateFrame, CreateCalls
  <1>3. ASSUME NEW t \in Tasks, Enter(t) PROVE LockInv' /\ RoleInv'
    <2> USE DEF Goto, BlockFrame, CreateFrame, Allowed, CreateCalls, BlockCalls
    <2>1. CASE BlockRefused(t)
      BY <2>1 DEF BlockRefused
    <2>2. CASE BlockRead(t)
      BY <2>2 DEF BlockRead
    <2>3. CASE CreateRefused(t)
      BY <2>3 DEF CreateRefused
    <2>4. CASE CreateEnter(t)
      BY <2>4 DEF CreateEnter
    <2>5. QED
      BY <1>3, <2>1, <2>2, <2>3, <2>4 DEF Enter
  <1>4. ASSUME NEW i \in Items, Revoke(i) \/ Check(i) PROVE LockInv' /\ RoleInv'
    BY <1>4 DEF Revoke, Check, Drop
  <1>5. CASE Tick
    BY <1>5 DEF Tick
  <1>6. CASE Restart
    BY <1>6 DEF Restart, NoJob
  <1>7. CASE UNCHANGED vars
    BY <1>7 DEF vars
  <1>8. QED
    BY <1>1, <1>2, <1>3, <1>4, <1>5, <1>6, <1>7, BlockLock, CreateLock DEF Next

\* Ids are handed out one at a time.
LEMMA StepFinite ==
  ASSUME TypeOK, IsFiniteSet(used), [Next]_vars
  PROVE  IsFiniteSet(used')
  <1>1. CASE used' = used
    BY <1>1
  <1>2. ASSUME NEW i \in Items, NewRow(i) PROVE IsFiniteSet(used')
    BY <1>2, FS_AddElement DEF NewRow
  <1>3. used' = used \/ \E i \in Items : NewRow(i)
    <2>1. ASSUME NEW t \in Tasks, CreateStep(t) PROVE used' = used \/ \E i \in Items : NewRow(i)
      BY <2>1 DEF CreateStep, CreateRow, IssueStatic, CreateAdd, CreateFails, CreateMarks,
         CreateCompensates, CreateFrame, itemVars, Items
    <2>2. ASSUME NEW t \in Tasks, BlockStep(t) PROVE used' = used
      BY <2>2 DEF BlockStep, BlockWrites, BlockLists, BlockRevokes, BlockFails, BlockKeysListed,
         BlockEnds, BlockFrame, BlockNext, itemVars
    <2>3. ASSUME NEW t \in Tasks, Request(t) \/ Enter(t) PROVE used' = used
      BY <2>3 DEF Request, RequestBlock, RequestCreate, Enter, BlockRefused, BlockRead,
         CreateRefused, CreateEnter, itemVars
    <2>4. ASSUME Decision \/ Tick \/ Restart \/ UNCHANGED vars PROVE used' = used
      BY <2>4 DEF Decision, ChangeRole, Unblock, Ask, Approve, Reject, DecisionFrame, Tick, Restart,
         vars, itemVars
    <2>5. ASSUME NEW i \in Items, Revoke(i) \/ Check(i) PROVE used' = used
      BY <2>5 DEF Revoke, Check
    <2>6. QED
      BY <2>1, <2>2, <2>3, <2>4, <2>5 DEF Next
  <1>4. QED
    BY <1>1, <1>2, <1>3

\* A block passes from the keys to the proxies, and ends, with empty listings or
\* with an error; while it runs nobody adds anything.
LEMMA BlockPass ==
  ASSUME TypeOK, IsFiniteSet(used), LockInv, RoleInv, PassInv, CleanInv,
         NEW t \in Tasks, BlockStep(t)
  PROVE  PassInv' /\ CleanInv'
  <1> USE NoneAssumption
      DEF TypeOK, LockInv, PassInv, CleanInv, LockPoints, BlockPoints,
          Goto, End, NoJob, decisionVars, itemVars, jobVars, BlockFrame, BlockNext, Drop, SetRole
  <1>1. CASE BlockWrites(t)
    BY <1>1 DEF BlockWrites
  <1>2. CASE BlockLists(t, Keys, "list_keys", "keys")
    BY <1>2 DEF BlockLists
  <1>3. CASE BlockRevokes(t, "list_keys", "keys")
    BY <1>3 DEF BlockRevokes
  <1>4. CASE BlockFails(t, "list_keys", "keys")
    BY <1>4 DEF BlockFails
  <1>5. CASE BlockKeysListed(t)
    <2>1. ~errors' => live \cap Keys = {}
      BY <1>5, EmptyListing DEF BlockKeysListed
    <2>2. QED
      BY <1>5, <2>1 DEF BlockKeysListed
  <1>6. CASE BlockLists(t, Proxies, "list_proxies", "proxies")
    BY <1>6 DEF BlockLists
  <1>7. CASE BlockRevokes(t, "list_proxies", "proxies")
    BY <1>7 DEF BlockRevokes
  <1>8. CASE BlockFails(t, "list_proxies", "proxies")
    BY <1>8 DEF BlockFails
  <1>9. CASE BlockEnds(t)
    <2>1. ~errors /\ Listed(Proxies) = {} => live \cap Keys = {} /\ live \cap Proxies = {}
      BY <1>9, EmptyListing DEF BlockEnds
    <2>2. clean' => role' = "blocked_user" /\ live' = {}
      BY <1>9, <2>1 DEF BlockEnds, Items
    <2>3. PassInv'
      BY <1>9 DEF BlockEnds
    <2>4. QED
      BY <2>2, <2>3
  <1>10. QED
    BY <1>1, <1>2, <1>3, <1>4, <1>5, <1>6, <1>7, <1>8, <1>9 DEF BlockStep

\* A creation runs only while no block does and while no block is in force.
LEMMA CreatePass ==
  ASSUME TypeOK, LockInv, RoleInv, PassInv, CleanInv, NEW t \in Tasks, CreateStep(t)
  PROVE  PassInv' /\ CleanInv'
  <1>1. pc[t] \in CreateWork
    BY DEF CreateStep, CreateRow, IssueStatic, CreateAdd, CreateFails, CreateMarks,
       CreateCompensates, CreateWork
  <1>2. ~clean /\ UNCHANGED clean
    BY <1>1 DEF RoleInv, CleanInv, CreateStep, CreateRow, IssueStatic, CreateAdd, CreateFails,
       CreateMarks, CreateCompensates, CreateFrame, decisionVars
  <1>3. \A u \in Tasks : pc[u] \notin BlockPoints
    BY <1>1 DEF LockInv, LockPoints, CreateWork, BlockPoints
  <1>4. \A u \in Tasks : pc'[u] \notin {"list_proxies", "proxies"}
    BY <1>3 DEF TypeOK, BlockPoints, CreateStep, CreateRow, IssueStatic, CreateAdd, CreateFails,
       CreateMarks, CreateCompensates, Goto, End
  <1>5. QED
    BY <1>2, <1>4 DEF PassInv, CleanInv

\* Every step keeps what is true of a running block and of one that has ended.
LEMMA StepPass ==
  ASSUME TypeOK, IsFiniteSet(used), LockInv, RoleInv, PassInv, CleanInv, [Next]_vars
  PROVE  PassInv' /\ CleanInv'
  <1> USE DEF TypeOK, LockInv, RoleInv, PassInv, CleanInv, LockPoints, CreateWork, BlockPoints,
              decisionVars, itemVars, jobVars
  <1>1. CASE Decision
    <2>1. UNCHANGED <<live, pc, errors>>
      BY <1>1 DEF Decision, ChangeRole, Unblock, Ask, Approve, Reject, DecisionFrame
    <2>2. clean' => clean /\ role' = "blocked_user"
      <3>1. ASSUME NEW r, NEW d, SetRole(r, d) PROVE clean' => clean /\ role' = "blocked_user"
        BY <3>1, Zenon DEF SetRole
      <3>2. ASSUME UNCHANGED <<role, clean>> PROVE clean' => clean /\ role' = "blocked_user"
        BY <3>2, Zenon DEF CleanInv
      <3>3. (\E r, d : SetRole(r, d)) \/ UNCHANGED <<role, clean>>
        BY <1>1, Zenon DEF Decision, ChangeRole, Unblock, Ask, Approve, Reject
      <3>4. QED
        BY <3>1, <3>2, <3>3
    <2>3. QED
      BY <2>1, <2>2
  <1>2. ASSUME NEW t \in Tasks, Request(t) PROVE PassInv' /\ CleanInv'
    BY <1>2 DEF Request, RequestBlock, RequestCreate, Goto, BlockFrame, CreateFrame, CreateCalls
  <1>3. ASSUME NEW t \in Tasks, Enter(t) PROVE PassInv' /\ CleanInv'
    BY <1>3 DEF Enter, BlockRefused, BlockRead, CreateRefused, CreateEnter,
       Goto, BlockFrame, CreateFrame, CreateCalls, BlockCalls
  <1>4. ASSUME NEW i \in Items, Revoke(i) \/ Check(i) PROVE PassInv' /\ CleanInv'
    BY <1>4 DEF Revoke, Check, Drop
  <1>5. CASE Tick
    BY <1>5 DEF Tick
  <1>6. CASE Restart
    BY <1>6 DEF Restart
  <1>7. CASE UNCHANGED vars
    BY <1>7 DEF vars
  <1>8. QED
    BY <1>1, <1>2, <1>3, <1>4, <1>5, <1>6, <1>7, BlockPass, CreatePass DEF Next

------------------------------------------------------------------------------
\* The invariant holds in every state, by induction over the steps.
LEMMA InvariantIInv == Spec => []IInv
  <1>1. IInv /\ [Next]_vars => IInv'
    BY StepType, StepLock, StepFinite, StepPass DEF IInv
  <1>2. QED
    BY InitIInv, <1>1, PTL DEF Spec

\* Every variable keeps its type, and users.blocked_at is set exactly for the
\* blocked, for any number of items and callers.
THEOREM TypeCorrect == Spec => []TypeOK
  BY InvariantIInv, PTL DEF IInv

\* For any number of keys, proxies and concurrent calls and any LIMIT: when a block
\* ended without an error and nobody lifted it, the user has nothing left.
THEOREM BlockLeavesNothing == Spec => []NothingSurvivesBlock
  <1>1. IInv => NothingSurvivesBlock
    BY DEF IInv, CleanInv, NothingSurvivesBlock
  <1>2. QED
    BY InvariantIInv, <1>1, PTL

\* No call makes a key or a proxy active while its owner is blocked.
THEOREM BlockedGetNothing == Spec => NoAccessForBlocked
  <1>1. ASSUME IInv, Next, role = "blocked_user" PROVE BornStep
    <2>1. \A t \in Tasks : pc[t] \notin CreateWork /\ item[t] = None
      BY <1>1 DEF IInv, LockInv, RoleInv
    <2>2. \A t \in Tasks : ~CreateStep(t)
      BY <2>1 DEF CreateWork, CreateStep, CreateRow, IssueStatic, CreateAdd, CreateFails,
         CreateMarks, CreateCompensates
    <2>3. active' \subseteq live \/ active' \subseteq active
      <3>1. ASSUME NEW t \in Tasks, BlockStep(t) PROVE active' \subseteq active
        BY <3>1 DEF BlockStep, BlockWrites, BlockLists, BlockRevokes, BlockFails, BlockKeysListed,
           BlockEnds, Drop, itemVars
      <3>2. ASSUME NEW t \in Tasks, Request(t) \/ Enter(t) PROVE active' = active
        BY <3>2 DEF Request, RequestBlock, RequestCreate, Enter, BlockRefused, BlockRead,
           CreateRefused, CreateEnter, itemVars
      <3>3. ASSUME Decision \/ Tick PROVE active' = active
        BY <3>3 DEF Decision, ChangeRole, Unblock, Ask, Approve, Reject, DecisionFrame, Tick, itemVars
      <3>4. ASSUME NEW i \in Items, Revoke(i) \/ Check(i) PROVE active' \subseteq live
        BY <1>1, <3>4 DEF IInv, TypeOK, Revoke, Check, Drop
      <3>5. CASE Restart
        BY <1>1, <3>5 DEF IInv, TypeOK, Restart
      <3>6. QED
        BY <1>1, <2>2, <3>1, <3>2, <3>3, <3>4, <3>5 DEF Next
    <2>4. \A i \in active' \ active : i \in used /\ i # None
      BY <1>1, <2>3, NoneAssumption DEF IInv, TypeOK, Items
    <2>5. QED
      BY <2>1, <2>4 DEF BornStep
  <1>2. ASSUME IInv, [Next]_vars PROVE [BornStep]_vars
    BY <1>1, <1>2 DEF BornStep
  <1>3. QED
    BY InvariantIInv, <1>2, PTL DEF Spec, NoAccessForBlocked

==============================================================================
