----------------------------- MODULE UserAccess -----------------------------
(***************************************************************************)
(* One user: the role in the users table, the access request, and all that *)
(* the user owns (VPN keys and proxy accesses).  services/users.py,        *)
(* services/access_approval.py and the user lock of services/user_locks.py *)
(*                                                                         *)
(* block_user and the creation of keys and proxies hold the user lock;     *)
(* unblock_user, set_role, the decisions on access requests and the        *)
(* revocation of one item do not.  The lock serves its waiters in any      *)
(* order here.  What a backend does with one item is in XrayKeys and       *)
(* AwgKeys: here an item may exist on the backend ("live") or not.         *)
(*                                                                         *)
(* Left out: superadmins (no operation touches them), profiles, FSM state, *)
(* audit rows, the static secret that a revoked MTProto access keeps.      *)
(***************************************************************************)
EXTENDS Naturals, FiniteSets

CONSTANTS
  Keys,        \* ids of vpn_keys rows the user may come to own
  Proxies,     \* ids of proxy_accesses rows
  Tasks,       \* requests served at a time
  None,
  Batch,       \* LIMIT of the listings of block_user (500)
  MaxClock,    \* bound on the seconds that pass
  MaxCrashes   \* bound on process crashes

ASSUME ItemsAssumption  == Keys \subseteq Nat /\ Proxies \subseteq Nat /\ Keys \cap Proxies = {}
ASSUME NoneAssumption   == None \notin Tasks \cup Keys \cup Proxies \cup Nat
ASSUME BoundsAssumption == Batch \in Nat \ {0} /\ MaxClock \in Nat /\ MaxCrashes \in Nat

VARIABLES
  clock,      \* the time in whole seconds (adapters/clock.py)
  role,       \* users.role
  blockedAt,  \* users.blocked_at
  request,    \* requested_at of the pending access request, or None
  live,       \* items in a status where access may exist on the backend
  active,     \* those that are active
  used,       \* ids handed out
  touched,    \* touched[i]: updated_at of item i
  lock,       \* holder of the user lock
  pc,         \* pc[t]
  item,       \* item[t]: the item that t creates
  now,        \* block_user's "now"
  batch,      \* listed items the running pass of block_user has left
  tried,      \* succeeded_ids and failed_ids of the running listing loop
  errors,     \* the block has recorded an error
  crashes,
  clean,      \* history: a block ended without error and has stayed in force
  asked       \* history: the user, blocked some time ago, asked again and has an answer

decisionVars == <<role, blockedAt, request, asked, clean>>
itemVars     == <<live, active, used, touched>>
jobVars      == <<now, batch, tried, errors>>
vars == <<clock, decisionVars, itemVars, lock, pc, item, jobVars, crashes>>

Items  == Keys \cup Proxies
Roles  == {"pending_user", "approved_user", "moderator", "blocked_user"}
Actors == {"superadmin", "moderator"}
CreateCalls == {"create_key", "create_proxy", "create_trial"}
BlockCalls  == {"block_superadmin", "block_moderator"}
BlockPoints == {"role", "list_keys", "keys", "list_proxies", "proxies"}
Points == {"idle", "row", "add", "mark", "trial_row", "trial_add", "proxy_row", "proxy_add"}
          \cup CreateCalls \cup BlockCalls \cup BlockPoints

------------------------------------------------------------------------------
(* Building blocks.                                                          *)

Goto(t, point) == pc' = [pc EXCEPT ![t] = point]
NoJob == now' = None /\ batch' = {} /\ tried' = {} /\ errors' = FALSE
End(t) == /\ Goto(t, "idle")
          /\ item' = [item EXCEPT ![t] = None]
          /\ \/ lock = t /\ lock' = None /\ NoJob
             \/ lock # t /\ UNCHANGED <<lock, jobVars>>

\* UserRepository.set_role
SetRole(r, date) ==
  /\ role' = r /\ blockedAt' = date
  /\ clean' = (clean /\ r = "blocked_user")

Drop(gone) == live' = live \ gone /\ active' = active \ gone

\* list_by_owner_statuses: keys by creation, proxies by last update, at most Batch
Before(i, j) == IF i \in Proxies /\ touched[i] # touched[j]
                THEN touched[i] < touched[j] ELSE i < j
\* mutant: only what is active is listed
ListedActive(kind) == {i \in active \cap kind :
                         Cardinality({j \in active \cap kind : Before(j, i)}) < Batch}
Listed(kind) == {i \in live \cap kind :
                   Cardinality({j \in live \cap kind : Before(j, i)}) < Batch}

Init ==
  /\ clock = 0 /\ role = "pending_user" /\ blockedAt = None /\ request = None
  /\ live = {} /\ active = {} /\ used = {} /\ touched = [i \in Items |-> 0]
  /\ lock = None /\ pc = [t \in Tasks |-> "idle"]
  /\ item = [t \in Tasks |-> None] /\ now = None
  /\ batch = {} /\ tried = {} /\ errors = FALSE
  /\ crashes = 0 /\ clean = FALSE /\ asked = FALSE

------------------------------------------------------------------------------
(* Role changes and access requests.  Each is one transaction of the         *)
(* database, and none takes the user lock.                                   *)

DecisionFrame == UNCHANGED <<clock, itemVars, lock, pc, item, jobVars, crashes>>

\* set_role by a superadmin; BLOCKED_USER is refused here
ChangeRole(r) ==
  /\ r \in Roles \ {"blocked_user"}
  /\ SetRole(r, None)
  /\ asked' = FALSE /\ UNCHANGED request /\ DecisionFrame

\* mutant: only the role is written
UnblockKeepsDate ==
  /\ role' = "approved_user" /\ clean' = FALSE
  /\ asked' = FALSE /\ UNCHANGED <<request, blockedAt>> /\ DecisionFrame

\* unblock_user
Unblock ==
  /\ SetRole("approved_user", None)
  /\ asked' = FALSE /\ UNCHANGED request /\ DecisionFrame

\* create_or_get_request: an approved user needs none
Ask ==
  /\ role # "approved_user"
  /\ request' = IF request = None THEN clock ELSE request
  /\ asked' = (role = "blocked_user" /\ clock > blockedAt)
  /\ UNCHANGED <<role, blockedAt, clean>> /\ DecisionFrame

\* approve: raises, and leaves all as it was, for a moderator and for a blocked
\* user whose request is not later than the block
Approve ==
  /\ request # None
  /\ role # "moderator"
  /\ role = "blocked_user" => request > blockedAt
  /\ request' = None /\ asked' = FALSE
  /\ SetRole("approved_user", None)
  /\ DecisionFrame

\* reject: raises for a moderator; a blocked user stays blocked
Reject ==
  /\ request # None /\ role # "moderator"
  /\ request' = None /\ asked' = FALSE
  /\ UNCHANGED <<role, blockedAt, clean>> /\ DecisionFrame

------------------------------------------------------------------------------
(* block_user.                                                               *)

BlockFrame == UNCHANGED <<clock, request, used, crashes>>

\* the actor is read before the lock is asked for
RequestBlock(t, actor) ==
  /\ pc[t] = "idle"
  /\ Goto(t, IF actor = "moderator" THEN "block_moderator" ELSE "block_superadmin")
  /\ UNCHANGED <<decisionVars, itemVars, lock, item, jobVars>> /\ BlockFrame

BlockRefused(t) ==
  /\ pc[t] = "block_moderator" /\ lock = None /\ role = "moderator"
  /\ Goto(t, "idle")
  /\ UNCHANGED <<decisionVars, itemVars, lock, item, jobVars>> /\ BlockFrame

\* with the lock: the target is read, the checks pass, "now" is read
BlockRead(t) ==
  /\ pc[t] \in BlockCalls /\ lock = None
  /\ pc[t] = "block_moderator" => role # "moderator"
  /\ lock' = t /\ Goto(t, "role")
  /\ now' = clock
  /\ UNCHANGED <<decisionVars, itemVars, item, batch, tried, errors>> /\ BlockFrame

\* set_role waited for the gate of the database; it may raise
BlockWrites(t) ==
  /\ pc[t] = "role"
  /\ \/ /\ SetRole("blocked_user", now) /\ asked' = FALSE
        /\ Goto(t, "list_keys") /\ UNCHANGED <<lock, item, jobVars>>
     \/ End(t) /\ UNCHANGED <<role, blockedAt, asked, clean>>
  /\ UNCHANGED itemVars /\ BlockFrame

\* mutant: what was tried is not left out of the next round
BlockListsAgain(t, kind, point, loop) ==
  /\ pc[t] = point
  /\ Listed(kind) # {} /\ batch' = Listed(kind)
  /\ Goto(t, loop)
  /\ UNCHANGED <<lock, item, now, tried, errors, decisionVars, itemVars>>
  /\ BlockFrame

\* a round of the listing loop: the listed items that were not tried yet
BlockLists(t, kind, point, loop) ==
  /\ pc[t] = point
  /\ Listed(kind) \ tried # {} /\ batch' = Listed(kind) \ tried
  /\ Goto(t, loop)
  /\ UNCHANGED <<lock, item, now, tried, errors, decisionVars, itemVars>>
  /\ BlockFrame

\* the loop over the keys ends; what is listed after it was tried is an error
BlockKeysListed(t) ==
  /\ pc[t] = "list_keys"
  /\ Listed(Keys) \ tried = {} /\ tried' = {}
  /\ errors' = (errors \/ Listed(Keys) # {})
  /\ Goto(t, "list_proxies")
  /\ UNCHANGED <<lock, item, now, batch, decisionVars, itemVars>> /\ BlockFrame

\* the "for" over the batch goes on, or back to the listing
BlockNext(t, i, point, loop) ==
  /\ batch' = batch \ {i}
  /\ tried' = tried \cup {i}
  /\ Goto(t, IF batch = {i} THEN point ELSE loop)
  /\ UNCHANGED <<lock, item, now, decisionVars>> /\ BlockFrame

\* the revoker returns: revoked now, or by someone else before
BlockRevokes(t, point, loop) ==
  /\ pc[t] = loop
  /\ \E i \in batch : Drop({i}) /\ BlockNext(t, i, point, loop)
  /\ UNCHANGED <<touched, errors>>

\* the revoker raises: the status is restored, which may fail too, or nothing
\* was written (degraded backend, item deleted meanwhile)
BlockFails(t, point, loop) ==
  /\ pc[t] = loop
  /\ errors' = TRUE
  /\ \E i \in batch :
       /\ BlockNext(t, i, point, loop)
       /\ active' \in {active, active \ {i}}
       /\ touched' \in {touched, [touched EXCEPT ![i] = clock]}
  /\ UNCHANGED live

\* the last listing of the proxies found nothing to try
BlockEnds(t) ==
  /\ pc[t] = "list_proxies"
  /\ Listed(Proxies) \ tried = {}
  /\ clean' = (clean \/ (~errors /\ Listed(Proxies) = {} /\ role = "blocked_user"))
  /\ End(t)
  /\ UNCHANGED <<role, blockedAt, asked, itemVars>> /\ BlockFrame

BlockStep(t) ==
  \/ BlockWrites(t)
  \/ BlockLists(t, Keys, "list_keys", "keys")
  \/ BlockRevokes(t, "list_keys", "keys")
  \/ BlockFails(t, "list_keys", "keys")
  \/ BlockKeysListed(t)
  \/ BlockLists(t, Proxies, "list_proxies", "proxies")
  \/ BlockRevokes(t, "list_proxies", "proxies")
  \/ BlockFails(t, "list_proxies", "proxies")
  \/ BlockEnds(t)

------------------------------------------------------------------------------
(* Creation.  The owner's role is read under the lock before the row, and    *)
(* again between the row and the backend.                                    *)

CreateFrame == UNCHANGED <<clock, decisionVars, jobVars, crashes>>

\* _ensure_can_create with and without allow_pending_owner, _ensure_can_issue
Allowed(trial) == IF trial THEN role # "blocked_user" ELSE role = "approved_user"

RequestCreate(t, point) ==
  /\ pc[t] = "idle" /\ Goto(t, point)
  /\ UNCHANGED <<itemVars, lock, item>> /\ CreateFrame

\* refused, or the proxy that is active already is returned
CreateRefused(t) ==
  /\ pc[t] \in CreateCalls /\ lock = None
  /\ \/ ~Allowed(pc[t] = "create_trial")
     \/ pc[t] = "create_proxy" /\ active \cap Proxies # {}
  /\ Goto(t, "idle")
  /\ UNCHANGED <<itemVars, lock, item>> /\ CreateFrame

\* mutant: the user lock is not taken
CreateEnterUnlocked(t) ==
  /\ pc[t] \in CreateCalls
  /\ Allowed(pc[t] = "create_trial")
  /\ Goto(t, CASE pc[t] = "create_key"   -> "row"
               [] pc[t] = "create_trial" -> "trial_row"
               [] pc[t] = "create_proxy" -> "proxy_row")
  /\ UNCHANGED <<itemVars, lock, item>> /\ CreateFrame

\* with the lock: the checks before the row pass
CreateEnter(t) ==
  /\ pc[t] \in CreateCalls /\ lock = None
  /\ Allowed(pc[t] = "create_trial")
  /\ lock' = t
  /\ Goto(t, CASE pc[t] = "create_key"   -> "row"
               [] pc[t] = "create_trial" -> "trial_row"
               [] pc[t] = "create_proxy" -> "proxy_row")
  /\ UNCHANGED <<itemVars, item>> /\ CreateFrame

NewRow(i) == /\ i \notin used
             /\ used' = used \cup {i} /\ live' = live \cup {i}
             /\ touched' = [touched EXCEPT ![i] = clock]

\* the row is inserted as pending_apply, or the insert raises
CreateRow(t, kind, point, next) ==
  /\ pc[t] = point
  /\ \/ \E i \in kind : NewRow(i) /\ item' = [item EXCEPT ![t] = i]
        /\ Goto(t, next) /\ UNCHANGED <<active, lock>> /\ CreateFrame
     \/ End(t) /\ UNCHANGED <<clock, decisionVars, itemVars, crashes>>

\* static MTProto: the row is inserted as active
IssueStatic(t) ==
  /\ pc[t] = "proxy_row"
  /\ \E i \in Proxies : NewRow(i) /\ active' = active \cup {i}
  /\ End(t) /\ UNCHANGED <<clock, decisionVars, crashes>>

\* the role is read again, but for managed MTProto, and the backend has the item
CreateAdd(t) ==
  /\ \/ pc[t] = "add" /\ Allowed(FALSE)
     \/ pc[t] = "trial_add" /\ Allowed(TRUE)
     \/ pc[t] = "proxy_add"
  /\ Goto(t, "mark")
  /\ UNCHANGED <<itemVars, lock, item>> /\ CreateFrame

\* the check or the backend refuses: apply_failed, which is live
CreateFails(t) ==
  /\ pc[t] \in {"add", "trial_add", "proxy_add"}
  /\ End(t) /\ UNCHANGED <<clock, decisionVars, itemVars, crashes>>

\* mark_active, of a row that is still pending
CreateMarks(t) ==
  /\ pc[t] = "mark" /\ item[t] \in live
  /\ active' = active \cup {item[t]}
  /\ touched' = [touched EXCEPT ![item[t]] = clock]
  /\ End(t) /\ UNCHANGED <<clock, decisionVars, live, used, crashes>>

\* mark_active raises: the compensation removes the item, or fails
CreateCompensates(t) ==
  /\ pc[t] = "mark"
  /\ Drop({item[t]}) \/ UNCHANGED <<live, active>>
  /\ End(t) /\ UNCHANGED <<clock, decisionVars, used, touched, crashes>>

CreateStep(t) ==
  \/ CreateRow(t, Keys, "row", "add")
  \/ CreateRow(t, Keys, "trial_row", "trial_add")
  \/ CreateRow(t, Proxies, "proxy_row", "proxy_add")
  \/ IssueStatic(t)
  \/ CreateAdd(t) \/ CreateFails(t) \/ CreateMarks(t) \/ CreateCompensates(t)

------------------------------------------------------------------------------
(* The rest of the system.                                                   *)

\* one item is revoked or deleted by its owner, an admin, the expiry job or the
\* anomaly detector, under the backend's own lock
Revoke(i) ==
  /\ i \in live
  /\ Drop({i})
  /\ UNCHANGED <<clock, decisionVars, used, touched, lock, pc, item, jobVars, crashes>>

\* reconcile_key_status of an admin finds the client of a half-made key
Check(i) ==
  /\ i \in (live \ active) \cap Keys
  /\ active' = active \cup {i}
  /\ UNCHANGED <<clock, decisionVars, live, used, touched, lock, pc, item, jobVars, crashes>>

Tick ==
  /\ clock < MaxClock /\ clock' = clock + 1
  /\ UNCHANGED <<decisionVars, itemVars, lock, pc, item, jobVars, crashes>>

\* a crash at any point and the start after it: each half-made item is finished,
\* taken back or kept by the reconciliation of its backend, whoever owns it
Restart ==
  /\ crashes < MaxCrashes /\ crashes' = crashes + 1
  /\ \E gone \in SUBSET (live \ active) :
       /\ live' = live \ gone
       /\ \E done \in SUBSET (live' \ active) : active' = active \cup done
  /\ pc' = [t \in Tasks |-> "idle"] /\ item' = [t \in Tasks |-> None]
  /\ lock' = None /\ NoJob
  /\ UNCHANGED <<clock, decisionVars, used, touched>>

Decision == (\E r \in Roles : ChangeRole(r)) \/ Unblock \/ Ask \/ Approve \/ Reject
Request(t) == (\E a \in Actors : RequestBlock(t, a)) \/ (\E c \in CreateCalls : RequestCreate(t, c))
Enter(t) == BlockRefused(t) \/ BlockRead(t) \/ CreateRefused(t) \/ CreateEnter(t)

Next ==
  \/ Decision
  \/ \E t \in Tasks : Request(t) \/ Enter(t) \/ BlockStep(t) \/ CreateStep(t)
  \/ \E i \in Items : Revoke(i) \/ Check(i)
  \/ Tick \/ Restart

Spec == Init /\ [][Next]_vars

\* the event loop runs ready tasks, backend calls end, and an asyncio lock is
\* handed to its waiters in order
FairSpec == Spec /\ \A t \in Tasks : /\ WF_vars(BlockStep(t) \/ CreateStep(t))
                                     /\ SF_vars(Enter(t))

------------------------------------------------------------------------------
(* Properties.                                                               *)

\* Every variable keeps its type, and users.blocked_at is set exactly for the
\* blocked (models/access.py tests both).
TypeOK ==
  /\ clock \in 0..MaxClock /\ crashes \in 0..MaxCrashes
  /\ role \in Roles /\ blockedAt \in 0..MaxClock \cup {None}
  /\ blockedAt # None <=> role = "blocked_user"
  /\ request \in 0..MaxClock \cup {None}
  /\ used \subseteq Items /\ live \subseteq used /\ active \subseteq live
  /\ touched \in [Items -> 0..MaxClock]
  /\ lock \in Tasks \cup {None} /\ pc \in [Tasks -> Points]
  /\ item \in [Tasks -> Items \cup {None}]
  /\ now \in 0..MaxClock \cup {None}
  /\ batch \subseteq Items /\ tried \subseteq Items
  /\ errors \in BOOLEAN /\ clean \in BOOLEAN /\ asked \in BOOLEAN

\* What block_user is for: once a block has ended without an error, and as long
\* as nobody lifts it, the user has no key and no proxy left on any backend,
\* whatever creations, decisions and restarts overlap with it.
NothingSurvivesBlock == clean => live = {}

\* No key and no proxy is created for a user who is blocked when it becomes active:
\* the role that create read before its awaits cannot have turned into a block
\* since.  A check or the start, which do not look at roles, may still find that an
\* item left half made by a creation that is over exists on the backend.
BornStep == \/ role # "blocked_user"
            \/ \A i \in active' \ active : i \in used /\ \A t \in Tasks : item[t] # i
NoAccessForBlocked == [][BornStep]_vars

\* Every block and every creation ends and gives the user lock back, also when
\* revokers raise and the items they leave are listed again.
CallsEnd == \A t \in Tasks : pc[t] # "idle" ~> pc[t] = "idle"

\* bot/middlewares/access.py tells the blocked user that /start sends a repeated
\* request: the request such a /start is answered with can be approved.
RepeatCanBeApproved == asked => request > blockedAt
=============================================================================
