----------------------------- MODULE TrialAccess -----------------------------
(***************************************************************************)
(* Trial keys of one user: services/trial_access.py over                   *)
(* repositories/trial_requests.py.  The user asks, a superadmin approves   *)
(* or rejects, an approval creates a key in the key service and then marks *)
(* the request.  Decisions hold the decision lock; the quota is a count of *)
(* requests later than the last reset, in whole seconds.                   *)
(*                                                                         *)
(* Left out: the key's own life (XrayKeys, AwgKeys), whether its owner may *)
(* have it (UserAccess: the key service refuses, one of the ways in which  *)
(* the creation raises), delivery by Telegram, audit rows, and deletion of *)
(* an issued key, which gives no quota back.                               *)
(***************************************************************************)
EXTENDS Naturals, FiniteSets

CONSTANTS
  Requests,    \* ids of trial_key_requests rows
  Admins,      \* decisions under way at a time
  None,
  MaxClock,    \* bound on the seconds that pass
  MaxIssued,   \* bound on the keys counted for one request
  MaxCrashes   \* bound on process crashes

ASSUME TrialNone   == None \notin Admins \cup Requests \cup Nat
ASSUME TrialBounds == MaxClock \in Nat /\ MaxIssued \in Nat \ {0, 1} /\ MaxCrashes \in Nat

VARIABLES
  clock,     \* the time in whole seconds
  status,    \* status[r]; "none" before the row
  askedAt,   \* askedAt[r]: requested_at
  resetAt,   \* users.trial_quota_reset_at, or None
  lock,      \* holder of _decision_lock
  pc,        \* pc[a]
  req,       \* req[a]: the request it decides on
  issued,    \* issued[r]: keys created for r
  crashes,
  hurt       \* history: requests whose key exists and whose approval was lost

rowVars == <<status, askedAt, resetAt>>
vars == <<clock, rowVars, lock, pc, req, issued, crashes, hurt>>

Statuses == {"none", "pending", "approved", "rejected"}
Points   == {"idle", "approve", "reject", "create", "mark", "refuse"}

------------------------------------------------------------------------------
Goto(a, point) == pc' = [pc EXCEPT ![a] = point]
End(a) == /\ Goto(a, "idle") /\ req' = [req EXCEPT ![a] = None]
          /\ lock' = IF lock = a THEN None ELSE lock

\* count_used_since_reset: a missing reset is long ago
Counted(r) == /\ status[r] \in {"pending", "approved"}
              /\ resetAt = None \/ askedAt[r] > resetAt
CanRequestTrial == \A r \in Requests : ~Counted(r)

Init ==
  /\ clock = 0 /\ crashes = 0
  /\ status = [r \in Requests |-> "none"] /\ askedAt = [r \in Requests |-> None]
  /\ resetAt = None
  /\ lock = None
  /\ pc = [a \in Admins |-> "idle"] /\ req = [a \in Admins |-> None]
  /\ issued = [r \in Requests |-> 0] /\ hurt = {}

------------------------------------------------------------------------------
(* The user and the clock.                                                   *)

UserFrame == UNCHANGED <<clock, resetAt, lock, pc, req, issued, crashes, hurt>>

Insert(r) == /\ status[r] = "none"
             /\ status' = [status EXCEPT ![r] = "pending"]
             /\ askedAt' = [askedAt EXCEPT ![r] = clock]

\* mutant: the quota is left to the unique index
CreateUncounted(r) ==
  /\ \A q \in Requests : status[q] # "pending"
  /\ Insert(r) /\ UserFrame

\* mutant: the quota without the unique index
CreateUnindexed(r) == CanRequestTrial /\ Insert(r) /\ UserFrame

\* create_trial_request: quota and insert in one transaction; the index
\* idx_trial_requests_one_pending refuses a second pending row
CreateRequest(r) ==
  /\ CanRequestTrial
  /\ \A q \in Requests : status[q] # "pending"
  /\ Insert(r) /\ UserFrame

Tick == clock < MaxClock /\ clock' = clock + 1
        /\ UNCHANGED <<rowVars, lock, pc, req, issued, crashes, hurt>>

\* admin_reset_trial_quota (its clock and its write are one step here)
ResetQuota ==
  /\ resetAt' = clock
  /\ UNCHANGED <<clock, status, askedAt, lock, pc, req, issued, crashes, hurt>>

------------------------------------------------------------------------------
(* Decisions.                                                                *)

DecisionFrame == UNCHANGED <<clock, askedAt, resetAt, crashes>>

Decide(a, r, how) ==
  /\ pc[a] = "idle" /\ status[r] # "none"
  /\ Goto(a, how) /\ req' = [req EXCEPT ![a] = r]
  /\ UNCHANGED <<status, lock, issued, hurt>> /\ DecisionFrame

\* mutant: the request is decided without the lock
EnterUnlocked(a) ==
  /\ pc[a] \in {"approve", "reject"}
  /\ status[req[a]] = "pending"
  /\ Goto(a, IF pc[a] = "approve" THEN "create" ELSE "refuse")
  /\ UNCHANGED <<lock, req, status, issued, hurt>> /\ DecisionFrame

\* with the lock the request is read again
Enter(a) ==
  /\ pc[a] \in {"approve", "reject"} /\ lock = None
  /\ status[req[a]] = "pending"
  /\ lock' = a
  /\ Goto(a, IF pc[a] = "approve" THEN "create" ELSE "refuse")
  /\ UNCHANGED <<req, status, issued, hurt>> /\ DecisionFrame

AlreadyDecided(a) ==
  /\ pc[a] \in {"approve", "reject"} /\ lock = None
  /\ status[req[a]] # "pending"
  /\ End(a) /\ UNCHANGED <<status, issued, hurt>> /\ DecisionFrame

\* create_xray_key or create_awg_key returns a key
CreateKey(a) ==
  /\ pc[a] = "create" /\ issued[req[a]] < MaxIssued
  /\ issued' = [issued EXCEPT ![req[a]] = @ + 1]
  /\ Goto(a, "mark")
  /\ UNCHANGED <<status, lock, req, hurt>> /\ DecisionFrame

\* or raises: the request stays pending
CreateRaises(a) ==
  /\ pc[a] = "create"
  /\ End(a) /\ UNCHANGED <<status, issued, hurt>> /\ DecisionFrame

\* trial_requests.approve and reject: UPDATE ... WHERE status = 'pending'
Mark(a, point, s) ==
  /\ pc[a] = point /\ status[req[a]] = "pending"
  /\ status' = [status EXCEPT ![req[a]] = s]
  /\ End(a) /\ UNCHANGED <<issued, hurt>> /\ DecisionFrame

\* the UPDATE raises, or finds the request decided: the key stays
MarkRaises(a) ==
  /\ pc[a] \in {"mark", "refuse"}
  /\ hurt' = IF pc[a] = "mark" THEN hurt \cup {req[a]} ELSE hurt
  /\ End(a) /\ UNCHANGED <<status, issued>> /\ DecisionFrame

\* the process dies and starts again
Restart ==
  /\ crashes < MaxCrashes /\ crashes' = crashes + 1
  /\ hurt' = hurt \cup {req[a] : a \in {b \in Admins : pc[b] = "mark"}}
  /\ pc' = [a \in Admins |-> "idle"] /\ req' = [a \in Admins |-> None] /\ lock' = None
  /\ UNCHANGED <<clock, rowVars, issued>>

DecisionStep(a) == \/ Enter(a) \/ AlreadyDecided(a)
                   \/ CreateKey(a) \/ CreateRaises(a)
                   \/ Mark(a, "mark", "approved") \/ Mark(a, "refuse", "rejected")
                   \/ MarkRaises(a)

Next ==
  \/ \E r \in Requests : CreateRequest(r)
  \/ \E a \in Admins, r \in Requests, how \in {"approve", "reject"} : Decide(a, r, how)
  \/ \E a \in Admins : DecisionStep(a)
  \/ Tick \/ ResetQuota \/ Restart

Spec == Init /\ [][Next]_vars

------------------------------------------------------------------------------
(* Properties.                                                               *)

\* Every variable keeps its type, and there is at most one pending request.
TypeOK ==
  /\ clock \in 0..MaxClock /\ crashes \in 0..MaxCrashes
  /\ status \in [Requests -> Statuses]
  /\ askedAt \in [Requests -> 0..MaxClock \cup {None}]
  /\ resetAt \in 0..MaxClock \cup {None}
  /\ lock \in Admins \cup {None} /\ pc \in [Admins -> Points]
  /\ req \in [Admins -> Requests \cup {None}]
  /\ issued \in [Requests -> 0..MaxIssued]
  /\ hurt \subseteq Requests
  /\ \A q, r \in Requests : status[q] = "pending" /\ status[r] = "pending" => q = r

\* What the decision lock is for: two admins, a double tap or an approval against
\* a rejection make one key for an approved request and none for a rejected one,
\* as long as no approval was lost after its key was made.
DecidedOnce ==
  \A r \in Requests \ hurt :
    /\ issued[r] <= 1
    /\ status[r] = "approved" => issued[r] = 1
    /\ status[r] = "rejected" => issued[r] = 0

\* The quota: of the requests later than the last reset, at most one is pending or
\* approved, so two taps or a tap during a decision give no second trial.
OneTrial == \A q, r \in Requests : Counted(q) /\ Counted(r) => q = r

\* trial_access.py:119: the lock and the new look at the request "guarantee the key
\* is provisioned exactly once": no request ever has two keys.
ProvisionedOnce == \A r \in Requests : issued[r] <= 1
==============================================================================
