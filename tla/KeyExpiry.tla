----------------------------- MODULE KeyExpiry -----------------------------
(* The expiry job of services/key_expiry.py: reminders at several thresholds, *)
(* then the revocation of what has expired, over the rows of                  *)
(* repositories/vpn_keys.py.  Owners revoke their keys meanwhile, sends,      *)
(* marks and revocations raise, and the process may die.  Time is in days.    *)
EXTENDS FiniteSets, Integers

CONSTANTS ExpKeys,          \* ids of the keys that expire
          NotifyDays,       \* notify_days
          LastDay,          \* bound: the clock
          ReminderLimit,    \* LIMIT of list_not_notified_expiring
          ExpiredLimit,     \* LIMIT of list_expired_active
          MaxTroubles       \* bound: raising database calls, revocations and crashes

ASSUME ExpiryBounds ==
    /\ ExpKeys \subseteq Nat /\ IsFiniteSet(ExpKeys)
    /\ NotifyDays \subseteq Nat \ {0} /\ IsFiniteSet(NotifyDays)
    /\ LastDay \in Nat /\ {ReminderLimit, ExpiredLimit} \subseteq Nat \ {0} /\ MaxTroubles \in Nat

VARIABLES expires,        \* expires_at
          works,          \* the keys whose status is active
          handled,        \* expiry_notified_days
          today, asOf,    \* the clock, and the `now` of the running phase
          step,           \* where the job awaits
          ahead,          \* thresholds still to go through in this run
          queue,          \* keys the last listing returned
          toldNow,        \* notified_this_run
          stuck,          \* keys whose revocation always raises (their backend is degraded)
          troubles,
          unmarked        \* history: keys with a reminder whose thresholds were not all recorded

expVars == <<expires, works, handled, today, asOf, step, ahead, queue, toldNow, stuck, troubles, unmarked>>
jobMemory == <<asOf, step, ahead, queue, toldNow>>
expRows == <<expires, works, handled, stuck>>

ExpInit ==
    /\ expires \in [ExpKeys -> 1 .. LastDay] /\ works = ExpKeys
    /\ handled = [k \in ExpKeys |-> {}] /\ today = 0 /\ asOf = 0
    /\ step = "asleep" /\ ahead = {} /\ queue = {} /\ toldNow = {}
    /\ stuck \in {S \in SUBSET ExpKeys : Cardinality(S) < ExpiredLimit} /\ troubles = 0
    /\ unmarked = {}

Before(j, k) == expires[j] < expires[k] \/ (expires[j] = expires[k] /\ j < k)

\* ORDER BY expires_at LIMIT n; the rows are then taken in that order.
Earliest(keys, n) == {k \in keys : Cardinality({j \in keys : Before(j, k)}) < n}
First == CHOOSE k \in queue : \A j \in queue \ {k} : Before(k, j)

Threshold == CHOOSE d \in ahead : \A e \in ahead : d <= e
Sleep == step' = "asleep" /\ ahead' = {} /\ queue' = {} /\ toldNow' = {} /\ UNCHANGED asOf

Trouble == troubles < MaxTroubles /\ troubles' = troubles + 1

\* The loop begins a run with the reminders.
WakeUp ==
    /\ step = "asleep" /\ step' = "threshold" /\ ahead' = NotifyDays /\ toldNow' = {} /\ asOf' = today
    /\ UNCHANGED <<expRows, today, queue, troubles, unmarked>>

\* list_not_notified_expiring of the next threshold, the smallest first.
ListExpiring ==
    /\ step = "threshold" /\ ahead # {}
    /\ \/ /\ queue' = Earliest({k \in works : /\ asOf < expires[k] /\ expires[k] <= asOf + Threshold
                                              /\ Threshold \notin handled[k]}, ReminderLimit)
          /\ step' = "remind" /\ UNCHANGED <<ahead, toldNow, asOf, troubles, unmarked>>
       \/ Trouble /\ Sleep /\ unmarked' = unmarked \union toldNow
    /\ UNCHANGED <<expRows, today>>

\* Mutant: a key reminded in this run is passed over without a mark.
MarkLargerNever ==
    /\ step = "remind" /\ queue # {} /\ First \in toldNow /\ queue' = queue \ {First}
    /\ UNCHANGED <<expRows, today, asOf, step, ahead, toldNow, troubles, unmarked>>

\* A larger threshold of a key reminded in this run is only marked; nothing catches this mark,
\* and the run ends, the revocations included.
MarkLarger ==
    /\ step = "remind" /\ queue # {} /\ First \in toldNow
    /\ \/ /\ handled' = [handled EXCEPT ![First] = @ \union {Threshold}]
          /\ queue' = queue \ {First} /\ UNCHANGED <<unmarked, asOf, step, ahead, toldNow, troubles>>
       \/ Trouble /\ unmarked' = unmarked \union toldNow /\ Sleep /\ UNCHANGED handled
    /\ UNCHANGED <<expires, works, stuck, today>>

\* _notify_owner_expiring_soon: it may raise, and then nothing is marked.
SendReminder ==
    /\ step = "remind" /\ queue # {} /\ First \notin toldNow
    /\ \/ step' = "mark" /\ UNCHANGED queue
       \/ queue' = queue \ {First} /\ UNCHANGED step
    /\ UNCHANGED <<expRows, today, asOf, ahead, toldNow, troubles, unmarked>>

MarkReminded ==
    /\ step = "mark" /\ step' = "remind" /\ queue' = queue \ {First}
    /\ \/ /\ handled' = [handled EXCEPT ![First] = @ \union {Threshold}]
          /\ toldNow' = toldNow \union {First} /\ UNCHANGED <<unmarked, troubles>>
       \/ Trouble /\ unmarked' = unmarked \union {First} /\ UNCHANGED <<handled, toldNow>>
    /\ UNCHANGED <<expires, works, stuck, today, asOf, ahead>>

NextThreshold ==
    /\ step = "remind" /\ queue = {} /\ step' = "threshold" /\ ahead' = ahead \ {Threshold}
    /\ UNCHANGED <<expRows, today, asOf, queue, toldNow, troubles, unmarked>>

\* revoke_expired_keys reads the clock again and lists the earliest keys.
ListExpired ==
    /\ step = "threshold" /\ ahead = {}
    /\ \/ /\ asOf' = today /\ queue' = Earliest({k \in works : expires[k] <= today}, ExpiredLimit)
          /\ step' = "revoke" /\ UNCHANGED <<ahead, toldNow, troubles>>
       \/ Trouble /\ Sleep
    /\ UNCHANGED <<expRows, today, unmarked>>

\* A revocation that raises is counted and the next key is taken.
RevokeExpired ==
    /\ step = "revoke" /\ queue # {} /\ queue' = queue \ {First}
    /\ \/ First \notin stuck /\ works' = works \ {First} /\ UNCHANGED troubles
       \/ First \in stuck /\ UNCHANGED <<works, troubles>>
       \/ First \notin stuck /\ Trouble /\ UNCHANGED works
    /\ UNCHANGED <<expires, handled, stuck, today, asOf, step, ahead, toldNow, unmarked>>

RunDone ==
    /\ step = "revoke" /\ queue = {} /\ Sleep
    /\ UNCHANGED <<expRows, today, troubles, unmarked>>

OwnerRevokes(k) ==
    /\ k \in works /\ works' = works \ {k}
    /\ UNCHANGED <<expires, handled, stuck, today, jobMemory, troubles, unmarked>>

DayPasses ==
    /\ today < LastDay /\ today' = today + 1
    /\ UNCHANGED <<expRows, jobMemory, troubles, unmarked>>

ExpiryCrash ==
    /\ Trouble /\ Sleep
    /\ unmarked' = unmarked \union toldNow \union (IF step = "mark" THEN {First} ELSE {})
    /\ UNCHANGED <<expRows, today>>

Job ==
    \/ WakeUp \/ ListExpiring \/ MarkLarger \/ SendReminder \/ MarkReminded \/ NextThreshold
    \/ ListExpired \/ RevokeExpired \/ RunDone

ExpNext == Job \/ (\E k \in ExpKeys : OwnerRevokes(k)) \/ DayPasses \/ ExpiryCrash

ExpSpec == ExpInit /\ [][ExpNext]_expVars

\* The loop runs for ever.
ExpFairness == WF_expVars(Job)

-----------------------------------------------------------------------------
(* Properties.                                                               *)

\* The values the state of the module takes.
ExpTypeOK ==
    /\ works \subseteq ExpKeys /\ handled \in [ExpKeys -> SUBSET NotifyDays]
    /\ {today, asOf} \subseteq 0 .. LastDay /\ ahead \subseteq NotifyDays
    /\ step \in {"asleep", "threshold", "remind", "mark", "revoke"}
    /\ queue \subseteq ExpKeys /\ toldNow \subseteq ExpKeys /\ unmarked \subseteq ExpKeys
    /\ (step \in {"remind", "mark"} => ahead # {}) /\ (step = "mark" => queue # {})
    /\ troubles \in 0 .. MaxTroubles

\* No mark was lost, neither one of the key nor one of a key that is listed before it.
Recorded(k) == \A j \in unmarked : j # k /\ ~Before(j, k)

\* A later reminder is always for a nearer end: a threshold whose reminder came with a
\* smaller one never fires afterwards, unless a mark was lost (services/key_expiry.py:78).
RemindersComeNearer ==
    [][step = "remind" /\ step' = "mark" /\ Recorded(First)
          => \A d \in handled[First] : d > Threshold]_expVars

\* An expired key is revoked in the end, also behind keys that cannot be revoked and
\* after runs that failed: fewer of those than one listing holds.
ExpiredGo == \A k \in ExpKeys : [](k \notin stuck /\ expires[k] <= today => <>(k \notin works))
=============================================================================
