-------------------------- MODULE BackgroundProofs --------------------------
(* What holds of the background jobs, for every value of the constants: a    *)
(* traffic total counts every byte once, reminders come nearer, an alert has  *)
(* its evidence, an announcement reaches everybody once, a WARP at rest is as *)
(* its row says, and a sweep leaves nothing live.                            *)
EXTENDS MCBackground, FiniteSetTheorems, SequenceTheorems, WellFoundedInduction, TLAPS

--------------------------------------------------------------------------------
(* The traffic of a key (TrafficStats), for any number of overlapping         *)
(* refreshes.                                                                *)

\* What is shown once a sample is stored, and what the counter would add to it after that.
Shown == [total |-> total, raw |-> lastRaw]
After(s) == [total |-> NextTotal(Shown, s), raw |-> s]

\* A refresh inside of the lock is the only one there; it holds what is stored.
TurnInv ==
    \A r \in Refreshers :
        /\ place[r] \in {"sample", "read", "store"} => turn = r
        /\ place[r] \notin {"read", "store"} => sample[r] = Missing
        /\ keyRow /\ place[r] = "store" => base[r] = Shown

\* Neither the counter nor a sample on its way is more than what was carried.
SampleIsSound(s) ==
    /\ NextTotal(Shown, s) <= carried
    /\ raw # Missing => NextTotal(After(s), raw) <= carried

CountInv ==
    /\ raw # Missing => raw <= carried
    /\ keyRow /\ raw # Missing => NextTotal(Shown, raw) <= carried
    /\ \A r \in Refreshers : keyRow /\ sample[r] # Missing => SampleIsSound(sample[r])

\* Before a restart the counter is what was carried, and what is stored is an earlier value of it.
FirstRunInv ==
    restarts = 0 /\ keyRow =>
        /\ raw = carried
        /\ IF lastRaw = Missing THEN total = 0 ELSE total = lastRaw /\ lastRaw <= raw
        /\ \A r \in Refreshers : sample[r] # Missing => lastRaw <= sample[r] /\ sample[r] <= raw

\* The inductive invariant of the traffic statistics.
TInv == TrfTypeOK /\ NeverInflated /\ TurnInv /\ CountInv /\ FirstRunInv

\* Nothing was carried yet.
LEMMA InitTInv == TrfInit => TInv
  BY TrafficBounds DEF TrfInit, TInv, TrfTypeOK, NeverInflated, TurnInv, CountInv, FirstRunInv, Shown,
        NextTotal, Missing, Counts

\* The invariant reads nothing else.
LEMMA StutterTInv == TInv /\ UNCHANGED trfVars => TInv'
  BY DEF trfVars, TInv, TrfTypeOK, NeverInflated, TurnInv, CountInv, FirstRunInv, Shown, After,
        SampleIsSound, NextTotal, Missing, Counts

\* What _next_total reads.
Bases == [total : Nat, raw : Nat \union {Missing}]

\* A total never goes down, and a counter that starts again adds nothing yet.
LEMMA NextTotalGrows ==
    ASSUME NEW b \in Bases, NEW c \in Nat
    PROVE  /\ NextTotal(b, c) \in Nat /\ NextTotal(b, c) >= b.total
           /\ NextTotal(b, 0) = b.total
           /\ b.raw = c => NextTotal(b, c) = b.total
  BY DEF NextTotal, Missing, Bases

\* A counter that goes one up adds one at most.
LEMMA NextTotalStep ==
    ASSUME NEW b \in Bases, NEW c \in Nat PROVE NextTotal(b, c + 1) <= NextTotal(b, c) + 1
  BY DEF NextTotal, Missing, Bases

\* What is stored is such a base, and so is what will be.
LEMMA BasesAreRead ==
    ASSUME TrfTypeOK
    PROVE  /\ Shown \in Bases /\ Shown.total = total
           /\ \A s \in Nat : /\ After(s) \in Bases /\ After(s).raw = s
                             /\ After(s).total = NextTotal(Shown, s)
  BY TrafficBounds, NextTotalGrows DEF TrfTypeOK, Shown, After, Bases, Missing, Counts

\* Taking a turn, or a sample, and reading the base.
LEMMA RefreshTInv ==
    ASSUME TInv, NEW r \in Refreshers, AskRefresh(r) \/ TakeTurn(r) \/ TakeSample(r) \/ ReadBase(r)
    PROVE  TInv'
<1>. USE TrafficBounds DEF stored, backend, Missing, Counts
<1>1. TrfTypeOK'
  BY DEF TInv, TrfTypeOK, AskRefresh, TakeTurn, TakeSample, ReadBase
<1>2. UNCHANGED <<total, lastRaw, raw, carried, keyRow, archived, restarts>>
  BY DEF AskRefresh, TakeTurn, TakeSample, ReadBase
<1>3. NeverInflated' /\ Shown' = Shown
  BY <1>2 DEF TInv, NeverInflated, Shown
<1>4. TurnInv'
  <2>. SUFFICES ASSUME NEW q \in Refreshers
                PROVE  /\ place'[q] \in {"sample", "read", "store"} => turn' = q
                       /\ place'[q] \notin {"read", "store"} => sample'[q] = Missing
                       /\ keyRow' /\ place'[q] = "store" => base'[q] = Shown'
    BY Zenon DEF TurnInv
  <2>1. CASE q = r
    BY <1>2, <1>3, <2>1 DEF TInv, TrfTypeOK, TurnInv, AskRefresh, TakeTurn, TakeSample, ReadBase, Shown
  <2>2. CASE q # r
    BY <1>2, <1>3, <2>2 DEF TInv, TrfTypeOK, TurnInv, AskRefresh, TakeTurn, TakeSample, ReadBase, Shown
  <2>. QED
    BY <2>1, <2>2
<1>5. ASSUME NEW q \in Refreshers, sample'[q] # Missing
      PROVE  sample[q] = sample'[q] \/ (raw # Missing /\ sample'[q] = raw)
  BY <1>5 DEF TInv, TrfTypeOK, AskRefresh, TakeTurn, TakeSample, ReadBase
<1>6. ASSUME keyRow, raw # Missing PROVE SampleIsSound(raw)
  <2>1. raw \in Nat /\ total \in Nat /\ lastRaw \in Nat \union {Missing}
    BY <1>6 DEF TInv, TrfTypeOK
  <2>2. NextTotal(Shown, raw) \in Nat /\ NextTotal(After(raw), raw) = NextTotal(Shown, raw)
    BY <2>1, NextTotalGrows, BasesAreRead DEF TInv
  <2>. QED
    BY <1>6, <2>2 DEF TInv, CountInv, SampleIsSound
<1>7. CountInv'
  <2>. SUFFICES ASSUME NEW q \in Refreshers, keyRow, sample'[q] # Missing PROVE SampleIsSound(sample'[q])
    BY <1>2, <1>3 DEF TInv, CountInv, SampleIsSound, After, Shown
  <2>. QED
    BY <1>5, <1>6 DEF TInv, CountInv
<1>8. FirstRunInv'
  BY <1>2, <1>5 DEF TInv, TrfTypeOK, FirstRunInv
<1>. QED
  BY <1>1, <1>3, <1>4, <1>7, <1>8 DEF TInv

\* Storing: only the one inside of the lock has a sample, and what it read is still there.
LEMMA StoreTInv == ASSUME TInv, NEW r \in Refreshers, StoreTotal(r) PROVE TInv'
<1>. USE TrafficBounds DEF stored, backend, Missing, Counts
<1>1. \A q \in Refreshers : sample'[q] = Missing /\ place'[q] \notin {"sample", "read", "store"}
  BY DEF TInv, TrfTypeOK, TurnInv, StoreTotal
<1>2. UNCHANGED <<raw, carried, keyRow, archived, restarts>>
  BY DEF StoreTotal
<1>3. CASE UNCHANGED <<total, lastRaw>>
  BY <1>1, <1>2, <1>3 DEF TInv, TrfTypeOK, NeverInflated, TurnInv, CountInv, FirstRunInv, StoreTotal,
        Shown, NextTotal
<1>4. CASE keyRow /\ sample[r] # Missing /\ total' = NextTotal(base[r], sample[r]) /\ lastRaw' = sample[r]
  <2>1. base[r] = Shown /\ SampleIsSound(sample[r]) /\ sample[r] \in Counts
    BY <1>4 DEF TInv, TrfTypeOK, TurnInv, CountInv, StoreTotal
  <2>2. total \in Nat /\ lastRaw \in Nat \union {Missing} /\ carried \in Counts
    BY DEF TInv, TrfTypeOK
  <2>3. total' \in Nat /\ total' <= carried
    <3>. HIDE DEF Missing, Counts
    <3>1. total' = NextTotal(Shown, sample[r])
      BY <1>4, <2>1
    <3>2. Shown \in Bases /\ sample[r] \in Nat /\ carried \in Nat
      BY <2>1, <2>2, BasesAreRead DEF TInv, Counts
    <3>3. NextTotal(Shown, sample[r]) \in Nat
      BY <3>2, NextTotalGrows
    <3>. QED
      BY <2>1, <3>1, <3>3 DEF SampleIsSound
  <2>4. TrfTypeOK'
    BY <1>2, <1>4, <2>1, <2>2, <2>3 DEF TInv, TrfTypeOK, StoreTotal
  <2>5. NeverInflated'
    BY <1>2, <2>3 DEF TInv, NeverInflated
  <2>6. TurnInv'
    BY <1>1 DEF TurnInv
  <2>7. CountInv'
    BY <1>1, <1>2, <1>4, <2>1 DEF TInv, CountInv, SampleIsSound, Shown, After
  <2>8. FirstRunInv'
    BY <1>1, <1>2, <1>4, <2>1, <2>2 DEF TInv, FirstRunInv, Shown, NextTotal
  <2>. QED
    BY <2>4, <2>5, <2>6, <2>7, <2>8 DEF TInv
<1>. QED
  BY <1>3, <1>4 DEF StoreTotal

\* A step of the backend leaves what is stored and the refreshes alone.
LEMMA BackendTInv == ASSUME TInv, Carry \/ RestartCounter \/ PeerBack PROVE TInv'
<1>. USE TrafficBounds DEF stored, Missing, Counts
<1>1. UNCHANGED <<stored, turn, place, sample, base>> /\ Shown' = Shown
  BY DEF Carry, RestartCounter, PeerBack, Shown
<1>2. TrfTypeOK' /\ NeverInflated' /\ TurnInv'
  <2>1. TrfTypeOK' /\ NeverInflated'
    BY <1>1 DEF TInv, TrfTypeOK, NeverInflated, CountInv, Carry, RestartCounter, PeerBack
  <2>2. TurnInv'
    BY <1>1 DEF TInv, TurnInv
  <2>. QED
    BY <2>1, <2>2
<1>3. /\ total \in Nat /\ lastRaw \in Nat \union {Missing} /\ carried \in Nat /\ raw \in Nat \union {Missing}
      /\ \A q \in Refreshers : sample[q] \in Nat \union {Missing}
  BY DEF TInv, TrfTypeOK
<1>4. \/ raw # Missing /\ raw' = raw + 1 /\ carried' = carried + 1
      \/ raw' \in {0, Missing} /\ carried' = carried
  BY DEF Carry, RestartCounter, PeerBack
<1>5. ASSUME NEW b \in Bases, raw' # Missing,
             b.total <= carried, raw # Missing => NextTotal(b, raw) <= carried
      PROVE  NextTotal(b, raw') <= carried'
  <2>1. CASE raw # Missing /\ raw' = raw + 1 /\ carried' = carried + 1
    BY <1>3, <1>5, <2>1, NextTotalGrows, NextTotalStep
  <2>2. CASE raw' = 0 /\ carried' = carried
    BY <1>5, <2>2, NextTotalGrows
  <2>. QED
    BY <1>4, <1>5, <2>1, <2>2
<1>6. CountInv'
  <2>1. raw' # Missing => raw' <= carried'
    BY <1>3, <1>4 DEF TInv, CountInv
  <2>2. keyRow' /\ raw' # Missing => NextTotal(Shown', raw') <= carried'
    BY <1>1, <1>3, <1>5, BasesAreRead DEF TInv, CountInv, NeverInflated
  <2>3. ASSUME NEW q \in Refreshers, keyRow', sample'[q] # Missing PROVE SampleIsSound(sample[q])'
    <3>1. SampleIsSound(sample[q]) /\ sample[q] \in Nat /\ sample'[q] = sample[q]
      BY <1>1, <1>3, <2>3 DEF TInv, CountInv
    <3>2. NextTotal(Shown, sample[q]) \in Nat /\ NextTotal(Shown, sample[q]) <= carried
      BY <1>3, <3>1, NextTotalGrows, BasesAreRead DEF SampleIsSound, TInv
    <3>3. raw' # Missing => NextTotal(After(sample[q]), raw') <= carried'
      BY <1>5, <3>1, <3>2, BasesAreRead DEF SampleIsSound, TInv
    <3>4. After(sample[q])' = After(sample[q]) /\ carried' \in Nat /\ carried' >= carried
      BY <1>1, <1>3, <1>4, <3>1 DEF After
    <3>5. NextTotal(Shown', sample'[q]) <= carried'
      BY <1>1, <1>3, <3>1, <3>2, <3>4
    <3>6. raw' # Missing => NextTotal(After(sample[q])', raw') <= carried'
      BY <3>3, <3>4
    <3>. QED
      BY <3>5, <3>6 DEF SampleIsSound
  <2>. QED
    BY <2>1, <2>2, <2>3 DEF CountInv
<1>7. FirstRunInv'
  BY <1>1, <1>3 DEF TInv, TrfTypeOK, FirstRunInv, Carry, RestartCounter, PeerBack
<1>. QED
  BY <1>2, <1>6, <1>7 DEF TInv

\* What is deleted is archived, and nothing is stored any more.
LEMMA DeleteTInv == ASSUME TInv, DeleteKey PROVE TInv'
<1>. USE TrafficBounds DEF DeleteKey, Missing
<1>1. TrfTypeOK'
  <2>1. keyRow' \in BOOLEAN /\ (keyRow' <=> archived' = Missing)
    <3>1. ~keyRow' /\ archived' # Missing
      BY DEF TInv, TrfTypeOK, Counts
    <3>. QED
      BY <3>1
  <2>2. /\ archived' \in Counts \union {Missing} /\ total' \in Counts
        /\ lastRaw' \in Counts \union {Missing} /\ raw' \in Counts \union {Missing}
    BY DEF TInv, TrfTypeOK, Counts
  <2>3. UNCHANGED <<turn, place, sample, base, restarts, carried>>
    OBVIOUS
  <2>. HIDE DEF DeleteKey, Counts, Missing
  <2>. QED
    BY <2>1, <2>2, <2>3 DEF TInv, TrfTypeOK
<1>2. NeverInflated'
  BY DEF TInv, TrfTypeOK, NeverInflated, Counts
<1>3. TurnInv'
  BY DEF TInv, TurnInv
<1>4. CountInv' /\ FirstRunInv'
  BY DEF CountInv, FirstRunInv
<1>. QED
  BY <1>1, <1>2, <1>3, <1>4 DEF TInv

\* Every step of the module keeps the invariant.
LEMMA NextTInv == TInv /\ [TrfNext]_trfVars => TInv'
  BY StutterTInv, RefreshTInv, StoreTInv, BackendTInv, DeleteTInv DEF TrfNext, Refresh

\* services/traffic_stats.py: refreshes that overlap and backends that restart count no byte
\* twice, and without a restart the total lacks only what came after the last sample.
THEOREM BytesAreCountedOnce == TrfSpec => []CountedOnce
<1>1. TInv => CountedOnce
  BY DEF TInv, TrfTypeOK, FirstRunInv, CountedOnce, NothingLost, Missing, Counts
<1>. QED
  BY <1>1, InitTInv, NextTInv, PTL DEF TrfSpec

--------------------------------------------------------------------------------
(* The reminders (KeyExpiry), for any keys, thresholds and limits.            *)

\* A threshold the run has still to list.
Listing == step \in {"remind", "mark"}
ToList(T) == T \in ahead /\ ~(Listing /\ T = Threshold)

\* What this run has told, or has still to go through.
Held == toldNow \union (IF Listing THEN queue ELSE {})

\* What the listing of T has to choose from, and the part of it that comes before k.
Due(T) == {k \in works : /\ asOf < expires[k] /\ expires[k] <= asOf + T
                         /\ T \notin handled[k]}
DueBefore(T, k) == {j \in Due(T) : Before(j, k)}

\* The phases of a run; it goes through the thresholds from the smallest.
RunInv ==
    /\ expires \in [ExpKeys -> 1 .. LastDay]
    /\ step = "asleep" => toldNow = {}
    /\ step \in {"asleep", "revoke"} => ahead = {}
    /\ \A T \in ahead, U \in NotifyDays : T < U => U \in ahead
    /\ step = "mark" => First \notin toldNow

\* What this run holds is due for every threshold that is left of it.
NearInv == \A k \in Held, T \in ahead : asOf < expires[k] /\ expires[k] <= asOf + T

\* And no limit keeps it from the listings that are left.
RankInv == \A k \in Held, T \in ahead : ToList(T) /\ Recorded(k) => Cardinality(DueBefore(T, k)) < ReminderLimit

\* Thresholds are handled from the smallest, with all larger ones, except in this run.
WholeInv ==
    \A k \in works, T \in NotifyDays, U \in NotifyDays :
        Recorded(k) /\ ToList(T) /\ T \in handled[k] /\ T < U => U \in handled[k]

StillToMark(k, T) == k \in toldNow /\ T \in ahead /\ (Listing /\ T = Threshold => k \in queue)
\* A key whose owner was told is marked or about to be.
MarkedInv ==
    \A k \in works, d \in NotifyDays, T \in NotifyDays :
        Recorded(k) /\ d \in handled[k] /\ d < T => T \in handled[k] \/ StillToMark(k, T)

\* What is still to be told has no smaller threshold handled, nor this one.
FreshInv == Listing => \A k \in queue \ toldNow : Recorded(k) => \A d \in handled[k] : d > Threshold

\* The inductive invariant of the expiry.
EInv == ExpTypeOK /\ RunInv /\ NearInv /\ RankInv /\ WholeInv /\ MarkedInv /\ FreshInv

\* A set of numbers that is not empty has a smallest one.
LEMMA SmallestIn == ASSUME NEW S \in SUBSET Nat, S # {} PROVE \E x \in S : \A y \in S : x <= y
<1>1. PICK x \in S : \A y \in S : ~(<<y, x>> \in OpToRel(<, Nat))
  BY WFMin, NatLessThanWellFounded
<1>2. ASSUME NEW y \in S PROVE x <= y
  <2>1. ~(y < x)
    <3>1. <<y, x>> \in Nat \X Nat
      OBVIOUS
    <3>2. <<y, x>> \notin {ss \in Nat \X Nat : ss[1] < ss[2]}
      BY <1>1 DEF OpToRel
    <3>. QED
      BY <3>1, <3>2
  <2>. QED
    BY <2>1
<1>. QED
  BY <1>2

\* What is a number.
LEMMA ExpNumbers ==
    ASSUME ExpTypeOK, RunInv
    PROVE  /\ asOf \in Nat /\ works \subseteq ExpKeys /\ ahead \subseteq NotifyDays /\ NotifyDays \subseteq Nat
           /\ \A k \in ExpKeys : k \in Nat /\ expires[k] \in Nat
  BY ExpiryBounds DEF ExpTypeOK, RunInv

\* The threshold of the moment is the smallest that is left.
LEMMA ThresholdIsNext ==
    ASSUME ExpTypeOK, ahead # {}
    PROVE  Threshold \in ahead /\ Threshold \in NotifyDays /\ \A T \in ahead : Threshold <= T
<1>1. \E d \in ahead : \A e \in ahead : d <= e
  BY ExpiryBounds, SmallestIn DEF ExpTypeOK
<1>. QED
  BY <1>1 DEF ExpTypeOK, Threshold

\* The first key of a listing is one of it.
LEMMA FirstIsListed == ASSUME ExpTypeOK, RunInv, queue # {} PROVE First \in queue /\ First \in ExpKeys
<1>. DEFINE Days == {expires[k] : k \in queue}
<1>1. queue \subseteq ExpKeys /\ ExpKeys \subseteq Nat /\ \A k \in ExpKeys : expires[k] \in Nat
  BY ExpiryBounds DEF ExpTypeOK, RunInv
<1>2. PICK d \in Days : \A e \in Days : d <= e
  <2>1. Days \in SUBSET Nat /\ Days # {}
    BY <1>1
  <2>. QED
    BY <2>1, SmallestIn
<1>. DEFINE Soonest == {k \in queue : expires[k] = d}
<1>3. PICK k \in Soonest : \A j \in Soonest : k <= j
  <2>1. Soonest \in SUBSET Nat /\ Soonest # {}
    BY <1>1, <1>2
  <2>. QED
    BY <2>1, SmallestIn
<1>4. ASSUME NEW j \in queue \ {k} PROVE Before(k, j)
  BY <1>1, <1>2, <1>3, <1>4 DEF Before
<1>5. \E i \in queue : \A j \in queue \ {i} : Before(i, j)
  BY <1>3, <1>4
<1>. QED
  BY <1>1, <1>5 DEF First

\* The keys before a key without a lost mark are without one.
LEMMA RecordedBefore ==
    ASSUME ExpTypeOK, RunInv, NEW j \in ExpKeys, NEW k \in ExpKeys, Recorded(k), Before(j, k)
    PROVE  Recorded(j)
<1>1. ExpKeys \subseteq Nat /\ unmarked \subseteq ExpKeys /\ \A i \in ExpKeys : expires[i] \in Nat
  BY ExpiryBounds DEF ExpTypeOK, RunInv
<1>. QED
  BY <1>1 DEF Recorded, Before

\* No run has begun when the bot is installed.
LEMMA InitEInv == ExpInit => EInv
  BY ExpiryBounds DEF ExpInit, EInv, ExpTypeOK, RunInv, NearInv, RankInv, WholeInv, MarkedInv, FreshInv, Listing, Held

\* What a step leaves as it is, and what only grows or shrinks.
LEMMA RowsStep ==
    ASSUME ExpTypeOK, [ExpNext]_expVars
    PROVE  /\ expires' = expires /\ works' \subseteq works /\ unmarked \subseteq unmarked'
           /\ \A k \in ExpKeys : handled[k] \subseteq handled'[k]
           /\ \A k : Recorded(k)' => Recorded(k)
           /\ \A j, k : Before(j, k)' <=> Before(j, k)
<1>. USE DEF ExpTypeOK, expRows, jobMemory, Sleep
<1>1. /\ expires' = expires /\ works' \subseteq works /\ unmarked \subseteq unmarked'
      /\ \A k \in ExpKeys : handled[k] \subseteq handled'[k]
  <2>1. CASE Job
    <3>1. CASE MarkLarger \/ MarkReminded
      BY <3>1 DEF MarkLarger, MarkReminded
    <3>2. CASE WakeUp \/ ListExpiring \/ SendReminder \/ NextThreshold \/ ListExpired \/ RevokeExpired \/ RunDone
      BY <3>2 DEF WakeUp, ListExpiring, SendReminder, NextThreshold, ListExpired, RevokeExpired, RunDone
    <3>. QED
      BY <2>1, <3>1, <3>2 DEF Job
  <2>2. CASE (\E k \in ExpKeys : OwnerRevokes(k)) \/ DayPasses \/ ExpiryCrash \/ UNCHANGED expVars
    BY <2>2 DEF OwnerRevokes, DayPasses, ExpiryCrash, expVars
  <2>. QED
    BY <2>1, <2>2 DEF ExpNext
<1>2. \A j, k : Before(j, k)' <=> Before(j, k)
  BY <1>1 DEF Before
<1>. QED
  BY <1>1, <1>2 DEF Recorded

\* A threshold is recorded for the first key of the listing, which then leaves it.
LEMMA MarkStep ==
    ASSUME ExpTypeOK, RunInv, [ExpNext]_expVars, NEW k \in ExpKeys, NEW d \in handled'[k] \ handled[k]
    PROVE  /\ Listing /\ k = First /\ d = Threshold /\ queue # {} /\ queue' = queue \ {First}
           /\ MarkLarger \/ MarkReminded
<1>. USE DEF ExpTypeOK, expRows, jobMemory, Sleep
<1>1. CASE Job
  <2>1. CASE MarkLarger
    BY <2>1, FirstIsListed DEF MarkLarger, Listing
  <2>2. CASE MarkReminded
    BY <2>2, FirstIsListed DEF MarkReminded, Listing
  <2>3. CASE WakeUp \/ ListExpiring \/ SendReminder \/ NextThreshold \/ ListExpired \/ RevokeExpired \/ RunDone
    BY <2>3 DEF WakeUp, ListExpiring, SendReminder, NextThreshold, ListExpired, RevokeExpired, RunDone
  <2>. QED
    BY <1>1, <2>1, <2>2, <2>3 DEF Job
<1>2. CASE (\E j \in ExpKeys : OwnerRevokes(j)) \/ DayPasses \/ ExpiryCrash \/ UNCHANGED expVars
  BY <1>2 DEF OwnerRevokes, DayPasses, ExpiryCrash, expVars
<1>. QED
  BY <1>1, <1>2 DEF ExpNext

\* The types, and the phases of a run.
LEMMA RunStep == ASSUME EInv, [ExpNext]_expVars PROVE ExpTypeOK' /\ RunInv'
<1>1. queue # {} => First \in queue /\ First \in ExpKeys
  BY FirstIsListed DEF EInv
<1>2. ahead # {} => Threshold \in ahead /\ Threshold \in NotifyDays /\ \A T \in ahead : Threshold <= T
  BY ThresholdIsNext DEF EInv
<1>3. queue' = queue /\ expires' = expires => First' = First
  BY DEF First, Before
<1>. USE ExpiryBounds DEF expRows, jobMemory, Sleep, Trouble
<1>4. ExpTypeOK'
  <2>1. UNCHANGED troubles \/ Trouble
    BY DEF ExpNext, Job, WakeUp, ListExpiring, MarkLarger, SendReminder, MarkReminded, NextThreshold, ListExpired,
           RevokeExpired, RunDone, OwnerRevokes, DayPasses, ExpiryCrash, expVars
  <2>2. troubles' \in 0 .. MaxTroubles
    BY <2>1 DEF EInv, ExpTypeOK
  <2>3. asOf' \in {asOf, today} /\ (today' = today \/ (today < LastDay /\ today' = today + 1))
    BY DEF ExpNext, Job, WakeUp, ListExpiring, MarkLarger, SendReminder, MarkReminded, NextThreshold, ListExpired,
           RevokeExpired, RunDone, OwnerRevokes, DayPasses, ExpiryCrash, expVars
  <2>4. {today', asOf'} \subseteq 0 .. LastDay
    <3>1. today \in 0 .. LastDay /\ asOf \in 0 .. LastDay
      BY DEF EInv, ExpTypeOK
    <3>. QED
      BY <2>3, <3>1
  <2>. DEFINE Parts == /\ works \subseteq ExpKeys /\ handled \in [ExpKeys -> SUBSET NotifyDays] /\ ahead \subseteq NotifyDays
                       /\ step \in {"asleep", "threshold", "remind", "mark", "revoke"}
                       /\ queue \subseteq ExpKeys /\ toldNow \subseteq ExpKeys /\ unmarked \subseteq ExpKeys
                       /\ (step \in {"remind", "mark"} => ahead # {}) /\ (step = "mark" => queue # {})
  <2>5. Parts
    BY DEF EInv, ExpTypeOK
  <2>6. Parts'
    <3>1. CASE WakeUp \/ SendReminder \/ NextThreshold
      BY <2>5, <3>1 DEF WakeUp, SendReminder, NextThreshold
    <3>2. CASE ListExpiring
      <4>1. queue' \subseteq ExpKeys
        BY <2>5, <3>2 DEF ListExpiring, Earliest
      <4>2. unmarked' \subseteq ExpKeys
        BY <2>5, <3>2 DEF ListExpiring
      <4>. QED
        BY <2>5, <3>2, <4>1, <4>2 DEF ListExpiring
    <3>3. CASE MarkLarger
      <4>1. handled' \in [ExpKeys -> SUBSET NotifyDays]
        BY <1>1, <1>2, <2>5, <3>3 DEF MarkLarger
      <4>. QED
        BY <2>5, <3>3, <4>1 DEF MarkLarger
    <3>4. CASE MarkReminded
      <4>1. handled' \in [ExpKeys -> SUBSET NotifyDays]
        BY <1>1, <1>2, <2>5, <3>4 DEF MarkReminded
      <4>2. toldNow' \subseteq ExpKeys /\ unmarked' \subseteq ExpKeys /\ queue' \subseteq ExpKeys
        BY <1>1, <2>5, <3>4 DEF MarkReminded
      <4>. QED
        BY <2>5, <3>4, <4>1, <4>2 DEF MarkReminded
    <3>5. CASE ListExpired
      <4>1. queue' \subseteq ExpKeys
        BY <2>5, <3>5 DEF ListExpired, Earliest
      <4>. QED
        BY <2>5, <3>5, <4>1 DEF ListExpired
    <3>6. CASE RevokeExpired \/ RunDone \/ (\E k \in ExpKeys : OwnerRevokes(k)) \/ DayPasses \/ UNCHANGED expVars
      BY <2>5, <3>6 DEF RevokeExpired, RunDone, OwnerRevokes, DayPasses, expVars
    <3>7. CASE ExpiryCrash
      <4>1. unmarked' \subseteq ExpKeys
        BY <1>1, <2>5, <3>7 DEF ExpiryCrash
      <4>. QED
        BY <2>5, <3>7, <4>1 DEF ExpiryCrash
    <3>. QED
      BY <3>1, <3>2, <3>3, <3>4, <3>5, <3>6, <3>7 DEF ExpNext, Job
  <2>. QED
    BY <2>2, <2>4, <2>6 DEF ExpTypeOK
<1>5. RunInv'
  <2>. USE DEF EInv, RunInv
  <2>1. CASE NextThreshold
    <3>1. ahead \subseteq Nat
      BY DEF ExpTypeOK
    <3>. QED
      BY <1>2, <2>1, <3>1 DEF NextThreshold
  <2>2. CASE WakeUp \/ ListExpiring \/ MarkLarger
    BY <2>2 DEF WakeUp, ListExpiring, MarkLarger
  <2>3. CASE SendReminder \/ MarkReminded
    BY <1>3, <2>3 DEF SendReminder, MarkReminded
  <2>4. CASE ListExpired \/ RevokeExpired \/ RunDone \/ ExpiryCrash
    BY <2>4 DEF ListExpired, RevokeExpired, RunDone, ExpiryCrash
  <2>5. CASE (\E k \in ExpKeys : OwnerRevokes(k)) \/ DayPasses \/ UNCHANGED expVars
    BY <1>3, <2>5 DEF OwnerRevokes, DayPasses, expVars
  <2>. QED
    BY <2>1, <2>2, <2>3, <2>4, <2>5 DEF ExpNext, Job
<1>. QED
  BY <1>4, <1>5

\* A run begins, lists the next threshold, goes on with what it has, or is over.
Lists ==
    /\ step = "threshold" /\ ahead # {} /\ step' = "remind" /\ UNCHANGED <<ahead, toldNow, asOf, works, handled, unmarked>>
    /\ queue' = Earliest(Due(Threshold), ReminderLimit)
GoesOn ==
    /\ asOf' = asOf /\ ahead' \subseteq ahead /\ Held' \subseteq Held
    /\ \A T : ToList(T)' => ToList(T)
    /\ Listing' => Listing /\ Threshold' = Threshold /\ queue' \ toldNow' \subseteq queue \ toldNow

\* Every step of the expiry is one of these.
LEMMA KindsOfSteps ==
    ASSUME EInv, [ExpNext]_expVars PROVE WakeUp \/ Lists \/ GoesOn \/ (ahead' = {} /\ ~Listing')
<1>. USE DEF EInv, ExpTypeOK, RunInv, expRows, jobMemory, Sleep
<1>1. ahead' = ahead => Threshold' = Threshold
  BY DEF Threshold
<1>2. CASE ListExpiring
  BY <1>2 DEF ListExpiring, Lists, Listing, Due
<1>3. CASE MarkLarger
  BY <1>1, <1>3 DEF MarkLarger, GoesOn, Listing, ToList, Held
<1>4. CASE SendReminder
  BY <1>1, <1>4 DEF SendReminder, GoesOn, Listing, ToList, Held
<1>5. CASE MarkReminded
  BY <1>1, <1>5, FirstIsListed DEF MarkReminded, GoesOn, Listing, ToList, Held
<1>6. CASE NextThreshold
  BY <1>6 DEF NextThreshold, GoesOn, Listing, ToList, Held
<1>7. CASE ListExpired \/ RevokeExpired \/ RunDone \/ ExpiryCrash
  BY <1>7 DEF ListExpired, RevokeExpired, RunDone, ExpiryCrash, Listing
<1>8. CASE (\E k \in ExpKeys : OwnerRevokes(k)) \/ DayPasses \/ UNCHANGED expVars
  BY <1>1, <1>8 DEF OwnerRevokes, DayPasses, expVars, GoesOn, Listing, ToList, Held
<1>. QED
  BY <1>2, <1>3, <1>4, <1>5, <1>6, <1>7, <1>8 DEF ExpNext, Job

\* What a run holds stays due.
LEMMA NearStep == ASSUME EInv, [ExpNext]_expVars PROVE NearInv'
<1>1. CASE WakeUp
  BY <1>1 DEF WakeUp, NearInv, Held, Listing
<1>2. CASE Lists
  <2>. SUFFICES ASSUME NEW k \in Held', NEW T \in ahead PROVE asOf < expires[k] /\ expires[k] <= asOf + T
    BY <1>2, RowsStep DEF EInv, Lists, NearInv
  <2>1. CASE k \in toldNow
    BY <2>1 DEF EInv, NearInv, Held
  <2>2. CASE k \in queue'
    <3>1. k \in works /\ asOf < expires[k] /\ expires[k] <= asOf + Threshold
      BY <1>2, <2>2 DEF Lists, Earliest, Due
    <3>2. Threshold \in Nat /\ T \in Nat /\ Threshold <= T /\ asOf \in Nat /\ expires[k] \in Nat
      BY <1>2, <3>1, ThresholdIsNext, ExpNumbers DEF Lists, EInv
    <3>. QED
      BY <3>1, <3>2
  <2>. QED
    BY <1>2, <2>1, <2>2 DEF Lists, Held
<1>3. CASE GoesOn
  BY <1>3, RowsStep DEF GoesOn, EInv, NearInv
<1>4. CASE ahead' = {}
  BY <1>4 DEF NearInv
<1>. QED
  BY <1>1, <1>2, <1>3, <1>4, KindsOfSteps

\* What is due can be counted.
LEMMA DueIsFinite ==
    ASSUME ExpTypeOK, NEW T, NEW k PROVE IsFiniteSet(Due(T)) /\ IsFiniteSet(DueBefore(T, k))
  BY ExpiryBounds, FS_Subset DEF ExpTypeOK, Due, DueBefore

\* What was handled with a smaller threshold need not be told: the listing of the next one holds
\* all that is due before one of its keys, for any larger one too.
LEMMA LargerIsDueNow ==
    ASSUME EInv, step = "threshold", NEW T \in ahead, T # Threshold, NEW k \in Due(Threshold), Recorded(k)
    PROVE  DueBefore(T, k) \subseteq DueBefore(Threshold, k)
<1>1. /\ Threshold \in ahead /\ Threshold \in NotifyDays /\ T \in NotifyDays /\ Threshold < T
      /\ Threshold \in Nat /\ T \in Nat
  BY ThresholdIsNext, ExpNumbers DEF EInv
<1>2. k \in ExpKeys /\ expires[k] \in Nat /\ asOf \in Nat /\ expires[k] <= asOf + Threshold
  BY ExpNumbers DEF EInv, Due
<1>. SUFFICES ASSUME NEW j \in DueBefore(T, k) PROVE j \in DueBefore(Threshold, k)
  OBVIOUS
<1>3. j \in works /\ j \in ExpKeys /\ asOf < expires[j] /\ T \notin handled[j] /\ Before(j, k) /\ expires[j] \in Nat
  BY ExpNumbers DEF EInv, DueBefore, Due
<1>4. Recorded(j)
  BY <1>2, <1>3, RecordedBefore DEF EInv
<1>5. expires[j] <= asOf + Threshold
  BY <1>1, <1>2, <1>3 DEF Before
<1>6. Threshold \notin handled[j]
  BY <1>1, <1>3, <1>4 DEF EInv, WholeInv, ToList, Listing
<1>. QED
  BY <1>3, <1>5, <1>6 DEF DueBefore, Due

\* No limit keeps what this run holds from the listings that are left.
LEMMA RankStep == ASSUME EInv, [ExpNext]_expVars PROVE RankInv'
<1>. SUFFICES ASSUME NEW k \in Held', NEW T \in ahead', ToList(T)', Recorded(k)'
              PROVE  Cardinality(DueBefore(T, k)') < ReminderLimit
  BY DEF RankInv
<1>1. Recorded(k) /\ ReminderLimit \in Nat
  BY RowsStep, ExpiryBounds DEF EInv
<1>2. ASSUME asOf' = asOf PROVE DueBefore(T, k)' \subseteq DueBefore(T, k)
  BY <1>2, RowsStep DEF DueBefore, Due, EInv, ExpTypeOK
<1>3. ASSUME NEW S, DueBefore(T, k)' \subseteq S, IsFiniteSet(S), Cardinality(S) < ReminderLimit
      PROVE  Cardinality(DueBefore(T, k)') < ReminderLimit
  BY <1>1, <1>3, FS_Subset, FS_CardinalityType
<1>4. CASE WakeUp
  BY <1>4 DEF WakeUp, Held, Listing
<1>5. CASE Lists
  <2>1. T \in ahead /\ T # Threshold /\ ToList(T) /\ asOf' = asOf
    <3>1. Threshold' = Threshold
      BY <1>5 DEF Lists, Threshold
    <3>. QED
      BY <1>5, <3>1 DEF Lists, ToList, Listing
  <2>2. CASE k \in toldNow
    <3>1. Cardinality(DueBefore(T, k)) < ReminderLimit
      BY <1>1, <2>1, <2>2 DEF EInv, RankInv, Held
    <3>. QED
      BY <1>2, <1>3, <2>1, <3>1, DueIsFinite DEF EInv
  <2>3. CASE k \in queue'
    <3>1. k \in Due(Threshold) /\ Cardinality(DueBefore(Threshold, k)) < ReminderLimit
      BY <1>5, <2>3 DEF Lists, Earliest, DueBefore
    <3>2. DueBefore(T, k)' \subseteq DueBefore(Threshold, k)
      BY <1>1, <1>2, <1>5, <2>1, <3>1, LargerIsDueNow DEF Lists
    <3>. QED
      BY <1>3, <3>1, <3>2, DueIsFinite DEF EInv
  <2>. QED
    BY <1>5, <2>2, <2>3 DEF Lists, Held
<1>6. CASE GoesOn
  <2>1. Cardinality(DueBefore(T, k)) < ReminderLimit
    BY <1>1, <1>6 DEF GoesOn, EInv, RankInv
  <2>. QED
    BY <1>2, <1>3, <1>6, <2>1, DueIsFinite DEF EInv, GoesOn
<1>7. CASE ahead' = {}
  BY <1>7
<1>. QED
  BY <1>4, <1>5, <1>6, <1>7, KindsOfSteps

\* Thresholds are handled from the smallest.
LEMMA WholeStep == ASSUME EInv, [ExpNext]_expVars PROVE WholeInv'
<1>. SUFFICES ASSUME NEW k \in works', NEW T \in NotifyDays, NEW U \in NotifyDays,
                     Recorded(k)', ToList(T)', T \in handled'[k], T < U
              PROVE  U \in handled'[k]
  BY DEF WholeInv
<1>1. Recorded(k) /\ k \in works /\ k \in ExpKeys /\ (U \in handled[k] => U \in handled'[k])
  BY RowsStep DEF EInv, ExpTypeOK
<1>2. ASSUME T \notin handled[k] PROVE Listing /\ T = Threshold /\ (MarkLarger \/ MarkReminded)
  BY <1>1, <1>2, MarkStep DEF EInv
<1>3. CASE WakeUp
  <2>1. T \in handled[k] /\ toldNow = {}
    BY <1>2, <1>3 DEF WakeUp, EInv, RunInv, Listing
  <2>. QED
    BY <1>1, <2>1 DEF EInv, MarkedInv, StillToMark
<1>4. CASE Lists
  <2>1. T \in handled[k] /\ ToList(T)
    BY <1>4 DEF Lists, ToList, Listing
  <2>. QED
    BY <1>1, <2>1 DEF EInv, WholeInv
<1>5. CASE GoesOn
  <2>1. ToList(T) /\ T \in handled[k]
    BY <1>2, <1>5 DEF GoesOn, ToList
  <2>. QED
    BY <1>1, <2>1 DEF EInv, WholeInv
<1>6. CASE ahead' = {}
  BY <1>6 DEF ToList
<1>. QED
  BY <1>3, <1>4, <1>5, <1>6, KindsOfSteps

\* What is still to be told of a listing has nothing smaller handled.
LEMMA FreshStep == ASSUME EInv, [ExpNext]_expVars PROVE FreshInv'
<1>. SUFFICES ASSUME Listing', NEW k \in queue' \ toldNow', Recorded(k)', NEW d \in handled'[k]
              PROVE  d > Threshold'
  BY DEF FreshInv
<1>1. k \in ExpKeys /\ Recorded(k)
  BY RowsStep, RunStep DEF EInv, ExpTypeOK
<1>2. d \in handled[k]
  BY <1>1, MarkStep DEF EInv
<1>3. CASE Lists
  <2>1. k \in Due(Threshold) /\ Threshold' = Threshold /\ k \notin toldNow
    BY <1>3 DEF Lists, Earliest, Threshold
  <2>2. Threshold \in NotifyDays /\ Threshold \in Nat /\ d \in NotifyDays /\ d \in Nat
    BY <1>1, <1>2, <1>3, ThresholdIsNext, ExpNumbers DEF EInv, ExpTypeOK, Lists
  <2>3. k \in works /\ Threshold \notin handled[k]
    BY <2>1 DEF Due
  <2>4. ~(d < Threshold)
    BY <1>1, <1>2, <2>1, <2>2, <2>3 DEF EInv, MarkedInv, StillToMark
  <2>. QED
    BY <1>2, <2>1, <2>2, <2>3, <2>4
<1>4. CASE GoesOn
  BY <1>1, <1>2, <1>4 DEF GoesOn, EInv, FreshInv
<1>5. CASE WakeUp
  BY <1>5 DEF WakeUp, Listing
<1>. QED
  BY <1>3, <1>4, <1>5, KindsOfSteps

\* A threshold is marked only if all larger ones are, or will be in this run.
LEMMA MarkedStep == ASSUME EInv, [ExpNext]_expVars PROVE MarkedInv'
<1>. SUFFICES ASSUME NEW k \in works', NEW d \in NotifyDays, NEW T \in NotifyDays,
                     Recorded(k)', d \in handled'[k], d < T, T \notin handled'[k]
              PROVE  StillToMark(k, T)'
  BY DEF MarkedInv
<1>1. Recorded(k) /\ k \in works /\ k \in ExpKeys /\ T \notin handled[k]
  BY RowsStep DEF EInv, ExpTypeOK
<1>2. ahead' = ahead => Threshold' = Threshold
  BY DEF Threshold
<1>3. k \notin unmarked'
  BY DEF Recorded
<1>4. CASE d \notin handled[k]
  <2>1. Listing /\ k = First /\ d = Threshold /\ (MarkLarger \/ MarkReminded)
    BY <1>1, <1>4, MarkStep DEF EInv
  <2>2. k \in toldNow' /\ ahead' = ahead
    BY <1>1, <1>3, <1>4, <2>1 DEF MarkLarger, MarkReminded
  <2>3. ahead # {} /\ Threshold \in ahead
    BY <2>1, ThresholdIsNext DEF EInv, ExpTypeOK, Listing
  <2>4. T \in ahead /\ T # Threshold
    BY <2>1, <2>3, ExpNumbers DEF EInv, RunInv
  <2>. QED
    BY <1>2, <2>2, <2>4 DEF StillToMark
<1>5. CASE d \in handled[k]
  <2>1. k \in toldNow /\ T \in ahead /\ (Listing /\ T = Threshold => k \in queue)
    BY <1>1, <1>5 DEF EInv, MarkedInv, StillToMark
  <2>2. ahead # {} /\ step \notin {"asleep", "revoke"}
    BY <2>1 DEF EInv, RunInv
  <2>3. CASE ListExpiring
    <3>1. Lists
      BY <1>3, <2>1, <2>3 DEF ListExpiring, Lists, Due, expRows
    <3>2. ASSUME T = Threshold PROVE k \in queue'
      <4>1. k \in Due(T)
        BY <1>1, <2>1 DEF EInv, NearInv, Held, Due
      <4>2. Cardinality(DueBefore(T, k)) < ReminderLimit
        BY <1>1, <2>1, <3>1 DEF EInv, RankInv, Held, ToList, Listing, Lists
      <4>. QED
        BY <3>1, <3>2, <4>1, <4>2 DEF Lists, Earliest, DueBefore
    <3>. QED
      BY <1>2, <2>1, <3>1, <3>2 DEF StillToMark, Lists
  <2>4. CASE MarkLarger
    <3>1. ahead' = ahead /\ toldNow' = toldNow /\ queue' = queue \ {First} /\ step' = step
      BY <1>3, <2>1, <2>4 DEF MarkLarger
    <3>2. ~(k = First /\ T = Threshold)
      <4>1. handled' = [handled EXCEPT ![First] = @ \union {Threshold}]
        BY <1>3, <2>1, <2>4 DEF MarkLarger
      <4>2. handled \in [ExpKeys -> SUBSET NotifyDays]
        BY DEF EInv, ExpTypeOK
      <4>. QED
        BY <1>1, <4>1, <4>2
    <3>. QED
      BY <1>2, <2>1, <3>1, <3>2 DEF StillToMark, Listing
  <2>5. CASE SendReminder
    BY <1>2, <2>1, <2>5 DEF SendReminder, StillToMark, Listing
  <2>6. CASE MarkReminded
    <3>1. k # First
      BY <2>1, <2>6 DEF EInv, RunInv, MarkReminded
    <3>. QED
      BY <1>2, <2>1, <2>6, <3>1 DEF MarkReminded, StillToMark, Listing
  <2>7. CASE NextThreshold
    BY <2>1, <2>7 DEF NextThreshold, StillToMark, Listing
  <2>8. CASE ExpiryCrash
    BY <1>3, <2>1, <2>8 DEF ExpiryCrash
  <2>9. CASE (\E j \in ExpKeys : OwnerRevokes(j)) \/ DayPasses \/ UNCHANGED expVars
    BY <1>2, <2>1, <2>9 DEF OwnerRevokes, DayPasses, expVars, jobMemory, StillToMark, Listing
  <2>10. ~(WakeUp \/ ListExpired \/ RevokeExpired \/ RunDone)
    BY <2>2 DEF WakeUp, ListExpired, RevokeExpired, RunDone
  <2>. QED
    BY <2>3, <2>4, <2>5, <2>6, <2>7, <2>8, <2>9, <2>10 DEF ExpNext, Job
<1>. QED
  BY <1>4, <1>5

\* Every step of the job, of the owners and of the clock keeps the invariant.
LEMMA NextEInv == EInv /\ [ExpNext]_expVars => EInv'
  BY RunStep, NearStep, RankStep, WholeStep, MarkedStep, FreshStep DEF EInv

\* services/key_expiry.py:74-109: a key reminded at one threshold is not reminded at a larger one
\* later, whatever else is due and however many rows a listing returns, unless a mark of the
\* key, or of one that is listed before it, was lost.
THEOREM NearerAndNearer == ExpSpec => RemindersComeNearer
<1>1. EInv /\ [ExpNext]_expVars
        => [step = "remind" /\ step' = "mark" /\ Recorded(First)
              => \A d \in handled[First] : d > Threshold]_expVars
  <2>. SUFFICES ASSUME EInv, [ExpNext]_expVars, step = "remind", step' = "mark", Recorded(First),
                       NEW d \in handled[First]
                PROVE  d > Threshold
    OBVIOUS
  <2>1. SendReminder
    BY DEF ExpNext, Job, WakeUp, ListExpiring, MarkLarger, MarkReminded, NextThreshold, ListExpired, RevokeExpired,
           RunDone, OwnerRevokes, DayPasses, ExpiryCrash, Sleep, jobMemory, expVars
  <2>2. First \in queue /\ First \notin toldNow
    BY <2>1, FirstIsListed DEF SendReminder, EInv
  <2>. QED
    BY <2>2 DEF EInv, FreshInv, Listing
<1>. QED
  BY <1>1, InitEInv, NextEInv, PTL DEF ExpSpec, RemindersComeNearer

--------------------------------------------------------------------------------
(* An announcement (Announcements), for any recipients, senders and pages.    *)

AtWork == {"list", "copy", "mark"}
Unsettled(u) == delivery[u] \in {"pending", "failed"}

\* What a sender holds in each place, and that it has passed over nobody who is pending.
SenderInv(s) ==
    /\ at[s] \in {"idle", "set"} => page[s] = {} /\ last[s] = 0
    /\ at[s] = "mark" <=> outcome[s] \in {"sent", "failed", "skipped"}
    /\ at[s] = "close" <=> outcome[s] \in {"complete", "partial"}
    /\ at[s] \in {"copy", "mark"} => last[s] \in Recipients
    /\ at[s] \in AtWork => \A v \in page[s] : last[s] < v
PassInv(s) ==
    /\ at[s] \in AtWork => \A u \in Recipients : delivery[u] = "pending" =>
        \/ at[s] # "list" /\ u = last[s]
        \/ last[s] < u /\ (u \in page[s] \/ \A v \in page[s] : v < u)
    /\ at[s] \in {"count", "close"} => \A u \in Recipients : delivery[u] # "pending"

\* Nothing has happened to a batch that is not there.
NewInv ==
    status = "none" =>
        /\ ~closed /\ ~cancelling /\ \A s \in Senders : at[s] = "idle"
        /\ \A u \in Recipients : delivery[u] = "none" /\ copies[u] = 0

\* Without an overlap a sender is alone, and nobody settles what it has before it.
AloneInv ==
    ~overlapped =>
        /\ \A s \in Senders, t \in Senders : at[s] # "idle" /\ at[t] # "idle" => s = t
        /\ \A s \in Senders :
            /\ at[s] \in {"copy", "mark"} => Unsettled(last[s])
            /\ at[s] \in AtWork => \A v \in page[s] : Unsettled(v)

\* Whoever has got the message is in the ledger, or on his way there, or unclear.
IsMarking(s, u) == at[s] = "mark" /\ outcome[s] = "sent" /\ last[s] = u
CopiesInv ==
    \A u \in Recipients :
        /\ delivery[u] = "sent" \/ (\E s \in Senders : IsMarking(s, u)) => copies[u] > 0
        /\ overlapped \/ u \in unclear \/ copies[u] = 0
              \/ (copies[u] = 1 /\ (delivery[u] = "sent" \/ \E s \in Senders : IsMarking(s, u)))

\* A complete batch stays complete.
AllReached == \A u \in Recipients : delivery[u] \in {"sent", "none"}
DoneInv ==
    /\ \A s \in Senders : outcome[s] = "complete" => AllReached
    /\ closed /\ status # "cancelled" => AllReached

\* The inductive invariant of the announcements.
AInv ==
    /\ AnnTypeOK /\ (\A s \in Senders : SenderInv(s) /\ PassInv(s))
    /\ NewInv /\ AloneInv /\ CopiesInv /\ DoneInv

\* There is no batch at first.
LEMMA InitAInv == AnnInit => AInv
<1>. SUFFICES ASSUME AnnInit PROVE AInv
  OBVIOUS
<1>. USE AnnouncementBounds DEF AnnInit, Idle
<1>1. AnnTypeOK
  <2>1. 0 \in 0 .. MaxAnnouncementPasses /\ 0 \in 0 .. MaxAnnouncementCrashes
    BY AnnouncementBounds
  <2>2. delivery \in [Recipients -> {"none", "pending", "sent", "failed", "skipped"}] /\ copies \in [Recipients -> 0 .. 2]
    OBVIOUS
  <2>. QED
    BY <2>1, <2>2 DEF AnnTypeOK, Resumable
<1>2. \A s \in Senders : SenderInv(s) /\ PassInv(s)
  BY DEF SenderInv, PassInv, AtWork
<1>3. NewInv /\ AloneInv /\ DoneInv
  BY DEF NewInv, AloneInv, DoneInv, AllReached, AtWork
<1>4. CopiesInv
  BY DEF CopiesInv, IsMarking
<1>. QED
  BY <1>1, <1>2, <1>3, <1>4 DEF AInv

\* The next recipient is the first of the page.
LEMMA FirstOfPage ==
    ASSUME NEW ids \in SUBSET Recipients, ids # {}
    PROVE  FirstOf(ids) \in ids /\ \A v \in ids : FirstOf(ids) <= v
<1>1. \E u \in ids : \A v \in ids : u <= v
  BY AnnouncementBounds, SmallestIn
<1>. QED
  BY <1>1 DEF FirstOf

\* A page is the first part of what is behind the last id.
LEMMA PageIsFirst ==
    ASSUME NEW s, NEW u \in Behind(s), u \notin PageOf(s), NEW v \in PageOf(s)
    PROVE  v < u
<1>. DEFINE Below(n) == {i \in Behind(s) : i < n}
<1>1. Behind(s) \subseteq Recipients /\ v \in Behind(s) /\ u \in Nat /\ v \in Nat /\ u # v
      /\ \A i \in Behind(s) : i \in Nat
  BY AnnouncementBounds DEF Behind, PageOf
<1>2. \A n : IsFiniteSet(Below(n)) /\ Cardinality(Below(n)) \in Nat
  BY <1>1, AnnouncementBounds, FS_Subset, FS_CardinalityType
<1>3. Cardinality(Below(v)) < PageSize /\ ~(Cardinality(Below(u)) < PageSize) /\ PageSize \in Nat
  BY AnnouncementBounds DEF PageOf
<1>4. ASSUME u < v PROVE FALSE
  <2>1. Below(u) \subseteq Below(v)
    <3>1. ASSUME NEW i \in Behind(s), i < u PROVE i < v
      BY <1>1, <1>4, <3>1
    <3>. QED
      BY <3>1
  <2>. HIDE DEF Below
  <2>2. Cardinality(Below(u)) <= Cardinality(Below(v))
    BY <1>2, <2>1, FS_Subset
  <2>. QED
    BY <1>2, <1>3, <2>2
<1>. QED
  BY <1>1, <1>4

\* A step of one sender, and of anybody else.
Acts(s) == CreateBatch(s) \/ SendDue(s) \/ Send(s) \/ \E r \in BOOLEAN : Resume(s, r)
\* The steps that are not the delivery's own.
Aside == CancelAsked \/ CancelWritten \/ (\E u \in Recipients : LosesAccess(u)) \/ UNCHANGED annVars

\* What a sender has stays as it is.
Same(t) == at'[t] = at[t] /\ page'[t] = page[t] /\ last'[t] = last[t] /\ outcome'[t] = outcome[t]

\* While one task delivers, the other waits.
LEMMA OthersWait ==
    ASSUME AnnTypeOK, NEW s \in Senders, Acts(s), NEW t \in Senders, t # s PROVE Same(t)
<1>. USE DEF AnnTypeOK, Same, Begin, Move, Ends
<1>1. CASE CreateBatch(s) \/ SendDue(s) \/ \E r \in BOOLEAN : Resume(s, r)
  BY <1>1 DEF CreateBatch, SendDue, Resume
<1>2. CASE SetSending(s) \/ ListPage(s) \/ NextDelivery(s) \/ Copy(s)
  BY <1>2 DEF SetSending, ListPage, NextDelivery, Copy
<1>3. CASE MarkDelivery(s) \/ Failing(s) \/ Count(s) \/ Close(s)
  BY <1>3 DEF MarkDelivery, Failing, Count, Close
<1>. QED
  BY <1>1, <1>2, <1>3 DEF Acts, Send

\* Who does not send changes no sender and no delivery.
LEMMA AsideStep ==
    ASSUME Aside
    PROVE  UNCHANGED <<delivery, at, page, last, retry, outcome, passes, annCrashes, copies, overlapped, unclear>>
  BY DEF Aside, CancelAsked, CancelWritten, LosesAccess, ledger, sender, annVars

\* The places of a sender in one of its own steps, and what it holds then.
LEMMA OwnStep ==
    ASSUME AnnTypeOK, NEW s \in Senders, Acts(s), SenderInv(s), PassInv(s), NewInv
    PROVE  SenderInv(s)' /\ PassInv(s)'
<1>. USE DEF AtWork
<1>1. page[s] \subseteq Recipients /\ last[s] \in Nat /\ Recipients \subseteq Nat \ {0}
  <2>1. page[s] \subseteq Recipients /\ last[s] \in Recipients \union {0}
    BY DEF AnnTypeOK
  <2>2. Recipients \subseteq Nat \ {0}
    BY AnnouncementBounds
  <2>3. last[s] \in Nat
    <3>1. CASE last[s] = 0
      BY <3>1
    <3>2. CASE last[s] \in Recipients
      BY <2>2, <3>2
    <3>. QED
      BY <2>1, <3>1, <3>2
  <2>. QED
    BY <2>1, <2>2, <2>3
<1>2. CASE CreateBatch(s) \/ SendDue(s) \/ (\E r \in BOOLEAN : Resume(s, r)) \/ SetSending(s)
  <2>0. at[s] \in {"idle", "set"}
    BY <1>2 DEF CreateBatch, SendDue, Resume, SetSending
  <2>1. page[s] = {} /\ last[s] = 0 /\ outcome[s] = "none"
    BY <2>0 DEF SenderInv, AnnTypeOK
  <2>2. page'[s] = {} /\ last'[s] = 0 /\ outcome'[s] = "none" /\ at'[s] \in {"idle", "set", "list"}
    BY <1>2, <2>0, <2>1 DEF AnnTypeOK, CreateBatch, SendDue, Resume, SetSending, Begin, Move, Ends
  <2>. QED
    BY <1>1, <2>2 DEF SenderInv, PassInv
<1>3. CASE ListPage(s)
  <2>1. delivery' = delivery /\ at[s] = "list" /\ page[s] = {} /\ outcome[s] = "none"
    BY <1>3 DEF ListPage, ledger, SenderInv, AnnTypeOK
  <2>2. \/ at'[s] = "idle" /\ page'[s] = {} /\ last'[s] = 0 /\ outcome'[s] = "none"
        \/ at'[s] = "failing" /\ outcome'[s] = "none"
        \/ /\ at'[s] = (IF Behind(s) = {} THEN "count" ELSE "list") /\ page'[s] = PageOf(s)
           /\ last'[s] = last[s] /\ outcome'[s] = "none"
    BY <1>3, <2>1 DEF ListPage, Ends, Move, AnnTypeOK
  <2>3. \A u \in Recipients : delivery[u] = "pending" => u \in Behind(s)
    BY <2>1 DEF PassInv, Behind, Wanted
  <2>4. \A v \in PageOf(s) : v \in Recipients /\ last[s] < v
    BY DEF PageOf, Behind
  <2>5. SenderInv(s)'
    BY <2>2, <2>4 DEF SenderInv
  <2>6. PassInv(s)'
    BY <2>1, <2>2, <2>3, PageIsFirst DEF PassInv, Behind
  <2>. QED
    BY <2>5, <2>6
<1>4. CASE NextDelivery(s)
  <2>1. delivery' = delivery /\ at[s] = "list" /\ page[s] # {} /\ outcome[s] = "none"
    BY <1>4 DEF NextDelivery, ledger, SenderInv, AnnTypeOK
  <2>2. CASE at'[s] = "idle" /\ page'[s] = {} /\ last'[s] = 0 /\ outcome'[s] = "none"
    BY <2>2 DEF SenderInv, PassInv
  <2>3. CASE /\ at'[s] = "copy" /\ page'[s] = page[s] \ {FirstOf(page[s])} /\ last'[s] = FirstOf(page[s])
             /\ outcome'[s] = "none"
    <3>. DEFINE f == FirstOf(page[s])
    <3>1. \A v \in page[s] : v \in Nat
      BY <1>1
    <3>2. f \in page[s] /\ f \in Recipients /\ \A v \in page[s] \ {f} : f < v
      <4>1. f \in page[s] /\ \A v \in page[s] : f <= v
        BY <1>1, <2>1, FirstOfPage
      <4>. HIDE DEF f
      <4>. QED
        BY <1>1, <3>1, <4>1
    <3>3. page'[s] = page[s] \ {f} /\ last'[s] = f
      BY <2>3
    <3>. HIDE DEF f
    <3>4. SenderInv(s)'
      BY <2>3, <3>2, <3>3 DEF SenderInv
    <3>5. PassInv(s)'
      <4>. SUFFICES ASSUME NEW u \in Recipients, delivery[u] = "pending", u # f
                    PROVE  f < u /\ (u \in page[s] \ {f} \/ \A v \in page[s] \ {f} : v < u)
        BY <2>1, <2>3, <3>3 DEF PassInv
      <4>1. u \in page[s] \/ \A v \in page[s] : v < u
        BY <2>1 DEF PassInv
      <4>. QED
        BY <3>2, <4>1
    <3>. QED
      BY <3>4, <3>5
  <2>. QED
    BY <1>4, <2>1, <2>2, <2>3 DEF NextDelivery, Ends, Move, AnnTypeOK
<1>5. CASE Copy(s)
  <2>1. /\ at[s] = "copy" /\ at'[s] = "mark" /\ page'[s] = page[s] /\ last'[s] = last[s] /\ delivery' = delivery
        /\ outcome'[s] \in {"sent", "failed", "skipped"}
    BY <1>5 DEF Copy, Move, ledger, AnnTypeOK
  <2>. QED
    BY <2>1 DEF SenderInv, PassInv
<1>6. CASE MarkDelivery(s)
  <2>1. /\ at[s] = "mark" /\ page'[s] = page[s] /\ last'[s] = last[s] /\ outcome'[s] = "none"
        /\ \/ at'[s] = "failing"
           \/ at'[s] = "list" /\ delivery' = [delivery EXCEPT ![last[s]] = outcome[s]]
    BY <1>6 DEF MarkDelivery, Move, AnnTypeOK
  <2>2. SenderInv(s)'
    BY <2>1 DEF SenderInv
  <2>3. PassInv(s)'
    BY <2>1 DEF SenderInv, PassInv, AnnTypeOK
  <2>. QED
    BY <2>2, <2>3
<1>7. CASE Failing(s) \/ Close(s)
  <2>1. at'[s] = "idle" /\ page'[s] = {} /\ last'[s] = 0 /\ outcome'[s] = "none"
    BY <1>7 DEF Failing, Close, Ends, Move, AnnTypeOK
  <2>. QED
    BY <2>1 DEF SenderInv, PassInv
<1>8. CASE Count(s)
  <2>1. at[s] = "count" /\ delivery' = delivery
    BY <1>8 DEF Count, ledger
  <2>2. \/ at'[s] = "idle" /\ page'[s] = {} /\ last'[s] = 0 /\ outcome'[s] = "none"
        \/ at'[s] = "close" /\ outcome'[s] \in {"complete", "partial"}
    BY <1>8 DEF Count, Ends, Move, AnnTypeOK
  <2>. QED
    BY <2>1, <2>2 DEF SenderInv, PassInv
<1>. QED
  BY <1>2, <1>3, <1>4, <1>5, <1>6, <1>7, <1>8 DEF Acts, Send

\* The crash leaves no sender.
LEMMA CrashStep ==
    ASSUME AnnTypeOK, AnnCrash
    PROVE  \A s \in Senders : SenderInv(s)' /\ PassInv(s)' /\ at'[s] = "idle" /\ outcome'[s] = "none"
  BY DEF AnnTypeOK, AnnCrash, Idle, SenderInv, PassInv, AtWork

\* A delivery is made with its batch and settled once, by a sender that marks it.
Settles(s, u) ==
    /\ at[s] = "mark" /\ last[s] = u /\ Unsettled(u) /\ delivery'[u] = outcome[s]
    /\ outcome[s] \in {"sent", "failed", "skipped"} /\ at'[s] = "list"
\* The steps of a delivery keep the invariant.
LEMMA DeliveryStep ==
    ASSUME AInv, AnnNext \/ UNCHANGED annVars, NEW u \in Recipients, delivery'[u] # delivery[u]
    PROVE  \/ status = "none" /\ delivery'[u] = "pending" /\ \E s \in Senders : CreateBatch(s)
           \/ \E s \in Senders : Settles(s, u) /\ MarkDelivery(s)
<1>1. CASE \E s \in Senders : CreateBatch(s) \/ MarkDelivery(s)
  <2>1. PICK s \in Senders : CreateBatch(s) \/ MarkDelivery(s)
    BY <1>1
  <2>2. CASE CreateBatch(s)
    BY <2>2 DEF CreateBatch
  <2>3. CASE MarkDelivery(s)
    <3>1. SenderInv(s) /\ delivery \in [Recipients -> {"none", "pending", "sent", "failed", "skipped"}]
      BY DEF AInv, AnnTypeOK
    <3>2. at' = [at EXCEPT ![s] = "list"] /\ delivery' = [delivery EXCEPT ![last[s]] = outcome[s]] /\ Unsettled(last[s])
      BY <2>3 DEF MarkDelivery, Move, Unsettled
    <3>. QED
      BY <2>3, <3>1, <3>2 DEF MarkDelivery, Settles, SenderInv, AInv, AnnTypeOK
  <2>. QED
    BY <2>1, <2>2, <2>3
<1>2. CASE \E s \in Senders : SendDue(s) \/ (\E r \in BOOLEAN : Resume(s, r)) \/ SetSending(s) \/ ListPage(s)
             \/ NextDelivery(s) \/ Copy(s) \/ Failing(s) \/ Count(s) \/ Close(s)
  BY <1>2 DEF SendDue, Resume, SetSending, ListPage, NextDelivery, Copy, Failing, Count, Close, ledger
<1>3. CASE Aside \/ AnnCrash
  BY <1>3, AsideStep DEF AnnCrash, ledger
<1>. QED
  BY <1>1, <1>2, <1>3 DEF AnnNext, Send, Aside

\* A sender that waits has still passed over nobody who is pending.
LEMMA SendersStep ==
    ASSUME AInv, AnnNext \/ UNCHANGED annVars PROVE \A t \in Senders : SenderInv(t)' /\ PassInv(t)'
<1>. SUFFICES ASSUME NEW t \in Senders PROVE SenderInv(t)' /\ PassInv(t)'
  OBVIOUS
<1>1. CASE Acts(t)
  BY <1>1, OwnStep DEF AInv
<1>2. CASE AnnCrash
  BY <1>2, CrashStep DEF AInv
<1>3. CASE Aside
  <2>1. Same(t) /\ delivery' = delivery
    BY <1>3, AsideStep DEF Same
  <2>. QED
    BY <2>1 DEF Same, AInv, SenderInv, PassInv
<1>4. CASE \E s \in Senders : s # t /\ Acts(s)
  <2>1. Same(t)
    BY <1>4, OthersWait DEF AInv
  <2>2. ASSUME NEW u \in Recipients, delivery'[u] = "pending", delivery[u] # "pending" PROVE at[t] = "idle"
    BY <2>2, DeliveryStep DEF AInv, NewInv, Settles
  <2>3. SenderInv(t)'
    BY <2>1 DEF Same, AInv, SenderInv
  <2>4. PassInv(t)'
    <3>1. PassInv(t)
      BY DEF AInv
    <3>. QED
      BY <2>1, <2>2, <3>1 DEF Same, PassInv, AtWork
  <2>. QED
    BY <2>3, <2>4
<1>. QED
  BY <1>1, <1>2, <1>3, <1>4 DEF AnnNext, Acts, Aside

\* Nothing happens before the batch is there.
LEMMA NewStep == ASSUME AInv, AnnNext \/ UNCHANGED annVars PROVE NewInv'
<1>1. status' = "none" => status = "none"
  BY DEF AnnNext, Send, CreateBatch, SendDue, Resume, SetSending, ListPage, NextDelivery, Copy, MarkDelivery, Failing,
         Count, Close, SetBatchStatus, Aside, CancelAsked, CancelWritten, LosesAccess, AnnCrash, ledger, annVars
<1>2. CASE status = "none"
  <2>1. /\ ~closed /\ ~cancelling /\ \A s \in Senders : at[s] = "idle"
        /\ \A u \in Recipients : delivery[u] = "none" /\ copies[u] = 0
    BY <1>2 DEF AInv, NewInv
  <2>2. \/ \E s \in Senders : CreateBatch(s)
        \/ \E u \in Recipients : LosesAccess(u)
        \/ AnnCrash \/ UNCHANGED annVars
    BY <1>2, <2>1 DEF AnnNext, Send, SendDue, Resume, SetSending, ListPage, NextDelivery, Copy, MarkDelivery, Failing,
                      Count, Close, Resumable, CancelAsked, CancelWritten
  <2>3. CASE \E s \in Senders : CreateBatch(s)
    BY <2>3 DEF CreateBatch, NewInv
  <2>4. CASE (\E u \in Recipients : LosesAccess(u)) \/ AnnCrash \/ UNCHANGED annVars
    BY <2>1, <2>4 DEF LosesAccess, AnnCrash, Idle, ledger, sender, annVars, NewInv
  <2>. QED
    BY <2>2, <2>3, <2>4
<1>. QED
  BY <1>1, <1>2 DEF NewInv

\* A sender that begins beside another one overlaps with it.
LEMMA OverlapStep ==
    ASSUME AInv, AnnNext \/ UNCHANGED annVars, ~overlapped'
    PROVE  /\ ~overlapped
           /\ \A s \in Senders : at[s] = "idle" /\ at'[s] # "idle" => \A t \in Senders : at[t] = "idle"
<1>1. ~overlapped
  BY DEF AnnNext, Send, CreateBatch, SendDue, Resume, SetSending, ListPage, NextDelivery, Copy, MarkDelivery, Failing,
         Count, Close, Begin, Keep, CancelAsked, CancelWritten, LosesAccess, AnnCrash, annVars
<1>2. ASSUME NEW s \in Senders, at[s] = "idle", at'[s] # "idle" PROVE \A t \in Senders : at[t] = "idle"
  <2>1. ~(Aside \/ AnnCrash)
    BY <1>2, AsideStep DEF AnnCrash, Idle
  <2>2. ASSUME NEW t \in Senders, Acts(t) PROVE t = s
    BY <1>2, <2>2, OthersWait DEF Same, AInv
  <2>3. Acts(s)
    BY <2>1, <2>2 DEF AnnNext, Acts, Aside
  <2>4. CreateBatch(s) \/ SendDue(s) \/ \E r \in BOOLEAN : Resume(s, r)
    BY <1>2, <2>3 DEF Acts, Send, SetSending, ListPage, NextDelivery, Copy, MarkDelivery, Failing, Count, Close
  <2>5. overlapped' = (overlapped \/ Sending # {})
    BY <1>2, <2>4 DEF CreateBatch, SendDue, Resume, Begin
  <2>. QED
    BY <2>5 DEF Sending
<1>. QED
  BY <1>1, <1>2

\* A sender on its own settles only what it has passed.
LEMMA AloneStep == ASSUME AInv, AnnNext \/ UNCHANGED annVars PROVE AloneInv'
<1>. SUFFICES ASSUME ~overlapped'
              PROVE  /\ \A s \in Senders, t \in Senders : at'[s] # "idle" /\ at'[t] # "idle" => s = t
                     /\ \A s \in Senders :
                         /\ at'[s] \in {"copy", "mark"} => delivery'[last'[s]] \in {"pending", "failed"}
                         /\ at'[s] \in AtWork => \A v \in page'[s] : delivery'[v] \in {"pending", "failed"}
  BY DEF AloneInv, Unsettled
<1>1. /\ ~overlapped /\ AnnTypeOK
      /\ \A s \in Senders, t \in Senders : at[s] # "idle" /\ at[t] # "idle" => s = t
  BY OverlapStep DEF AInv, AloneInv
<1>2. (\E t \in Senders : Acts(t)) \/ AnnCrash \/ Aside
  BY DEF AnnNext, Acts, Aside
<1>3. CASE AnnCrash
  BY <1>1, <1>3, CrashStep DEF AtWork
<1>4. CASE Aside
  BY <1>1, <1>4, AsideStep DEF AInv, AloneInv, Unsettled
<1>5. ASSUME NEW t \in Senders, Acts(t), NEW s \in Senders, s # t, at'[s] # "idle" PROVE FALSE
  <2>1. Same(s) /\ at[s] # "idle"
    BY <1>1, <1>5, OthersWait DEF Same
  <2>2. at[t] = "idle" /\ at'[t] = "idle"
    BY <1>1, <1>5, <2>1, OverlapStep
  <2>3. CreateBatch(t)
    BY <1>1, <1>5, <2>2 DEF Acts, Send, SendDue, Resume, Begin, SetSending, ListPage, NextDelivery, Copy,
                            MarkDelivery, Failing, Count, Close, AnnTypeOK
  <2>. QED
    BY <2>1, <2>3 DEF CreateBatch, AInv, NewInv
<1>6. CASE \E t \in Senders : Acts(t)
  <2>1. PICK t \in Senders : Acts(t)
    BY <1>6
  <2>2. /\ at[t] \in {"copy", "mark"} => Unsettled(last[t])
        /\ at[t] \in AtWork => \A v \in page[t] : Unsettled(v)
        /\ SenderInv(t)
    BY <1>1 DEF AInv, AloneInv
  <2>3. ASSUME at'[t] \in AtWork
        PROVE  /\ at'[t] \in {"copy", "mark"} => delivery'[last'[t]] \in {"pending", "failed"}
               /\ \A v \in page'[t] : delivery'[v] \in {"pending", "failed"}
    <3>. USE DEF AnnTypeOK, AtWork, Move
    <3>1. CASE CreateBatch(t) \/ SendDue(t) \/ (\E r \in BOOLEAN : Resume(t, r)) \/ Failing(t) \/ Close(t) \/ Count(t)
      BY <1>1, <2>3, <3>1 DEF CreateBatch, SendDue, Resume, Begin, Failing, Close, Count, Ends
    <3>2. CASE SetSending(t)
      BY <1>1, <2>2, <2>3, <3>2 DEF SetSending, Ends, SenderInv
    <3>3. CASE ListPage(t)
      <4>1. \A v \in PageOf(t) : delivery[v] \in {"pending", "failed"}
        BY DEF PageOf, Behind, Wanted
      <4>2. delivery' = delivery /\ at'[t] = "list" /\ page'[t] = PageOf(t)
        BY <1>1, <2>3, <3>3 DEF ListPage, Ends, ledger
      <4>. QED
        BY <4>1, <4>2
    <3>4. CASE NextDelivery(t)
      <4>1. page[t] \in SUBSET Recipients /\ page[t] # {} /\ at[t] = "list"
        BY <1>1, <3>4 DEF NextDelivery
      <4>2. FirstOf(page[t]) \in page[t]
        BY <4>1, FirstOfPage
      <4>3. delivery' = delivery /\ last'[t] = FirstOf(page[t]) /\ page'[t] \subseteq page[t]
        BY <1>1, <2>3, <3>4 DEF NextDelivery, Ends, ledger
      <4>. QED
        BY <2>2, <4>1, <4>2, <4>3 DEF Unsettled
    <3>5. CASE Copy(t)
      BY <1>1, <2>2, <3>5 DEF Copy, ledger, Unsettled
    <3>6. CASE MarkDelivery(t)
      <4>1. at'[t] = "list" /\ at[t] = "mark" /\ page' = page /\ delivery' = [delivery EXCEPT ![last[t]] = outcome[t]]
        BY <1>1, <2>3, <3>6 DEF MarkDelivery
      <4>2. \A v \in page[t] : v \in Recipients /\ last[t] < v /\ v \in Nat /\ last[t] \in Nat
        BY <1>1, <2>2, <4>1, AnnouncementBounds DEF SenderInv
      <4>3. \A v \in page[t] : delivery'[v] = delivery[v]
        BY <1>1, <4>1, <4>2
      <4>. QED
        BY <2>2, <4>1, <4>3 DEF Unsettled
    <3>. QED
      BY <2>1, <3>1, <3>2, <3>3, <3>4, <3>5, <3>6 DEF Acts, Send
  <2>. QED
    BY <1>5, <2>1, <2>3 DEF AtWork
<1>. QED
  BY <1>2, <1>3, <1>4, <1>6

\* What is marked as sent has gone out, and only once unless the ledger cannot know.
LEMMA CopiesStep == ASSUME AInv, AnnNext \/ UNCHANGED annVars PROVE CopiesInv'
<1>. SUFFICES ASSUME NEW u \in Recipients
              PROVE  /\ delivery'[u] = "sent" \/ (\E s \in Senders : IsMarking(s, u)') => copies'[u] > 0
                     /\ overlapped' \/ u \in unclear' \/ copies'[u] = 0
                           \/ (copies'[u] = 1 /\ (delivery'[u] = "sent" \/ \E s \in Senders : IsMarking(s, u)'))
  BY DEF CopiesInv
<1>1. /\ AnnTypeOK /\ copies[u] \in 0 .. 2 /\ copies[u] \in Nat
      /\ delivery[u] = "sent" \/ (\E s \in Senders : IsMarking(s, u)) => copies[u] > 0
      /\ overlapped \/ u \in unclear \/ copies[u] = 0
            \/ (copies[u] = 1 /\ (delivery[u] = "sent" \/ \E s \in Senders : IsMarking(s, u)))
  BY DEF AInv, CopiesInv, AnnTypeOK
<1>2. CASE Aside
  BY <1>1, <1>2, AsideStep DEF IsMarking
<1>3. CASE AnnCrash
  <2>1. delivery' = delivery /\ copies' = copies /\ overlapped' = overlapped /\ \A s \in Senders : ~IsMarking(s, u)'
    BY <1>3 DEF AnnCrash, Idle, ledger, IsMarking
  <2>2. unclear \subseteq unclear' /\ \A s \in Senders : outcome[s] = "sent" => last[s] \in unclear'
    BY <1>3 DEF AnnCrash
  <2>. QED
    BY <1>1, <2>1, <2>2 DEF IsMarking
<1>4. ASSUME NEW t \in Senders, Acts(t) PROVE \A s \in Senders \ {t} : IsMarking(s, u)' <=> IsMarking(s, u)
  BY <1>1, <1>4, OthersWait DEF Same, IsMarking
<1>5. ASSUME NEW t \in Senders, CreateBatch(t)
      PROVE  delivery'[u] # "sent" /\ copies'[u] = 0 /\ \A s \in Senders : ~IsMarking(s, u)'
  BY <1>1, <1>5 DEF CreateBatch, Begin, AInv, NewInv, AnnTypeOK, IsMarking
<1>6. ASSUME NEW t \in Senders, SendDue(t) \/ (\E r \in BOOLEAN : Resume(t, r)) \/ SetSending(t) \/ ListPage(t)
                                \/ NextDelivery(t) \/ Failing(t) \/ Count(t) \/ Close(t)
      PROVE  /\ UNCHANGED <<delivery, copies, unclear>> /\ (overlapped => overlapped')
             /\ ~IsMarking(t, u) /\ ~IsMarking(t, u)'
  <2>0. UNCHANGED <<delivery, copies, unclear>>
    BY <1>6 DEF SendDue, Resume, SetSending, ListPage, NextDelivery, Failing, Count, Close, Quiet, ledger
  <2>1. overlapped => overlapped'
    BY <1>6 DEF SendDue, Resume, SetSending, ListPage, NextDelivery, Failing, Count, Close, Begin, Keep
  <2>2. at[t] # "mark" /\ at'[t] # "mark"
    BY <1>1, <1>6 DEF SendDue, Resume, SetSending, ListPage, NextDelivery, Failing, Count, Close, Begin, Ends, Move,
                      AnnTypeOK
  <2>. QED
    BY <2>0, <2>1, <2>2 DEF IsMarking
<1>7. CASE \E t \in Senders : MarkDelivery(t)
  <2>1. PICK t \in Senders : MarkDelivery(t)
    BY <1>7
  <2>2. at[t] = "mark" /\ ~IsMarking(t, u)' /\ copies' = copies /\ overlapped' = overlapped /\ unclear \subseteq unclear'
    BY <1>1, <2>1 DEF MarkDelivery, Move, Keep, AnnTypeOK, IsMarking
  <2>3. \A s \in Senders \ {t} : IsMarking(s, u)' <=> IsMarking(s, u)
    BY <1>4, <2>1 DEF Acts, Send
  <2>4. CASE delivery' = delivery
    <3>1. IsMarking(t, u) => delivery'[u] = "sent" \/ u \in unclear'
      BY <1>1, <2>1, <2>4 DEF MarkDelivery, IsMarking, AnnTypeOK
    <3>. QED
      BY <1>1, <2>2, <2>3, <2>4, <3>1
  <2>5. CASE delivery' = [delivery EXCEPT ![last[t]] = outcome[t]] /\ Unsettled(last[t])
    <3>1. delivery'[u] = "sent" <=> (delivery[u] = "sent" \/ IsMarking(t, u))
      BY <1>1, <2>2, <2>5 DEF IsMarking, Unsettled, AnnTypeOK
    <3>. QED
      BY <1>1, <2>2, <2>3, <3>1
  <2>. QED
    BY <2>1, <2>4, <2>5 DEF MarkDelivery, Unsettled
<1>8. CASE \E t \in Senders : Copy(t)
  <2>1. PICK t \in Senders : Copy(t)
    BY <1>8
  <2>2. /\ at[t] = "copy" /\ at'[t] = "mark" /\ last'[t] = last[t] /\ ~IsMarking(t, u)
        /\ delivery' = delivery /\ overlapped' = overlapped
    BY <1>1, <2>1 DEF Copy, Move, Keep, ledger, AnnTypeOK, IsMarking
  <2>3. \A s \in Senders \ {t} : IsMarking(s, u)' <=> IsMarking(s, u)
    BY <1>4, <2>1 DEF Acts, Send
  <2>4. CASE copies' = copies /\ unclear' = unclear /\ outcome'[t] # "sent"
    BY <1>1, <2>2, <2>3, <2>4 DEF IsMarking
  <2>5. CASE /\ last[t] # u /\ copies' = [copies EXCEPT ![last[t]] = FewerThan(@, 2)]
             /\ unclear \subseteq unclear'
    <3>1. copies'[u] = copies[u] /\ ~IsMarking(t, u)'
      BY <1>1, <2>2, <2>5 DEF AnnTypeOK, IsMarking
    <3>. QED
      BY <1>1, <2>2, <2>3, <2>5, <3>1
  <2>6. CASE /\ last[t] = u /\ copies' = [copies EXCEPT ![u] = FewerThan(@, 2)]
             /\ (outcome'[t] = "sent" /\ unclear' = unclear) \/ u \in unclear'
    <3>1. copies'[u] > 0 /\ (copies[u] = 0 => copies'[u] = 1)
      BY <1>1, <2>6 DEF AnnTypeOK, FewerThan
    <3>2. ~overlapped => delivery[u] # "sent" /\ \A s \in Senders : ~IsMarking(s, u)
      BY <2>2, <2>6 DEF AInv, AloneInv, Unsettled, IsMarking
    <3>3. outcome'[t] = "sent" => IsMarking(t, u)'
      BY <2>2, <2>6 DEF IsMarking
    <3>. QED
      BY <1>1, <2>2, <2>6, <3>1, <3>2, <3>3
  <2>. QED
    BY <1>1, <2>1, <2>4, <2>5, <2>6 DEF Copy, Delivered, AnnTypeOK
<1>9. CASE \E t \in Senders : CreateBatch(t)
  BY <1>5, <1>9
<1>10. CASE \E t \in Senders : SendDue(t) \/ (\E r \in BOOLEAN : Resume(t, r)) \/ SetSending(t) \/ ListPage(t)
                                \/ NextDelivery(t) \/ Failing(t) \/ Count(t) \/ Close(t)
  <2>1. PICK t \in Senders : SendDue(t) \/ (\E r \in BOOLEAN : Resume(t, r)) \/ SetSending(t) \/ ListPage(t)
                                \/ NextDelivery(t) \/ Failing(t) \/ Count(t) \/ Close(t)
    BY <1>10
  <2>2. \A s \in Senders : IsMarking(s, u)' <=> IsMarking(s, u)
    BY <1>4, <1>6, <2>1 DEF Acts, Send
  <2>. QED
    BY <1>1, <1>6, <2>1, <2>2
<1>. QED
  BY <1>2, <1>3, <1>7, <1>8, <1>9, <1>10 DEF AnnNext, Send, Aside

\* A batch that is complete, and nothing is pending in it, stays so.
LEMMA DoneStep == ASSUME AInv, AnnNext \/ UNCHANGED annVars PROVE DoneInv'
<1>1. AllReached /\ status # "none" => AllReached'
  <2>. SUFFICES ASSUME AllReached, status # "none", NEW u \in Recipients, delivery'[u] # delivery[u] PROVE FALSE
    BY DEF AllReached
  <2>. QED
    BY DeliveryStep DEF AllReached, Settles, Unsettled
<1>2. /\ status = "none" => ~closed /\ \A s \in Senders : at[s] = "idle" /\ outcome[s] # "complete"
      /\ DoneInv /\ AnnTypeOK /\ \A s \in Senders : SenderInv(s) /\ PassInv(s)
  BY DEF AInv, NewInv, SenderInv
<1>3. ASSUME NEW s \in Senders, outcome'[s] = "complete", outcome[s] # "complete" PROVE AllReached'
  <2>1. Count(s)
    <3>1. ~(AnnCrash \/ Aside)
      BY <1>3, AsideStep DEF AnnCrash
    <3>2. Acts(s)
      BY <1>2, <1>3, <3>1, OthersWait DEF AnnNext, Acts, Aside, Same
    <3>3. ~(CreateBatch(s) \/ SendDue(s) \/ (\E r \in BOOLEAN : Resume(s, r)))
      BY <1>3 DEF CreateBatch, SendDue, Resume
    <3>4. ~(SetSending(s) \/ ListPage(s) \/ NextDelivery(s) \/ Copy(s))
      BY <1>2, <1>3 DEF SetSending, ListPage, NextDelivery, Copy, Ends, AnnTypeOK
    <3>5. ~(MarkDelivery(s) \/ Failing(s) \/ Close(s))
      BY <1>2, <1>3 DEF MarkDelivery, Failing, Close, Ends, AnnTypeOK
    <3>. QED
      BY <3>2, <3>3, <3>4, <3>5 DEF Acts, Send
  <2>2. delivery' = delivery /\ at[s] = "count" /\ \A u \in Recipients : delivery[u] \notin {"failed", "skipped"}
    BY <1>2, <1>3, <2>1 DEF Count, Ends, ledger, AnnTypeOK
  <2>. QED
    BY <1>2, <2>2 DEF PassInv, AllReached, AnnTypeOK
<1>4. ASSUME closed', status' # "cancelled", ~(closed /\ status # "cancelled") PROVE AllReached'
  <2>1. ~(Aside \/ AnnCrash)
    BY <1>4 DEF Aside, CancelAsked, CancelWritten, LosesAccess, AnnCrash, ledger, annVars
  <2>2. PICK s \in Senders : Acts(s)
    BY <2>1 DEF AnnNext, Acts, Aside
  <2>3. Close(s)
    BY <1>4, <2>2 DEF Acts, Send, CreateBatch, SendDue, Resume, SetSending, ListPage, NextDelivery, Copy,
       MarkDelivery,
                      Failing, Count, SetBatchStatus, ledger
  <2>4. outcome[s] = "complete" /\ delivery' = delivery
    BY <1>4, <2>3 DEF Close, SetBatchStatus
  <2>. QED
    BY <1>2, <2>4 DEF DoneInv, AllReached
<1>. QED
  BY <1>1, <1>2, <1>3, <1>4 DEF DoneInv

\* The values of the batch, of the senders, of the ledger and of the histories.
LEMMA AnnTypeStep == ASSUME AInv, AnnNext \/ UNCHANGED annVars PROVE AnnTypeOK'
<1>1. AnnTypeOK /\ \A s \in Senders : SenderInv(s)
  BY DEF AInv
<1>2. (\E t \in Senders : Acts(t)) \/ AnnCrash \/ Aside
  BY DEF AnnNext, Acts, Aside
<1>3. /\ status' \in Resumable \union {"none", "completed", "cancelled"} /\ closed' \in BOOLEAN
      /\ eligible' \subseteq Recipients /\ cancelling' \in BOOLEAN
  <2>1. status' \in Resumable \union {"none", "completed", "cancelled"}
    BY <1>1 DEF AnnNext, Send, CreateBatch, SendDue, Resume, SetSending, ListPage, NextDelivery, Copy, MarkDelivery,
                Failing, Count, Close, CancelAsked, CancelWritten, LosesAccess, AnnCrash, SetBatchStatus, ledger, annVars,
                AnnTypeOK, Resumable
  <2>2. closed' \in BOOLEAN
    BY <1>1 DEF AnnNext, Send, CreateBatch, SendDue, Resume, SetSending, ListPage, NextDelivery, Copy, MarkDelivery,
                Failing, Count, Close, CancelAsked, CancelWritten, LosesAccess, AnnCrash, ledger, annVars, AnnTypeOK
  <2>3. eligible' \subseteq Recipients /\ cancelling' \in BOOLEAN
    BY <1>1 DEF AnnNext, Send, CreateBatch, SendDue, Resume, SetSending, ListPage, NextDelivery, Copy, MarkDelivery,
                Failing, Count, Close, CancelAsked, CancelWritten, LosesAccess, AnnCrash, Keep, annVars, AnnTypeOK
  <2>. QED
    BY <2>1, <2>2, <2>3
<1>4. /\ at' \in [Senders -> {"idle", "set", "list", "copy", "mark", "failing", "count", "close"}]
      /\ retry' \in [Senders -> BOOLEAN]
      /\ outcome' \in [Senders -> {"none", "sent", "failed", "skipped", "complete", "partial"}]
  <2>1. CASE Aside \/ AnnCrash
    <3>1. (at' = at /\ retry' = retry /\ outcome' = outcome) \/ AnnCrash
      BY <2>1, AsideStep
    <3>2. at' \in [Senders -> {"idle", "set", "list", "copy", "mark", "failing", "count", "close"}]
      BY <1>1, <3>1 DEF AnnCrash, Idle, AnnTypeOK
    <3>3. retry' \in [Senders -> BOOLEAN]
      BY <1>1, <3>1 DEF AnnCrash, AnnTypeOK
    <3>4. outcome' \in [Senders -> {"none", "sent", "failed", "skipped", "complete", "partial"}]
      BY <1>1, <3>1 DEF AnnCrash, AnnTypeOK
    <3>. QED
      BY <3>2, <3>3, <3>4
  <2>2. CASE \E t \in Senders : CreateBatch(t) \/ SendDue(t) \/ (\E r \in BOOLEAN : Resume(t, r)) \/ SetSending(t)
    <3>1. PICK t \in Senders : CreateBatch(t) \/ SendDue(t) \/ (\E r \in BOOLEAN : Resume(t, r)) \/ SetSending(t)
      BY <2>2
    <3>2. outcome' = outcome \/ outcome' = [outcome EXCEPT ![t] = "none"]
      BY <3>1 DEF CreateBatch, SendDue, Resume, SetSending, Ends
    <3>3. \E r \in BOOLEAN : retry' = retry \/ retry' = [retry EXCEPT ![t] = r]
      BY <3>1 DEF CreateBatch, SendDue, Resume, SetSending, Begin, Ends
    <3>4. at' = at \/ \E p \in {"set", "list", "idle"} : at' = [at EXCEPT ![t] = p]
      BY <3>1 DEF CreateBatch, SendDue, Resume, SetSending, Begin, Ends, Move
    <3>. QED
      BY <1>1, <3>2, <3>3, <3>4 DEF AnnTypeOK
  <2>3. CASE \E t \in Senders : ListPage(t) \/ NextDelivery(t) \/ Copy(t) \/ MarkDelivery(t)
    BY <1>1, <2>3 DEF ListPage, NextDelivery, Copy, MarkDelivery, Ends, Move, AnnTypeOK
  <2>4. CASE \E t \in Senders : Failing(t) \/ Count(t) \/ Close(t)
    BY <1>1, <2>4 DEF Failing, Count, Close, Ends, Move, AnnTypeOK
  <2>. QED
    BY <1>2, <2>1, <2>2, <2>3, <2>4 DEF Acts, Send
<1>5. page' \in [Senders -> SUBSET Recipients] /\ last' \in [Senders -> Recipients \union {0}]
  <2>1. CASE Aside \/ AnnCrash
    BY <1>1, <2>1, AsideStep DEF AnnCrash, AnnTypeOK
  <2>2. CASE \E t \in Senders : ListPage(t)
    <3>1. \A t \in Senders : PageOf(t) \in SUBSET Recipients
      BY DEF PageOf, Behind
    <3>. QED
      BY <1>1, <2>2, <3>1 DEF ListPage, Ends, AnnTypeOK
  <2>3. CASE \E t \in Senders : NextDelivery(t)
    <3>1. PICK t \in Senders : NextDelivery(t)
      BY <2>3
    <3>2. page[t] \in SUBSET Recipients /\ page[t] # {}
      BY <1>1, <3>1 DEF NextDelivery, AnnTypeOK
    <3>3. FirstOf(page[t]) \in Recipients
      BY <3>2, FirstOfPage
    <3>. QED
      BY <1>1, <3>1, <3>2, <3>3 DEF NextDelivery, Ends, AnnTypeOK
  <2>4. CASE \E t \in Senders : CreateBatch(t) \/ SendDue(t) \/ (\E r \in BOOLEAN : Resume(t, r)) \/ SetSending(t)
                               \/ Copy(t) \/ MarkDelivery(t) \/ Failing(t) \/ Count(t) \/ Close(t)
    BY <1>1, <2>4 DEF CreateBatch, SendDue, Resume, SetSending, Copy, MarkDelivery, Failing, Count, Close, Ends,
       AnnTypeOK
  <2>. QED
    BY <1>2, <2>1, <2>2, <2>3, <2>4 DEF Acts, Send
<1>6. delivery' \in [Recipients -> {"none", "pending", "sent", "failed", "skipped"}]
  <2>1. CASE \E t \in Senders : MarkDelivery(t)
    BY <1>1, <2>1 DEF MarkDelivery, SenderInv, AnnTypeOK
  <2>2. CASE ~\E t \in Senders : MarkDelivery(t)
    BY <1>1, <2>2 DEF AnnNext, Send, CreateBatch, SendDue, Resume, SetSending, ListPage, NextDelivery, Copy, Failing,
                      Count, Close, CancelAsked, CancelWritten, LosesAccess, AnnCrash, ledger, annVars, AnnTypeOK
  <2>. QED
    BY <2>1, <2>2
<1>7. copies' \in [Recipients -> 0 .. 2] /\ unclear' \subseteq Recipients
  <2>1. \A n \in 0 .. 2 : FewerThan(n, 2) \in 0 .. 2
    BY DEF FewerThan
  <2>2. \A s \in Senders : outcome[s] = "sent" => last[s] \in Recipients
    BY <1>1 DEF SenderInv
  <2>3. CASE \E t \in Senders : Copy(t)
    BY <1>1, <2>1, <2>3 DEF Copy, Delivered, AnnTypeOK
  <2>4. CASE \E t \in Senders : MarkDelivery(t)
    BY <1>1, <2>2, <2>4 DEF MarkDelivery, AnnTypeOK
  <2>5. CASE AnnCrash
    BY <1>1, <2>2, <2>5 DEF AnnCrash, AnnTypeOK
  <2>6. CASE ~((\E t \in Senders : Copy(t) \/ MarkDelivery(t)) \/ AnnCrash)
    BY <1>1, <2>6 DEF AnnNext, Send, CreateBatch, SendDue, Resume, SetSending, ListPage, NextDelivery, Failing,
                      Count, Close, Quiet, CancelAsked, CancelWritten, LosesAccess, annVars, AnnTypeOK
  <2>. QED
    BY <2>3, <2>4, <2>5, <2>6
<1>8. passes' \in 0 .. MaxAnnouncementPasses /\ annCrashes' \in 0 .. MaxAnnouncementCrashes
  <2>1. MaxAnnouncementPasses \in Nat /\ MaxAnnouncementCrashes \in Nat
    BY AnnouncementBounds
  <2>2. passes' = passes \/ (passes < MaxAnnouncementPasses /\ passes' = passes + 1)
    BY DEF AnnNext, Send, CreateBatch, SendDue, Resume, SetSending, ListPage, NextDelivery, Copy, MarkDelivery,
       Failing,
           Count, Close, Begin, Keep, CancelAsked, CancelWritten, LosesAccess, AnnCrash, annVars
  <2>3. annCrashes' = annCrashes \/ (annCrashes < MaxAnnouncementCrashes /\ annCrashes' = annCrashes + 1)
    BY DEF AnnNext, Send, CreateBatch, SendDue, Resume, SetSending, ListPage, NextDelivery, Copy, MarkDelivery,
       Failing,
           Count, Close, Keep, CancelAsked, CancelWritten, LosesAccess, AnnCrash, annVars
  <2>. QED
    BY <1>1, <2>1, <2>2, <2>3 DEF AnnTypeOK
<1>9. overlapped' \in BOOLEAN
  <2>1. overlapped' = overlapped \/ overlapped' = (overlapped \/ Sending # {})
    BY DEF AnnNext, Send, CreateBatch, SendDue, Resume, SetSending, ListPage, NextDelivery, Copy, MarkDelivery,
       Failing,
           Count, Close, Begin, Keep, CancelAsked, CancelWritten, LosesAccess, AnnCrash, annVars
  <2>. QED
    BY <1>1, <2>1 DEF AnnTypeOK
<1>. QED
  BY <1>3, <1>4, <1>5, <1>6, <1>7, <1>8, <1>9 DEF AnnTypeOK

\* Every step of a sender, of a cancellation, of the users and of the clock keeps the invariant.
LEMMA NextAInv == AInv /\ [AnnNext]_annVars => AInv'
  BY AnnTypeStep, SendersStep, NewStep, AloneStep, CopiesStep, DoneStep DEF AInv

\* services/announcements.py:254-340: nobody gets the announcement twice through resumes, retries,
\* schedules and restarts unless two senders overlap or the ledger could not learn of the first
\* message; what it has as sent was sent; a completed batch has reached everyone.
THEOREM LedgerOfAnyBatch == AnnSpec => []LedgerIsTrue
<1>1. AInv => LedgerIsTrue
  <2>. SUFFICES ASSUME AInv PROVE LedgerIsTrue
    OBVIOUS
  <2>1. NobodyTwice /\ SentWasSent
    BY DEF AInv, CopiesInv, NobodyTwice, SentWasSent
  <2>2. CompletedReachedAll
    BY DEF AInv, DoneInv, AllReached, CompletedReachedAll
  <2>. QED
    BY <2>1, <2>2 DEF LedgerIsTrue
<1>. QED
  BY <1>1, InitAInv, NextAInv, PTL DEF AnnSpec

\* services/announcements.py:157-175 and 254-340: a cancellation is final and
\* stops every sender before its next recipient, and a pass that ends has left nobody pending.
THEOREM SendersOfAnyBatch == AnnSpec => AnnouncementSteps
<1>1. AInv /\ [AnnNext]_annVars => [status = "cancelled" => status' = "cancelled"]_annVars
  BY DEF AnnNext, Send, CreateBatch, SendDue, Resume, SetSending, ListPage, NextDelivery, Copy, MarkDelivery, Failing,
         Count, Close, SetBatchStatus, Resumable, CancelAsked, CancelWritten, LosesAccess, AnnCrash, ledger
<1>2. AInv /\ [AnnNext]_annVars
        => [status = "cancelled" => \A s \in Senders : at'[s] = "copy" => at[s] = "copy"]_annVars
  <2>. SUFFICES ASSUME AInv, AnnNext, status = "cancelled", NEW s \in Senders, at'[s] = "copy", at[s] # "copy"
                PROVE  FALSE
    OBVIOUS
  <2>1. ~(Aside \/ AnnCrash)
    BY AsideStep DEF AnnCrash, Idle
  <2>2. Acts(s)
    BY <2>1, OthersWait DEF AnnNext, Acts, Aside, Same, AInv
  <2>. QED
    BY <2>2 DEF Acts, Send, CreateBatch, SendDue, Resume, SetSending, ListPage, NextDelivery, Copy, MarkDelivery,
                Failing, Count, Close, Begin, Ends, Move, AInv, AnnTypeOK
<1>3. AInv /\ [AnnNext]_annVars
        => [\A s \in Senders : at[s] = "list" /\ at'[s] = "count"
              => \A u \in Recipients : delivery[u] # "pending"]_annVars
  <2>. SUFFICES ASSUME AInv, AnnNext, NEW s \in Senders, at[s] = "list", at'[s] = "count", NEW u \in Recipients
                PROVE  delivery[u] # "pending"
    OBVIOUS
  <2>1. ~(Aside \/ AnnCrash)
    BY AsideStep DEF AnnCrash, Idle
  <2>2. Acts(s)
    BY <2>1, OthersWait DEF AnnNext, Acts, Aside, Same, AInv
  <2>3. AInv' /\ delivery' = delivery
    BY <2>2, NextAInv DEF Acts, Send, CreateBatch, SendDue, Resume, SetSending, ListPage, NextDelivery, Copy,
                          MarkDelivery, Failing, Count, Close, ledger
  <2>. QED
    BY <2>3 DEF AInv, PassInv
<1>. QED
  BY <1>1, <1>2, <1>3, InitAInv, NextAInv, PTL
     DEF AnnSpec, AnnouncementSteps, CancelIsFinal, CancelStops, PassSkipsNobody

--------------------------------------------------------------------------------
(* An alert and what it rests on (AnomalyDetection), for any addresses and any *)
(* settings of the windows.                                                  *)

\* A sample is not of the future.
SamplesInv ==
    /\ lastAlert \in [AnomalyKeys -> Ticks] /\ usedFrom \in [AnomalyKeys -> SUBSET Sample]
    /\ \A k \in AnomalyKeys : \A o \in observations[k] : o[1] <= tick

\* An address a key was used from since a moment, or the one the peer table showed then.
Known(uses, ip, moment) == \E u \in uses : u[1] >= moment /\ u[2] = ip

\* Whatever was seen of an AmneziaWG key since a moment was in use since then, except for the
\* address that the table showed at that moment and nobody has taken from it yet.
AwgInv ==
    \A m \in tick - FullWindow - ConcurrentWindow .. tick : \E i \in Ips \union {"none"} :
        /\ \A o \in observations["awg"] : o[1] >= m => o[2] = i \/ Known(usedFrom["awg"], o[2], m)
        /\ endpoint \in {"none", i} \/ Known(usedFrom["awg"], endpoint, m)

\* What was seen of an Xray key is in the log of the full window before.
XrayInv ==
    \A o \in observations["xray"] : o[1] >= tick - ConcurrentWindow => Known(usedFrom["xray"], o[2], o[1] - FullWindow)

\* The time of an alert is kept with the samples it rested on, and forgotten with them.
CooldownInv ==
    \A k \in AnomalyKeys : lastAlert[k] > 0 =>
        IF lastAlerted[k] = 0 THEN tick - lastAlert[k] > FullWindow - ConcurrentWindow
        ELSE \E o \in observations[k] : o[1] >= lastAlert[k] - ConcurrentWindow

\* A suspect has passed the thresholds at this tick.
SuspectInv ==
    \A k \in AnomalyKeys : suspect = k =>
        /\ phase = "thresholds" /\ Cardinality(IpsOf(Since(observations[k], tick - ConcurrentWindow))) >= MinUniqueIps
        /\ lastAlerted[k] = 0 \/ tick - lastAlerted[k] >= Cooldown

\* The inductive invariant of the anomaly detection.
NInv == AnoTypeOK /\ SamplesInv /\ AwgInv /\ XrayInv /\ CooldownInv /\ SuspectInv

\* The numbers of the module.
LEMMA AnoNumbers ==
    /\ IsFiniteSet(Ips) /\ LastTick \in Nat \ {0} /\ FullWindow \in Nat /\ ConcurrentWindow \in Nat /\ Cooldown \in Nat
    /\ 0 < ConcurrentWindow /\ ConcurrentWindow <= FullWindow /\ MinUniqueIps \in Nat \ {0}
  BY AnomalySettings

\* Nothing is remembered at first.
LEMMA InitNInv == AnoInit => NInv
<1>. SUFFICES ASSUME AnoInit PROVE NInv
  OBVIOUS
<1>. USE DEF AnoInit
<1>1. AnoTypeOK /\ SamplesInv
  <2>1. 1 \in Ticks /\ 0 \in Ticks
    BY AnoNumbers DEF Ticks
  <2>. QED
    BY <2>1 DEF AnoTypeOK, SamplesInv, AnomalyKeys
<1>2. AwgInv /\ XrayInv /\ CooldownInv
  BY DEF AwgInv, XrayInv, CooldownInv, AnomalyKeys
<1>3. SuspectInv
  BY DEF SuspectInv, AnomalyKeys
<1>. QED
  BY <1>1, <1>2, <1>3 DEF NInv

\* The values of the check, of the keys and of the histories.
LEMMA AnoTypeStep == ASSUME NInv, AnoNext \/ UNCHANGED anoVars PROVE AnoTypeOK' /\ SamplesInv'
<1>1. AnoTypeOK /\ SamplesInv
  BY DEF NInv
<1>2. tick' \in Ticks /\ tick <= tick' /\ tick \in Nat /\ (tick' = tick \/ TimePasses)
  <2>1. tick' = tick \/ (TimePasses /\ tick < LastTick /\ tick' = tick + 1)
    BY DEF AnoNext, RevokedByHand, CheckThreshold, Connect, TimePasses, SampleEndpoints, SampleLog, Alert, CheckDone,
       anoVars
  <2>. QED
    BY <1>1, <2>1, AnoNumbers DEF AnoTypeOK, Ticks
<1>3. phase' \in {"asleep", "xray", "thresholds"} /\ activeKeys' \subseteq AnomalyKeys
      /\ endpoint' \in Ips \union {"none"}
  BY <1>1 DEF AnoNext, RevokedByHand, Revoked, CheckThreshold, Connect, TimePasses, SampleEndpoints, SampleLog, Alert,
              CheckDone, anoVars, AnoTypeOK
<1>4. candidates' \subseteq AnomalyKeys /\ suspect' \in AnomalyKeys \union {"none"}
  BY <1>1 DEF AnoNext, RevokedByHand, CheckThreshold, Connect, TimePasses, SampleEndpoints, SampleLog, Alert,
              CheckDone, anoVars, AnoTypeOK
<1>5. /\ lastAlerted' \in [AnomalyKeys -> Ticks] /\ lastAlert' \in [AnomalyKeys -> Ticks]
      /\ \A k \in AnomalyKeys : lastAlerted'[k] \in {0, lastAlert'[k]}
  <2>0. 0 \in Ticks /\ tick \in Ticks
    BY <1>1, AnoNumbers DEF AnoTypeOK, Ticks
  <2>1. CASE \E k \in AnomalyKeys : CheckThreshold(k)
    BY <1>1, <2>0, <2>1 DEF CheckThreshold, AnoTypeOK, SamplesInv
  <2>2. CASE Alert
    BY <1>1, <2>0, <2>2 DEF Alert, AnoTypeOK, SamplesInv
  <2>3. CASE UNCHANGED <<lastAlerted, lastAlert>>
    BY <1>1, <2>3 DEF AnoTypeOK, SamplesInv
  <2>. QED
    BY <2>1, <2>2, <2>3 DEF AnoNext, RevokedByHand, Connect, TimePasses, SampleEndpoints, SampleLog, CheckDone,
       memory,
                            anoVars
<1>6. usedFrom' \in [AnomalyKeys -> SUBSET Sample]
  <2>1. CASE \E k \in AnomalyKeys, ip \in Ips : Connect(k, ip)
    BY <1>1, <2>1 DEF Connect, AnoTypeOK, SamplesInv, Sample
  <2>2. CASE TimePasses
    BY <1>1, <2>2 DEF TimePasses, Since, SamplesInv
  <2>3. CASE usedFrom' = usedFrom
    BY <1>1, <2>3 DEF SamplesInv
  <2>. QED
    BY <2>1, <2>2, <2>3 DEF AnoNext, RevokedByHand, CheckThreshold, SampleEndpoints, SampleLog, Alert, CheckDone,
       anoVars
<1>7. observations' \in [AnomalyKeys -> SUBSET Sample]
      /\ \A k \in AnomalyKeys : \A o \in observations'[k] : o \in observations[k] \/ o[1] = tick
  <2>1. CASE \E k \in AnomalyKeys : CheckThreshold(k)
    BY <1>1, <2>1 DEF CheckThreshold, AnoTypeOK, Since
  <2>2. CASE SampleEndpoints
    <3>1. endpoint # "none" => <<tick, endpoint>> \in Sample
      BY <1>1 DEF AnoTypeOK, Sample
    <3>. QED
      BY <1>1, <2>2, <3>1 DEF SampleEndpoints, AnoTypeOK, AnomalyKeys
  <2>3. CASE SampleLog
    <3>. DEFINE new == {tick} \X IpsOf(Since(usedFrom["xray"], tick - FullWindow))
    <3>1. new \subseteq Sample /\ \A o \in new : o[1] = tick
      BY <1>1 DEF AnoTypeOK, SamplesInv, Sample, IpsOf, Since, AnomalyKeys
    <3>2. observations' \in {observations, [observations EXCEPT !["xray"] = @ \union new]}
      BY <2>3 DEF SampleLog
    <3>. HIDE DEF new
    <3>. QED
      BY <1>1, <3>1, <3>2 DEF AnoTypeOK, AnomalyKeys
  <2>4. CASE UNCHANGED observations
    BY <1>1, <2>4 DEF AnoTypeOK
  <2>. QED
    BY <2>1, <2>2, <2>3, <2>4 DEF AnoNext, RevokedByHand, Connect, TimePasses, Alert, CheckDone, memory, anoVars
<1>8. \A k \in AnomalyKeys : \A o \in observations'[k] : o[1] <= tick'
  BY <1>1, <1>2, <1>7 DEF SamplesInv, AnoTypeOK, Sample, Ticks
<1>. QED
  BY <1>2, <1>3, <1>4, <1>5, <1>6, <1>7, <1>8 DEF AnoTypeOK, SamplesInv

\* What a step adds to the samples, to the log and to the peer table.
LEMMA SamplesStep ==
    ASSUME NInv, AnoNext \/ UNCHANGED anoVars
    PROVE  /\ \A o \in observations'["awg"] :
                o \in observations["awg"] \/ (endpoint # "none" /\ endpoint' = endpoint /\ o[2] = endpoint)
           /\ \A o \in observations'["xray"] :
                o \in observations["xray"] \/ (o[1] = tick /\ Known(usedFrom["xray"], o[2], tick - FullWindow))
           /\ endpoint' \in {"none", endpoint} \/ <<tick, endpoint'>> \in usedFrom'["awg"]
           /\ \A k \in AnomalyKeys : \A u \in usedFrom[k] :
                u \in usedFrom'[k] \/ (tick' = tick + 1 /\ u[1] < tick' - FullWindow - ConcurrentWindow)
<1>1. AnoTypeOK /\ SamplesInv
  BY DEF NInv
<1>2. \A o \in observations'["awg"] :
        o \in observations["awg"] \/ (endpoint # "none" /\ endpoint' = endpoint /\ o[2] = endpoint)
  <2>1. CASE \E k \in AnomalyKeys : CheckThreshold(k)
    BY <1>1, <2>1 DEF CheckThreshold, AnoTypeOK, Since, AnomalyKeys
  <2>2. CASE SampleEndpoints
    BY <1>1, <2>2 DEF SampleEndpoints, AnoTypeOK, AnomalyKeys
  <2>3. CASE SampleLog
    BY <1>1, <2>3 DEF SampleLog, AnoTypeOK, AnomalyKeys
  <2>. QED
    BY <2>1, <2>2, <2>3 DEF AnoNext, RevokedByHand, Connect, TimePasses, Alert, CheckDone, memory, anoVars
<1>3. \A o \in observations'["xray"] :
        o \in observations["xray"] \/ (o[1] = tick /\ Known(usedFrom["xray"], o[2], tick - FullWindow))
  <2>1. CASE \E k \in AnomalyKeys : CheckThreshold(k)
    BY <1>1, <2>1 DEF CheckThreshold, AnoTypeOK, Since, AnomalyKeys
  <2>2. CASE SampleEndpoints
    BY <1>1, <2>2 DEF SampleEndpoints, AnoTypeOK, AnomalyKeys
  <2>3. CASE SampleLog
    <3>. DEFINE new == {tick} \X IpsOf(Since(usedFrom["xray"], tick - FullWindow))
    <3>1. \A o \in new : o[1] = tick /\ Known(usedFrom["xray"], o[2], tick - FullWindow)
      BY DEF IpsOf, Since, Known
    <3>2. observations' \in {observations, [observations EXCEPT !["xray"] = @ \union new]}
      BY <2>3 DEF SampleLog
    <3>. HIDE DEF new
    <3>. QED
      BY <1>1, <3>1, <3>2 DEF AnoTypeOK, AnomalyKeys
  <2>. QED
    BY <2>1, <2>2, <2>3 DEF AnoNext, RevokedByHand, Connect, TimePasses, Alert, CheckDone, memory, anoVars
<1>4. endpoint' \in {"none", endpoint} \/ <<tick, endpoint'>> \in usedFrom'["awg"]
  BY <1>1 DEF AnoNext, RevokedByHand, Revoked, CheckThreshold, Connect, TimePasses, SampleEndpoints, SampleLog, Alert,
              CheckDone, anoVars, SamplesInv, AnomalyKeys
<1>5. \A k \in AnomalyKeys : \A u \in usedFrom[k] :
        u \in usedFrom'[k] \/ (tick' = tick + 1 /\ u[1] < tick' - FullWindow - ConcurrentWindow)
  <2>1. CASE TimePasses
    <3>1. \A k \in AnomalyKeys : \A u \in usedFrom[k] : u[1] \in Int
      BY <1>1 DEF SamplesInv, Sample, Ticks
    <3>2. tick' = tick + 1 /\ tick' \in Int
      BY <1>1, <2>1 DEF TimePasses, AnoTypeOK, Ticks
    <3>. QED
      BY <2>1, <3>1, <3>2, AnoNumbers DEF TimePasses, Since
  <2>2. CASE \E k \in AnomalyKeys, ip \in Ips : Connect(k, ip)
    BY <1>1, <2>2 DEF Connect, SamplesInv
  <2>. QED
    BY <2>1, <2>2 DEF AnoNext, RevokedByHand, CheckThreshold, SampleEndpoints, SampleLog, Alert, CheckDone, anoVars
<1>. QED
  BY <1>2, <1>3, <1>4, <1>5

\* The clock goes on by one, or stands.
LEMMA TicksStep ==
    ASSUME NInv, AnoNext \/ UNCHANGED anoVars
    PROVE  /\ tick \in Nat /\ tick' \in Nat /\ (tick' = tick \/ tick' = tick + 1)
           /\ \A k \in AnomalyKeys : /\ \A o \in observations[k] : o[1] \in Nat /\ o[1] <= tick
                                     /\ \A u \in usedFrom[k] : u[1] \in Nat
<1>1. AnoTypeOK /\ SamplesInv /\ AnoTypeOK'
  BY AnoTypeStep DEF NInv
<1>2. tick' = tick \/ tick' = tick + 1
  BY DEF AnoNext, RevokedByHand, CheckThreshold, Connect, TimePasses, SampleEndpoints, SampleLog, Alert, CheckDone,
     anoVars
<1>. QED
  BY <1>1, <1>2 DEF AnoTypeOK, SamplesInv, Sample, Ticks

\* A new address in the table is in the log of that moment.
LEMMA AwgStep == ASSUME NInv, AnoNext \/ UNCHANGED anoVars PROVE AwgInv'
<1>. SUFFICES ASSUME NEW m \in tick' - FullWindow - ConcurrentWindow .. tick'
              PROVE  \E i \in Ips \union {"none"} :
                        /\ \A o \in observations'["awg"] : o[1] >= m => o[2] = i \/ Known(usedFrom'["awg"], o[2], m)
                        /\ endpoint' \in {"none", i} \/ Known(usedFrom'["awg"], endpoint', m)
  BY DEF AwgInv
<1>1. AnoTypeOK /\ SamplesInv /\ AwgInv /\ AnoTypeOK'
  BY AnoTypeStep DEF NInv
<1>2. m \in Int /\ m >= tick' - FullWindow - ConcurrentWindow /\ m <= tick'
  BY TicksStep, AnoNumbers
<1>3. CASE m <= tick
  <2>1. m \in tick - FullWindow - ConcurrentWindow .. tick
    BY <1>2, <1>3, TicksStep, AnoNumbers
  <2>2. PICK i \in Ips \union {"none"} :
            /\ \A o \in observations["awg"] : o[1] >= m => o[2] = i \/ Known(usedFrom["awg"], o[2], m)
            /\ endpoint \in {"none", i} \/ Known(usedFrom["awg"], endpoint, m)
    BY <1>1, <2>1 DEF AwgInv
  <2>3. \A ip : Known(usedFrom["awg"], ip, m) => Known(usedFrom'["awg"], ip, m)
    <3>1. \A u \in usedFrom["awg"] : u[1] >= m => u \in usedFrom'["awg"]
      BY <1>2, SamplesStep, TicksStep, AnoNumbers DEF AnomalyKeys
    <3>. QED
      BY <3>1 DEF Known
  <2>4. \A o \in observations'["awg"] : o[1] >= m => o[2] = i \/ Known(usedFrom'["awg"], o[2], m)
    BY <2>2, <2>3, SamplesStep
  <2>5. endpoint' \in {"none", i} \/ Known(usedFrom'["awg"], endpoint', m)
    <3>1. CASE endpoint' \in {"none", endpoint}
      BY <2>2, <2>3, <3>1
    <3>2. CASE <<tick, endpoint'>> \in usedFrom'["awg"]
      BY <1>2, <1>3, <3>2, TicksStep DEF Known
    <3>. QED
      BY <3>1, <3>2, SamplesStep
  <2>. QED
    BY <2>4, <2>5
<1>4. CASE ~(m <= tick)
  <2>1. tick' = tick + 1 /\ m = tick + 1
    BY <1>2, <1>4, TicksStep
  <2>2. TimePasses
    BY <2>1, TicksStep DEF AnoNext, RevokedByHand, CheckThreshold, Connect, SampleEndpoints, SampleLog, Alert,
       CheckDone,
                           anoVars
  <2>3. \A o \in observations'["awg"] : ~(o[1] >= m)
    BY <2>1, <2>2, TicksStep DEF TimePasses, memory, AnomalyKeys
  <2>. QED
    BY <1>1, <2>3 DEF AnoTypeOK
<1>. QED
  BY <1>3, <1>4

\* A line of the log that is sampled is not forgotten before its sample.
LEMMA XrayStep == ASSUME NInv, AnoNext \/ UNCHANGED anoVars PROVE XrayInv'
<1>. SUFFICES ASSUME NEW o \in observations'["xray"], o[1] >= tick' - ConcurrentWindow
              PROVE  Known(usedFrom'["xray"], o[2], o[1] - FullWindow)
  BY DEF XrayInv
<1>1. o[1] \in Nat /\ tick \in Nat /\ tick' \in Nat /\ (tick' = tick \/ tick' = tick + 1)
  BY TicksStep, SamplesStep DEF AnomalyKeys
<1>2. Known(usedFrom["xray"], o[2], o[1] - FullWindow)
  <2>1. CASE o \in observations["xray"]
    <3>1. o[1] >= tick - ConcurrentWindow
      BY <1>1, AnoNumbers
    <3>. QED
      BY <2>1, <3>1 DEF NInv, XrayInv
  <2>2. CASE o[1] = tick /\ Known(usedFrom["xray"], o[2], tick - FullWindow)
    BY <2>2
  <2>. QED
    BY <2>1, <2>2, SamplesStep
<1>3. PICK u \in usedFrom["xray"] : u[1] >= o[1] - FullWindow /\ u[2] = o[2]
  BY <1>2 DEF Known
<1>4. u \in usedFrom'["xray"]
  <2>1. u[1] \in Nat
    BY TicksStep DEF AnomalyKeys
  <2>. QED
    BY <1>1, <1>3, <2>1, SamplesStep, AnoNumbers DEF AnomalyKeys
<1>. QED
  BY <1>3, <1>4 DEF Known

\* An alert forgotten lies further back than the samples it rested on.
LEMMA CooldownStep == ASSUME NInv, AnoNext \/ UNCHANGED anoVars PROVE CooldownInv'
<1>. SUFFICES ASSUME NEW k \in AnomalyKeys, lastAlert'[k] > 0
              PROVE  IF lastAlerted'[k] = 0 THEN tick' - lastAlert'[k] > FullWindow - ConcurrentWindow
                     ELSE \E o \in observations'[k] : o[1] >= lastAlert'[k] - ConcurrentWindow
  BY DEF CooldownInv
<1>1. AnoTypeOK /\ SamplesInv /\ lastAlert[k] \in Nat
      /\ (lastAlert[k] > 0 =>
            IF lastAlerted[k] = 0 THEN tick - lastAlert[k] > FullWindow - ConcurrentWindow
            ELSE \E o \in observations[k] : o[1] >= lastAlert[k] - ConcurrentWindow)
  BY DEF NInv, CooldownInv, SamplesInv, Ticks
<1>2. CASE CheckThreshold(k)
  <2>. DEFINE kept == Since(observations[k], tick - FullWindow)
  <2>1. tick' = tick /\ lastAlert' = lastAlert /\ observations'[k] = kept
        /\ lastAlerted'[k] = (IF kept = {} THEN 0 ELSE lastAlerted[k])
    BY <1>1, <1>2 DEF CheckThreshold, AnoTypeOK
  <2>2. \A o \in observations[k] : o \notin kept => o[1] < tick - FullWindow
    BY TicksStep, AnoNumbers DEF Since
  <2>3. \A o \in kept : o \in observations[k] /\ o[1] >= tick - FullWindow
    BY DEF Since
  <2>. HIDE DEF kept
  <2>4. CASE lastAlerted[k] = 0
    BY <1>1, <2>1, <2>4
  <2>5. CASE lastAlerted[k] # 0
    <3>1. PICK o \in observations[k] : o[1] >= lastAlert[k] - ConcurrentWindow
      BY <1>1, <2>1, <2>5
    <3>2. CASE o \in kept
      BY <2>1, <2>5, <3>1, <3>2
    <3>3. CASE o \notin kept
      <4>1. o[1] < tick - FullWindow /\ o[1] \in Nat
        BY <2>2, <3>3, TicksStep
      <4>2. tick - lastAlert[k] > FullWindow - ConcurrentWindow
        BY <1>1, <3>1, <4>1, TicksStep, AnoNumbers
      <4>3. \A p \in kept : p[1] >= lastAlert[k] - ConcurrentWindow
        BY <1>1, <2>3, <3>1, <4>1, TicksStep, AnoNumbers
      <4>. QED
        BY <2>1, <2>5, <4>2, <4>3
    <3>. QED
      BY <3>2, <3>3
  <2>. QED
    BY <2>4, <2>5
<1>3. CASE Alert
  <2>1. CASE lastAlert'[k] = lastAlert[k] /\ lastAlerted'[k] = lastAlerted[k]
    BY <1>1, <1>3, <2>1 DEF Alert
  <2>2. CASE suspect = k /\ lastAlert'[k] = tick /\ lastAlerted'[k] = tick
    <3>1. Cardinality(IpsOf(Since(observations[k], tick - ConcurrentWindow))) >= MinUniqueIps
      BY <2>2 DEF NInv, SuspectInv
    <3>2. IpsOf(Since(observations[k], tick - ConcurrentWindow)) # {}
      <4>1. Cardinality({}) = 0
        BY FS_EmptySet
      <4>2. MinUniqueIps \in Nat /\ MinUniqueIps # 0
        BY AnoNumbers
      <4>. QED
        BY <3>1, <4>1, <4>2
    <3>3. PICK o \in observations[k] : o[1] >= tick - ConcurrentWindow
      BY <3>2 DEF IpsOf, Since
    <3>. QED
      BY <1>3, <2>2, <3>3 DEF Alert
  <2>. QED
    BY <1>1, <1>3, <2>1, <2>2 DEF Alert, AnoTypeOK, SamplesInv
<1>4. CASE TimePasses
  BY <1>1, <1>4, TicksStep, AnoNumbers DEF TimePasses, memory
<1>5. CASE (\E j \in AnomalyKeys \ {k} : CheckThreshold(j)) \/ SampleEndpoints \/ SampleLog
  <2>1. tick' = tick /\ lastAlert' = lastAlert /\ lastAlerted'[k] = lastAlerted[k] /\ observations[k] \subseteq observations'[k]
    BY <1>1, <1>5 DEF CheckThreshold, SampleEndpoints, SampleLog, AnoTypeOK, AnomalyKeys
  <2>. QED
    BY <1>1, <2>1
<1>6. CASE UNCHANGED <<tick, observations, lastAlert, lastAlerted>>
  BY <1>1, <1>6
<1>. QED
  BY <1>2, <1>3, <1>4, <1>5, <1>6 DEF AnoNext, RevokedByHand, Connect, CheckDone, memory, anoVars

\* A suspect waits for its row in the tick of its check.
LEMMA SuspectStep == ASSUME NInv, AnoNext \/ UNCHANGED anoVars PROVE SuspectInv'
<1>. SUFFICES ASSUME NEW k \in AnomalyKeys, suspect' = k
              PROVE  /\ phase' = "thresholds"
                     /\ Cardinality(IpsOf(Since(observations'[k], tick' - ConcurrentWindow))) >= MinUniqueIps
                     /\ lastAlerted'[k] = 0 \/ tick' - lastAlerted'[k] >= Cooldown
  BY DEF SuspectInv, IpsOf, Since
<1>1. AnoTypeOK
  BY DEF NInv
<1>2. CASE suspect = k
  <2>1. UNCHANGED <<tick, phase, observations, lastAlerted>> /\ phase = "thresholds"
    <3>1. phase = "thresholds" /\ k # "none"
      BY <1>2 DEF NInv, SuspectInv, AnomalyKeys
    <3>. QED
      BY <1>2, <3>1 DEF AnoNext, RevokedByHand, Connect, CheckThreshold, TimePasses, SampleEndpoints, SampleLog,
         Alert,
                        CheckDone, memory, anoVars
  <2>. QED
    BY <1>2, <2>1 DEF NInv, SuspectInv
<1>3. CASE suspect # k
  <2>1. CheckThreshold(k)
    BY <1>3 DEF AnoNext, RevokedByHand, Connect, CheckThreshold, TimePasses, SampleEndpoints, SampleLog, Alert,
       CheckDone,
                anoVars, AnomalyKeys
  <2>. QED
    BY <1>1, <2>1 DEF CheckThreshold, AnoTypeOK, AnomalyKeys
<1>. QED
  BY <1>2, <1>3

\* Every step of the check, of the users and of the clock keeps the invariant.
LEMMA NextNInv == NInv /\ [AnoNext]_anoVars => NInv'
  BY AnoTypeStep, AwgStep, XrayStep, CooldownStep, SuspectStep DEF NInv

\* Fewer addresses count less, and one more at most one more.
LEMMA CountsLess ==
    ASSUME NEW S \in SUBSET Ips, NEW T, NEW i, T \subseteq S \union {i}
    PROVE  /\ Cardinality(S) \in Nat /\ Cardinality(T) \in Nat /\ Cardinality(T) <= Cardinality(S) + 1
           /\ i \in S => Cardinality(T) <= Cardinality(S)
<1>1. IsFiniteSet(S)
  BY AnoNumbers, FS_Subset
<1>2. /\ IsFiniteSet(S \union {i}) /\ Cardinality(S) \in Nat
      /\ Cardinality(S \union {i}) = IF i \in S THEN Cardinality(S) ELSE Cardinality(S) + 1
  BY <1>1, FS_CardinalityType, FS_AddElement
<1>3. Cardinality(T) \in Nat /\ Cardinality(T) <= Cardinality(S \union {i})
  BY <1>2, FS_CardinalityType, FS_Subset
<1>. QED
  BY <1>2, <1>3

\* services/anomaly_detection.py:168-301: an alert rests on addresses that really used the key (of an
\* AmneziaWG key all but one since the concurrent window began, of an Xray key in the log of the full
\* window before it), and two alerts of a key are the cooldown apart, or as long as its samples live.
THEOREM AlertsOfAnyKey == AnoSpec => AlertsAreSound
<1>1. ASSUME NInv, AnoNext, NEW k \in AnomalyKeys, Fires(k)
      PROVE  /\ IF k = "awg" THEN UsedSince(k, tick - ConcurrentWindow) >= MinUniqueIps - 1
                ELSE UsedSince(k, tick - ConcurrentWindow - FullWindow) >= MinUniqueIps
             /\ lastAlert[k] > 0 => \/ tick - lastAlert[k] >= Cooldown
                                    \/ tick - lastAlert[k] > FullWindow - ConcurrentWindow
  <2>. DEFINE watched == IpsOf(Since(observations[k], tick - ConcurrentWindow))
  <2>1. /\ AnoTypeOK /\ SamplesInv /\ Cardinality(watched) >= MinUniqueIps
        /\ lastAlerted[k] = 0 \/ tick - lastAlerted[k] >= Cooldown
    BY <1>1 DEF NInv, SuspectInv, Fires
  <2>2. tick \in Nat /\ \A u \in usedFrom[k] : u[1] \in Nat /\ u[2] \in Ips
    BY <2>1 DEF AnoTypeOK, SamplesInv, Sample, Ticks
  <2>3. lastAlert[k] > 0 => \/ tick - lastAlert[k] >= Cooldown
                            \/ tick - lastAlert[k] > FullWindow - ConcurrentWindow
    BY <1>1, <2>1 DEF NInv, CooldownInv, AnoTypeOK
  <2>4. CASE k = "awg"
    <3>. DEFINE used == IpsOf({s \in usedFrom[k] : s[1] >= tick - ConcurrentWindow})
    <3>1. tick - ConcurrentWindow \in tick - FullWindow - ConcurrentWindow .. tick
      BY <2>2, AnoNumbers
    <3>2. PICK i \in Ips \union {"none"} : \A o \in observations["awg"] :
              o[1] >= tick - ConcurrentWindow => o[2] = i \/ Known(usedFrom["awg"], o[2], tick - ConcurrentWindow)
      BY <1>1, <3>1 DEF NInv, AwgInv
    <3>3. used \in SUBSET Ips /\ watched \subseteq used \union {i}
      BY <2>2, <2>4, <3>2 DEF IpsOf, Since, Known
    <3>4. UsedSince(k, tick - ConcurrentWindow) = Cardinality(used)
      BY DEF UsedSince
    <3>. HIDE DEF used, watched
    <3>5. Cardinality(used) >= MinUniqueIps - 1
      BY <2>1, <3>3, CountsLess, AnoNumbers
    <3>. QED
      BY <2>3, <2>4, <3>4, <3>5
  <2>5. CASE k = "xray"
    <3>. DEFINE used == IpsOf({s \in usedFrom[k] : s[1] >= tick - ConcurrentWindow - FullWindow})
    <3>1. used \in SUBSET Ips
      BY <2>2 DEF IpsOf
    <3>2. watched \subseteq used
      <4>. SUFFICES ASSUME NEW o \in observations[k], o[1] >= tick - ConcurrentWindow PROVE o[2] \in used
        BY DEF IpsOf, Since
      <4>1. PICK u \in usedFrom[k] : u[1] >= o[1] - FullWindow /\ u[2] = o[2]
        BY <1>1, <2>5 DEF NInv, XrayInv, Known
      <4>2. o[1] \in Nat /\ u[1] \in Nat
        BY <2>1, <2>2 DEF AnoTypeOK, Sample, Ticks
      <4>3. u[1] >= tick - ConcurrentWindow - FullWindow
        BY <2>2, <4>1, <4>2, AnoNumbers
      <4>. QED
        BY <4>1, <4>3 DEF IpsOf
    <3>3. UsedSince(k, tick - ConcurrentWindow - FullWindow) = Cardinality(used)
      BY DEF UsedSince
    <3>. HIDE DEF used, watched
    <3>4. used # {}
      BY <2>1, <3>2, FS_EmptySet, AnoNumbers
    <3>5. Cardinality(used) >= MinUniqueIps
      <4>1. PICK i : i \in used
        BY <3>4
      <4>. QED
        BY <2>1, <3>1, <3>2, <4>1, CountsLess, AnoNumbers
    <3>. QED
      BY <2>3, <2>5, <3>3, <3>5
  <2>. QED
    BY <2>4, <2>5 DEF AnomalyKeys
<1>2. NInv /\ [AnoNext]_anoVars =>
        /\ [\A k \in AnomalyKeys : Fires(k) =>
              IF k = "awg" THEN UsedSince(k, tick - ConcurrentWindow) >= MinUniqueIps - 1
              ELSE UsedSince(k, tick - ConcurrentWindow - FullWindow) >= MinUniqueIps]_anoVars
        /\ [\A k \in AnomalyKeys : Fires(k) /\ lastAlert[k] > 0 =>
              \/ tick - lastAlert[k] >= Cooldown
              \/ tick - lastAlert[k] > FullWindow - ConcurrentWindow]_anoVars
  BY <1>1
<1>. QED
  BY <1>2, InitNInv, NextNInv, PTL DEF AnoSpec, AlertsAreSound, AlertHasEvidence, AlertsAreApart

--------------------------------------------------------------------------------
(* WARP at rest (Warp), for any thresholds of its monitor and any number of   *)
(* crashes.                                                                  *)

\* The steps of the calls, which may follow which, and the last of a call.
StepNames == {"check", "clean", "up", "add", "save", "watch", "enabled", "cancel", "unroute", "down", "stopped",
              "disabled", "install", "config", "remove", "clear"}
Follows ==
    [check |-> {"clean"}, clean |-> {"up"}, up |-> {"add"}, add |-> {"save"}, save |-> {"watch"}, watch |-> {"enabled"},
     enabled |-> {}, cancel |-> {"unroute"}, unroute |-> {"down"}, down |-> {"stopped"},
     stopped |-> {"disabled", "check", "install", "remove"}, disabled |-> {"clear"},
     install |-> {"config"}, config |-> {"check"}, remove |-> {"disabled"}, clear |-> {}]
LastSteps == {"watch", "enabled", "stopped", "disabled", "config", "clear"}

\* What is left of a call; a start ends it, but for the mark that the module is enabled.
IsRest(steps) ==
    /\ steps \in Seq(StepNames) /\ Len(steps) <= 12
    /\ \A i \in 1 .. Len(steps) :
        /\ IF i = Len(steps) THEN steps[i] \in LastSteps ELSE steps[i + 1] \in Follows[steps[i]]
        /\ steps[i] = "check" => Len(steps) \in {i + 5, i + 6}

\* Where the call is: before and after the module runs, and whether it is watched.
Now == IF stepsLeft = <<>> THEN "rest" ELSE stepsLeft[1]
Last == IF stepsLeft = <<>> THEN "rest" ELSE stepsLeft[Len(stepsLeft)]
\* Where a call is says whether the module runs and is watched.
RunsInv ==
    /\ Now # "rest" \/ running => warpUp
    /\ watch # "off" => running
    /\ Now \in {"clean", "up", "add", "install", "config", "remove", "disabled", "clear"} => ~running
    /\ Now \in {"save", "watch", "enabled"} => running
    /\ Now \in {"save", "watch", "unroute", "down", "stopped"} => watch = "off"
    /\ running /\ ~lost /\ watch = "off" => Now \in {"save", "watch", "unroute", "down", "stopped"}
    /\ again => IF Now = "rest" THEN running ELSE Last = "watch"

\* Only a module with a config runs or is enabled.
ConfigInv ==
    /\ enabled \/ running \/ Now \in {"clean", "up", "add"} => config
    /\ Now = "clear" => ~enabled

\* The host, as long as every helper has answered.
Gone == iface = "down" /\ ~routes
\* Where a call is says what the host has.
HostInv ==
    ~tunnelHurt =>
        /\ late = {}
        /\ warpUp /\ ~running /\ Now \notin {"check", "clean", "add"} => Gone
        /\ Now = "check" /\ ~running => config \/ Gone
        /\ Now = "stopped" => Gone
        /\ Now = "add" => iface = "up"
        /\ running /\ Now \notin {"unroute", "down", "stopped"} => iface = "up" /\ (belief <=> routes)
        /\ ~warpUp => enabled \/ Gone

\* A tunnel that is up on its own is down in the row.
RowInv == warpUp /\ ~running /\ ~lost => row = Down

\* The inductive invariant of the WARP routing.
WInv == WarpTypeOK /\ IsRest(stepsLeft) /\ RunsInv /\ ConfigInv /\ HostInv /\ RowInv

\* Two parts of a call, one after the other.
LEMMA RestsJoin ==
    ASSUME NEW s, NEW t, IsRest(s), IsRest(t), Len(s) > 0, Len(t) > 0, Len(s) + Len(t) <= 12,
           t[1] \in Follows[s[Len(s)]],
           \A i \in 1 .. Len(s) : s[i] = "check" => Len(s) + Len(t) \in {i + 5, i + 6}
    PROVE  /\ IsRest(s \o t) /\ Len(s \o t) = Len(s) + Len(t)
           /\ (s \o t)[1] = s[1] /\ (s \o t)[Len(s \o t)] = t[Len(t)]
<1>1. s \in Seq(StepNames) /\ t \in Seq(StepNames) /\ Len(s) \in Nat /\ Len(t) \in Nat
  BY DEF IsRest
<1>2. /\ s \o t \in Seq(StepNames) /\ Len(s \o t) = Len(s) + Len(t)
      /\ \A i \in 1 .. Len(s) + Len(t) : (s \o t)[i] = IF i <= Len(s) THEN s[i] ELSE t[i - Len(s)]
  BY <1>1, ConcatProperties
<1>. DEFINE u == s \o t
<1>. HIDE DEF u
<1>3. /\ u \in Seq(StepNames) /\ Len(u) = Len(s) + Len(t)
      /\ \A i \in 1 .. Len(s) + Len(t) : u[i] = IF i <= Len(s) THEN s[i] ELSE t[i - Len(s)]
  BY <1>2 DEF u
<1>4. ASSUME NEW i \in 1 .. Len(u)
      PROVE  /\ IF i = Len(u) THEN u[i] \in LastSteps ELSE u[i + 1] \in Follows[u[i]]
             /\ u[i] = "check" => Len(u) \in {i + 5, i + 6}
  <2>1. CASE i < Len(s)
    <3>1. i \in 1 .. Len(s) /\ i # Len(u) /\ i # Len(s) /\ u[i] = s[i] /\ u[i + 1] = s[i + 1]
      BY <1>1, <1>3, <2>1
    <3>. QED
      BY <1>3, <3>1 DEF IsRest
  <2>2. CASE i = Len(s)
    <3>1. i # Len(u) /\ u[i] = s[i] /\ u[i + 1] = t[1]
      <4>1. i \in 1 .. Len(s) + Len(t) /\ i + 1 \in 1 .. Len(s) + Len(t) /\ i # Len(u)
        BY <1>1, <1>3, <2>2
      <4>2. u[i] = s[i]
        BY <1>1, <1>3, <2>2, <4>1
      <4>3. u[i + 1] = t[(i + 1) - Len(s)] /\ (i + 1) - Len(s) = 1
        BY <1>1, <1>3, <2>2, <4>1
      <4>. QED
        BY <4>1, <4>2, <4>3
    <3>. QED
      BY <1>1, <1>3, <2>2, <3>1
  <2>3. CASE i > Len(s)
    <3>. DEFINE j == i - Len(s)
    <3>1. j \in 1 .. Len(t) /\ (i = Len(u) <=> j = Len(t)) /\ u[i] = t[j] /\ (i # Len(u) => u[i + 1] = t[j + 1])
      <4>1. i \in Nat /\ j \in 1 .. Len(t) /\ (i = Len(u) <=> j = Len(t))
        BY <1>1, <1>3, <2>3
      <4>2. u[i] = t[j]
        BY <1>1, <1>3, <2>3
      <4>3. i # Len(u) => u[i + 1] = t[(i + 1) - Len(s)] /\ (i + 1) - Len(s) = j + 1
        BY <1>1, <1>3, <2>3
      <4>. QED
        BY <4>1, <4>2, <4>3
    <3>2. /\ IF j = Len(t) THEN t[j] \in LastSteps ELSE t[j + 1] \in Follows[t[j]]
          /\ t[j] = "check" => Len(t) \in {j + 5, j + 6}
      BY <3>1 DEF IsRest
    <3>3. Len(t) \in {j + 5, j + 6} => Len(u) \in {i + 5, i + 6}
      BY <1>1, <1>3, <2>3
    <3>. HIDE DEF j
    <3>. QED
      BY <3>1, <3>2, <3>3
  <2>. QED
    BY <1>1, <1>3, <2>1, <2>2, <2>3
<1>5. u[1] = s[1] /\ u[Len(u)] = t[Len(t)]
  BY <1>1, <1>3
<1>6. IsRest(u)
  BY <1>1, <1>3, <1>4 DEF IsRest
<1>. QED
  BY <1>3, <1>5, <1>6 DEF u

\* A call or a part of one by its length, its first and its last step.
IsPart(steps, n, begin, end) == IsRest(steps) /\ Len(steps) = n /\ steps[1] = begin /\ steps[n] = end
NoCheck(steps) == \A i \in 1 .. Len(steps) : steps[i] # "check"
CheckFits(steps, n) == \A i \in 1 .. Len(steps) : steps[i] = "check" => n \in {i + 5, i + 6}

\* A path followed by a path is a path where they fit.
LEMMA PartsJoin ==
    ASSUME NEW s, NEW t, NEW n \in Nat \ {0}, NEW m \in Nat \ {0}, NEW a, NEW b, NEW c, NEW d,
           IsPart(s, n, a, b), IsPart(t, m, c, d), n + m <= 12, c \in Follows[b],
           NoCheck(s) \/ CheckFits(s, n + m)
    PROVE  IsPart(s \o t, n + m, a, d)
<1>1. Len(s) > 0 /\ Len(t) > 0 /\ Len(s) + Len(t) <= 12 /\ t[1] \in Follows[s[Len(s)]] /\ IsRest(s) /\ IsRest(t)
  BY DEF IsPart
<1>2. \A i \in 1 .. Len(s) : s[i] = "check" => Len(s) + Len(t) \in {i + 5, i + 6}
  BY DEF NoCheck, CheckFits, IsPart
<1>3. IsRest(s \o t) /\ Len(s \o t) = n + m /\ (s \o t)[1] = a /\ (s \o t)[Len(s \o t)] = d
  BY <1>1, <1>2, RestsJoin DEF IsPart
<1>. QED
  BY <1>3 DEF IsPart

\* Two paths without a check have none together.
LEMMA NoCheckJoin ==
    ASSUME NEW s \in Seq(StepNames), NEW t \in Seq(StepNames), NoCheck(s), NoCheck(t)
    PROVE  NoCheck(s \o t)
<1>1. /\ Len(s \o t) = Len(s) + Len(t) /\ Len(s) \in Nat /\ Len(t) \in Nat
      /\ \A i \in 1 .. Len(s) + Len(t) : (s \o t)[i] = IF i <= Len(s) THEN s[i] ELSE t[i - Len(s)]
  BY ConcatProperties
<1>2. SUFFICES ASSUME NEW i \in 1 .. Len(s) + Len(t) PROVE (s \o t)[i] # "check"
  BY <1>1 DEF NoCheck
<1>3. CASE i <= Len(s)
  <2>1. i \in 1 .. Len(s) /\ (s \o t)[i] = s[i]
    BY <1>1, <1>3
  <2>. QED
    BY <2>1 DEF NoCheck
<1>4. CASE i > Len(s)
  <2>1. i - Len(s) \in 1 .. Len(t) /\ (s \o t)[i] = t[i - Len(s)]
    BY <1>1, <1>4
  <2>. QED
    BY <2>1 DEF NoCheck
<1>. QED
  BY <1>1, <1>3, <1>4

\* The steps of each call are what is left of it.
LEMMA CallsAreRests ==
    ASSUME NEW name \in DOMAIN StepsOf
    PROVE  /\ IsRest(StepsOf[name]) /\ StepsOf[name][1] \in {"check", "cancel", "install"} /\ StepsOf[name] # <<>>
           /\ StepsOf[name][1] = "install" => ~running
           /\ name = "install" /\ running => StepsOf[name][Len(StepsOf[name])] = "watch"
<1>. DEFINE upload == <<"install", "config">>
            removal == <<"remove", "disabled", "clear">>
            mark == <<"enabled">>
            unmark == <<"disabled">>
<1>1. IsPart(StartSteps, 6, "check", "watch") /\ CheckFits(StartSteps, 6 + 1)
  BY DEF IsPart, CheckFits, IsRest, Follows, LastSteps, StepNames, StartSteps
<1>2. IsPart(StopSteps, 4, "cancel", "stopped") /\ NoCheck(StopSteps)
  BY DEF IsPart, NoCheck, IsRest, Follows, LastSteps, StepNames, StopSteps
<1>3. IsPart(upload, 2, "install", "config") /\ NoCheck(upload)
  BY DEF IsPart, NoCheck, IsRest, Follows, LastSteps, StepNames
<1>4. IsPart(removal, 3, "remove", "clear")
  BY DEF IsPart, IsRest, Follows, LastSteps, StepNames
<1>5. IsPart(mark, 1, "enabled", "enabled") /\ IsPart(unmark, 1, "disabled", "disabled")
  BY DEF IsPart, IsRest, Follows, LastSteps, StepNames
<1>6. /\ "enabled" \in Follows["watch"] /\ "disabled" \in Follows["stopped"] /\ "check" \in Follows["stopped"]
      /\ "remove" \in Follows["stopped"] /\ "install" \in Follows["stopped"] /\ "check" \in Follows["config"]
  BY DEF Follows
<1>7. /\ StepsOf["start"] = StartSteps /\ StepsOf["stop"] = StopSteps
      /\ StepsOf["enable"] = StartSteps \o mark /\ StepsOf["disable"] = StopSteps \o unmark
      /\ StepsOf["restart"] = StopSteps \o StartSteps /\ StepsOf["delete"] = StopSteps \o removal
      /\ running => StepsOf["install"] = (StopSteps \o upload) \o StartSteps
      /\ ~running => StepsOf["install"] = (<<>> \o upload) \o <<>>
      /\ name \in {"start", "stop", "enable", "disable", "restart", "install", "delete"}
  BY DEF StepsOf, IfRunning
<1>. HIDE DEF upload, removal, mark, unmark
<1>8. IsPart(StartSteps \o mark, 6 + 1, "check", "enabled")
  BY <1>1, <1>5, <1>6, PartsJoin
<1>9. IsPart(StopSteps \o unmark, 4 + 1, "cancel", "disabled")
  BY <1>2, <1>5, <1>6, PartsJoin
<1>10. IsPart(StopSteps \o StartSteps, 4 + 6, "cancel", "watch")
  BY <1>1, <1>2, <1>6, PartsJoin
<1>11. IsPart(StopSteps \o removal, 4 + 3, "cancel", "clear")
  BY <1>2, <1>4, <1>6, PartsJoin
<1>12. IsPart(StopSteps \o upload, 4 + 2, "cancel", "config") /\ NoCheck(StopSteps \o upload)
  <2>1. IsPart(StopSteps \o upload, 4 + 2, "cancel", "config")
    BY <1>2, <1>3, <1>6, PartsJoin
  <2>. QED
    BY <1>2, <1>3, <2>1, NoCheckJoin DEF IsPart, IsRest
<1>13. IsPart((StopSteps \o upload) \o StartSteps, 6 + 6, "cancel", "watch")
  <2>. DEFINE stopped == StopSteps \o upload
  <2>1. IsPart(stopped, 6, "cancel", "config") /\ NoCheck(stopped)
    BY <1>12
  <2>. HIDE DEF stopped
  <2>2. IsPart(stopped \o StartSteps, 6 + 6, "cancel", "watch")
    BY <1>1, <1>6, <2>1, PartsJoin
  <2>. QED
    BY <2>2 DEF stopped
<1>14. IsPart((<<>> \o upload) \o <<>>, 2, "install", "config")
  <2>1. upload \in Seq(StepNames)
    BY <1>3 DEF IsPart, IsRest
  <2>2. <<>> \o upload = upload /\ upload \o <<>> = upload
    BY <2>1, ConcatEmptySeq
  <2>. QED
    BY <1>3, <2>2
<1>. DEFINE steps == StepsOf[name]
            Is(n, begin, end) == IsPart(steps, n, begin, end)
<1>. HIDE DEF steps
<1>. SUFFICES /\ IsRest(steps) /\ steps[1] \in {"check", "cancel", "install"} /\ steps # <<>>
              /\ steps[1] = "install" => ~running
              /\ name = "install" /\ running => steps[Len(steps)] = "watch"
  BY DEF steps
<1>15. CASE name = "start"
  <2>1. Is(6, "check", "watch")
    BY <1>7, <1>1, <1>15 DEF steps
  <2>. QED
    BY <1>15, <2>1 DEF IsPart
<1>16. CASE name = "stop"
  <2>1. Is(4, "cancel", "stopped")
    BY <1>7, <1>2, <1>16 DEF steps
  <2>. QED
    BY <1>16, <2>1 DEF IsPart
<1>17. CASE name = "enable"
  <2>1. Is(6 + 1, "check", "enabled")
    BY <1>7, <1>8, <1>17 DEF steps
  <2>. QED
    BY <1>17, <2>1 DEF IsPart
<1>18. CASE name = "disable"
  <2>1. Is(4 + 1, "cancel", "disabled")
    BY <1>7, <1>9, <1>18 DEF steps
  <2>. QED
    BY <1>18, <2>1 DEF IsPart
<1>19. CASE name = "restart"
  <2>1. Is(4 + 6, "cancel", "watch")
    BY <1>7, <1>10, <1>19 DEF steps
  <2>. QED
    BY <1>19, <2>1 DEF IsPart
<1>20. CASE name = "delete"
  <2>1. Is(4 + 3, "cancel", "clear")
    BY <1>7, <1>11, <1>20 DEF steps
  <2>. QED
    BY <1>20, <2>1 DEF IsPart
<1>21. CASE name = "install" /\ running
  <2>1. Is(6 + 6, "cancel", "watch")
    BY <1>7, <1>13, <1>21 DEF steps
  <2>. QED
    BY <1>21, <2>1 DEF IsPart
<1>22. CASE name = "install" /\ ~running
  <2>1. Is(2, "install", "config")
    BY <1>7, <1>14, <1>22 DEF steps
  <2>. QED
    BY <1>22, <2>1 DEF IsPart
<1>. QED
  BY <1>7, <1>15, <1>16, <1>17, <1>18, <1>19, <1>20, <1>21, <1>22 DEF steps

\* What is left after a step.
LEMMA TailOfRest ==
    ASSUME NEW s, IsRest(s), s # <<>>
    PROVE  /\ IsRest(Tail(s)) /\ s[1] \in StepNames
           /\ Tail(s) = <<>> => s[1] \in LastSteps /\ s[Len(s)] = s[1]
           /\ Tail(s) # <<>> => Tail(s)[1] \in Follows[s[1]] /\ Tail(s)[Len(Tail(s))] = s[Len(s)]
<1>. DEFINE t == Tail(s)
            n == Len(s)
<1>1. /\ s \in Seq(StepNames) /\ t \in Seq(StepNames) /\ n \in Nat /\ n > 0 /\ n <= 12 /\ Len(t) = n - 1
      /\ \A i \in 1 .. n - 1 : t[i] = s[i + 1]
  BY DEF IsRest
<1>2. s[1] \in StepNames
  BY <1>1
<1>3. \A i \in 1 .. n : IF i = n THEN s[i] \in LastSteps ELSE s[i + 1] \in Follows[s[i]]
  BY DEF IsRest
<1>4. \A i \in 1 .. n : s[i] = "check" => n \in {i + 5, i + 6}
  BY DEF IsRest
<1>. HIDE DEF t, n
<1>5. ASSUME NEW i \in 1 .. n - 1
      PROVE  /\ IF i = n - 1 THEN t[i] \in LastSteps ELSE t[i + 1] \in Follows[t[i]]
             /\ t[i] = "check" => n - 1 \in {i + 5, i + 6}
  <2>1. i + 1 \in 1 .. n /\ t[i] = s[i + 1] /\ (i = n - 1 <=> i + 1 = n)
    BY <1>1
  <2>2. i # n - 1 => i + 1 \in 1 .. n - 1
    BY <1>1
  <2>3. IF i + 1 = n THEN s[i + 1] \in LastSteps ELSE s[i + 1 + 1] \in Follows[s[i + 1]]
    BY <1>3, <2>1
  <2>4. i # n - 1 => t[i + 1] = s[i + 1 + 1]
    BY <1>1, <2>2
  <2>5. s[i + 1] = "check" => n \in {i + 1 + 5, i + 1 + 6}
    BY <1>4, <2>1
  <2>6. n \in {i + 1 + 5, i + 1 + 6} => n - 1 \in {i + 5, i + 6}
    BY <1>1
  <2>. QED
    BY <2>1, <2>3, <2>4, <2>5, <2>6
<1>6. IsRest(t)
  <2>1. Len(t) <= 12
    BY <1>1
  <2>. QED
    BY <1>1, <1>5, <2>1 DEF IsRest
<1>7. t = <<>> => n = 1
  BY <1>1, EmptySeq
<1>8. t # <<>> => n - 1 > 0
  BY <1>1, EmptySeq
<1>9. t = <<>> => s[1] \in LastSteps /\ s[n] = s[1]
  BY <1>3, <1>7
<1>10. t # <<>> => t[1] \in Follows[s[1]] /\ t[n - 1] = s[n]
  <2>. SUFFICES ASSUME t # <<>> PROVE t[1] \in Follows[s[1]] /\ t[n - 1] = s[n]
    OBVIOUS
  <2>1. 1 \in 1 .. n /\ 1 # n /\ 1 \in 1 .. n - 1 /\ n - 1 \in 1 .. n - 1 /\ (n - 1) + 1 = n
    BY <1>1, <1>8
  <2>2. t[1] = s[1 + 1] /\ t[n - 1] = s[(n - 1) + 1]
    BY <1>1, <2>1
  <2>3. s[1 + 1] \in Follows[s[1]]
    BY <1>3, <2>1
  <2>. QED
    BY <2>1, <2>2, <2>3
<1>. QED
  BY <1>1, <1>2, <1>6, <1>9, <1>10 DEF t, n

\* The next step of a call follows on the one it comes after.
LEMMA NextOfRest ==
    ASSUME IsRest(stepsLeft), stepsLeft # <<>>, Go
    PROVE  /\ IsRest(stepsLeft)' /\ again' = again /\ Now \in StepNames
           /\ IF stepsLeft' = <<>> THEN Now' = "rest" /\ Now \in LastSteps /\ Last = Now
              ELSE Now' \in Follows[Now] /\ Last' = Last
<1>1. stepsLeft' = Tail(stepsLeft) /\ again' = again
  BY DEF Go
<1>2. IsRest(stepsLeft)'
  <2>1. IsRest(Tail(stepsLeft))
    BY TailOfRest
  <2>. QED
    BY <1>1, <2>1 DEF IsRest
<1>3. Now = stepsLeft[1] /\ Last = stepsLeft[Len(stepsLeft)]
  BY DEF Now, Last
<1>4. CASE stepsLeft' = <<>>
  <2>1. stepsLeft[1] \in LastSteps /\ stepsLeft[Len(stepsLeft)] = stepsLeft[1] /\ stepsLeft[1] \in StepNames
    BY <1>1, <1>4, TailOfRest
  <2>2. Now' = "rest"
    BY <1>4 DEF Now
  <2>. QED
    BY <1>1, <1>2, <1>3, <1>4, <2>1, <2>2
<1>5. CASE stepsLeft' # <<>>
  <2>1. stepsLeft'[1] \in Follows[stepsLeft[1]] /\ stepsLeft'[Len(stepsLeft')] = stepsLeft[Len(stepsLeft)]
        /\ stepsLeft[1] \in StepNames
    BY <1>1, <1>5, TailOfRest
  <2>2. Now' = stepsLeft'[1] /\ Last' = stepsLeft'[Len(stepsLeft')]
    BY <1>5 DEF Now, Last
  <2>. QED
    BY <1>1, <1>2, <1>3, <1>5, <2>1, <2>2
<1>. QED
  BY <1>4, <1>5

\* A start of a module that runs leaves at most the mark.
LEMMA SkipOfRest ==
    ASSUME NEW s, IsRest(s), s # <<>>, s[1] = "check"
    PROVE  \/ SubSeq(s, 7, Len(s)) = <<>>
           \/ SubSeq(s, 7, Len(s)) = <<"enabled">> /\ s[Len(s)] = "enabled"
<1>1. s \in Seq(StepNames) /\ Len(s) \in Nat /\ Len(s) > 0
  BY DEF IsRest
<1>2. Len(s) \in {6, 7}
  <2>1. 1 \in 1 .. Len(s)
    BY <1>1
  <2>2. \A i \in 1 .. Len(s) : s[i] = "check" => Len(s) \in {i + 5, i + 6}
    BY DEF IsRest
  <2>3. Len(s) \in {1 + 5, 1 + 6}
    BY <2>1, <2>2
  <2>. QED
    BY <2>3
<1>3. CASE Len(s) = 6
  BY <1>1, <1>3
<1>4. CASE Len(s) = 7
  <2>1. \A i \in 1 .. 6 : s[i + 1] \in Follows[s[i]]
    BY <1>4 DEF IsRest
  <2>2. s[1 + 1] = "clean"
    BY <2>1 DEF Follows
  <2>3. s[2 + 1] = "up"
    BY <2>1, <2>2 DEF Follows
  <2>4. s[3 + 1] = "add"
    BY <2>1, <2>3 DEF Follows
  <2>5. s[4 + 1] = "save"
    BY <2>1, <2>4 DEF Follows
  <2>6. s[5 + 1] = "watch"
    BY <2>1, <2>5 DEF Follows
  <2>7. s[6 + 1] = "enabled"
    BY <2>1, <2>6 DEF Follows
  <2>. DEFINE t == SubSeq(s, 7, Len(s))
  <2>8. t \in Seq(StepNames) /\ Len(t) = 1 /\ t[1] = s[7]
    <3>1. 7 \in Int /\ Len(s) \in Int /\ 7 <= Len(s) /\ \A i \in 7 .. Len(s) : s[i] \in StepNames
      BY <1>1, <1>4
    <3>. HIDE DEF t
    <3>2. t \in Seq(StepNames) /\ Len(t) = Len(s) - 7 + 1 /\ \A i \in 1 .. Len(s) - 7 + 1 : t[i] = s[7 + i - 1]
      BY <3>1, SubSeqProperties DEF t
    <3>3. Len(s) - 7 + 1 = 1 /\ 1 \in 1 .. Len(s) - 7 + 1 /\ 7 + 1 - 1 = 7
      BY <1>4
    <3>4. t[1] = s[7 + 1 - 1]
      BY <3>2, <3>3
    <3>. QED
      BY <3>2, <3>3, <3>4
  <2>9. <<"enabled">> \in Seq(StepNames) /\ Len(<<"enabled">>) = 1 /\ <<"enabled">>[1] = "enabled"
    BY DEF StepNames
  <2>. HIDE DEF t
  <2>10. t = <<"enabled">>
    BY <2>7, <2>8, <2>9, SeqEqual
  <2>. QED
    BY <1>4, <2>7, <2>10 DEF t
<1>. QED
  BY <1>2, <1>3, <1>4

\* A start from its first step, and the end of a call.
LEMMA RestOfStart ==
    ASSUME stepsLeft' = StartSteps PROVE IsRest(stepsLeft)' /\ Now' = "check" /\ Last' = "watch"
<1>1. IsRest(StartSteps) /\ StartSteps # <<>> /\ StartSteps[1] = "check" /\ StartSteps[Len(StartSteps)] = "watch"
  <2>1. IsRest(StartSteps)
    BY DEF StartSteps, IsRest, Follows, LastSteps, StepNames
  <2>2. StartSteps # <<>> /\ StartSteps[1] = "check" /\ Len(StartSteps) = 6 /\ StartSteps[6] = "watch"
    BY DEF StartSteps
  <2>. QED
    BY <2>1, <2>2
<1>2. IsRest(stepsLeft)'
  BY <1>1 DEF IsRest
<1>3. Now' = "check" /\ Last' = "watch"
  BY <1>1 DEF Now, Last
<1>. QED
  BY <1>2, <1>3
\* A call that has nothing left is at rest.
LEMMA RestOfNothing == ASSUME stepsLeft' = <<>> PROVE IsRest(stepsLeft)' /\ Now' = "rest"
<1>1. IsRest(<<>>)
  BY DEF IsRest
<1>. QED
  BY <1>1 DEF IsRest, Now
\* A step that is taken is the first of those left.
LEMMA NowIsHere == ASSUME NEW taken, AtStep(taken), IsRest(stepsLeft) PROVE Now = taken /\ stepsLeft # <<>>
  BY DEF AtStep, Now, IsRest
\* A step of somebody else leaves what is left as it is.
LEMMA NowStays == ASSUME stepsLeft' = stepsLeft PROVE Now' = Now /\ Last' = Last /\ IsRest(stepsLeft)' = IsRest(stepsLeft)
  BY DEF Now, Last, IsRest

\* What a step of a call leaves of it.
LEMMA StepsStep ==
    ASSUME IsRest(stepsLeft)
    PROVE  /\ \A taken \in StepNames : AtStep(taken) /\ Go =>
                /\ IsRest(stepsLeft)' /\ Now = taken /\ again' = again
                /\ IF Now' = "rest" THEN taken \in LastSteps /\ Last = taken ELSE Now' \in Follows[taken] /\ Last' = Last
           /\ Raise => IsRest(stepsLeft)' /\ Now' = "rest" /\ again' = FALSE
<1>1. ASSUME NEW taken \in StepNames, AtStep(taken), Go
      PROVE  /\ IsRest(stepsLeft)' /\ Now = taken /\ again' = again
             /\ IF Now' = "rest" THEN taken \in LastSteps /\ Last = taken ELSE Now' \in Follows[taken] /\ Last' = Last
  <2>1. Now = taken /\ stepsLeft # <<>>
    BY <1>1, NowIsHere
  <2>2. /\ IsRest(stepsLeft)' /\ again' = again
        /\ IF stepsLeft' = <<>> THEN Now' = "rest" /\ Now \in LastSteps /\ Last = Now
           ELSE Now' \in Follows[Now] /\ Last' = Last
    BY <1>1, <2>1, NextOfRest
  <2>3. "rest" \notin Follows[taken]
    BY <1>1 DEF Follows, StepNames
  <2>. QED
    BY <2>1, <2>2, <2>3
<1>2. Raise => IsRest(stepsLeft)' /\ Now' = "rest" /\ again' = FALSE
  BY RestOfNothing DEF Raise
<1>. QED
  BY <1>1, <1>2

\* What a call, a crash and the monitor need of each other.
Control == RunsInv /\ ConfigInv /\ HostInv /\ RowInv

\* The steps of a start.
LEMMA StartStep ==
    ASSUME WInv, CheckSetup \/ Clean \/ BringUp \/ AddRoutes \/ Save \/ StartMonitor
    PROVE  IsRest(stepsLeft)' /\ Control'
<1>. USE DEF Control, RunsInv, ConfigInv, HostInv, RowInv, Gone
<1>1. IsRest(stepsLeft) /\ Control /\ WarpTypeOK
  BY DEF WInv
<1>2. CASE CheckSetup
  <2>1. Now = "check" /\ stepsLeft # <<>> /\ stepsLeft[1] = "check"
    BY <1>1, <1>2, NowIsHere DEF CheckSetup, Now
  <2>2. UNCHANGED <<running, watch, belief, enabled, config, row, iface, routes, late, warpUp, tunnelHurt, lost>>
    BY <1>2 DEF CheckSetup, monitor, warpDb, host, warpProcess
  <2>3. CASE ~running /\ config /\ Go
    <3>1. IsRest(stepsLeft)' /\ again' = again /\ Now' = "clean" /\ Last' = Last
      BY <1>1, <1>2, <2>3, StepsStep DEF CheckSetup, StepNames, Follows, LastSteps
    <3>. QED
      BY <1>1, <2>1, <2>2, <2>3, <3>1
  <2>4. CASE ~running /\ ~config /\ Raise
    <3>1. IsRest(stepsLeft)' /\ again' = FALSE /\ Now' = "rest"
      BY <1>1, <2>4, StepsStep
    <3>. QED
      BY <1>1, <2>1, <2>2, <2>4, <3>1
  <2>5. CASE running /\ stepsLeft' = SubSeq(stepsLeft, Len(StartSteps) + 1, Len(stepsLeft)) /\ UNCHANGED again
    <3>1. stepsLeft' = SubSeq(stepsLeft, 7, Len(stepsLeft))
      BY <2>5 DEF StartSteps
    <3>2. \/ stepsLeft' = <<>>
          \/ stepsLeft' = <<"enabled">> /\ Last = "enabled"
      BY <1>1, <2>1, <3>1, SkipOfRest DEF Last
    <3>3. IsRest(stepsLeft)'
      <4>1. IsRest(<<>>) /\ IsRest(<<"enabled">>)
        BY DEF IsRest, Follows, LastSteps, StepNames
      <4>. QED
        BY <3>2, <4>1 DEF IsRest
    <3>4. Now' = "rest" \/ (Now' = "enabled" /\ Last = "enabled")
      BY <3>2 DEF Now
    <3>. QED
      BY <1>1, <2>1, <2>2, <2>5, <3>3, <3>4
  <2>. QED
    BY <1>2, <2>3, <2>4, <2>5 DEF CheckSetup
<1>3. CASE Clean
  <2>1. Now = "clean" /\ IsRest(stepsLeft)' /\ again' = again /\ Now' = "up" /\ Last' = Last
    BY <1>1, <1>3, StepsStep DEF Clean, StepNames, Follows, LastSteps
  <2>. QED
    BY <1>1, <1>3, <2>1 DEF Clean, monitor, warpDb, host, warpProcess
<1>4. CASE BringUp
  <2>1. AtStep("up") /\ Now = "up"
    BY <1>1, <1>4, NowIsHere DEF BringUp
  <2>2. CASE Go /\ iface = "down" /\ iface' = "up" /\ UNCHANGED tunnelHurt
    <3>1. IsRest(stepsLeft)' /\ again' = again /\ Now' = "add" /\ Last' = Last
      BY <1>1, <2>1, <2>2, StepsStep DEF StepNames, Follows, LastSteps
    <3>. QED
      BY <1>1, <1>4, <2>1, <2>2, <3>1 DEF BringUp, monitor, warpDb, host, warpProcess
  <2>3. CASE Raise /\ (UNCHANGED <<iface, tunnelHurt>> \/ tunnelHurt' = TRUE)
    <3>1. IsRest(stepsLeft)' /\ again' = FALSE /\ Now' = "rest"
      BY <1>1, <2>3, StepsStep
    <3>. QED
      BY <1>1, <1>4, <2>1, <2>3, <3>1 DEF BringUp, monitor, warpDb, host, warpProcess
  <2>. QED
    BY <1>4, <2>2, <2>3 DEF BringUp
<1>5. CASE AddRoutes
  <2>1. Now = "add" /\ IsRest(stepsLeft)' /\ again' = again /\ Now' = "save" /\ Last' = Last
    BY <1>1, <1>5, StepsStep DEF AddRoutes, StepNames, Follows, LastSteps
  <2>. QED
    BY <1>1, <1>5, <2>1 DEF AddRoutes, Route, monitor, warpDb, host, warpProcess
<1>6. CASE Save
  <2>1. AtStep("save") /\ Now = "save"
    BY <1>1, <1>6, NowIsHere DEF Save
  <2>2. CASE Go /\ UNCHANGED lost
    <3>1. IsRest(stepsLeft)' /\ again' = again /\ Now' = "watch" /\ Last' = Last
      BY <1>1, <2>1, <2>2, StepsStep DEF StepNames, Follows, LastSteps
    <3>. QED
      BY <1>1, <1>6, <2>1, <2>2, <3>1 DEF Save, monitor, warpDb, host, warpProcess
  <2>3. CASE RowWriteRaised
    <3>1. IsRest(stepsLeft)' /\ again' = FALSE /\ Now' = "rest" /\ lost'
      BY <1>1, <2>3, StepsStep DEF RowWriteRaised
    <3>. QED
      BY <1>1, <1>6, <2>1, <3>1 DEF Save, monitor, warpDb, host, warpProcess
  <2>. QED
    BY <1>6, <2>2, <2>3 DEF Save
<1>7. CASE StartMonitor
  <2>1. /\ Now = "watch" /\ IsRest(stepsLeft)' /\ again' = again /\ Now' \in {"rest", "enabled"}
        /\ Now' = "enabled" => Last' = Last
    BY <1>1, <1>7, StepsStep DEF StartMonitor, StepNames, Follows, LastSteps
  <2>. QED
    BY <1>1, <1>7, <2>1 DEF StartMonitor, monitor, warpDb, host, warpProcess
<1>. QED
  BY <1>2, <1>3, <1>4, <1>5, <1>6, <1>7

\* The steps of a stop.
LEMMA StopStep ==
    ASSUME WInv, CancelMonitor \/ Unroute \/ TakeDown \/ Stopped
    PROVE  IsRest(stepsLeft)' /\ Control'
<1>. USE DEF Control, RunsInv, ConfigInv, HostInv, RowInv, Gone
<1>1. IsRest(stepsLeft) /\ Control /\ WarpTypeOK
  BY DEF WInv
<1>2. CASE CancelMonitor
  <2>1. Now = "cancel" /\ IsRest(stepsLeft)' /\ again' = again /\ Now' = "unroute" /\ Last' = Last
    BY <1>1, <1>2, StepsStep DEF CancelMonitor, StepNames, Follows, LastSteps
  <2>2. UNCHANGED <<running, enabled, config, iface, routes, warpUp, lost>> /\ watch' = "off"
    BY <1>2 DEF CancelMonitor, warpProcess
  <2>3. watch = "off" => row' = row
    BY <1>2 DEF CancelMonitor
  <2>4. ~tunnelHurt' => ~tunnelHurt /\ late' = late
    BY <1>2 DEF CancelMonitor
  <2>. QED
    BY <1>1, <2>1, <2>2, <2>3, <2>4
<1>3. CASE Unroute
  <2>1. Now = "unroute" /\ IsRest(stepsLeft)' /\ again' = again /\ Now' = "down" /\ Last' = Last
    BY <1>1, <1>3, StepsStep DEF Unroute, StepNames, Follows, LastSteps
  <2>. QED
    BY <1>1, <1>3, <2>1 DEF Unroute, Route, monitor, warpDb, host, warpProcess
<1>4. CASE TakeDown
  <2>1. Now = "down" /\ IsRest(stepsLeft)' /\ again' = again /\ Now' = "stopped" /\ Last' = Last
    BY <1>1, <1>4, StepsStep DEF TakeDown, StepNames, Follows, LastSteps
  <2>. QED
    BY <1>1, <1>4, <2>1 DEF TakeDown, monitor, warpDb, host, warpProcess
<1>5. CASE Stopped
  <2>1. AtStep("stopped") /\ Now = "stopped" /\ running' = FALSE
    BY <1>1, <1>5, NowIsHere DEF Stopped
  <2>2. CASE Go /\ row' = Down /\ UNCHANGED lost
    <3>1. /\ IsRest(stepsLeft)' /\ again' = again /\ Now' \in {"rest", "disabled", "check", "install", "remove"}
          /\ Now' # "rest" => Last' = Last
          /\ Now' = "rest" => Last = "stopped"
      BY <1>1, <2>1, <2>2, StepsStep DEF StepNames, Follows, LastSteps
    <3>. QED
      BY <1>1, <1>5, <2>1, <2>2, <3>1 DEF Stopped, monitor, warpDb, host, warpProcess
  <2>3. CASE RowWriteRaised
    <3>1. IsRest(stepsLeft)' /\ again' = FALSE /\ Now' = "rest" /\ lost'
      BY <1>1, <2>3, StepsStep DEF RowWriteRaised
    <3>. QED
      BY <1>1, <1>5, <2>1, <3>1 DEF Stopped, monitor, warpDb, host, warpProcess
  <2>. QED
    BY <1>5, <2>2, <2>3 DEF Stopped
<1>. QED
  BY <1>2, <1>3, <1>4, <1>5

\* The rest of the calls.
LEMMA OtherStep ==
    ASSUME WInv, SetEnabled \/ Install \/ SetConfig \/ RemoveFiles \/ \E name \in DOMAIN StepsOf : AskWarp(name)
    PROVE  IsRest(stepsLeft)' /\ Control'
<1>. USE DEF Control, RunsInv, ConfigInv, HostInv, RowInv, Gone
<1>1. IsRest(stepsLeft) /\ Control /\ WarpTypeOK
  BY DEF WInv
<1>2. CASE SetEnabled
  <2>0. UNCHANGED <<running, watch, belief, config, row, iface, routes, late, warpUp, tunnelHurt>>
    BY <1>2 DEF SetEnabled, monitor, host, warpProcess
  <2>1. CASE RowWriteRaised /\ UNCHANGED enabled
    <3>1. IsRest(stepsLeft)' /\ again' = FALSE /\ Now' = "rest" /\ lost' /\ Now \in {"enabled", "disabled"}
      BY <1>1, <1>2, <2>1, StepsStep, NowIsHere DEF RowWriteRaised, SetEnabled
    <3>. QED
      BY <1>1, <2>0, <2>1, <3>1
  <2>2. CASE AtStep("enabled") /\ Go /\ enabled' = TRUE /\ UNCHANGED lost
    <3>1. IsRest(stepsLeft)' /\ again' = again /\ Now = "enabled" /\ Now' = "rest" /\ Last = "enabled"
      BY <1>1, <2>2, StepsStep DEF StepNames, Follows, LastSteps
    <3>. QED
      BY <1>1, <2>0, <2>2, <3>1
  <2>3. CASE AtStep("disabled") /\ Go /\ enabled' = FALSE /\ UNCHANGED lost
    <3>1. /\ IsRest(stepsLeft)' /\ again' = again /\ Now = "disabled" /\ Now' \in {"rest", "clear"}
          /\ IF Now' = "rest" THEN Last = "disabled" ELSE Last' = Last
      BY <1>1, <2>3, StepsStep DEF StepNames, Follows, LastSteps
    <3>. QED
      BY <1>1, <2>0, <2>3, <3>1
  <2>4. CASE Go /\ enabled' = AtStep("enabled") /\ UNCHANGED lost
    <3>1. AtStep("enabled") \in BOOLEAN
      BY DEF AtStep
    <3>2. AtStep("enabled") \/ AtStep("disabled")
      BY <1>2 DEF SetEnabled
    <3>3. CASE AtStep("enabled")
      <4>1. enabled' = TRUE
        BY ONLY <2>4, <3>1, <3>3
      <4>. QED
        BY <2>2, <2>4, <3>3, <4>1
    <3>4. CASE AtStep("disabled") /\ ~AtStep("enabled")
      <4>1. enabled' = FALSE
        BY ONLY <2>4, <3>1, <3>4
      <4>. QED
        BY <2>3, <2>4, <3>4, <4>1
    <3>. QED
      BY <3>2, <3>3, <3>4
  <2>5. (RowWriteRaised /\ UNCHANGED enabled) \/ (Go /\ enabled' = AtStep("enabled") /\ UNCHANGED lost)
    BY <1>2 DEF SetEnabled
  <2>. QED
    BY ONLY <2>1, <2>4, <2>5, Zenon
<1>3. CASE Install
  <2>0. UNCHANGED <<running, watch, belief, enabled, config, row, iface, routes, late, warpUp, tunnelHurt>>
    BY <1>3 DEF Install, monitor, warpDb, host, warpProcess
  <2>1. AtStep("install") /\ Now = "install"
    BY <1>1, <1>3, NowIsHere DEF Install
  <2>2. CASE Go /\ UNCHANGED lost
    <3>1. IsRest(stepsLeft)' /\ again' = again /\ Now' = "config" /\ Last' = Last
      BY <1>1, <2>1, <2>2, StepsStep DEF StepNames, Follows, LastSteps
    <3>. QED
      BY <1>1, <2>0, <2>1, <2>2, <3>1
  <2>3. CASE stepsLeft' = (IF again THEN StartSteps ELSE <<>>) /\ UNCHANGED <<again, lost>>
    <3>1. IsRest(stepsLeft)' /\ IF again THEN Now' = "check" /\ Last' = "watch" ELSE Now' = "rest"
      BY <2>3, RestOfStart, RestOfNothing
    <3>. QED
      BY <1>1, <2>0, <2>1, <2>3, <3>1
  <2>4. CASE RowWriteRaised
    <3>1. IsRest(stepsLeft)' /\ again' = FALSE /\ Now' = "rest" /\ lost'
      BY <1>1, <2>4, StepsStep DEF RowWriteRaised
    <3>. QED
      BY <1>1, <2>0, <2>1, <3>1
  <2>. QED
    BY <1>3, <2>2, <2>3, <2>4 DEF Install
<1>4. CASE SetConfig
  <2>0. UNCHANGED <<running, watch, belief, enabled, row, iface, routes, late, warpUp, tunnelHurt>>
    BY <1>4 DEF SetConfig, monitor, host, warpProcess
  <2>1. CASE RowWriteRaised /\ UNCHANGED config
    <3>1. IsRest(stepsLeft)' /\ again' = FALSE /\ Now' = "rest" /\ lost' /\ Now \in {"config", "clear"}
      BY <1>1, <1>4, <2>1, StepsStep, NowIsHere DEF RowWriteRaised, SetConfig
    <3>. QED
      BY <1>1, <2>0, <2>1, <3>1
  <2>2. CASE AtStep("config") /\ Go /\ config' = TRUE /\ UNCHANGED lost
    <3>1. /\ IsRest(stepsLeft)' /\ again' = again /\ Now = "config" /\ Now' \in {"rest", "check"}
          /\ IF Now' = "rest" THEN Last = "config" ELSE Last' = Last
      BY <1>1, <2>2, StepsStep DEF StepNames, Follows, LastSteps
    <3>. QED
      BY <1>1, <2>0, <2>2, <3>1
  <2>3. CASE AtStep("clear") /\ Go /\ config' = FALSE /\ UNCHANGED lost
    <3>1. IsRest(stepsLeft)' /\ again' = again /\ Now = "clear" /\ Now' = "rest" /\ Last = "clear"
      BY <1>1, <2>3, StepsStep DEF StepNames, Follows, LastSteps
    <3>. QED
      BY <1>1, <2>0, <2>3, <3>1
  <2>4. CASE Go /\ config' = AtStep("config") /\ UNCHANGED lost
    <3>1. AtStep("config") \in BOOLEAN
      BY DEF AtStep
    <3>2. AtStep("config") \/ AtStep("clear")
      BY <1>4 DEF SetConfig
    <3>3. CASE AtStep("config")
      <4>1. config' = TRUE
        BY ONLY <2>4, <3>1, <3>3
      <4>. QED
        BY <2>2, <2>4, <3>3, <4>1
    <3>4. CASE AtStep("clear") /\ ~AtStep("config")
      <4>1. config' = FALSE
        BY ONLY <2>4, <3>1, <3>4
      <4>. QED
        BY <2>3, <2>4, <3>4, <4>1
    <3>. QED
      BY <3>2, <3>3, <3>4
  <2>5. (RowWriteRaised /\ UNCHANGED config) \/ (Go /\ config' = AtStep("config") /\ UNCHANGED lost)
    BY <1>4 DEF SetConfig
  <2>. QED
    BY ONLY <2>1, <2>4, <2>5, Zenon
<1>5. CASE RemoveFiles
  <2>0. UNCHANGED <<running, watch, belief, enabled, config, row, iface, routes, late, warpUp, tunnelHurt, lost>>
    BY <1>5 DEF RemoveFiles, monitor, warpDb, host, warpProcess
  <2>1. AtStep("remove") /\ Now = "remove"
    BY <1>1, <1>5, NowIsHere DEF RemoveFiles
  <2>2. \/ IsRest(stepsLeft)' /\ again' = again /\ Now' = "disabled" /\ Last' = Last
        \/ IsRest(stepsLeft)' /\ again' = FALSE /\ Now' = "rest"
    BY <1>1, <1>5, <2>1, StepsStep DEF RemoveFiles, StepNames, Follows, LastSteps
  <2>. QED
    BY <1>1, <2>0, <2>1, <2>2
<1>6. CASE \E name \in DOMAIN StepsOf : AskWarp(name)
  <2>1. PICK name \in DOMAIN StepsOf : AskWarp(name)
    BY <1>6
  <2>2. /\ UNCHANGED <<running, watch, belief, enabled, config, row, iface, routes, late, warpUp, tunnelHurt, lost>>
        /\ warpUp /\ Now = "rest" /\ stepsLeft' = StepsOf[name] /\ again' = (name = "install" /\ running)
    BY <2>1 DEF AskWarp, Now, monitor, warpDb, host, warpProcess
  <2>3. IsRest(stepsLeft)'
    BY <2>2, CallsAreRests DEF IsRest
  <2>4. Now' \in {"check", "cancel", "install"} /\ (Now' = "install" => ~running) /\ (again' => Last' = "watch")
    BY <2>2, CallsAreRests DEF Now, Last
  <2>. QED
    BY <1>1, <2>2, <2>3, <2>4
<1>. QED
  BY <1>2, <1>3, <1>4, <1>5, <1>6

\* The monitor, the host, a crash and a start of the process.
LEMMA BesideStep ==
    ASSUME WInv, Monitor \/ (\E op \in late : Land(op)) \/ TunnelChanges \/ WarpCrash \/ Boot \/ UNCHANGED warpVars
    PROVE  IsRest(stepsLeft)' /\ Control'
<1>. USE DEF Control, RunsInv, ConfigInv, HostInv, RowInv, Gone
<1>1. IsRest(stepsLeft) /\ Control /\ WarpTypeOK
  BY DEF WInv
<1>2. CASE Monitor \/ (\E op \in late : Land(op)) \/ TunnelChanges \/ UNCHANGED warpVars
  <2>1. /\ Now' = Now /\ Last' = Last /\ IsRest(stepsLeft)'
        /\ UNCHANGED <<again, running, enabled, config, iface, warpUp, lost>>
    <3>1. UNCHANGED <<stepsLeft, again, running, enabled, config, iface, warpUp, lost>>
      BY <1>2 DEF Monitor, Probe, Flip, Update, Land, TunnelChanges, warpCall, warpDb, host, warpProcess, warpVars
    <3>. QED
      BY <1>1, <3>1, NowStays
  <2>2. CASE Probe \/ Update \/ TunnelChanges \/ UNCHANGED warpVars
    <3>1. /\ UNCHANGED <<belief, routes, late, tunnelHurt>> /\ (watch = "off" <=> watch' = "off")
          /\ watch = "off" => row' = row
      BY <2>2 DEF Probe, Update, TunnelChanges, monitor, warpDb, host, warpVars
    <3>. QED
      BY <1>1, <2>1, <3>1
  <2>3. CASE Flip
    <3>1. /\ watch = "flip" /\ watch' = "update" /\ belief' = ~belief /\ row' = row
          /\ Route(IF belief THEN "del" ELSE "add")
      BY <2>3 DEF Flip, warpDb
    <3>2. ~tunnelHurt' => ~tunnelHurt /\ late' = late /\ (routes' <=> ~belief /\ iface = "up")
      BY <3>1 DEF Route, WInv, WarpTypeOK
    <3>. QED
      BY <1>1, <2>1, <3>1, <3>2
  <2>4. CASE \E op \in late : Land(op)
    <3>1. late # {} /\ tunnelHurt' = tunnelHurt /\ watch' = watch /\ row' = row
      BY <2>4 DEF Land, monitor, warpDb
    <3>. QED
      BY <1>1, <2>1, <3>1
  <2>. QED
    BY <1>2, <2>2, <2>3, <2>4 DEF Monitor
<1>3. CASE WarpCrash
  <2>1. IsRest(stepsLeft)' /\ again' = FALSE /\ Now' = "rest"
    BY <1>1, <1>3, StepsStep DEF WarpCrash
  <2>2. /\ running' = FALSE /\ watch' = "off" /\ warpUp' = FALSE /\ warpUp
        /\ UNCHANGED <<enabled, config, row, iface, routes, late, lost>>
        /\ ~tunnelHurt' => ~tunnelHurt /\ Now = "rest" /\ (running => enabled)
    BY <1>3 DEF WarpCrash, warpDb, host, Now
  <2>. QED
    BY <1>1, <2>1, <2>2
<1>4. CASE Boot
  <2>1. /\ ~warpUp /\ warpUp' /\ UNCHANGED <<again, running, watch, belief, enabled, config, iface, routes, late, tunnelHurt>>
        /\ ~lost' => row' = Down
    BY <1>4 DEF Boot, monitor, host
  <2>2. IsRest(stepsLeft)' /\ IF enabled THEN Now' = "check" /\ Last' = "watch" ELSE Now' = "rest"
    BY <1>4, RestOfStart, RestOfNothing DEF Boot
  <2>. QED
    BY <1>1, <2>1, <2>2
<1>. QED
  BY <1>2, <1>3, <1>4 DEF Monitor

\* The types of the state, each for itself.
LEMMA WarpTypes ==
    ASSUME WarpTypeOK
    PROVE  /\ again \in BOOLEAN /\ running \in BOOLEAN /\ belief \in BOOLEAN /\ seen \in BOOLEAN
           /\ enabled \in BOOLEAN /\ config \in BOOLEAN /\ routes \in BOOLEAN /\ alive \in BOOLEAN
           /\ warpUp \in BOOLEAN /\ resets \in BOOLEAN /\ tunnelHurt \in BOOLEAN /\ lost \in BOOLEAN
           /\ watch \in {"off", "sleep", "flip", "update"} /\ iface \in {"down", "up"}
           /\ fails \in 0 .. FailThreshold /\ oks \in 0 .. RecoverThreshold
           /\ row \in [up : BOOLEAN, routes : BOOLEAN] /\ late \subseteq {"add", "del"}
           /\ warpCrashes \in 0 .. MaxWarpCrashes
  BY DEF WarpTypeOK

\* A call is at most as long as an upload to a running module.
LEMMA LongestCall ==
    ASSUME NEW steps, IsRest(steps) PROVE Len(steps) <= Len(StopSteps \o StartSteps) + 2
<1>1. /\ StopSteps \in Seq(StepNames) /\ Len(StopSteps) = 4
      /\ StartSteps \in Seq(StepNames) /\ Len(StartSteps) = 6
  BY DEF StopSteps, StartSteps, StepNames
<1>2. Len(StopSteps \o StartSteps) = 10
  <2>. HIDE DEF StepNames
  <2>1. Len(StopSteps \o StartSteps) = Len(StopSteps) + Len(StartSteps)
    BY <1>1, ConcatProperties
  <2>. QED
    BY <1>1, <2>1
<1>3. Len(steps) <= 12 /\ Len(steps) \in Nat
  BY DEF IsRest
<1>. QED
  BY <1>2, <1>3

\* Every step keeps the types.
LEMMA WarpTypeStep ==
    ASSUME WInv, [WarpNext]_warpVars, IsRest(stepsLeft)'
    PROVE  WarpTypeOK'
<1>. DEFINE CallParts == again \in BOOLEAN /\ running \in BOOLEAN /\ tunnelHurt \in BOOLEAN /\ lost \in BOOLEAN
            Flags == /\ belief \in BOOLEAN /\ seen \in BOOLEAN /\ config \in BOOLEAN /\ routes \in BOOLEAN
                     /\ alive \in BOOLEAN /\ warpUp \in BOOLEAN /\ resets \in BOOLEAN
            Marks == enabled \in BOOLEAN
            Values == watch \in {"off", "sleep", "flip", "update"} /\ iface \in {"down", "up"} /\ late \subseteq {"add", "del"}
            Row == row \in [up : BOOLEAN, routes : BOOLEAN]
            Counters == /\ fails \in 0 .. FailThreshold /\ oks \in 0 .. RecoverThreshold
                        /\ warpCrashes \in 0 .. MaxWarpCrashes
<1>1. CallParts /\ Flags /\ Marks /\ Values /\ Row /\ Counters
  BY WarpTypes DEF WInv
<1>. SUFFICES CallParts' /\ Flags' /\ Marks' /\ Values' /\ Row' /\ Counters'
  <2>1. (Len(stepsLeft) <= Len(StopSteps \o StartSteps) + 2)'
    <3>1. IsRest(stepsLeft')
      BY DEF IsRest
    <3>. QED
      BY <3>1, LongestCall DEF IsRest
  <2>. QED
    BY <2>1 DEF WarpTypeOK
<1>2. CASE UNCHANGED warpVars
  BY <1>1, <1>2 DEF warpVars, warpCall, monitor, warpDb, host, warpProcess
<1>. USE DEF warpVars, warpCall, monitor, warpDb, host, warpProcess, Go, Raise, Route, RowWriteRaised, Forgotten, Down
<1>3. CASE CheckSetup
  <2>1. CallParts' /\ Marks'
    BY <1>1, <1>3 DEF CheckSetup
  <2>2. Flags'
    BY <1>1, <1>3 DEF CheckSetup
  <2>3. Values' /\ Row' /\ Counters'
    BY <1>1, <1>3 DEF CheckSetup
  <2>. QED
    BY <2>1, <2>2, <2>3
<1>4. CASE Clean
  <2>1. CallParts' /\ Marks'
    BY <1>1, <1>4 DEF Clean
  <2>2. Flags'
    BY <1>1, <1>4 DEF Clean
  <2>3. Values' /\ Row' /\ Counters'
    BY <1>1, <1>4 DEF Clean
  <2>. QED
    BY <2>1, <2>2, <2>3
<1>5. CASE BringUp
  <2>1. CallParts' /\ Marks'
    BY <1>1, <1>5 DEF BringUp
  <2>2. Flags'
    BY <1>1, <1>5 DEF BringUp
  <2>3. Values' /\ Row' /\ Counters'
    BY <1>1, <1>5 DEF BringUp
  <2>. QED
    BY <2>1, <2>2, <2>3
<1>6. CASE AddRoutes
  <2>1. CallParts' /\ Marks'
    BY <1>1, <1>6 DEF AddRoutes
  <2>2. Flags'
    BY <1>1, <1>6 DEF AddRoutes
  <2>3. Values' /\ Row' /\ Counters'
    BY <1>1, <1>6 DEF AddRoutes
  <2>. QED
    BY <2>1, <2>2, <2>3
<1>7. CASE Save
  <2>1. CallParts' /\ Marks'
    BY <1>1, <1>7 DEF Save
  <2>2. Flags'
    BY <1>1, <1>7 DEF Save
  <2>3. Values' /\ Counters'
    BY <1>1, <1>7 DEF Save
  <2>4. Row'
    <3>1. row' = row \/ row' = [up |-> TRUE, routes |-> belief]
      BY <1>7 DEF Save
    <3>2. [up |-> TRUE, routes |-> belief] \in [up : BOOLEAN, routes : BOOLEAN]
      BY <1>1
    <3>. QED
      BY <1>1, <3>1, <3>2
  <2>. QED
    BY <2>1, <2>2, <2>3, <2>4
<1>8. CASE StartMonitor
  BY <1>1, <1>8, WarpBounds DEF StartMonitor
<1>9. CASE CancelMonitor
  <2>1. CallParts' /\ Marks'
    BY <1>1, <1>9 DEF CancelMonitor
  <2>2. Flags'
    BY <1>1, <1>9 DEF CancelMonitor
  <2>3. Values' /\ Row' /\ Counters'
    BY <1>1, <1>9, WarpBounds DEF CancelMonitor
  <2>. QED
    BY <2>1, <2>2, <2>3
<1>10. CASE Unroute
  <2>1. CallParts' /\ Marks'
    BY <1>1, <1>10 DEF Unroute
  <2>2. Flags'
    BY <1>1, <1>10 DEF Unroute
  <2>3. Values' /\ Row' /\ Counters'
    BY <1>1, <1>10 DEF Unroute
  <2>. QED
    BY <2>1, <2>2, <2>3
<1>11. CASE TakeDown
  <2>1. CallParts' /\ Marks'
    BY <1>1, <1>11 DEF TakeDown
  <2>2. Flags'
    BY <1>1, <1>11 DEF TakeDown
  <2>3. Values' /\ Row' /\ Counters'
    BY <1>1, <1>11 DEF TakeDown
  <2>. QED
    BY <2>1, <2>2, <2>3
<1>12. CASE Stopped
  <2>1. CallParts' /\ Marks'
    BY <1>1, <1>12 DEF Stopped
  <2>2. Flags'
    BY <1>1, <1>12 DEF Stopped
  <2>3. Values' /\ Counters'
    BY <1>1, <1>12 DEF Stopped
  <2>4. Row'
    <3>1. row' = row \/ row' = [up |-> FALSE, routes |-> FALSE]
      BY <1>12 DEF Stopped
    <3>2. [up |-> FALSE, routes |-> FALSE] \in [up : BOOLEAN, routes : BOOLEAN]
      BY <1>1
    <3>. QED
      BY <1>1, <3>1, <3>2
  <2>. QED
    BY <2>1, <2>2, <2>3, <2>4
<1>13. CASE SetEnabled
  <2>1. CallParts' /\ Marks'
    BY <1>1, <1>13 DEF SetEnabled, AtStep
  <2>2. Flags'
    BY <1>1, <1>13 DEF SetEnabled, AtStep
  <2>3. Values' /\ Row' /\ Counters'
    BY <1>1, <1>13 DEF SetEnabled, AtStep
  <2>. QED
    BY <2>1, <2>2, <2>3
<1>14. CASE Install
  <2>1. CallParts' /\ Marks'
    BY <1>1, <1>14 DEF Install
  <2>2. Flags'
    BY <1>1, <1>14 DEF Install
  <2>3. Values' /\ Row' /\ Counters'
    BY <1>1, <1>14 DEF Install
  <2>. QED
    BY <2>1, <2>2, <2>3
<1>15. CASE RemoveFiles
  <2>1. CallParts' /\ Marks'
    BY <1>1, <1>15 DEF RemoveFiles
  <2>2. Flags'
    BY <1>1, <1>15 DEF RemoveFiles
  <2>3. Values' /\ Row' /\ Counters'
    BY <1>1, <1>15 DEF RemoveFiles
  <2>. QED
    BY <2>1, <2>2, <2>3
<1>16. CASE SetConfig
  <2>1. CallParts' /\ Marks'
    BY <1>1, <1>16 DEF SetConfig, AtStep
  <2>2. Flags'
    BY <1>1, <1>16 DEF SetConfig, AtStep
  <2>3. Values' /\ Row' /\ Counters'
    BY <1>1, <1>16 DEF SetConfig, AtStep
  <2>. QED
    BY <2>1, <2>2, <2>3
<1>17. CASE Probe
  BY <1>1, <1>17, WarpBounds DEF Probe, Upto
<1>18. CASE Flip
  <2>1. CallParts' /\ Marks'
    BY <1>1, <1>18 DEF Flip
  <2>2. Flags'
    BY <1>1, <1>18 DEF Flip
  <2>3. Values' /\ Row' /\ Counters'
    BY <1>1, <1>18 DEF Flip
  <2>. QED
    BY <2>1, <2>2, <2>3
<1>19. CASE Update
  BY <1>1, <1>19 DEF Update
<1>20. CASE \E op \in late : Land(op)
  BY <1>1, <1>20 DEF Land
<1>21. CASE TunnelChanges
  BY <1>1, <1>21 DEF TunnelChanges
<1>22. CASE \E name \in DOMAIN StepsOf : AskWarp(name)
  BY <1>1, <1>22 DEF AskWarp
<1>23. CASE WarpCrash
  <2>1. CallParts' /\ Marks'
    BY <1>1, <1>23 DEF WarpCrash
  <2>2. Flags'
    BY <1>1, <1>23 DEF WarpCrash
  <2>3. Values' /\ Row' /\ Counters'
    BY <1>1, <1>23, WarpBounds DEF WarpCrash
  <2>. QED
    BY <2>1, <2>2, <2>3
<1>24. CASE Boot
  BY <1>1, <1>24 DEF Boot
<1>. QED
  BY <1>2, <1>3, <1>4, <1>5, <1>6, <1>7, <1>8, <1>9, <1>10, <1>11, <1>12, <1>13, <1>14, <1>15, <1>16, <1>17, <1>18,
     <1>19, <1>20, <1>21, <1>22, <1>23, <1>24
  DEF WarpNext, Step, Monitor

\* Between any two calls, whatever came before.
LEMMA WInvAtRest == ASSUME WInv PROVE WarpAtRest
<1>1. AtRest => Now = "rest" /\ warpUp
  BY DEF AtRest, Now
<1>2. RunsInv /\ HostInv /\ RowInv
  BY DEF WInv
<1>. QED
  BY <1>1, <1>2 DEF WarpAtRest, StoppedIsDown, StoppedRowIsDown, BeliefIsTrue, InstallKeepsRunning, RunsInv, HostInv,
                    RowInv, Gone

\* WInv holds at first and after every step.
LEMMA InitWInv == ASSUME WarpInit PROVE WInv
<1>1. IsRest(stepsLeft) /\ Now = "rest"
  BY DEF WarpInit, IsRest, Now
<1>2. Len(stepsLeft) <= Len(StopSteps \o StartSteps) + 2
  BY <1>1, LongestCall
<1>3. WarpTypeOK
  <2>1. {again, running, belief, seen, enabled, config, routes, alive, warpUp, resets, tunnelHurt, lost} \subseteq BOOLEAN
    BY DEF WarpInit
  <2>2. fails \in 0 .. FailThreshold /\ oks \in 0 .. RecoverThreshold /\ warpCrashes \in 0 .. MaxWarpCrashes
    BY WarpBounds DEF WarpInit
  <2>3. row \in [up : BOOLEAN, routes : BOOLEAN]
    BY DEF WarpInit, Down
  <2>4. watch \in {"off", "sleep", "flip", "update"} /\ iface \in {"down", "up"} /\ late \subseteq {"add", "del"}
    BY DEF WarpInit
  <2>. QED
    BY <1>2, <2>1, <2>2, <2>3, <2>4 DEF WarpTypeOK
<1>4. RunsInv /\ ConfigInv /\ HostInv /\ RowInv
  BY <1>1 DEF WarpInit, RunsInv, ConfigInv, HostInv, RowInv, Gone
<1>. QED
  BY <1>1, <1>3, <1>4 DEF WInv

\* Every step of the routing keeps its invariant.
LEMMA NextWInv == WInv /\ [WarpNext]_warpVars => WInv'
<1>. SUFFICES ASSUME WInv, [WarpNext]_warpVars PROVE WInv'
  OBVIOUS
<1>1. IsRest(stepsLeft)' /\ Control'
  BY StartStep, StopStep, OtherStep, BesideStep DEF WarpNext, Step
<1>2. WarpTypeOK'
  BY <1>1, WarpTypeStep
<1>. QED
  BY <1>1, <1>2 DEF WInv, Control

\* What an administrator finds when no call is under way: a stopped WARP left neither its
\* interface nor its routes, its row says so, a running one is watched and its monitor is
\* right about the routes, and an upload to a running one left it running
\* (warp/manager.py:95-361, warp/health.py:105-175).
THEOREM RestOfAnyTunnel == WarpSpec => []WarpAtRest
<1>1. WarpInit => WInv
  BY InitWInv
<1>. QED
  BY <1>1, NextWInv, WInvAtRest, PTL DEF WarpSpec

--------------------------------------------------------------------------------
(* A sweep leaves nothing live but what it counted, and a prompt makes one access *)
(* (ProtocolSwitch), for any number of administrators, presses, requests,     *)
(* accesses and failing removals.                                           *)

\* Ids are given out in order.
InOrder == \E n \in 0..MaxAccesses : Existing = 1..n

(* What a sweep answers for exists, and is not live once it has no more to do   *)
(* on it; neither is what the last one that disabled the module answered for.  *)
SweepsInv ==
    /\ \A a \in SwitchAdmins :
         /\ sweep[a].todo \subseteq sweep[a].known /\ sweep[a].known \subseteq Existing
         /\ \A i \in sweep[a].known \ sweep[a].todo : access[i] \in {"failed", "gone"}
    /\ \A i \in swept : access[i] \in {"failed", "gone"}

\* A press that has read the data is the one inside the user's lock.
Inside(c) == call[c].at = "reading" \/ (call[c].at = "creating" /\ call[c].nonce # 0)

(* A press that has read the data is alone in the lock, and what it works with *)
(* has made no access; when it creates, the data do not hold its nonce more. *)
CallInv(c) ==
    /\ Inside(c) => holder = c
    /\ call[c].nonce <= nonces /\ call[c].read <= nonces
    /\ call[c].at = "free" => call[c].nonce = 0
    /\ call[c].at \in {"waiting", "reading"} => call[c].nonce # 0
    /\ call[c].at = "reading" => call[c].read \notin madeFor
    /\ call[c].at = "creating" => call[c].nonce \notin madeFor /\ (call[c].nonce # 0 => nonce # call[c].nonce)

\* The nonce of the data has made no access, and all were handed out.
NoncesInv ==
    /\ nonce <= nonces /\ nonce \notin madeFor /\ (\A n \in madeFor : n <= nonces)
    /\ \A c \in Calls : CallInv(c)

\* The inductive invariant of the protocol switch.
PInv == SwtTypeOK /\ InOrder /\ SweepsInv /\ NoncesInv

--------------------------------------------------------------------------------

\* The chat is empty and the protocol enabled when the bot is installed.
LEMMA InitPInv == SwtInit => PInv
<1>. SUFFICES ASSUME SwtInit PROVE PInv
  OBVIOUS
<1>. USE SwitchAssumption DEF SwtInit
<1>1. SwtTypeOK
  BY DEF SwtTypeOK, NoSweep, NoCall
<1>2. InOrder
  <2>1. Existing = 1..0
    BY DEF Existing
  <2>. QED
    BY <2>1 DEF InOrder
<1>3. SweepsInv
  BY DEF SweepsInv, NoSweep, Existing
<1>4. NoncesInv
  BY DEF NoncesInv, NoCall, CallInv, Inside
<1>. QED
  BY <1>1, <1>2, <1>3, <1>4 DEF PInv

\* The next id is one that was not given out.
LEMMA NextIsNew ==
  ASSUME SwtTypeOK, InOrder, Existing # Ids
  PROVE  /\ Cardinality(Existing) + 1 \in Ids
         /\ access[Cardinality(Existing) + 1] = "none"
         /\ \E n \in 0..MaxAccesses :
              Existing = 1..n /\ n < MaxAccesses /\ Cardinality(Existing) = n
<1>. USE SwitchAssumption
<1>1. PICK n \in 0..MaxAccesses : Existing = 1..n
  BY DEF InOrder
<1>2. n < MaxAccesses
  BY <1>1 DEF Ids
<1>3. Cardinality(1..n) = n
  BY <1>2, FS_Interval
<1>4. n + 1 \in Ids /\ n + 1 \notin Existing
  BY <1>1, <1>2 DEF Ids
<1>. QED
  BY <1>1, <1>2, <1>3, <1>4 DEF Existing

--------------------------------------------------------------------------------
(* The steps.  First those that leave the accesses alone, then the three that *)
(* change one.                                                              *)

\* What the dialog and the switch do to their own state keeps the invariant.
LEMMA QuietStep ==
  ASSUME PInv, UNCHANGED access,
         \/ \E a \in SwitchAdmins : Collect(a) \/ SetDisabled(a)
         \/ \E c \in Calls : Confirm(c) \/ EnterConfirm(c) \/ CheckNonce(c) \/ Request(c)
         \/ Enable \/ Prompt \/ Cancel \/ RestartApp
  PROVE  PInv'
<1>. USE SwitchAssumption DEF PInv
<1>1. InOrder'
  BY DEF InOrder, Existing
<1>2. ASSUME NEW a \in SwitchAdmins, Collect(a) PROVE PInv'
  <2>1. SwtTypeOK'
    BY <1>2 DEF SwtTypeOK, Collect, Rows, Existing
  <2>2. SweepsInv'
    BY <1>2 DEF SwtTypeOK, SweepsInv, Collect, Rows, Existing
  <2>3. NoncesInv'
    BY <1>2 DEF NoncesInv, Collect, CallInv, Inside
  <2>. QED
    BY <1>1, <2>1, <2>2, <2>3
<1>3. ASSUME NEW a \in SwitchAdmins, SetDisabled(a) PROVE PInv'
  <2>1. SwtTypeOK'
    BY <1>3 DEF SwtTypeOK, SetDisabled, NoSweep
  <2>2. SweepsInv'
    BY <1>3 DEF SwtTypeOK, SweepsInv, SetDisabled, NoSweep, Existing
  <2>3. NoncesInv'
    BY <1>3 DEF NoncesInv, SetDisabled, CallInv, Inside
  <2>. QED
    BY <1>1, <2>1, <2>2, <2>3
<1>4. ASSUME UNCHANGED <<sweep, swept>> PROVE SweepsInv'
  BY <1>4 DEF SweepsInv, Existing
<1>5. ASSUME NEW c \in Calls, Confirm(c) PROVE PInv'
  <2>1. SwtTypeOK'
    BY <1>5 DEF SwtTypeOK, Confirm
  <2>2. NoncesInv'
    BY <1>5 DEF SwtTypeOK, NoncesInv, Confirm, CallInv, Inside
  <2>. QED
    BY <1>1, <1>4, <1>5, <2>1, <2>2 DEF Confirm
<1>6. ASSUME NEW c \in Calls, EnterConfirm(c) PROVE PInv'
  <2>1. SwtTypeOK'
    BY <1>6 DEF SwtTypeOK, EnterConfirm
  <2>2. NoncesInv'
    <3>1. call' = [call EXCEPT ![c] = [call[c] EXCEPT !.at = "reading", !.read = nonce]]
      BY <1>6 DEF SwtTypeOK, EnterConfirm
    <3>2. /\ call'[c].at = "reading" /\ call'[c].nonce = call[c].nonce /\ call'[c].read = nonce
          /\ \A d \in Calls \ {c} : call'[d] = call[d]
      BY <3>1 DEF SwtTypeOK
    <3>3. \A d \in Calls : ~Inside(d)
      BY <1>6 DEF NoncesInv, CallInv, EnterConfirm
    <3>4. ASSUME NEW d \in Calls PROVE CallInv(d)'
      <4>1. CASE d = c
        BY <1>6, <3>2, <4>1 DEF NoncesInv, EnterConfirm, CallInv, Inside
      <4>2. CASE d # c
        <5>1. call'[d] = call[d] /\ ~Inside(d) /\ CallInv(d)
          BY <3>2, <3>3, <4>2 DEF NoncesInv
        <5>2. UNCHANGED <<nonce, nonces, madeFor>>
          BY <1>6 DEF EnterConfirm
        <5>. QED
          BY <5>1, <5>2 DEF CallInv, Inside
      <4>. QED
        BY <4>1, <4>2
    <3>. QED
      BY <1>6, <3>4 DEF NoncesInv, EnterConfirm
  <2>. QED
    BY <1>1, <1>4, <1>6, <2>1, <2>2 DEF EnterConfirm
<1>7. ASSUME NEW c \in Calls, CheckNonce(c) PROVE PInv'
  <2>1. SwtTypeOK'
    <3>1. call' \in {[call EXCEPT ![c].at = "creating"], [call EXCEPT ![c] = NoCall]}
          /\ holder' \in {holder, "none"} /\ nonce' = 0
      BY <1>7 DEF CheckNonce
    <3>2. NoCall \in [at : {"free", "waiting", "reading", "creating"}, nonce : 0..MaxNonces, read : 0..MaxNonces]
      BY DEF NoCall
    <3>3. call' \in [Calls -> [at : {"free", "waiting", "reading", "creating"}, nonce : 0..MaxNonces, read : 0..MaxNonces]]
      BY <3>1, <3>2 DEF SwtTypeOK
    <3>. QED
      BY <1>7, <3>1, <3>3 DEF SwtTypeOK, CheckNonce
  <2>2. NoncesInv'
    BY <1>7 DEF SwtTypeOK, NoncesInv, CheckNonce, NoCall, CallInv, Inside
  <2>. QED
    BY <1>1, <1>4, <1>7, <2>1, <2>2 DEF CheckNonce
<1>8. ASSUME NEW c \in Calls, Request(c) PROVE PInv'
  <2>1. SwtTypeOK'
    BY <1>8 DEF SwtTypeOK, Request
  <2>2. NoncesInv'
    <3>1. /\ call'[c].at = "creating" /\ call'[c].nonce = call[c].nonce /\ call'[c].read = call[c].read
          /\ \A d \in Calls \ {c} : call'[d] = call[d]
      BY <1>8 DEF SwtTypeOK, Request
    <3>2. call[c].nonce = 0 /\ 0 \notin madeFor
      BY <1>8 DEF NoncesInv, CallInv, Request, SwtTypeOK
    <3>. QED
      BY <1>8, <3>1, <3>2 DEF NoncesInv, Request, CallInv, Inside
  <2>. QED
    BY <1>1, <1>4, <1>8, <2>1, <2>2 DEF Request
<1>9. CASE Enable
  <2>1. SwtTypeOK' /\ SweepsInv' /\ NoncesInv'
    BY <1>9 DEF SwtTypeOK, SweepsInv, NoncesInv, Enable, Existing, CallInv, Inside
  <2>. QED
    BY <1>1, <2>1
<1>10. CASE Prompt
  <2>1. SwtTypeOK'
    BY <1>10 DEF SwtTypeOK, Prompt
  <2>2. NoncesInv'
    BY <1>10 DEF SwtTypeOK, NoncesInv, Prompt, CallInv, Inside
  <2>. QED
    BY <1>1, <1>4, <1>10, <2>1, <2>2 DEF Prompt
<1>11. CASE Cancel
  <2>1. SwtTypeOK'
    BY <1>11 DEF SwtTypeOK, Cancel
  <2>2. NoncesInv'
    BY <1>11 DEF SwtTypeOK, NoncesInv, Cancel, CallInv, Inside
  <2>. QED
    BY <1>1, <1>4, <1>11, <2>1, <2>2 DEF Cancel
<1>12. CASE RestartApp
  <2>1. SwtTypeOK'
    BY <1>12 DEF SwtTypeOK, RestartApp, NoSweep, NoCall
  <2>2. SweepsInv'
    BY <1>12 DEF SwtTypeOK, SweepsInv, RestartApp, NoSweep, Existing
  <2>3. NoncesInv'
    BY <1>12 DEF SwtTypeOK, NoncesInv, RestartApp, NoCall, CallInv, Inside
  <2>. QED
    BY <1>1, <2>1, <2>2, <2>3
<1>. QED
  BY <1>2, <1>3, <1>5, <1>6, <1>7, <1>8, <1>9, <1>10, <1>11, <1>12

\* A removal takes an access down, or the sweep answers no longer for it; no id is lost.
LEMMA PurgeStep ==
  ASSUME PInv, NEW a \in SwitchAdmins, Purge(a)
  PROVE  PInv'
<1>. USE SwitchAssumption DEF PInv
<1>1. PICK i \in sweep[a].todo :
         \/ /\ access' = [access EXCEPT ![i] = "gone"]
            /\ sweep' = [sweep EXCEPT ![a].todo = @ \ {i}]
         \/ /\ access' = access \/ (access[i] # "gone" /\ access' = [access EXCEPT ![i] = "failed"])
            /\ sweep' = [sweep EXCEPT ![a].todo = @ \ {i}, ![a].known = @ \ {i}]
  BY DEF Purge, Raises
<1>2. i \in Existing /\ i \in Ids
  BY DEF SweepsInv, SwtTypeOK
<1>3. /\ access' \in [Ids -> {"none", "live", "failed", "gone"}]
      /\ \A j \in Ids : access[j] \in {"failed", "gone"} => access'[j] \in {"failed", "gone"}
      /\ Existing' = Existing
  <2>1. /\ access' \in {access, [access EXCEPT ![i] = "gone"], [access EXCEPT ![i] = "failed"]}
        /\ access \in [Ids -> {"none", "live", "failed", "gone"}]
        /\ access[i] # "none"
    BY <1>1, <1>2 DEF SwtTypeOK, Existing
  <2>. QED
    BY <1>2, <2>1 DEF Existing
<1>4. ASSUME NEW b \in SwitchAdmins
      PROVE  sweep'[b].todo \subseteq sweep'[b].known /\ sweep'[b].known \subseteq Existing'
             /\ \A j \in sweep'[b].known \ sweep'[b].todo : access'[j] \in {"failed", "gone"}
  <2>1. sweep[b] \in [at : {"idle", "purging"}, todo : SUBSET Ids, known : SUBSET Ids]
    BY DEF SwtTypeOK
  <2>2. CASE b # a
    <3>1. sweep'[b] = sweep[b]
      BY <1>1, <2>2 DEF SwtTypeOK
    <3>. QED
      BY <1>3, <2>1, <3>1 DEF SweepsInv
  <2>3. CASE b = a
    <3>1. \/ /\ access' = [access EXCEPT ![i] = "gone"]
             /\ sweep'[a] = [sweep[a] EXCEPT !.todo = @ \ {i}]
          \/ sweep'[a] = [sweep[a] EXCEPT !.todo = @ \ {i}, !.known = @ \ {i}]
      BY <1>1 DEF SwtTypeOK
    <3>2. \/ access'[i] = "gone" /\ sweep'[a].todo = sweep[a].todo \ {i} /\ sweep'[a].known = sweep[a].known
          \/ sweep'[a].todo = sweep[a].todo \ {i} /\ sweep'[a].known = sweep[a].known \ {i}
      BY <1>2, <2>1, <2>3, <3>1 DEF SwtTypeOK
    <3>. QED
      BY <1>3, <2>1, <2>3, <3>2 DEF SweepsInv
  <2>. QED
    BY <2>2, <2>3
<1>5. SwtTypeOK'
  <2>1. sweep' \in [SwitchAdmins -> [at : {"idle", "purging"}, todo : SUBSET Ids, known : SUBSET Ids]]
    BY <1>1 DEF SwtTypeOK
  <2>2. purgeFaults' \in 0..MaxPurgeFaults
    BY DEF Purge, Raises, SwtTypeOK
  <2>. QED
    BY <1>3, <2>1, <2>2 DEF SwtTypeOK, Purge
<1>6. InOrder'
  BY <1>3 DEF InOrder
<1>7. SweepsInv'
  BY <1>3, <1>4 DEF SweepsInv, SwtTypeOK, Purge
<1>8. NoncesInv'
  BY DEF NoncesInv, Purge, CallInv, Inside
<1>. QED
  BY <1>5, <1>6, <1>7, <1>8

\* A new access has an id that no sweep knows.
LEMMA CreateStep ==
  ASSUME PInv, NEW c \in Calls, Create(c)
  PROVE  PInv'
<1>. USE SwitchAssumption DEF PInv
<1>1. NoncesInv'
  <2>1. /\ call' = [call EXCEPT ![c] = NoCall] /\ call[c].at = "creating"
        /\ holder' = (IF holder = c THEN "none" ELSE holder)
        /\ nonce' = nonce /\ nonces' = nonces
        /\ madeFor' \in {madeFor, madeFor \union ({call[c].nonce} \ {0})}
    BY DEF Create
  <2>2. ASSUME NEW d \in Calls \ {c} PROVE Inside(d) => call[c].nonce = 0
    BY <2>1 DEF NoncesInv, CallInv, Inside
  <2>3. nonce' <= nonces' /\ nonce' \notin madeFor' /\ \A n \in madeFor' : n <= nonces'
    <3>1. call[c].nonce <= nonces /\ (call[c].nonce # 0 => nonce # call[c].nonce)
      BY <2>1 DEF NoncesInv, CallInv
    <3>. QED
      BY <2>1, <3>1 DEF NoncesInv, SwtTypeOK
  <2>4. ASSUME NEW d \in Calls \ {c}
        PROVE  CallInv(d)'
    <3>1. call'[d] = call[d]
      BY <2>1 DEF SwtTypeOK
    <3>2. CASE Inside(d)
      BY <2>1, <2>2, <3>1, <3>2 DEF NoncesInv, CallInv, Inside
    <3>3. CASE ~Inside(d)
      <4>1. 0 \notin madeFor'
        BY <2>1 DEF SwtTypeOK
      <4>. QED
        BY <2>1, <3>1, <3>3, <4>1 DEF NoncesInv, CallInv, Inside
    <3>. QED
      BY <3>2, <3>3
  <2>5. call'[c] = NoCall
    BY <2>1 DEF SwtTypeOK
  <2>. QED
    BY <2>1, <2>3, <2>4, <2>5 DEF NoncesInv, NoCall, CallInv, Inside, SwtTypeOK
<1>4. ASSUME access' \in [Ids -> {"none", "live", "failed", "gone"}] PROVE SwtTypeOK'
  <2>1. NoCall \in [at : {"free", "waiting", "reading", "creating"}, nonce : 0..MaxNonces, read : 0..MaxNonces]
    BY DEF NoCall
  <2>2. call' \in [Calls -> [at : {"free", "waiting", "reading", "creating"}, nonce : 0..MaxNonces, read : 0..MaxNonces]]
    BY <2>1 DEF SwtTypeOK, Create
  <2>3. call[c].nonce \in 0..MaxNonces
    BY DEF SwtTypeOK
  <2>4. madeFor' \subseteq 1..MaxNonces
    <3>1. {call[c].nonce} \ {0} \subseteq 1..MaxNonces
      BY <2>3
    <3>2. madeFor' \in {madeFor, madeFor \union ({call[c].nonce} \ {0})}
      BY DEF Create
    <3>. QED
      BY <3>1, <3>2 DEF SwtTypeOK
  <2>5. holder' \in Calls \union {"none"}
    BY DEF SwtTypeOK, Create
  <2>. QED
    BY <1>4, <2>2, <2>4, <2>5 DEF SwtTypeOK, Create
<1>2. CASE UNCHANGED access
  <2>1. SwtTypeOK'
    BY <1>2, <1>4 DEF SwtTypeOK
  <2>2. InOrder' /\ SweepsInv'
    BY <1>2 DEF InOrder, SweepsInv, Existing, Create
  <2>. QED
    BY <1>1, <2>1, <2>2
<1>3. CASE access' # access
  <2>. DEFINE i == Cardinality(Existing) + 1
  <2>1. Existing # Ids /\ access' = [access EXCEPT ![i] = "live"]
    BY <1>3 DEF Create
  <2>2. PICK n \in 0..MaxAccesses : Existing = 1..n /\ n < MaxAccesses /\ Cardinality(Existing) = n
    BY <2>1, NextIsNew
  <2>3. i \in Ids /\ access[i] = "none" /\ i = n + 1
    BY <2>1, <2>2, NextIsNew
  <2>. HIDE DEF i
  <2>4. Existing' = Existing \union {i}
    BY <2>1, <2>3 DEF Existing, SwtTypeOK
  <2>5. Existing' = 1..(n + 1) /\ n + 1 \in 0..MaxAccesses
    BY <2>2, <2>3, <2>4
  <2>6. SwtTypeOK'
    BY <1>4, <2>1, <2>3 DEF SwtTypeOK
  <2>7. \A j \in Ids : access[j] \in {"failed", "gone"} => access'[j] \in {"failed", "gone"}
    BY <2>1, <2>3 DEF SwtTypeOK
  <2>8. UNCHANGED <<sweep, swept>>
    BY DEF Create
  <2>9. SweepsInv'
    BY <2>4, <2>7, <2>8 DEF SweepsInv, SwtTypeOK
  <2>. QED
    BY <1>1, <2>5, <2>6, <2>9 DEF InOrder
<1>. QED
  BY <1>2, <1>3

\* An access that is revoked or deleted is gone.
LEMMA RemovedStep ==
  ASSUME PInv, Removed
  PROVE  PInv'
<1>. USE SwitchAssumption DEF PInv
<1>1. PICK i \in Rows : access' = [access EXCEPT ![i] = "gone"]
  BY DEF Removed
<1>2. i \in Ids /\ access[i] # "none"
  BY DEF Rows
<1>3. Existing' = Existing
  BY <1>1, <1>2 DEF Existing, SwtTypeOK
<1>4. \A j \in Ids : access[j] \in {"failed", "gone"} => access'[j] \in {"failed", "gone"}
  BY <1>1, <1>2 DEF SwtTypeOK
<1>5. SwtTypeOK'
  BY <1>1, <1>2 DEF SwtTypeOK, Removed
<1>6. InOrder'
  BY <1>3 DEF InOrder
<1>7. SweepsInv'
  BY <1>3, <1>4 DEF SweepsInv, SwtTypeOK, Removed
<1>8. NoncesInv'
  BY DEF NoncesInv, Removed, CallInv, Inside
<1>. QED
  BY <1>5, <1>6, <1>7, <1>8

\* Every step keeps the invariant.
LEMMA NextPInv == PInv /\ [SwtNext]_swtVars => PInv'
<1>. SUFFICES ASSUME PInv, [SwtNext]_swtVars PROVE PInv'
  OBVIOUS
<1>1. CASE UNCHANGED swtVars
  BY <1>1 DEF PInv, SwtTypeOK, InOrder, SweepsInv, NoncesInv, Existing, CallInv, Inside, swtVars
<1>2. ASSUME NEW a \in SwitchAdmins, Collect(a) \/ Purge(a) \/ SetDisabled(a) PROVE PInv'
  BY <1>2, QuietStep, PurgeStep DEF Collect, SetDisabled
<1>3. ASSUME NEW c \in Calls,
             Confirm(c) \/ EnterConfirm(c) \/ CheckNonce(c) \/ Create(c) \/ Request(c) PROVE PInv'
  <2>1. CASE Create(c)
    BY <2>1, CreateStep
  <2>2. CASE Confirm(c) \/ EnterConfirm(c) \/ CheckNonce(c) \/ Request(c)
    <3>1. UNCHANGED access
      BY <2>2 DEF Confirm, EnterConfirm, CheckNonce, Request
    <3>. QED
      BY <2>2, <3>1, QuietStep
  <2>. QED
    BY <1>3, <2>1, <2>2
<1>4. CASE Enable \/ Prompt \/ Cancel \/ RestartApp
  <2>1. UNCHANGED access
    BY <1>4 DEF Enable, Prompt, Cancel, RestartApp
  <2>. QED
    BY <1>4, <2>1, QuietStep
<1>5. CASE Removed
  BY <1>5, RemovedStep
<1>. QED
  BY <1>1, <1>2, <1>3, <1>4, <1>5
     DEF SwtNext, IssueKey, IssueProxy, RequestKey, RequestProxy, RemoveProxy, RemoveKey, RemoveProxyFor, RemoveKeyFor

--------------------------------------------------------------------------------

(* disable_protocol: once the module is disabled, nothing of what its sweep   *)
(* found is live but what that sweep counted as failed, for any number of     *)
(* administrators who switch at a time, of accesses and of failing removals.  *)
THEOREM SweptStaysDown == SwtSpec => []SweptIsNotLive
<1>1. PInv => SweptIsNotLive
  BY DEF PInv, SweepsInv, SweptIsNotLive
<1>. QED
  BY <1>1, InitPInv, NextPInv, PTL DEF SwtSpec

(* proxy_confirm: a prompt makes one access at most, for any number of presses *)
(* in flight.                                                                *)
THEOREM PromptsAreUsedOnce == SwtSpec => OneForEachPrompt
<1>1. PInv /\ [SwtNext]_swtVars
        => [\A c \in Calls : Create(c) /\ access' # access => call[c].nonce \notin madeFor]_swtVars
  BY DEF PInv, NoncesInv, CallInv, Create
<1>. QED
  BY <1>1, InitPInv, NextPInv, PTL DEF SwtSpec, OneForEachPrompt

--------------------------------------------------------------------------------
(* All of them: a behaviour of MCBackground is one of one part.               *)
BackgroundInv == TInv /\ EInv /\ AInv /\ NInv /\ WInv /\ PInv

\* While another part acts, a part stays as it is.
LEMMA NextBackground == BackgroundInv /\ [Next]_vars => BackgroundInv'
<1>. SUFFICES ASSUME BackgroundInv, [Next]_vars PROVE BackgroundInv'
  OBVIOUS
<1>1. [WarpNext]_warpVars /\ [AnnNext]_annVars /\ [ExpNext]_expVars /\ [AnoNext]_anoVars /\ [TrfNext]_trfVars
      /\ [SwtNext]_swtVars
  BY DEF Next, vars
<1>. QED
  BY <1>1, NextTInv, NextEInv, NextAInv, NextNInv, NextWInv, NextPInv DEF BackgroundInv

\* Every variable of the background jobs, of WARP and of the switch of a protocol keeps its
\* type: the rows, the helpers and the memory of the jobs stay what their code expects.
THEOREM TypesOfAnyPart == Spec => []TypesOK
<1>1. Init => BackgroundInv
  BY InitTInv, InitEInv, InitAInv, InitNInv, InitWInv, InitPInv DEF Init, BackgroundInv
<1>2. BackgroundInv => TypesOK
  BY DEF BackgroundInv, TInv, EInv, AInv, NInv, WInv, PInv, TypesOK
<1>. QED
  BY <1>1, <1>2, NextBackground, PTL DEF Spec
=============================================================================
