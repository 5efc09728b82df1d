---------------------------- MODULE TrafficStats ----------------------------
(* The traffic of one key: services/traffic_stats.py samples a counter of the *)
(* backend that starts again with it, and keeps a total in                    *)
(* vpn_key_traffic_stats.  Refreshes overlap, samples are missing, the        *)
(* database raises, and the key may be deleted under a refresh.               *)
EXTENDS Integers

CONSTANTS Refreshers,
          MaxBytes,       \* bound: what the key carries
          MaxRestarts     \* bound: restarts of the backend

ASSUME TrafficBounds == MaxBytes \in Nat /\ MaxRestarts \in Nat /\ "nobody" \notin Refreshers

VARIABLES raw,            \* the counter of the backend, or Missing
          keyRow,         \* the key has its row in vpn_keys
          total, lastRaw, \* downloaded_bytes, last_raw_downloaded_bytes (or Missing)
          archived,       \* deleted_key_traffic_archive
          turn,           \* _refresh_lock: who holds it, or "nobody"
          place,             \* where a refresh awaits
          sample,         \* what it sampled
          base,           \* the total and raw value it has read
          restarts,
          carried         \* history: the bytes the key has carried

trfVars == <<raw, keyRow, total, lastRaw, archived, turn, place, sample, base, restarts, carried>>
stored == <<keyRow, total, lastRaw, archived>>
backend == <<raw, restarts, carried>>

Missing == -1
Counts == 0 .. MaxBytes

TrfInit ==
    /\ raw = 0 /\ keyRow = TRUE /\ total = 0 /\ lastRaw = Missing /\ archived = Missing
    /\ turn = "nobody" /\ place = [r \in Refreshers |-> "idle"] /\ sample = [r \in Refreshers |-> Missing]
    /\ base = [r \in Refreshers |-> [total |-> 0, raw |-> Missing]] /\ restarts = 0 /\ carried = 0

-----------------------------------------------------------------------------
(* refresh_views.                                                            *)

\* The keys are listed before the lock.
AskRefresh(r) ==
    /\ place[r] = "idle" /\ keyRow /\ place' = [place EXCEPT ![r] = "wait"]
    /\ UNCHANGED <<stored, backend, turn, sample, base>>

TakeTurn(r) ==
    /\ place[r] = "wait" /\ turn = "nobody" /\ turn' = r /\ place' = [place EXCEPT ![r] = "sample"]
    /\ UNCHANGED <<stored, backend, sample, base>>

\* Mutant: sampled before the lock is asked for.
TakeSampleEarly(r) ==
    /\ \/ /\ place[r] = "wait" /\ sample[r] = Missing /\ raw # Missing /\ UNCHANGED place
          /\ sample' = [sample EXCEPT ![r] = raw]
       \/ place[r] = "sample" /\ place' = [place EXCEPT ![r] = "read"] /\ UNCHANGED sample
    /\ UNCHANGED <<stored, backend, turn, base>>

\* list_transfer or query_all: the counter, or nothing when the call fails or the key is not there.
TakeSample(r) ==
    /\ place[r] = "sample" /\ place' = [place EXCEPT ![r] = "read"]
    /\ \E s \in {raw, Missing} : sample' = [sample EXCEPT ![r] = s]
    /\ UNCHANGED <<stored, backend, turn, base>>

ReadBase(r) ==
    /\ place[r] = "read" /\ place' = [place EXCEPT ![r] = "store"]
    /\ base' = [base EXCEPT ![r] = [total |-> total, raw |-> lastRaw]]
    /\ UNCHANGED <<stored, backend, turn, sample>>

\* _next_total: a counter below the last one has started again.
NextTotal(previous, current) ==
    IF previous.raw = Missing THEN (IF current > previous.total THEN current ELSE previous.total)
    ELSE previous.total + (IF current < previous.raw THEN current ELSE current - previous.raw)

\* upsert_success, or upsert_unavailable, which keeps the totals; both raise for a deleted key.
StoreTotal(r) ==
    /\ place[r] = "store" /\ place' = [place EXCEPT ![r] = "idle"] /\ turn' = "nobody"
    /\ sample' = [sample EXCEPT ![r] = Missing]
    /\ base' = [base EXCEPT ![r] = [total |-> 0, raw |-> Missing]]
    /\ \/ /\ keyRow /\ sample[r] # Missing
          /\ total' = NextTotal(base[r], sample[r]) /\ lastRaw' = sample[r]
       \/ UNCHANGED <<total, lastRaw>>
    /\ UNCHANGED <<keyRow, archived, backend>>

-----------------------------------------------------------------------------
(* The backend and the deletion of the key.                                  *)

Carry ==
    /\ raw # Missing /\ carried < MaxBytes /\ carried' = carried + 1 /\ raw' = raw + 1
    /\ UNCHANGED <<stored, turn, place, sample, base, restarts>>

\* The backend restarts, or its peer goes (drift) and comes back with a new counter.
RestartCounter ==
    /\ restarts < MaxRestarts /\ restarts' = restarts + 1 /\ raw' \in {0, Missing}
    /\ UNCHANGED <<stored, turn, place, sample, base, carried>>

PeerBack ==
    /\ raw = Missing /\ keyRow /\ raw' = 0
    /\ UNCHANGED <<stored, turn, place, sample, base, restarts, carried>>

\* hard_delete_with_stats: the total moves to the archive in one transaction.
DeleteKey ==
    /\ keyRow /\ keyRow' = FALSE /\ archived' = total /\ total' = 0 /\ lastRaw' = Missing /\ raw' = Missing
    /\ UNCHANGED <<turn, place, sample, base, restarts, carried>>

Refresh(r) == TakeTurn(r) \/ TakeSample(r) \/ ReadBase(r) \/ StoreTotal(r)

TrfNext == (\E r \in Refreshers : AskRefresh(r) \/ Refresh(r)) \/ Carry \/ RestartCounter \/ PeerBack \/ DeleteKey

TrfSpec == TrfInit /\ [][TrfNext]_trfVars
TrfFairness == \A r \in Refreshers : WF_trfVars(TakeSample(r) \/ ReadBase(r) \/ StoreTotal(r)) /\ SF_trfVars(TakeTurn(r))

-----------------------------------------------------------------------------
(* Properties.                                                               *)

\* The values the state of the module takes.
TrfTypeOK ==
    /\ raw \in Counts \union {Missing} /\ keyRow \in BOOLEAN /\ total \in Counts
    /\ lastRaw \in Counts \union {Missing} /\ archived \in Counts \union {Missing}
    /\ turn \in Refreshers \union {"nobody"} /\ restarts \in 0 .. MaxRestarts /\ carried \in Counts
    /\ place \in [Refreshers -> {"idle", "wait", "sample", "read", "store"}]
    /\ sample \in [Refreshers -> Counts \union {Missing}]
    /\ base \in [Refreshers -> [total : Counts, raw : Counts \union {Missing}]]
    /\ (keyRow <=> archived = Missing)

\* No sample is counted twice: what is shown was carried, whatever overlaps or restarts.
NeverInflated == total <= carried /\ archived <= carried

\* As long as the backend has not restarted, what the total lacks is what came after the
\* last sample.
NothingLost == restarts = 0 /\ keyRow /\ lastRaw # Missing => total + (raw - lastRaw) = carried

\* Every refresh ends, also one whose key was deleted meanwhile.
RefreshesEnd == \A r \in Refreshers : []<>(place[r] = "idle")

\* Every byte is counted once: what is shown was carried, and without a restart of the
\* backend all of it is shown.
CountedOnce == NeverInflated /\ NothingLost
=============================================================================
