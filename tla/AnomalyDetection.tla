------------------------- MODULE AnomalyDetection -------------------------
(* The check of services/anomaly_detection.py on an AmneziaWG key and an Xray *)
(* key: addresses usedFrom in the peer table and in the access log, a full and a  *)
(* concurrent window over them, alerts with a cooldown, automatic revocation. *)
EXTENDS FiniteSets, Integers

CONSTANTS Ips,
          LastTick,          \* bound: the clock
          FullWindow, ConcurrentWindow, Cooldown,  \* the settings, in ticks
          MinUniqueIps

ASSUME AnomalySettings ==
    /\ IsFiniteSet(Ips) /\ LastTick \in Nat \ {0} /\ {FullWindow, ConcurrentWindow, Cooldown} \subseteq Nat
    /\ 0 < ConcurrentWindow /\ ConcurrentWindow <= FullWindow /\ MinUniqueIps \in Nat \ {0}

AnomalyKeys == {"awg", "xray"}
Ticks == 0 .. LastTick
Sample == Ticks \X Ips

VARIABLES tick,              \* the clock
          phase,             \* where check_all awaits; a check takes less than a tick
          activeKeys,        \* vpn_keys
          endpoint,          \* the address the peer table shows, or "none"
          observations,      \* _observations: samples of each key
          lastAlerted,       \* _last_alerted: 0 for none
          candidates,        \* keys the thresholds have still to be checked for
          suspect,           \* the key get_by_id is awaited for
          autoRevoke,
          usedFrom,              \* history, and the log: when which address used which key
          lastAlert          \* history: the time of the last alert of each key, 0 for none

memory == <<observations, lastAlerted>>
anoVars == <<tick, phase, activeKeys, endpoint, memory, candidates, suspect, autoRevoke, usedFrom, lastAlert>>

\* One key, of either kind: the check treats keys apart from each other.
AnoInit ==
    /\ tick = 1 /\ phase = "asleep" /\ activeKeys \in {{k} : k \in AnomalyKeys}
    /\ endpoint = "none" /\ observations = [k \in AnomalyKeys |-> {}]
    /\ lastAlerted = [k \in AnomalyKeys |-> 0] /\ candidates = {} /\ suspect = "none"
    /\ autoRevoke \in BOOLEAN /\ usedFrom = [k \in AnomalyKeys |-> {}] /\ lastAlert = [k \in AnomalyKeys |-> 0]

-----------------------------------------------------------------------------
(* The users, the administrators, the clock.                                 *)

\* A key is used from an address: the peer table shows the last one, the log every one.
Connect(k, ip) ==
    /\ phase = "asleep" /\ k \in activeKeys /\ usedFrom' = [usedFrom EXCEPT ![k] = @ \union {<<tick, ip>>}]
    /\ endpoint' = IF k = "awg" THEN ip ELSE endpoint
    /\ UNCHANGED <<tick, phase, activeKeys, memory, candidates, suspect, autoRevoke, lastAlert>>

Revoked(k) ==
    /\ activeKeys' = activeKeys \ {k}
    /\ endpoint' = IF k = "awg" THEN "none" ELSE endpoint

RevokedByHand(k) ==
    /\ k \in activeKeys /\ Revoked(k)
    /\ UNCHANGED <<tick, phase, memory, candidates, suspect, autoRevoke, usedFrom, lastAlert>>

Since(samples, moment) == {s \in samples : s[1] >= moment}

\* What is older than both windows together is dropped from the history.
TimePasses ==
    /\ phase = "asleep" /\ tick < LastTick /\ tick' = tick + 1
    /\ usedFrom' = [k \in AnomalyKeys |-> Since(usedFrom[k], tick' - FullWindow - ConcurrentWindow)]
    /\ UNCHANGED <<phase, activeKeys, endpoint, memory, candidates, suspect, autoRevoke, lastAlert>>

-----------------------------------------------------------------------------
(* check_all.                                                                *)

\* _sample_awg_endpoints: what the table shows now, or nothing when it cannot be read.
SampleEndpoints ==
    /\ phase = "asleep" /\ phase' = "xray"
    /\ \/ /\ "awg" \in activeKeys /\ endpoint # "none"
          /\ observations' = [observations EXCEPT !["awg"] = @ \union {<<tick, endpoint>>}]
       \/ UNCHANGED observations
    /\ UNCHANGED <<tick, activeKeys, endpoint, lastAlerted, candidates, suspect, autoRevoke, usedFrom, lastAlert>>

IpsOf(samples) == {s[2] : s \in samples}

\* _sample_xray_log: every line of the full window is recorded as of now, each time again.
SampleLog ==
    /\ phase = "xray" /\ phase' = "thresholds"
    /\ \/ /\ "xray" \in activeKeys
          /\ observations' = [observations EXCEPT !["xray"] =
                @ \union ({tick} \X IpsOf(Since(usedFrom["xray"], tick - FullWindow)))]
       \/ UNCHANGED observations
    /\ candidates' = {k \in AnomalyKeys : observations'[k] # {}}
    /\ UNCHANGED <<tick, activeKeys, endpoint, lastAlerted, suspect, autoRevoke, usedFrom, lastAlert>>

\* Mutant: the threshold is checked against the full window.
CheckThresholdFull(k) ==
    /\ phase = "thresholds" /\ suspect = "none" /\ k \in candidates /\ candidates' = candidates \ {k}
    /\ LET kept == Since(observations[k], tick - FullWindow) IN
       /\ observations' = [observations EXCEPT ![k] = kept]
       /\ suspect' = IF /\ Cardinality(IpsOf(kept)) >= MinUniqueIps
                        /\ lastAlerted[k] = 0 \/ tick - lastAlerted[k] >= Cooldown
                     THEN k ELSE "none"
    /\ UNCHANGED <<tick, phase, activeKeys, endpoint, lastAlerted, autoRevoke, usedFrom, lastAlert>>

\* _check_thresholds up to the read of the row: samples age out, and a key without any is
\* forgotten together with the time of its last alert.
CheckThreshold(k) ==
    /\ phase = "thresholds" /\ suspect = "none" /\ k \in candidates /\ candidates' = candidates \ {k}
    /\ LET kept == Since(observations[k], tick - FullWindow) IN
       /\ observations' = [observations EXCEPT ![k] = kept]
       /\ lastAlerted' = [lastAlerted EXCEPT ![k] = IF kept = {} THEN 0 ELSE @]
       /\ suspect' = IF /\ Cardinality(IpsOf(Since(kept, tick - ConcurrentWindow))) >= MinUniqueIps
                        /\ lastAlerted'[k] = 0 \/ tick - lastAlerted'[k] >= Cooldown
                     THEN k ELSE "none"
    /\ UNCHANGED <<tick, phase, activeKeys, endpoint, autoRevoke, usedFrom, lastAlert>>

\* The row of the suspect is read again, and _fire_alert revokes it when it may.
Alert ==
    /\ phase = "thresholds" /\ suspect # "none" /\ suspect' = "none"
    /\ \/ /\ suspect \in activeKeys
          /\ lastAlerted' = [lastAlerted EXCEPT ![suspect] = tick]
          /\ lastAlert' = [lastAlert EXCEPT ![suspect] = tick]
          /\ (autoRevoke /\ Revoked(suspect)) \/ UNCHANGED <<activeKeys, endpoint>>
       \/ suspect \notin activeKeys /\ UNCHANGED <<lastAlerted, lastAlert, activeKeys, endpoint>>
    /\ UNCHANGED <<tick, phase, observations, candidates, autoRevoke, usedFrom>>

CheckDone ==
    /\ phase = "thresholds" /\ suspect = "none" /\ candidates = {} /\ phase' = "asleep"
    /\ UNCHANGED <<tick, activeKeys, endpoint, memory, candidates, suspect, autoRevoke, usedFrom, lastAlert>>

AnoNext ==
    \/ \E k \in AnomalyKeys : RevokedByHand(k) \/ CheckThreshold(k) \/ \E ip \in Ips : Connect(k, ip)
    \/ TimePasses \/ SampleEndpoints \/ SampleLog \/ Alert \/ CheckDone

AnoSpec == AnoInit /\ [][AnoNext]_anoVars

-----------------------------------------------------------------------------
(* Properties.                                                               *)

\* The values the state of the module takes.
AnoTypeOK ==
    /\ tick \in Ticks /\ phase \in {"asleep", "xray", "thresholds"}
    /\ activeKeys \subseteq AnomalyKeys /\ endpoint \in Ips \union {"none"}
    /\ observations \in [AnomalyKeys -> SUBSET Sample] /\ lastAlerted \in [AnomalyKeys -> Ticks]
    /\ candidates \subseteq AnomalyKeys /\ suspect \in AnomalyKeys \union {"none"}
    /\ \A k \in AnomalyKeys : lastAlerted[k] \in {0, lastAlert[k]}

Fires(k) == suspect = k /\ suspect' = "none" /\ k \in activeKeys

UsedSince(k, moment) == Cardinality(IpsOf({s \in usedFrom[k] : s[1] >= moment}))

\* An alert rests on addresses that really used the key: an AmneziaWG peer has moved to all
\* but one of them since the concurrent window began; those of an Xray key are in the log of
\* the full window before it.
AlertHasEvidence ==
    [][\A k \in AnomalyKeys : Fires(k) =>
        IF k = "awg" THEN UsedSince(k, tick - ConcurrentWindow) >= MinUniqueIps - 1
        ELSE UsedSince(k, tick - ConcurrentWindow - FullWindow) >= MinUniqueIps]_anoVars

\* Two alerts of a key are at least the cooldown apart, or as long as its samples live.
AlertsAreApart ==
    [][\A k \in AnomalyKeys : Fires(k) /\ lastAlert[k] > 0 =>
        \/ tick - lastAlert[k] >= Cooldown
        \/ tick - lastAlert[k] > FullWindow - ConcurrentWindow]_anoVars

\* services/anomaly_detection.py:70: a key is revoked only for addresses that were in use
\* within the concurrent window.
RoamingIsNotRevoked ==
    [][Fires("xray") /\ "xray" \notin activeKeys'
        => UsedSince("xray", tick - ConcurrentWindow) >= MinUniqueIps]_anoVars

\* An alert has its evidence and comes once in a cooldown.
AlertsAreSound == AlertHasEvidence /\ AlertsAreApart
=============================================================================
