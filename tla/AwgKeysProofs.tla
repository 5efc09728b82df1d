--------------------------- MODULE AwgKeysProofs ---------------------------
(***************************************************************************)
(* Proofs about AwgKeys, for every set of keys, foreign peers and          *)
(* addresses, both modes, and any number of crashes and late helpers; and  *)
(* about AwgConfigFile, for every set of peers, any text with its markers  *)
(* in place or lost, and any number of changes by the administrator.       *)
(***************************************************************************)
EXTENDS MCAwgKeys, FiniteSetTheorems, SequenceTheorems, WellFoundedInduction, TLAPS

RemovePoints == {"compensating", "revoking", "deleting"}
JobPoints    == RemovePoints \cup {"adding", "row", "drift"}
CallPoints   == Points \ {"free", "row", "drift"}
DriftPasses  == Passes \ {"rows"}

\* where the lock is, what the call works on, and which adapter call it waits for
ControlInv ==
  /\ at \in CallPoints => phase = "up" /\ key \in Keys
  /\ phase = "down" => at = "free"
  /\ at = "row" => phase = "rows"
  /\ at = "drift" => phase \in DriftPasses
  /\ at \notin JobPoints => job = NoJob
  /\ at \in JobPoints => job.op # "none" /\ job.peer \in Keys /\ job.step # "none"
  /\ at = "adding" => job.op = "add" /\ job.peer = key
  /\ at \in RemovePoints => job.op = "remove" /\ job.peer = key
  /\ at = "row" => job.op = "remove"
  /\ at = "drift" => job.op = "remove" <=> phase # "drift_restore"
  /\ at \in {"row", "drift"} => job.peer \in todo
  /\ at = "revoking" => prev \in AccessMayExist
  /\ phase = "rows" => \A k \in todo : k \in Keys /\ status[k] \in AccessMayExist \ {"active"}
  /\ phase \in DriftPasses => ~failed

\* what the adapter has done when its call has come to a step
Candidate(op, p) == IF op = "add" THEN config \cup {p}
                    ELSE IF op = "remove" THEN config \ {p} ELSE config
JobInv ==
  at \in JobPoints =>
    /\ job.step \in {"begin", "apply"} => job.had = (job.peer \in config)
    /\ job.step = "apply" => job.text = Candidate(job.op, job.peer)
    /\ job.step = "runtime" => job.op # "sync" /\ (job.peer \in config <=> job.op = "add")
    /\ job.step = "ok" => IF job.op = "remove" THEN job.peer \notin config \cup runtime
                          ELSE job.peer \in config \cap runtime
    /\ job.op # "remove" \/ job.had => column[job.peer] # None

\* an address belongs to a row in whose status access may exist, and to no other
\* peer; whatever has a peer has an address
Addressed == {"active", "pending_apply", "apply_failed"}
AddressInv ==
  /\ \A k \in Keys : column[k] # None => column[k] = ip[k] /\ status[k] \in AccessMayExist
  /\ \A k \in Keys : status[k] \in Addressed \/ k \in config \cup runtime => column[k] # None
  /\ \A k, l \in Keys : column[k] = column[l] /\ column[k] # None => k = l
  /\ \A p \in config \cap Foreign : ip[p] # None
  /\ \A k \in Keys, p \in config \cap Foreign : column[k] # ip[p]
  /\ \A p, q \in config \cap Foreign : ip[p] = ip[q] => p = q
  /\ at = "revoking" => (prev \in Addressed => column[key] # None)

\* a call keeps its key's row and peers at each of its points
PointInv ==
  /\ at \in {"created", "adding", "create_failed", "activating", "compensating"} =>
       status[key] = "pending_apply"
  /\ at = "revoking" => status[key] = "pending_revoke"
  /\ at \in {"deleting", "erasing"} => status[key] = "pending_delete"
  /\ at = "erasing" => column[key] = None
  /\ at = "row" /\ job.peer \notin hurt => status[job.peer] = "delete_failed"
  /\ at \in CallPoints /\ key \notin hurt =>
       /\ at \in {"created", "create_failed"} => key \notin config \cup runtime
       /\ at = "activating" => key \in config \cap runtime
       /\ at = "adding" =>
            /\ ~job.had
            /\ job.step \in {"begin", "apply", "raised"} => key \notin config \cup runtime
       /\ at = "revoking" =>
            /\ prev = "active" => job.had
            /\ job.had => prev \in {"active", "delete_failed"}
            /\ prev \notin {"pending_apply", "pending_revoke", "pending_delete"}
            /\ job.step \in {"begin", "apply", "raised"} => Agrees(key, prev)

\* every other key that nothing was cut short on agrees with its row, always
RestInv ==
  /\ \A k \in Keys \ hurt : (at \in CallPoints => k # key) => Agrees(k, status[k])
  /\ phase \in DriftPasses => todo \cap Keys \subseteq hurt

\* how far each pass of the startup has brought the rows and the peers
Closed(k) == status[k] \in {"none", "active", "apply_failed", "revoked", "gone"}
StartupInv ==
  /\ phase = "rows" /\ ~failed => \A k \in Keys \ todo : Closed(k)
  /\ phase \in DriftPasses => \A k \in Keys : Closed(k)
  /\ phase = "drift_rows" =>
       \A k \in todo \cup (Keys \cap (config \cup runtime)) : k \notin todo <=> status[k] = "active"
  /\ phase \in DriftPasses \ {"drift_rows"} => (config \cup runtime) \cap Keys \subseteq ActiveKeys
  /\ phase = "drift_orphans" => config \ ActiveKeys \subseteq todo /\ todo \cap Keys = {}
  /\ phase \in {"drift_restore", "drift_runtime"} => config \subseteq ActiveKeys
  /\ phase = "drift_restore" => todo \subseteq ActiveKeys /\ ActiveKeys \ todo \subseteq config \cap runtime
  /\ phase = "drift_runtime" =>
       ActiveKeys \subseteq config \cap runtime /\ runtime \ ActiveKeys \subseteq todo /\ todo \cap Keys = {}

\* What holds of rows and peers together while no late helper has landed.
KeysInv == JobInv /\ AddressInv /\ PointInv /\ RestInv /\ StartupInv

\* The inductive invariant.
IInv == TypeOK /\ ControlInv /\ (landed = "no" => KeysInv)

------------------------------------------------------------------------------

\* An empty database, whatever foreign peers there are, satisfies the invariant.
LEMMA InitIInv == Init => IInv
  <1> SUFFICES ASSUME Init PROVE IInv
    OBVIOUS
  <1>1. PICK f \in [config \cup runtime -> Ips] :
          /\ \A p, q \in DOMAIN f : f[p] = f[q] => p = q
          /\ ip = [p \in Peers |-> IF p \in DOMAIN f THEN f[p] ELSE None]
    BY DEF Init
  <1>2. config \subseteq Foreign /\ runtime \subseteq Foreign
    BY DEF Init
  <1>3. TypeOK
    <2>1. /\ status \in [Keys -> Statuses] /\ column \in [Keys -> Ips \cup {None}]
          /\ ip \in [Peers -> Ips \cup {None}]
      BY <1>1, <1>2 DEF Init, Statuses, Peers
    <2>2. crashes \in 0..MaxCrashes /\ timeouts \in 0..MaxTimeouts
      BY BoundsAssumption DEF Init
    <2>3. config \subseteq Peers /\ runtime \subseteq Peers
      BY <1>2 DEF Peers
    <2>4. QED
      BY <2>1, <2>2, <2>3 DEF Init, TypeOK, Points, NoJob, Statuses
  <1>4. ControlInv
    BY DEF Init, ControlInv, Points, CallPoints, JobPoints, RemovePoints, DriftPasses, Passes
  <1>5. AddressInv
    <2>1. \A k \in Keys, p \in config \cap Foreign : column[k] # ip[p] /\ ip[p] # None
      BY <1>1, <1>2, NoneAssumption DEF Init, Peers
    <2>2. \A p, q \in config \cap Foreign : ip[p] = ip[q] => p = q
      BY <1>1, <1>2 DEF Peers
    <2>3. \A k \in Keys : column[k] = None /\ status[k] = "none" /\ k \notin config \cup runtime
      BY <1>2, ForeignAssumption DEF Init
    <2>4. \A p \in config \cap Foreign : ip[p] # None
      BY <1>1, <1>2, NoneAssumption DEF Peers
    <2>5. at = "free"
      BY DEF Init
    <2>6. QED
      BY <2>1, <2>2, <2>3, <2>4, <2>5 DEF AddressInv, Addressed
  <1>6. JobInv /\ PointInv /\ RestInv /\ StartupInv
    BY <1>2, ForeignAssumption
    DEF Init, JobInv, PointInv, RestInv, StartupInv, Agrees, JobPoints, RemovePoints, CallPoints,
        DriftPasses, Passes
  <1>7. QED
    BY <1>3, <1>4, <1>5, <1>6 DEF IInv, KeysInv

Jobs == [op : {"none", "add", "remove", "sync"}, peer : Peers \cup {None},
         step : {"none", "begin", "runtime", "apply"} \cup Outcomes,
         had : BOOLEAN, text : SUBSET Peers]

\* What one step writes into the record of the adapter call.
LEMMA JobStep ==
  ASSUME NEW j \in Jobs, NEW s
  PROVE  LET t == [j EXCEPT !.step = s]
         IN /\ t.op = j.op /\ t.peer = j.peer /\ t.had = j.had /\ t.text = j.text /\ t.step = s
            /\ s \in {"none", "begin", "runtime", "apply"} \cup Outcomes => t \in Jobs
  BY Zenon DEF Jobs

\* The same for the step that also keeps the candidate.
LEMMA JobApply ==
  ASSUME NEW j \in Jobs, NEW x \in SUBSET Peers
  PROVE  LET t == [j EXCEPT !.step = "apply", !.text = x]
         IN /\ t.op = j.op /\ t.peer = j.peer /\ t.had = j.had /\ t.text = x /\ t.step = "apply"
            /\ t \in Jobs
  BY Zenon DEF Jobs

\* A step of the adapter belongs to a call, and leaves the rows, the process and
\* the holder of the lock alone.
LEMMA AdapterFrames ==
  ASSUME TypeOK, ControlInv, Adapter
  PROVE  /\ at \in JobPoints /\ job.peer \in Keys /\ job.op # "none" /\ job.step \notin {"none"} \cup Outcomes
         /\ rows' = rows /\ queued' = queued /\ at' = at /\ key' = key /\ prev' = prev
         /\ bootVars' = bootVars /\ mode' = mode /\ landed' = landed
         /\ job'.op = job.op /\ job'.peer = job.peer /\ job'.had = job.had
         /\ job' \in Jobs /\ job'.step # "none"
  <1>0. job \in Jobs
    BY DEF TypeOK, Jobs
  <1>1. job.step \in {"begin", "runtime", "apply"}
    BY DEF Adapter, AddStep, RemoveStep, SyncStep, HelperStep, AddConfig, AddRuntime, AddRaises,
           RemoveConfig, RemoveRuntime, RemoveRaises, SyncRuntime, SyncRaises, HelperCandidate,
           HelperApplies, HelperFails, HelperTimesOut, JobAt
  <1>2. at \in JobPoints /\ job.peer \in Keys /\ job.op # "none"
    BY <1>1 DEF ControlInv, NoJob
  <1>3. /\ rows' = rows /\ queued' = queued /\ at' = at /\ key' = key /\ prev' = prev
        /\ bootVars' = bootVars /\ mode' = mode /\ landed' = landed
    BY DEF Adapter, AddStep, RemoveStep, SyncStep, HelperStep, AddConfig, AddRuntime, AddRaises,
           RemoveConfig, RemoveRuntime, RemoveRaises, SyncRuntime, SyncRaises, HelperCandidate,
           HelperApplies, HelperFails, HelperTimesOut, AdapterFrame, lateVars
  <1>4. \/ \E s \in {"runtime"} \cup Outcomes : job' = [job EXCEPT !.step = s]
        \/ \E x \in SUBSET Peers : job' = [job EXCEPT !.step = "apply", !.text = x]
    <2>1. CASE HelperCandidate
      <3>1. /\ config \cup {job.peer} \subseteq Peers
            /\ config \ {job.peer} \subseteq Peers /\ config \subseteq Peers
        BY <1>2 DEF TypeOK, Peers
      <3>2. QED
        BY <2>1, <3>1 DEF HelperCandidate, Step, Outcomes
    <2>2. CASE ~HelperCandidate
      BY <2>2 DEF Adapter, AddStep, RemoveStep, SyncStep, HelperStep, AddConfig, AddRuntime, AddRaises,
           RemoveConfig, RemoveRuntime, RemoveRaises, SyncRuntime, SyncRaises,
           HelperApplies, HelperFails, HelperTimesOut, Step, Outcomes
    <2>3. QED
      BY <2>1, <2>2
  <1>5. /\ job'.op = job.op /\ job'.peer = job.peer /\ job'.had = job.had
        /\ job' \in Jobs /\ job'.step # "none"
    <2>1. ASSUME NEW s \in {"runtime"} \cup Outcomes, job' = [job EXCEPT !.step = s]
          PROVE  /\ job'.op = job.op /\ job'.peer = job.peer /\ job'.had = job.had
                 /\ job' \in Jobs /\ job'.step # "none"
      BY <1>0, <2>1, JobStep DEF Outcomes
    <2>2. ASSUME NEW x \in SUBSET Peers, job' = [job EXCEPT !.step = "apply", !.text = x]
          PROVE  /\ job'.op = job.op /\ job'.peer = job.peer /\ job'.had = job.had
                 /\ job' \in Jobs /\ job'.step # "none"
      BY <1>0, <2>2, JobApply
    <2>3. QED
      BY <1>4, <2>1, <2>2
  <1>6. QED
    BY <1>1, <1>2, <1>3, <1>5 DEF Outcomes

\* The step an action of the adapter writes is the one found in the record.
LEMMA StepTaken ==
  ASSUME TypeOK, NEW s, Step(s)
  PROVE  job'.step = s
  <1>1. job \in Jobs
    BY DEF TypeOK, Jobs
  <1>2. QED
    BY <1>1, JobStep DEF Step

\* A step of the adapter keeps the types and what the lock is held for.
LEMMA AdapterControl ==
  ASSUME TypeOK, ControlInv, Adapter
  PROVE  TypeOK' /\ ControlInv'
  <1>1. /\ config' \subseteq Peers /\ runtime' \subseteq Peers /\ hurt' \subseteq Keys
        /\ late' \subseteq SUBSET Peers /\ timeouts' \in 0..MaxTimeouts
    <2>1. /\ job.peer \in Peers /\ job.text \subseteq Peers /\ config \subseteq Peers
          /\ runtime \subseteq Peers /\ hurt \subseteq Keys /\ late \subseteq SUBSET Peers
          /\ timeouts \in 0..MaxTimeouts
      BY AdapterFrames DEF TypeOK, Peers
    <2> HIDE DEF Adapter
    <2>2. CASE AddStep
      BY <2>1, <2>2 DEF AddStep, AddConfig, AddRuntime, AddRaises, Before, Hurts, peers,
                        AdapterFrame, lateVars
    <2>3. CASE RemoveStep
      BY <2>1, <2>3 DEF RemoveStep, RemoveConfig, RemoveRuntime, RemoveRaises, Before, Hurts,
                        peers, AdapterFrame, lateVars
    <2>4. CASE SyncStep
      BY <2>1, <2>4 DEF SyncStep, SyncRuntime, SyncRaises, AdapterFrame, lateVars
    <2>5. CASE HelperCandidate \/ HelperApplies \/ HelperFails
      BY <2>1, <2>5 DEF HelperCandidate, HelperApplies, HelperFails, Hurts, peers,
                        AdapterFrame, lateVars
    <2>6. CASE HelperTimesOut
      BY <2>1, <2>6, BoundsAssumption DEF HelperTimesOut, peers
    <2>7. QED
      BY <2>2, <2>3, <2>4, <2>5, <2>6 DEF Adapter, HelperStep
  <1>2. TypeOK'
    BY <1>1, AdapterFrames DEF TypeOK, Jobs, rows, bootVars
  <1>3. ControlInv'
    BY AdapterFrames DEF ControlInv, rows, bootVars
  <1>4. QED
    BY <1>2, <1>3

\* Apart from the peer p, the sets A and B are the same.
Same(A, B, p) == \A q \in Peers \ {p} : q \in A <=> q \in B

\* what a step of the adapter may do: it moves one peer of one key, at most copies
\* the file to the interface, and a call that fails is as it was or is remembered
Effect ==
  /\ Same(config', config, job.peer)
  /\ Same(runtime', runtime, job.peer) \/ Same(runtime', config, job.peer)
  /\ job.op = "remove" /\ job.peer \in config' \cup runtime' =>
       job.peer \in config \cup runtime \/ job.had
  /\ hurt \subseteq hurt' /\ hurt' \subseteq hurt \cup {job.peer}
  /\ job.op # "sync" /\ job'.step \in {"begin", "apply", "raised"} /\ job.peer \notin hurt' =>
       \/ (job.peer \in config' <=> job.had) /\ (job.peer \in runtime' <=> job.had)
       \/ /\ job.step \in {"begin", "apply"}
          /\ job.peer \in config' <=> job.peer \in config
          /\ job.peer \in runtime' <=> job.peer \in runtime

\* Every step of the adapter has such an effect, and its record stays true.
LEMMA AdapterEffect ==
  ASSUME TypeOK, ControlInv, JobInv, Adapter
  PROVE  Effect /\ JobInv'
  <1> DEFINE p == job.peer
  <1>1. /\ at \in JobPoints /\ p \in Keys /\ p \in Peers /\ job.op \in {"add", "remove", "sync"}
        /\ job.had \in BOOLEAN /\ at' = at /\ column' = column
        /\ job'.op = job.op /\ job'.peer = p /\ job'.had = job.had
        /\ config \subseteq Peers /\ runtime \subseteq Peers
    BY AdapterFrames DEF TypeOK, Peers, rows
  <1>2. /\ job.step \in {"begin", "apply"} => job.had = (p \in config)
        /\ job.step = "apply" => job.text = Candidate(job.op, p)
        /\ job.step = "runtime" => job.op # "sync" /\ (p \in config <=> job.op = "add")
        /\ job.op # "remove" \/ job.had => column[p] # None
    BY <1>1 DEF JobInv
  <1>3. job.step = "apply" =>
          /\ Same(job.text, config, p)
          /\ job.op = "add" => p \in job.text
          /\ job.op = "remove" => p \notin job.text
          /\ job.op = "sync" => job.text = config
    BY <1>1, <1>2 DEF Candidate, Same
  <1>4. Hurts => /\ hurt \subseteq hurt' /\ hurt' \subseteq hurt \cup {p}
                 /\ p \notin hurt' => (p \in config' <=> job.had) /\ (p \in runtime' <=> job.had)
    BY <1>1 DEF Hurts
  <1>5. JobInv' <=>
          /\ job'.step \in {"begin", "apply"} => job.had = (p \in config')
          /\ job'.step = "apply" =>
               job'.text = IF job.op = "add" THEN config' \cup {p}
                           ELSE IF job.op = "remove" THEN config' \ {p} ELSE config'
          /\ job'.step = "runtime" => job.op # "sync" /\ (p \in config' <=> job.op = "add")
          /\ job'.step = "ok" => IF job.op = "remove" THEN p \notin config' \cup runtime'
                                 ELSE p \in config' \cap runtime'
    BY <1>1, <1>2 DEF JobInv, Candidate
  <1>6. CASE AddConfig
    <2>1. job'.step \in {"ok", "runtime", "raised"}
      BY <1>6, StepTaken DEF AddConfig
    <2>2. /\ job'.step = "ok" => p \in config /\ p \in runtime
          /\ job'.step = "raised" => config' = config
          /\ job'.step = "runtime" => p \in config'
      BY <1>6, StepTaken DEF AddConfig
    <2>3. QED
      BY <1>1, <1>2, <1>5, <1>6, <2>1, <2>2 DEF AddConfig, JobAt, Effect, Same
  <1>7. CASE AddRuntime
    BY <1>1, <1>2, <1>5, <1>7, StepTaken DEF AddRuntime, JobAt, Effect, Same
  <1>8. CASE AddRaises
    <2>1. job'.step = "raised"
      BY <1>8, StepTaken DEF AddRaises
    <2>2. QED
      BY <1>1, <1>2, <1>4, <1>5, <1>8, <2>1 DEF AddRaises, Before, peers, Effect, Same
  <1>9. CASE RemoveConfig
    BY <1>1, <1>2, <1>5, <1>9, StepTaken DEF RemoveConfig, JobAt, Effect, Same
  <1>10. CASE RemoveRuntime
    BY <1>1, <1>2, <1>5, <1>10, StepTaken DEF RemoveRuntime, JobAt, Effect, Same
  <1>11. CASE RemoveRaises
    <2>1. job'.step = "raised"
      BY <1>11, StepTaken DEF RemoveRaises
    <2>2. QED
      BY <1>1, <1>2, <1>4, <1>5, <1>11, <2>1 DEF RemoveRaises, Before, peers, Effect, Same
  <1>12. CASE SyncRuntime \/ SyncRaises
    <2>1. /\ job.op = "sync" /\ config' = config /\ hurt' = hurt /\ runtime' \in {runtime, config}
          /\ job'.step \in Outcomes
          /\ job'.step = "ok" => p \in config /\ runtime' = config
      BY <1>12, StepTaken DEF SyncRuntime, SyncRaises, JobAt, Outcomes
    <2>2. QED
      BY <1>1, <1>2, <1>5, <2>1 DEF Effect, Same, Outcomes
  <1>13. CASE HelperCandidate
    <2>1. \/ job'.step = "raised"
          \/ job'.step = "apply" /\ job'.text = Candidate(job.op, p)
      <3>1. CASE Step("raised")
        BY <3>1, StepTaken
      <3>2. CASE ~Step("raised")
        <4>1. job' = [job EXCEPT !.step = "apply", !.text = Candidate(job.op, p)]
          BY <1>13, <3>2 DEF HelperCandidate, Candidate
        <4>2. job \in Jobs /\ Candidate(job.op, p) \in SUBSET Peers
          BY <1>1 DEF TypeOK, Jobs, Candidate
        <4>3. QED
          BY <4>1, <4>2, JobApply
      <3>3. QED
        BY <3>1, <3>2
    <2>2. config' = config /\ runtime' = runtime /\ hurt' = hurt /\ job.step = "begin"
      BY <1>13 DEF HelperCandidate, peers
    <2>3. Effect
      BY <1>1, <2>1, <2>2 DEF Effect, Same
    <2>4. JobInv'
      BY <1>2, <1>5, <2>1, <2>2 DEF Candidate
    <2>5. QED
      BY <2>3, <2>4
  <1>14. CASE HelperApplies
    <2>1. /\ job.step = "apply" /\ config' = job.text /\ runtime' = job.text /\ hurt' = hurt
          /\ job'.step \in Outcomes
          /\ job'.step = "raised" <=> job.op = "sync" /\ p \notin job.text
      BY <1>14, StepTaken DEF HelperApplies, Outcomes
    <2>2. QED
      BY <1>1, <1>2, <1>3, <1>5, <2>1 DEF Effect, Same, Outcomes
  <1>15. CASE HelperFails
    <2>1. job'.step = "raised" /\ Hurts
      BY <1>15, StepTaken DEF HelperFails
    <2>2. /\ config' = config \/ (job.step = "apply" /\ config' = job.text)
          /\ \/ runtime' = runtime \/ runtime' = config
             \/ job.step = "apply" /\ runtime' = job.text
      BY <1>15 DEF HelperFails, peers
    <2>3. QED
      BY <1>1, <1>2, <1>3, <1>4, <1>5, <2>1, <2>2 DEF Effect, Same
  <1>16. CASE HelperTimesOut
    <2>1. job'.step = "raised" /\ config' = config /\ runtime' = runtime /\ hurt' = hurt
      BY <1>16, StepTaken DEF HelperTimesOut, peers
    <2>2. QED
      BY <1>1, <1>2, <1>5, <1>16, <2>1 DEF HelperTimesOut, Effect, Same
  <1>17. QED
    BY <1>6, <1>7, <1>8, <1>9, <1>10, <1>11, <1>12, <1>13, <1>14, <1>15, <1>16
    DEF Adapter, AddStep, RemoveStep, SyncStep, HelperStep

\* A step of the adapter keeps rows, peers and addresses in agreement.
LEMMA AdapterKeys ==
  ASSUME TypeOK, ControlInv, KeysInv, Adapter
  PROVE  KeysInv'
  <1> DEFINE p == job.peer
  <1>1. /\ at \in JobPoints /\ p \in Keys /\ p \in Peers /\ Foreign \cap Keys = {}
        /\ job.op # "none" /\ job.step \notin {"none"} \cup Outcomes
        /\ status' = status /\ column' = column /\ ip' = ip /\ at' = at /\ key' = key
        /\ prev' = prev /\ phase' = phase /\ todo' = todo /\ failed' = failed
        /\ job'.op = job.op /\ job'.peer = p /\ job'.had = job.had
        /\ config \subseteq Peers /\ runtime \subseteq Peers /\ hurt \subseteq Keys
    BY AdapterFrames, ForeignAssumption DEF TypeOK, Peers, rows, bootVars
  <1>2. Effect /\ JobInv'
    BY AdapterEffect DEF KeysInv
  <1>3. TypeOK' /\ ControlInv'
    BY AdapterControl
  <1> HIDE DEF Adapter
  <1>4. /\ \A q \in Keys \ {p} : /\ q \in config' <=> q \in config
                                 /\ q \in runtime' => q \in config \cup runtime
                                 /\ q \in config \cap runtime => q \in runtime'
        /\ config' \cap Foreign = config \cap Foreign
        /\ p \in config' \cup runtime' /\ job.op = "remove" => p \in config \cup runtime \/ job.had
        /\ hurt \subseteq hurt' /\ hurt' \subseteq hurt \cup {p} /\ hurt' \subseteq Keys
    BY <1>1, <1>2, <1>3 DEF Effect, Same, Peers, TypeOK
  <1>5. /\ at \in CallPoints => /\ phase = "up" /\ p = key /\ p \in Keys
        /\ at \in {"row", "drift"} => p \in todo
        /\ at = "adding" => job.op = "add"
        /\ at \in RemovePoints => job.op = "remove"
        /\ at = "row" => phase = "rows" /\ job.op = "remove"
        /\ at = "drift" => phase \in DriftPasses /\ (job.op = "remove" <=> phase # "drift_restore")
        /\ at \in CallPoints \/ at \in {"row", "drift"}
        /\ at \in CallPoints => at \in {"adding"} \cup RemovePoints
    BY <1>1 DEF ControlInv, JobPoints, CallPoints, RemovePoints, Points
  <1>6. AddressInv'
    <2>1. p \in config' \cup runtime' => column[p] # None
      BY <1>1, <1>4 DEF KeysInv, JobInv, AddressInv
    <2>2. \A k \in Keys : k \in config' \cup runtime' => column[k] # None
      BY <1>4, <2>1 DEF KeysInv, AddressInv
    <2>3. QED
      BY <1>1, <1>4, <2>2 DEF KeysInv, AddressInv
  <1>7. PointInv'
    <2>1. CASE at = "adding"
      <3>1. key \notin hurt' =>
              /\ ~job.had
              /\ job.step \in {"begin", "apply"} => key \notin config \cup runtime
        BY <1>4, <1>5, <2>1 DEF KeysInv, PointInv, CallPoints, Points
      <3>2. key \notin hurt' /\ job'.step \in {"begin", "apply", "raised"} =>
              key \notin config' \cup runtime'
        BY <1>1, <1>2, <1>5, <2>1, <3>1 DEF Effect, CallPoints, Points
      <3>3. QED
        BY <1>1, <2>1, <3>1, <3>2 DEF KeysInv, PointInv
    <2>2. CASE at = "revoking"
      <3>1. key \notin hurt' =>
              /\ prev = "active" => job.had
              /\ job.had => prev \in {"active", "delete_failed"}
              /\ prev \notin {"pending_apply", "pending_revoke", "pending_delete"}
              /\ job.step \in {"begin", "apply"} => Agrees(key, prev)
        BY <1>1, <1>4, <1>5, <2>2 DEF KeysInv, PointInv, CallPoints, Points
      <3>2. key \notin hurt' /\ job'.step \in {"begin", "apply", "raised"} =>
              (Agrees(key, prev))'
        BY <1>1, <1>2, <1>5, <2>2, <3>1 DEF Effect, Agrees, RemovePoints
      <3>3. QED
        BY <1>1, <2>2, <3>1, <3>2 DEF KeysInv, PointInv
    <2>3. CASE at \in {"compensating", "deleting", "row", "drift"}
      BY <1>1, <1>4, <2>3 DEF KeysInv, PointInv
    <2>4. QED
      BY <1>5, <2>1, <2>2, <2>3 DEF RemovePoints
  <1>8. RestInv'
    <2>1. ASSUME NEW k \in Keys \ hurt', at \in CallPoints => k # key
          PROVE  (Agrees(k, status[k]))'
      <3>1. Agrees(k, status[k])
        BY <1>4, <2>1 DEF KeysInv, RestInv
      <3>2. CASE k # p
        BY <1>1, <1>4, <3>1, <3>2 DEF Agrees
      <3>3. CASE k = p
        <4>1. status[k] = "delete_failed"
          BY <1>4, <1>5, <2>1, <3>3, <1>1 DEF KeysInv, PointInv, RestInv
        <4>2. QED
          BY <1>1, <4>1 DEF Agrees
      <3>4. QED
        BY <3>2, <3>3
    <2>2. phase \in DriftPasses => todo \cap Keys \subseteq hurt'
      BY <1>4 DEF KeysInv, RestInv
    <2>3. QED
      BY <1>1, <1>4, <2>1, <2>2 DEF RestInv
  <1>9. StartupInv'
    <2>1. CASE phase \notin DriftPasses
      BY <1>1, <2>1 DEF KeysInv, StartupInv, Closed, DriftPasses, Passes
    <2>2. CASE phase = "drift_rows"
      <3>1. p \in todo /\ job.op = "remove"
        BY <1>5, <2>2 DEF DriftPasses, Passes, ControlInv, CallPoints
      <3>2. QED
        BY <1>1, <1>4, <2>2, <3>1 DEF KeysInv, StartupInv, Closed, DriftPasses, Passes
    <2>3. CASE phase \in {"drift_orphans", "drift_runtime"}
      BY <1>1, <1>5, <2>3 DEF KeysInv, StartupInv, ActiveKeys
    <2>4. CASE phase = "drift_restore"
      <3>1. p \in todo
        BY <1>5, <2>4 DEF DriftPasses, Passes, ControlInv, CallPoints
      <3>2. ActiveKeys' = ActiveKeys /\ ActiveKeys \subseteq Keys
        BY <1>1 DEF ActiveKeys
      <3>3. config \subseteq Keys /\ todo \subseteq ActiveKeys /\ ActiveKeys \ todo \subseteq config \cap runtime
            /\ config \subseteq ActiveKeys /\ (config \cup runtime) \cap Keys \subseteq ActiveKeys
        BY <2>4, <3>2 DEF KeysInv, StartupInv, DriftPasses, Passes
      <3>4. /\ config' \subseteq ActiveKeys /\ ActiveKeys \ todo \subseteq config' \cap runtime'
            /\ (config' \cup runtime') \cap Keys \subseteq ActiveKeys
        BY <1>1, <1>3, <1>4, <3>1, <3>2, <3>3 DEF TypeOK, Peers
      <3>5. QED
        BY <1>1, <2>4, <3>2, <3>3, <3>4 DEF KeysInv, StartupInv, Closed, DriftPasses, Passes
    <2>5. QED
      BY <2>1, <2>2, <2>3, <2>4 DEF DriftPasses, Passes
  <1>10. QED
    BY <1>2, <1>6, <1>7, <1>8, <1>9 DEF KeysInv

------------------------------------------------------------------------------

\* The record of a new adapter call for a key.
LEMMA AskedJob ==
  ASSUME TypeOK, NEW op \in {"add", "remove", "sync"}, NEW k \in Keys, NEW point, Ask(op, k, point)
  PROVE  /\ at' = point /\ job' \in Jobs /\ job'.op = op /\ job'.peer = k /\ job'.step = "begin"
         /\ job'.had = (k \in config)
  BY DEF TypeOK, Ask, Jobs, Peers

\* No record, between two adapter calls.
LEMMA NoJobIsJob == NoJob \in Jobs
  BY DEF NoJob, Jobs

\* The steps of a call happen while the process is up, and move no peer.
LEMMA CallFrames ==
  ASSUME TypeOK, ControlInv, CallStep
  PROVE  /\ phase = "up" /\ phase' = phase /\ todo' = todo /\ failed' = failed
         /\ crashes' = crashes /\ degraded' \in BOOLEAN
         /\ config' = config /\ runtime' = runtime /\ lateVars' = lateVars
         /\ queued' \subseteq queued /\ at \notin {"row", "drift"}
  <1>1. phase = "up" /\ at \notin {"row", "drift"}
    BY DEF ControlInv, CallStep, CreateAdd, CreateAdded, CreateFail, CreateActivate, Compensated,
      CompensateRaised, Revoked, Deleted, DeleteRaised, WriteRaises, CreateRow, Revoke, Delete,
      Check, Refused, Take, CallPoints, Points
  <1>2. /\ phase' = phase /\ todo' = todo /\ failed' = failed /\ crashes' = crashes
        /\ degraded' \in {degraded, TRUE}
        /\ config' = config /\ runtime' = runtime /\ lateVars' = lateVars
        /\ queued' \subseteq queued
    BY DEF CallStep, CreateAdd, CreateAdded, CreateFail, CreateActivate, Compensated,
      CompensateRaised, Revoked, Deleted, DeleteRaised, WriteRaises, CreateRow, Revoke, Delete,
      Check, Refused, Take, CallFrame, bootVars, peers
  <1>3. QED
    BY <1>1, <1>2 DEF TypeOK

\* where a step of a call leaves the call
Held ==
  /\ at' \in Points /\ key' \in Keys \cup {None} /\ prev' \in Statuses /\ job' \in Jobs
  /\ at' # "free" => at' \in CallPoints /\ key' \in Keys
  /\ at' \notin JobPoints => job' = NoJob
  /\ at' \in JobPoints => job'.op # "none" /\ job'.peer = key' /\ job'.step # "none"
  /\ at' = "adding" => job'.op = "add"
  /\ at' \in RemovePoints => job'.op = "remove"
  /\ at' = "revoking" => prev' \in AccessMayExist

\* A call that ends leaves the lock free.
LEMMA Left == ASSUME Leave PROVE Held
  BY NoJobIsJob DEF Leave, Held, Points, JobPoints, RemovePoints, Statuses

\* A step of a call keeps the types and what the lock is held for.
LEMMA CallControl ==
  ASSUME TypeOK, ControlInv, CallStep
  PROVE  TypeOK' /\ ControlInv'
  <1> USE DEF AccessMayExist, RowStatuses, Statuses
  <1>0. /\ at \in CallPoints => key \in Keys /\ key # None
        /\ at \notin JobPoints => job = NoJob
        /\ key \in Keys \cup {None} /\ prev \in Statuses
    BY NoneAssumption DEF ControlInv, TypeOK
  <1>1. /\ status' \in [Keys -> Statuses] /\ column' \in [Keys -> Ips \cup {None}]
        /\ ip' \in [Peers -> Ips \cup {None}] /\ hurt' \subseteq Keys /\ Held
    <2>1. CASE CreateAdd
      <3>1. CASE Ask("add", key, "adding")
        <4>1. job' \in Jobs /\ job'.op = "add" /\ job'.peer = key /\ job'.step = "begin"
          BY <1>0, <2>1, <3>1, AskedJob DEF CreateAdd, CallPoints, Points
        <4>2. QED
          BY <1>0, <2>1, <3>1, <4>1 DEF CreateAdd, Ask, Held, TypeOK, rows, CallPoints, JobPoints,
                                        RemovePoints, Points
      <3>2. CASE at' = "create_failed" /\ UNCHANGED job
        BY <1>0, <2>1, <3>2, NoJobIsJob DEF CreateAdd, Held, TypeOK, rows, CallPoints, JobPoints,
                                        RemovePoints, Points
      <3>3. QED
        BY <2>1, <3>1, <3>2 DEF CreateAdd
    <2>2. CASE CreateAdded
      BY <1>0, <2>2, NoJobIsJob DEF CreateAdded, Held, TypeOK, rows, CallPoints, JobPoints,
                                    RemovePoints, Points
    <2>3. CASE CreateFail
      BY <1>0, <2>3, Left DEF CreateFail, SetStatus, TypeOK, CallPoints, Points
    <2>4. CASE CreateActivate
      <3>1. CASE SetStatus(key, "active") /\ Leave
        BY <1>0, <2>4, <3>1, Left DEF CreateActivate, SetStatus, TypeOK, CallPoints, Points
      <3>2. CASE Ask("remove", key, "compensating") /\ UNCHANGED <<rows, key, prev>>
        <4>1. job' \in Jobs /\ job'.op = "remove" /\ job'.peer = key /\ job'.step = "begin"
          BY <1>0, <2>4, <3>2, AskedJob DEF CreateActivate, CallPoints, Points
        <4>2. QED
          BY <1>0, <2>4, <3>2, <4>1 DEF CreateActivate, Ask, Held, TypeOK, rows, CallPoints,
                                        JobPoints, RemovePoints, Points
      <3>3. QED
        BY <2>4, <3>1, <3>2 DEF CreateActivate
    <2>5. CASE Compensated \/ DeleteRaised
      BY <1>0, <2>5, Left DEF Compensated, DeleteRaised, SetStatus, TypeOK, CallPoints, Points
    <2>6. CASE CompensateRaised \/ WriteRaises
      BY <1>0, <2>6, Left DEF CompensateRaised, WriteRaises, TypeOK, rows, CallPoints, Points
    <2>7. CASE Revoked \/ Deleted
      BY <1>0, <2>7, Left DEF Revoked, Deleted, SetStatus, TypeOK, CallPoints, Points
    <2>8. ASSUME NEW k \in Keys, NEW i \in Ips, CreateRow(k, i)
          PROVE  /\ status' \in [Keys -> Statuses] /\ column' \in [Keys -> Ips \cup {None}]
                 /\ ip' \in [Peers -> Ips \cup {None}] /\ hurt' \subseteq Keys /\ Held
      <3>1. at = "free"
        BY <2>8 DEF CreateRow, Take
      <3>2. QED
        BY <1>0, <2>8, <3>1, NoJobIsJob DEF CreateRow, Held, TypeOK, Peers, CallPoints, JobPoints,
                                      RemovePoints, Points
    <2>9. ASSUME NEW k \in Keys, Revoke(k) \/ Delete(k)
          PROVE  /\ status' \in [Keys -> Statuses] /\ column' \in [Keys -> Ips \cup {None}]
                 /\ ip' \in [Peers -> Ips \cup {None}] /\ hurt' \subseteq Keys /\ Held
      <3>1. at = "free"
        BY <2>9 DEF Revoke, Delete, Take
      <3>2. /\ status' \in [Keys -> Statuses] /\ column' = column /\ ip' = ip /\ hurt' = hurt
            /\ key' = k /\ prev' = status[k] /\ status[k] \in Statuses
        BY <2>9 DEF Revoke, Delete, SetStatus, TypeOK
      <3>3. CASE (Ask("remove", k, "revoking") /\ status[k] \in AccessMayExist) \/ Ask("remove", k, "deleting")
        <4>1. /\ job' \in Jobs /\ job'.op = "remove" /\ job'.peer = k /\ job'.step = "begin"
              /\ at' \in {"revoking", "deleting"} /\ (at' = "revoking" => status[k] \in AccessMayExist)
          BY <3>3, AskedJob
        <4>2. QED
          BY <3>2, <4>1 DEF Held, TypeOK, CallPoints, JobPoints, RemovePoints, Points
      <3>4. CASE at' = "erasing" /\ UNCHANGED job
        BY <1>0, <3>1, <3>2, <3>4, NoJobIsJob DEF Held, TypeOK, CallPoints, JobPoints,
                                                  RemovePoints, Points
      <3>5. QED
        BY <2>9, <3>3, <3>4 DEF Revoke, Delete
    <2>10. ASSUME NEW k \in Keys, Check(k)
           PROVE  /\ status' \in [Keys -> Statuses] /\ column' \in [Keys -> Ips \cup {None}]
                 /\ ip' \in [Peers -> Ips \cup {None}] /\ hurt' \subseteq Keys /\ Held
      <3>1. at = "free"
        BY <2>10 DEF Check, Take
      <3>2. QED
        BY <1>0, <2>10, <3>1, NoJobIsJob DEF Check, SetStatus, callVars, Held, TypeOK, CallPoints,
                                             JobPoints, RemovePoints, Points
    <2>11. ASSUME NEW r \in queued, Refused(r.op, r.key)
           PROVE  /\ status' \in [Keys -> Statuses] /\ column' \in [Keys -> Ips \cup {None}]
                 /\ ip' \in [Peers -> Ips \cup {None}] /\ hurt' \subseteq Keys /\ Held
      <3>1. at = "free"
        BY <2>11 DEF Refused, Take
      <3>2. QED
        BY <1>0, <2>11, <3>1, NoJobIsJob DEF Refused, rows, callVars, Held, TypeOK, CallPoints,
                                             JobPoints, RemovePoints, Points
    <2>12. QED
      BY <2>1, <2>2, <2>3, <2>4, <2>5, <2>6, <2>7, <2>8, <2>9, <2>10, <2>11 DEF CallStep
  <1>2. TypeOK'
    BY <1>1, CallFrames DEF TypeOK, Held, Jobs, lateVars
  <1>3. ControlInv'
    <2>1. phase' = "up"
      BY CallFrames
    <2>2. Held
      BY <1>1
    <2>3. QED
      BY <2>1, <2>2 DEF ControlInv, Held, CallPoints, JobPoints, RemovePoints, Points, Passes,
                        DriftPasses
  <1>4. QED
    BY <1>2, <1>3

\* Between calls the points of a call say nothing.
LEMMA LeftKeys ==
  ASSUME at' = "free"
  PROVE  JobInv' /\ PointInv'
  BY DEF JobInv, PointInv, JobPoints, RemovePoints, CallPoints, Points

\* A row that gets a new status, and may lose its address, keeps the addresses
\* exclusive as long as it has one when it needs one.
LEMMA AddressKept ==
  ASSUME TypeOK, AddressInv, NEW k \in Keys, NEW s,
         status' = [status EXCEPT ![k] = s],
         column' \in {column, [column EXCEPT ![k] = None]},
         ip' = ip, config' = config, runtime' = runtime,
         s \in Addressed \/ k \in config \cup runtime => column'[k] # None,
         column'[k] # None => s \in AccessMayExist,
         at' = "revoking" => (prev' \in Addressed => column'[key'] # None)
  PROVE  AddressInv'
  <1>1. /\ \A l \in Keys \ {k} : status'[l] = status[l] /\ column'[l] = column[l]
        /\ status'[k] = s /\ column'[k] \in {column[k], None}
    BY DEF TypeOK
  <1>2. \A l \in Keys : column'[l] # None => column'[l] = ip[l] /\ status'[l] \in AccessMayExist
    BY <1>1 DEF AddressInv
  <1>3. \A l \in Keys : status'[l] \in Addressed \/ l \in config \cup runtime => column'[l] # None
    BY <1>1 DEF AddressInv
  <1>4. \A l, m \in Keys : column'[l] = column'[m] /\ column'[l] # None => l = m
    BY <1>1 DEF AddressInv
  <1>5. \A l \in Keys, p \in config \cap Foreign : column'[l] # ip[p]
    <2>1. SUFFICES ASSUME NEW l \in Keys, NEW p \in config \cap Foreign, column'[l] = ip[p]
                   PROVE  FALSE
      OBVIOUS
    <2>2. column[l] # ip[p]
      BY DEF AddressInv
    <2>3. column'[l] = None /\ ip[p] = None
      BY <1>1, <2>1, <2>2
    <2>4. QED
      BY <2>3 DEF AddressInv
  <1>6. \A p \in config \cap Foreign : ip[p] # None
    BY DEF AddressInv
  <1>7. QED
    BY <1>2, <1>3, <1>4, <1>5, <1>6 DEF AddressInv

\* A step of a call keeps rows, peers and addresses in agreement.
LEMMA CallKeys ==
  ASSUME TypeOK, ControlInv, KeysInv, CallStep
  PROVE  KeysInv'
  <1>1. /\ phase = "up" /\ phase' = "up" /\ config' = config /\ runtime' = runtime
        /\ at \notin {"row", "drift"} /\ queued' \subseteq queued
    BY CallFrames
  <1>2. TypeOK' /\ ControlInv'
    BY CallControl
  <1>3. JobInv /\ AddressInv /\ PointInv /\ RestInv
    BY DEF KeysInv
  <1>4. /\ at \in CallPoints => key \in Keys /\ (at \in JobPoints => job.peer = key)
        /\ at \notin CallPoints => at = "free"
    BY <1>1 DEF ControlInv, TypeOK, CallPoints, JobPoints
  <1>5. StartupInv' /\ (phase' \in DriftPasses => todo' \cap Keys \subseteq hurt')
    BY <1>1 DEF StartupInv, DriftPasses, Passes
  <1> DEFINE Rest == \A k \in Keys \ hurt' : (at' \in CallPoints => k # key') => (Agrees(k, status[k]))'
  <1>6. SUFFICES JobInv' /\ AddressInv' /\ PointInv' /\ Rest
    BY <1>5 DEF KeysInv, RestInv
  <1>7. \A k \in Keys : \A s : (Agrees(k, s))' <=> Agrees(k, s)
    BY <1>1 DEF Agrees
  <1>8. ASSUME rows' = rows, at' \in CallPoints => at \in CallPoints, key' = key, hurt' = hurt,
               at \in CallPoints /\ at' \notin CallPoints => key \in hurt
        PROVE  Rest
    BY <1>3, <1>4, <1>7, <1>8 DEF RestInv, rows
  <1>9. CASE CreateAdd
    <2>1. /\ at = "created" /\ rows' = rows /\ key' = key /\ hurt' = hurt /\ at' \in {"adding", "create_failed"}
      BY <1>9 DEF CreateAdd, Ask
    <2>2. status[key] = "pending_apply" /\ column[key] # None /\ key \in Keys
      BY <1>3, <1>4, <2>1 DEF PointInv, AddressInv, Addressed, CallPoints, Points
    <2>3. at' = "adding" => /\ job'.op = "add" /\ job'.peer = key /\ job'.step = "begin"
                            /\ job'.had = (key \in config)
      BY <1>9, <2>2, AskedJob DEF CreateAdd
    <2>4. JobInv'
      BY <1>1, <2>1, <2>2, <2>3 DEF JobInv, JobPoints, RemovePoints, rows
    <2>5. AddressInv'
      BY <1>1, <1>3, <2>1 DEF AddressInv, rows
    <2>6. PointInv'
      BY <1>1, <1>3, <2>1, <2>2, <2>3 DEF PointInv, rows, CallPoints, Points
    <2>7. Rest
      BY <1>8, <2>1 DEF CallPoints, Points
    <2>8. QED
      BY <2>4, <2>5, <2>6, <2>7
  <1>10. CASE CreateAdded
    <2>1. /\ at = "adding" /\ rows' = rows /\ key' = key /\ hurt' = hurt
          /\ at' \in {"activating", "create_failed"}
          /\ at' = "activating" => job.step = "ok"
          /\ at' = "create_failed" => job.step = "raised"
      BY <1>10 DEF CreateAdded, Answer, Outcomes
    <2>2. status[key] = "pending_apply" /\ key \in Keys
      BY <1>3, <1>4, <2>1 DEF PointInv, CallPoints, Points
    <2>3. JobInv'
      BY <2>1 DEF JobInv, JobPoints, RemovePoints
    <2>4. AddressInv'
      BY <1>1, <1>3, <2>1 DEF AddressInv, rows
    <2>5. job.step = "ok" => key \in config \cap runtime
      BY <1>3, <1>4, <2>1 DEF JobInv, ControlInv, JobPoints, CallPoints, Points
    <2>6. PointInv'
      BY <1>1, <1>3, <2>1, <2>2, <2>5 DEF PointInv, rows, CallPoints, Points
    <2>7. Rest
      BY <1>8, <2>1 DEF CallPoints, Points
    <2>8. QED
      BY <2>3, <2>4, <2>6, <2>7
  \* the call ends: the key's row is written, or the key is left behind
  <1>11. ASSUME NEW s, Leave, at \in CallPoints, status' = [status EXCEPT ![key] = s],
                column' \in {column, [column EXCEPT ![key] = None]}, ip' = ip, hurt' = hurt,
                s \in Addressed \/ key \in config \cup runtime => column'[key] # None,
                column'[key] # None => s \in AccessMayExist,
                key \notin hurt => Agrees(key, s)
         PROVE  JobInv' /\ AddressInv' /\ PointInv' /\ Rest
    <2>1. at' = "free" /\ key \in Keys
      BY <1>4, <1>11 DEF Leave
    <2>2. AddressInv'
      BY <1>1, <1>3, <1>11, <2>1, AddressKept
    <2>3. Rest
      <3>1. \A k \in Keys \ {key} : status'[k] = status[k]
        BY <1>11 DEF TypeOK
      <3>2. status'[key] = s
        BY <1>11, <2>1 DEF TypeOK
      <3>3. QED
        BY <1>3, <1>7, <1>11, <2>1, <3>1, <3>2 DEF RestInv, CallPoints
    <2>4. QED
      BY <2>1, <2>2, <2>3, LeftKeys
  <1>12. CASE CreateFail
    <2>1. at = "create_failed" /\ SetStatus(key, "apply_failed") /\ Leave /\ hurt' = hurt
      BY <1>12 DEF CreateFail
    <2>2. /\ status[key] = "pending_apply" /\ key \in Keys /\ column[key] # None
          /\ key \notin hurt => key \notin config \cup runtime
      BY <1>3, <1>4, <2>1 DEF PointInv, AddressInv, Addressed, CallPoints, Points
    <2>3. key \notin hurt => Agrees(key, "apply_failed")
      BY <2>2 DEF Agrees
    <2>4. QED
      BY <1>11, <2>1, <2>2, <2>3 DEF SetStatus, CallPoints, Points, AccessMayExist, RowStatuses
  <1>13. CASE CreateActivate
    <2>1. at = "activating" /\ hurt' = hurt
      BY <1>13 DEF CreateActivate
    <2>2. /\ status[key] = "pending_apply" /\ key \in Keys /\ column[key] # None
          /\ key \notin hurt => key \in config \cap runtime
      BY <1>3, <1>4, <2>1 DEF PointInv, AddressInv, Addressed, CallPoints, Points
    <2>3. CASE SetStatus(key, "active") /\ Leave
      <3>1. key \notin hurt => Agrees(key, "active")
        BY <2>2 DEF Agrees
      <3>2. QED
        BY <1>11, <2>1, <2>2, <2>3, <3>1 DEF SetStatus, CallPoints, Points, AccessMayExist, RowStatuses
    <2>4. CASE Ask("remove", key, "compensating") /\ UNCHANGED <<rows, key, prev>>
      <3>1. /\ at' = "compensating" /\ job'.op = "remove" /\ job'.peer = key /\ job'.step = "begin"
            /\ job'.had = (key \in config) /\ rows' = rows /\ key' = key
        BY <2>2, <2>4, AskedJob
      <3>2. JobInv'
        BY <1>1, <2>1, <2>2, <3>1 DEF JobInv, JobPoints, RemovePoints, rows
      <3>3. AddressInv'
        BY <1>1, <1>3, <3>1 DEF AddressInv, rows
      <3>4. PointInv'
        BY <1>1, <2>1, <2>2, <3>1 DEF PointInv, rows, CallPoints, Points
      <3>5. Rest
        BY <1>8, <2>1, <3>1 DEF CallPoints, Points
      <3>6. QED
        BY <3>2, <3>3, <3>4, <3>5
    <2>5. QED
      BY <1>13, <2>3, <2>4 DEF CreateActivate
  <1>14. CASE Compensated
    <2>1. at = "compensating" /\ job.step = "ok" /\ SetStatus(key, "apply_failed") /\ Leave /\ hurt' = hurt
      BY <1>14 DEF Compensated, Answer
    <2>2. /\ status[key] = "pending_apply" /\ key \in Keys /\ column[key] # None
          /\ key \notin config \cup runtime
      BY <1>3, <1>4, <2>1 DEF PointInv, AddressInv, Addressed, JobInv, ControlInv, CallPoints,
                              JobPoints, RemovePoints, Points
    <2>3. Agrees(key, "apply_failed")
      BY <2>2 DEF Agrees
    <2>4. QED
      BY <1>11, <2>1, <2>2, <2>3 DEF SetStatus, CallPoints, Points, AccessMayExist, RowStatuses
  <1>15. CASE CompensateRaised \/ WriteRaises
    <2>1. at' = "free" /\ rows' = rows /\ hurt' = hurt \cup {key} /\ at \in CallPoints
      BY <1>15 DEF CompensateRaised, WriteRaises, Leave, CallPoints, Points
    <2>2. AddressInv'
      BY <1>1, <1>3, <2>1 DEF AddressInv, rows
    <2>3. Rest
      BY <1>3, <1>7, <2>1 DEF RestInv, rows, CallPoints
    <2>4. QED
      BY <2>1, <2>2, <2>3, LeftKeys
  <1>16. CASE Revoked
    <2>1. at = "revoking" /\ job.step \in Outcomes /\ Leave /\ ip' = ip /\ hurt' = hurt
      BY <1>16 DEF Revoked, SetStatus
    <2>2. key \in Keys /\ at \in CallPoints /\ prev \in AccessMayExist /\ at \in JobPoints
          /\ job.op = "remove" /\ job.peer = key
      BY <1>4, <2>1 DEF ControlInv, CallPoints, JobPoints, RemovePoints, Points
    <2>3. CASE job.step = "ok"
      <3>1. key \notin config \cup runtime
        BY <1>3, <2>2, <2>3 DEF JobInv
      <3>2. Agrees(key, "revoked")
        BY <3>1 DEF Agrees
      <3>3. /\ status' = [status EXCEPT ![key] = "revoked"]
            /\ column' = [column EXCEPT ![key] = None] /\ column'[key] = None
        BY <1>16, <2>2, <2>3 DEF Revoked, Answer, TypeOK
      <3>4. QED
        BY <1>11, <2>1, <2>2, <3>1, <3>2, <3>3 DEF Addressed
    <2>4. CASE job.step = "raised"
      <3>1. status' = [status EXCEPT ![key] = prev] /\ column' = column
        BY <1>16, <2>4 DEF Revoked, Answer, SetStatus
      <3>2. key \notin hurt => Agrees(key, prev)
        BY <1>3, <2>1, <2>2, <2>4 DEF PointInv
      <3>3. prev \in Addressed \/ key \in config \cup runtime => column[key] # None
        BY <1>3, <2>1, <2>2 DEF AddressInv
      <3>4. QED
        BY <1>11, <2>1, <2>2, <3>1, <3>2, <3>3
    <2>5. QED
      BY <2>1, <2>3, <2>4 DEF Outcomes
  <1>17. CASE Deleted
    <2>1. /\ at \in {"erasing", "deleting"} /\ Leave /\ ip' = ip /\ hurt' = hurt
          /\ at = "deleting" => job.step = "ok"
          /\ status' = [status EXCEPT ![key] = "gone"]
          /\ column' = [column EXCEPT ![key] = None]
      BY <1>17 DEF Deleted, Answer
    <2>2. key \in Keys /\ at \in CallPoints
      BY <1>4, <2>1 DEF CallPoints, Points
    <2>3. key \notin config \cup runtime
      BY <1>3, <2>1, <2>2 DEF PointInv, AddressInv, JobInv, ControlInv, JobPoints, RemovePoints
    <2>4. Agrees(key, "gone") /\ column'[key] = None
      BY <2>1, <2>2, <2>3 DEF Agrees, TypeOK
    <2>5. QED
      BY <1>11, <2>1, <2>2, <2>3, <2>4 DEF Addressed
  <1>18. CASE DeleteRaised
    <2>1. at = "deleting" /\ SetStatus(key, "delete_failed") /\ Leave /\ hurt' = hurt
      BY <1>18 DEF DeleteRaised
    <2>2. key \in Keys /\ at \in CallPoints
      BY <1>4, <2>1 DEF CallPoints, Points
    <2>3. key \in config \cup runtime => column[key] # None
      BY <1>3, <2>2 DEF AddressInv
    <2>4. Agrees(key, "delete_failed")
      BY DEF Agrees
    <2>5. QED
      BY <1>11, <2>1, <2>2, <2>3, <2>4 DEF SetStatus, Addressed, AccessMayExist, RowStatuses
  <1>19. ASSUME NEW k \in Keys, NEW i \in Ips, CreateRow(k, i)
         PROVE  JobInv' /\ AddressInv' /\ PointInv' /\ Rest
    <2>1. /\ at' = "created" /\ key' = k /\ hurt' = hurt /\ status[k] = "none" /\ i \in FreeIps
          /\ status' = [status EXCEPT ![k] = "pending_apply"]
          /\ column' = [column EXCEPT ![k] = i] /\ ip' = [ip EXCEPT ![k] = i]
          /\ at = "free"
      BY <1>19 DEF CreateRow, Take
    <2>2. /\ \A l \in Keys \ {k} : status'[l] = status[l] /\ column'[l] = column[l] /\ ip'[l] = ip[l]
          /\ \A p \in Foreign : ip'[p] = ip[p]
          /\ status'[k] = "pending_apply" /\ column'[k] = i /\ ip'[k] = i /\ i # None
          /\ \A p \in config : ip[p] # i
          /\ \A l \in Keys : status[l] \in AccessMayExist => column[l] # i
      BY <2>1, ForeignAssumption, NoneAssumption DEF TypeOK, Peers, FreeIps, ReservedIn
    <2>3. column[k] = None /\ k \notin config \cup runtime
      BY <1>3, <2>1 DEF AddressInv, AccessMayExist, RowStatuses
    <2>4. AddressInv'
      <3>1. \A l \in Keys : column'[l] # None => column'[l] = ip'[l] /\ status'[l] \in AccessMayExist
        BY <1>3, <2>2 DEF AddressInv, AccessMayExist, RowStatuses
      <3>2. \A l \in Keys : status'[l] \in Addressed \/ l \in config \cup runtime => column'[l] # None
        BY <1>3, <2>2 DEF AddressInv
      <3>3. \A l \in Keys : column[l] # i
        BY <1>3, <2>2 DEF AddressInv
      <3>4. \A l, m \in Keys : column'[l] = column'[m] /\ column'[l] # None => l = m
        BY <1>3, <2>2, <3>3 DEF AddressInv
      <3>5. /\ \A p \in config \cap Foreign : ip'[p] # None
            /\ \A l \in Keys, p \in config \cap Foreign : column'[l] # ip'[p]
            /\ \A p, q \in config \cap Foreign : ip'[p] = ip'[q] => p = q
        BY <1>3, <2>2 DEF AddressInv
      <3>6. QED
        BY <1>1, <2>1, <3>1, <3>2, <3>4, <3>5 DEF AddressInv
    <2>5. JobInv'
      BY <2>1 DEF JobInv, JobPoints, RemovePoints
    <2>6. PointInv'
      BY <1>1, <2>1, <2>2, <2>3 DEF PointInv, CallPoints, Points
    <2>7. Rest
      BY <1>3, <1>7, <2>1, <2>2 DEF RestInv, CallPoints, Points
    <2>8. QED
      BY <2>4, <2>5, <2>6, <2>7
  <1>20. ASSUME NEW k \in Keys, Revoke(k) \/ Delete(k)
         PROVE  JobInv' /\ AddressInv' /\ PointInv' /\ Rest
    <2>1. /\ at = "free" /\ key' = k /\ prev' = status[k] /\ column' = column /\ ip' = ip /\ hurt' = hurt
          /\ status[k] \in RowStatuses
      BY <1>20 DEF Revoke, Delete, Take, SetStatus, AccessMayExist
    <2>2. k \notin hurt => Agrees(k, status[k])
      BY <1>3, <2>1 DEF RestInv, CallPoints
    <2>3. ASSUME NEW s \in {"pending_revoke", "pending_delete"},
                 status' = [status EXCEPT ![k] = s], at' \in CallPoints
          PROVE  /\ AddressInv' /\ Rest /\ status'[k] = s
      <3>1. \A l \in Keys \ {k} : status'[l] = status[l]
        BY <2>3 DEF TypeOK
      <3>2. status'[k] = s
        BY <2>3 DEF TypeOK
      <3>3. /\ s \in Addressed \/ k \in config \cup runtime => column[k] # None
            /\ column[k] # None => s \in AccessMayExist
            /\ status[k] \in Addressed => column[k] # None
        BY <1>3 DEF AddressInv, Addressed, AccessMayExist, RowStatuses
      <3>4. AddressInv'
        BY <1>1, <1>3, <2>1, <2>3, <3>3, AddressKept
      <3>5. Rest
        BY <1>3, <1>7, <2>1, <2>3, <3>1 DEF RestInv, CallPoints
      <3>6. QED
        BY <3>2, <3>4, <3>5
    <2>4. ASSUME NEW point \in {"revoking", "deleting"}, Ask("remove", k, point)
          PROVE  /\ JobInv' /\ at' = point /\ job'.had = (k \in config) /\ at' \in CallPoints
      <3>1. /\ at' = point /\ job'.op = "remove" /\ job'.peer = k /\ job'.step = "begin"
            /\ job'.had = (k \in config)
        BY <2>4, AskedJob
      <3>2. k \in config => column[k] # None
        BY <1>3 DEF AddressInv
      <3>3. QED
        BY <1>1, <2>1, <3>1, <3>2 DEF JobInv, CallPoints, Points
    <2>5. CASE Revoke(k)
      <3>1. /\ status' = [status EXCEPT ![k] = "pending_revoke"] /\ Ask("remove", k, "revoking")
        BY <2>5 DEF Revoke, SetStatus
      <3>2. /\ JobInv' /\ at' = "revoking" /\ job'.had = (k \in config)
            /\ AddressInv' /\ Rest /\ status'[k] = "pending_revoke"
        BY <2>3, <2>4, <3>1
      <3>3. PointInv'
        BY <1>1, <2>1, <2>2, <3>2 DEF PointInv, Agrees, CallPoints, Points
      <3>4. QED
        BY <3>2, <3>3
    <2>6. CASE Delete(k) /\ status[k] \in AccessMayExist
      <3>1. /\ status' = [status EXCEPT ![k] = "pending_delete"] /\ Ask("remove", k, "deleting")
        BY <2>6 DEF Delete, SetStatus
      <3>2. /\ JobInv' /\ at' = "deleting" /\ AddressInv' /\ Rest /\ status'[k] = "pending_delete"
        BY <2>3, <2>4, <3>1
      <3>3. PointInv'
        BY <2>1, <3>2 DEF PointInv, CallPoints, Points
      <3>4. QED
        BY <3>2, <3>3
    <2>7. CASE Delete(k) /\ status[k] \notin AccessMayExist
      <3>1. status' = [status EXCEPT ![k] = "pending_delete"] /\ at' = "erasing"
        BY <2>7 DEF Delete, SetStatus
      <3>2. AddressInv' /\ Rest /\ status'[k] = "pending_delete"
        BY <2>3, <3>1 DEF CallPoints, Points
      <3>3. column[k] = None
        BY <1>3, <2>7 DEF AddressInv
      <3>4. PointInv'
        BY <2>1, <3>1, <3>2, <3>3 DEF PointInv, CallPoints, Points
      <3>5. JobInv'
        BY <3>1 DEF JobInv, JobPoints, RemovePoints
      <3>6. QED
        BY <3>2, <3>4, <3>5
    <2>8. QED
      BY <1>20, <2>5, <2>6, <2>7
  <1>21. ASSUME NEW k \in Keys, Check(k)
         PROVE  JobInv' /\ AddressInv' /\ PointInv' /\ Rest
    <2>1. /\ at = "free" /\ at' = "free" /\ column' = column /\ ip' = ip /\ hurt' = hurt
          /\ \E s \in {"active", "apply_failed"} : status' = [status EXCEPT ![k] = s]
          /\ status[k] \in {"pending_apply", "apply_failed"}
          /\ status[k] = "apply_failed" => k \in config
      BY <1>21 DEF Check, Take, SetStatus, callVars
    <2>2. column[k] # None /\ k \in hurt
      BY <1>3, <2>1 DEF AddressInv, Addressed, RestInv, CallPoints, Agrees
    <2>3. PICK s \in {"active", "apply_failed"} : status' = [status EXCEPT ![k] = s]
      BY <2>1
    <2>4. AddressInv'
      BY <1>1, <1>3, <2>1, <2>2, <2>3, AddressKept DEF AccessMayExist, RowStatuses
    <2>5. \A l \in Keys \ {k} : status'[l] = status[l]
      BY <2>3 DEF TypeOK
    <2>6. Rest
      BY <1>3, <1>7, <2>1, <2>2, <2>5 DEF RestInv, CallPoints
    <2>7. QED
      BY <2>1, <2>4, <2>6, LeftKeys
  <1>22. ASSUME NEW r \in queued, Refused(r.op, r.key)
         PROVE  JobInv' /\ AddressInv' /\ PointInv' /\ Rest
    <2>1. at' = "free" /\ rows' = rows /\ hurt' = hurt
      BY <1>22 DEF Refused, Take, callVars
    <2>2. at = "free"
      BY <1>22 DEF Refused, Take
    <2>3. AddressInv'
      BY <1>1, <1>3, <2>1 DEF AddressInv, rows
    <2>4. Rest
      BY <1>3, <1>7, <2>1, <2>2 DEF RestInv, rows, CallPoints
    <2>5. QED
      BY <2>1, <2>3, <2>4, LeftKeys
  <1>23. QED
    BY <1>9, <1>10, <1>12, <1>13, <1>14, <1>15, <1>16, <1>17, <1>18, <1>19, <1>20, <1>21, <1>22
    DEF CallStep

------------------------------------------------------------------------------

\* A step of the startup writes no address but a released one, and takes calls
\* from nobody.
LEMMA StartupFrames ==
  ASSUME TypeOK, ControlInv, StartupStep
  PROVE  /\ config' = config /\ runtime' = runtime /\ queued' = queued /\ ip' = ip
         /\ crashes' = crashes /\ degraded' \in BOOLEAN /\ failed' \in BOOLEAN /\ mode' = mode
         /\ late' = late /\ timeouts' = timeouts
         /\ landed' \in {"no", "before", "now"} /\ (landed' = "no" <=> landed = "no")
         /\ hurt' \in {hurt, {}} /\ phase # "up" /\ phase' # "down"
         /\ at \in {"free", "row", "drift"}
  <1>1. /\ config' = config /\ runtime' = runtime /\ queued' = queued /\ ip' = ip
        /\ crashes' = crashes /\ degraded' \in {degraded, TRUE} /\ failed' \in {failed, TRUE}
        /\ mode' = mode /\ late' = late /\ timeouts' = timeouts
        /\ landed' = landed \/ landed' = IF landed = "now" THEN "before" ELSE landed
        /\ hurt' \in {hurt, {}}
    BY DEF StartupStep, Start, RowRemoved, RowFailed, RowsGiveUp, PassEnds, DriftDone, DriftFails,
           RowApply, RowRemove, DriftRestore, DriftRemove, GiveUp, BootFrame, SetStatus, rows, peers,
           lateVars
  <1>2. phase # "up" /\ phase' # "down"
    BY DEF StartupStep, Start, RowRemoved, RowFailed, RowsGiveUp, PassEnds, DriftDone, DriftFails,
           RowApply, RowRemove, DriftRestore, DriftRemove, GiveUp, Waiting, NextPass, Passes,
           ControlInv, DriftPasses
  <1>3. at \in {"free", "row", "drift"}
    BY <1>2 DEF ControlInv, TypeOK, CallPoints
  <1>4. QED
    BY <1>1, <1>2, <1>3 DEF TypeOK

\* A step of the startup keeps the types and what the lock is held for.
LEMMA StartupControl ==
  ASSUME TypeOK, ControlInv, StartupStep
  PROVE  TypeOK' /\ ControlInv'
  <1>1. /\ status \in [Keys -> Statuses] /\ column \in [Keys -> Ips \cup {None}]
        /\ todo \subseteq Peers /\ hurt \subseteq Keys /\ job \in Jobs
        /\ key \in Keys \cup {None} /\ prev \in Statuses
        /\ at \in {"free", "row", "drift"}
        /\ at = "free" => job = NoJob
        /\ at = "row" => phase = "rows" /\ job.peer \in todo /\ job.peer \in Keys
        /\ phase = "rows" => \A k \in todo : k \in Keys /\ status[k] \in AccessMayExist \ {"active"}
        /\ phase \in DriftPasses => ~failed
        /\ AccessMayExist \subseteq Statuses /\ {"none", "active", "apply_failed", "gone", "revoked"} \subseteq Statuses
        /\ config \subseteq Peers /\ runtime \subseteq Peers /\ ActiveKeys \subseteq Peers
    BY StartupFrames DEF ControlInv, TypeOK, Jobs, AccessMayExist, RowStatuses, Statuses, JobPoints,
                         RemovePoints, ActiveKeys, Peers
  <1> DEFINE Rows   == status' \in [Keys -> Statuses] /\ column' \in [Keys -> Ips \cup {None}]
             Todo   == /\ todo' \subseteq Peers
                       /\ phase' = "rows" => \A k \in todo' :
                            k \in Keys /\ status'[k] \in AccessMayExist \ {"active"}
             Pass   == phase' \in Passes \cup {"up"} /\ (phase' \in DriftPasses => ~failed')
             Lock   == /\ at' \in {"free", "row", "drift"} /\ key' \in Keys \cup {None}
                       /\ prev' \in Statuses /\ job' \in Jobs
                       /\ at' = "free" => job' = NoJob
                       /\ at' # "free" => job'.peer \in Keys \cap todo' /\ job'.step # "none"
                       /\ at' = "row" => phase' = "rows" /\ job'.op = "remove"
                       /\ at' = "drift" => /\ phase' \in DriftPasses /\ job'.op # "none"
                                           /\ job'.op = "remove" <=> phase' # "drift_restore"
  <1>2. Leave => Lock
    BY NoJobIsJob DEF Leave, Statuses
  <1>3. /\ rows' = rows => Rows
        /\ UNCHANGED callVars /\ at = "free" => Lock
        /\ UNCHANGED <<at, key, prev, job>> /\ at = "free" => Lock
        /\ phase' = "rows" => Pass
        /\ rows' = rows /\ todo' \subseteq todo /\ (phase' = "rows" => phase = "rows") => Todo
    BY <1>1, NoJobIsJob DEF rows, callVars, Passes, DriftPasses
  <1>4. ASSUME NEW k \in Keys, NEW s \in Statuses, status' = [status EXCEPT ![k] = s],
               column' \in {column, [column EXCEPT ![k] = None]}
        PROVE  Rows /\ (phase = "rows" /\ todo' = todo \ {k} => Todo)
    BY <1>1, <1>4
  <1>5. ASSUME NEW op \in {"add", "remove", "sync"}, NEW k \in Keys, NEW point \in {"row", "drift"},
               Ask(op, k, point), key' = key, prev' = prev, todo' = todo, phase' = phase, k \in todo,
               point = "row" => phase = "rows" /\ op = "remove",
               point = "drift" => phase \in DriftPasses /\ (op = "remove" <=> phase # "drift_restore")
        PROVE  Lock
    <2>1. /\ at' = point /\ job' \in Jobs /\ job'.op = op /\ job'.peer = k /\ job'.step = "begin"
      BY <1>5, AskedJob
    <2>2. QED
      BY <1>1, <1>5, <2>1
  <1> HIDE DEF Rows, Todo, Pass, Lock
  <1> SUFFICES Rows /\ Todo /\ Pass /\ Lock
    <2>1. hurt' \subseteq Keys
      BY <1>1, StartupFrames
    <2>2. TypeOK'
      BY <2>1, StartupFrames DEF Rows, Todo, Pass, Lock, TypeOK, Jobs, Points, Passes
    <2>3. phase' # "down"
      BY StartupFrames
    <2>4. ControlInv'
      BY <2>3 DEF Todo, Pass, Lock, ControlInv, CallPoints, JobPoints, RemovePoints, Points
    <2>5. QED
      BY <2>2, <2>4
  <1>6. CASE Start
    <2>1. at = "free" /\ rows' = rows /\ callVars' = callVars /\ phase' = "rows"
      BY <1>6 DEF Start, ControlInv
    <2>2. Todo
      BY <1>1, <1>6, <2>1 DEF Todo, Start, rows, Peers
    <2>3. QED
      BY <1>3, <2>1, <2>2
  <1>7. ASSUME NEW k \in Keys, RowApply(k)
        PROVE  Rows /\ Todo /\ Pass /\ Lock
    <2>1. k \in todo /\ phase = "rows" /\ phase' = "rows" /\ at = "free" /\ key' = key /\ prev' = prev
      BY <1>7 DEF RowApply, Waiting
    <2>2. CASE Ask("remove", k, "row") /\ UNCHANGED <<rows, todo>>
      BY <1>3, <1>5, <2>1, <2>2
    <2>3. CASE ~(Ask("remove", k, "row") /\ UNCHANGED <<rows, todo>>)
      <3>1. /\ \E s \in {"active", "apply_failed"} : status' = [status EXCEPT ![k] = s]
            /\ column' = column /\ todo' = todo \ {k} /\ UNCHANGED <<at, job>>
        BY <1>7, <2>3 DEF RowApply, SetStatus
      <3>2. Rows /\ Todo
        BY <1>1, <1>4, <2>1, <3>1
      <3>3. QED
        BY <1>3, <2>1, <3>1, <3>2
    <2>4. QED
      BY <2>2, <2>3
  <1>8. ASSUME NEW k \in Keys, RowRemove(k)
        PROVE  Rows /\ Todo /\ Pass /\ Lock
    <2>1. /\ k \in todo /\ phase = "rows" /\ phase' = "rows" /\ key' = key /\ prev' = prev
          /\ Ask("remove", k, "row") /\ rows' = rows /\ todo' = todo
      BY <1>8 DEF RowRemove, Waiting
    <2>2. QED
      BY <1>3, <1>5, <2>1
  <1>9. CASE RowRemoved
    <2>1. /\ at = "row" /\ todo' = todo \ {job.peer} /\ Leave /\ phase' = phase
          /\ \E s \in {"revoked", "gone", "apply_failed"} : status' = [status EXCEPT ![job.peer] = s]
          /\ column' \in {column, [column EXCEPT ![job.peer] = None]}
      BY <1>1, <1>9 DEF RowRemoved
    <2>2. Rows /\ Todo
      BY <1>1, <1>4, <2>1
    <2>3. QED
      BY <1>1, <1>2, <1>3, <2>1, <2>2
  <1>10. CASE RowFailed
    <2>1. phase = "rows" /\ phase' = "rows"
      BY <1>10 DEF RowFailed
    <2>2. CASE at = "row"
      <3>1. /\ todo' = todo \ {job.peer} /\ Leave
            /\ \/ rows' = rows
               \/ status' = [status EXCEPT ![job.peer] = "delete_failed"] /\ column' = column
        BY <1>10, <2>2 DEF RowFailed, SetStatus
      <3>2. "delete_failed" \in Statuses
        BY DEF Statuses, RowStatuses
      <3>3. CASE rows' = rows
        BY <1>2, <1>3, <2>1, <3>1, <3>3
      <3>4. CASE status' = [status EXCEPT ![job.peer] = "delete_failed"] /\ column' = column
        BY <1>1, <1>2, <1>3, <1>4, <2>1, <2>2, <3>1, <3>2, <3>4
      <3>5. QED
        BY <3>1, <3>3, <3>4
    <2>3. CASE at # "row"
      <3>1. todo' \subseteq todo /\ at = "free" /\ rows' = rows /\ callVars' = callVars
        BY <1>10, <2>3 DEF RowFailed
      <3>2. QED
        BY <1>3, <2>1, <3>1
    <2>4. QED
      BY <2>2, <2>3
  <1>11. CASE RowsGiveUp \/ DriftFails
    <2>1. phase' = "up" /\ todo' = {} /\ Leave /\ rows' = rows
      BY <1>11 DEF RowsGiveUp, DriftFails, GiveUp
    <2>2. Todo /\ Pass
      BY <2>1 DEF Todo, Pass, DriftPasses, Passes
    <2>3. QED
      BY <1>2, <1>3, <2>1, <2>2
  <1>12. CASE PassEnds
    <2>1. /\ rows' = rows /\ callVars' = callVars /\ at = "free" /\ ~failed /\ failed' = failed
          /\ phase' \in DriftPasses \cup {"up"}
      BY <1>12 DEF PassEnds, NextPass, Passes, DriftPasses
    <2>2. todo' \subseteq Peers
      BY <1>1, <1>12 DEF PassEnds, NextPass, NonLive, ConfigOrphans, MissingActive, RuntimeOrphans
    <2>3. Todo /\ Pass
      BY <2>1, <2>2 DEF Todo, Pass, Passes, DriftPasses
    <2>4. QED
      BY <1>3, <2>1, <2>3
  <1>13. ASSUME NEW k \in Keys, DriftRestore(k) \/ DriftRemove(k)
         PROVE  Rows /\ Todo /\ Pass /\ Lock
    <2>1. /\ k \in todo /\ phase \in DriftPasses /\ phase' = phase /\ key' = key /\ prev' = prev
          /\ rows' = rows /\ todo' = todo /\ failed' = failed
          /\ \E op \in {"add", "remove", "sync"} :
               Ask(op, k, "drift") /\ (op = "remove" <=> phase # "drift_restore")
      BY <1>13 DEF DriftRestore, DriftRemove, Waiting, DriftPasses, Passes
    <2>2. Lock
      BY <1>5, <2>1
    <2>3. Pass
      BY <1>1, <2>1 DEF Pass, DriftPasses
    <2>4. QED
      BY <1>3, <2>1, <2>2, <2>3
  <1>14. CASE DriftDone
    <2>1. /\ at = "drift" /\ todo' \subseteq todo /\ Leave /\ rows' = rows /\ phase' = phase
          /\ failed' = failed
      BY <1>14 DEF DriftDone
    <2>2. phase \in DriftPasses
      BY <2>1 DEF ControlInv
    <2>3. Pass
      BY <1>1, <2>1, <2>2 DEF Pass, DriftPasses
    <2>4. QED
      BY <1>2, <1>3, <2>1, <2>3
  <1>15. QED
    BY <1>6, <1>7, <1>8, <1>9, <1>10, <1>11, <1>12, <1>13, <1>14 DEF StartupStep

\* Addresses are exclusive, so looking a peer up by its address finds the key's own.
LEMMA PeerForOwn ==
  ASSUME TypeOK, AddressInv, NEW k \in Keys
  PROVE  /\ PeerFor(k, column[k]) <=> k \in config
         /\ status[k] = "active" => (PeerFor(k, ip[k]) <=> k \in config)
         /\ status[k] = "active" => column[k] # None /\ ip[k] = column[k]
  <1>1. ASSUME NEW q \in config, column[k] # None, ip[q] = column[k]
        PROVE  q = k
    <2>1. CASE q \in Keys
      BY <1>1, <2>1 DEF AddressInv
    <2>2. CASE q \in Foreign
      BY <1>1, <2>2 DEF AddressInv
    <2>3. QED
      BY <2>1, <2>2 DEF TypeOK, Peers
  <1>2. status[k] = "active" => column[k] # None /\ ip[k] = column[k]
    BY DEF AddressInv, Addressed
  <1>3. QED
    BY <1>1, <1>2 DEF PeerFor

\* After the rows, everything the bot still has a peer for is active or hurt.
LEMMA ClosedRows ==
  ASSUME TypeOK, KeysInv, at = "free", NEW k \in Keys, Closed(k)
  PROVE  /\ k \in config \cup runtime => status[k] \in {"active", "apply_failed"}
         /\ status[k] = "apply_failed" /\ k \in config \cup runtime => k \in hurt
         /\ status[k] = "active" /\ k \notin config \cap runtime => k \in hurt
  BY DEF KeysInv, AddressInv, RestInv, Agrees, Closed, AccessMayExist, RowStatuses, CallPoints

\* A pass that ends hands the next one what it has to look at.
LEMMA PassKeys ==
  ASSUME TypeOK, ControlInv, KeysInv, PassEnds
  PROVE  StartupInv' /\ RestInv'
  <1>1. /\ rows' = rows /\ config' = config /\ runtime' = runtime /\ at = "free" /\ at' = "free"
        /\ todo = {} /\ ~failed /\ phase \in Passes
        /\ phase' = NextPass[1] /\ todo' = NextPass[2]
        /\ hurt' = IF phase' = "up" THEN {} ELSE hurt
        /\ Foreign \cap Keys = {} /\ config \subseteq Peers /\ runtime \subseteq Peers
        /\ ActiveKeys' = ActiveKeys /\ ActiveKeys \subseteq Keys
    BY ForeignAssumption DEF PassEnds, peers, callVars, TypeOK, rows, ActiveKeys
  <1>2. \A k \in Keys : Closed(k) /\ (Closed(k))'
    BY <1>1 DEF KeysInv, StartupInv, DriftPasses, Closed, rows
  <1>3. \A k \in Keys \ hurt : Agrees(k, status[k])
    BY <1>1 DEF KeysInv, RestInv, CallPoints
  <1>4. \A k \in Keys : (Agrees(k, status[k]))' <=> Agrees(k, status[k])
    BY <1>1 DEF Agrees, rows
  <1>5. CASE phase = "rows"
    <2>1. phase' = "drift_rows" /\ todo' = NonLive /\ hurt' = hurt
      BY <1>1, <1>5 DEF NextPass
    <2>2. \A k \in NonLive : k \in hurt /\ status[k] # "active"
      BY <1>1, <1>2, ClosedRows DEF NonLive, RowStatuses
    <2>3. \A k \in Keys \cap (config \cup runtime) : k \notin NonLive => status[k] = "active"
      BY <1>1, <1>2, ClosedRows DEF NonLive, RowStatuses
    <2>4. StartupInv'
      BY <1>1, <1>2, <2>1, <2>2, <2>3 DEF StartupInv, DriftPasses, Passes, rows
    <2>5. QED
      BY <1>1, <1>3, <1>4, <2>1, <2>2, <2>4 DEF RestInv
  <1>6. CASE phase = "drift_rows"
    <2>1. phase' = "drift_orphans" /\ todo' = ConfigOrphans /\ hurt' = hurt
      BY <1>1, <1>6 DEF NextPass
    <2>2. (config \cup runtime) \cap Keys \subseteq ActiveKeys
      BY <1>1, <1>6 DEF KeysInv, StartupInv, ActiveKeys
    <2>3. ConfigOrphans \cap Keys = {}
      BY <2>2 DEF ConfigOrphans, OwnedByActive
    <2>4. config \ ActiveKeys \subseteq ConfigOrphans
      <3>1. SUFFICES ASSUME NEW p \in config \ ActiveKeys, NEW k \in ActiveKeys, ip[p] = ip[k]
                     PROVE  FALSE
        BY DEF ConfigOrphans, OwnedByActive
      <3>2. p \in config \cap Foreign
        BY <1>1, <2>2 DEF Peers
      <3>3. ip[k] = column[k] /\ k \in Keys
        BY PeerForOwn DEF KeysInv, ActiveKeys
      <3>4. QED
        BY <3>1, <3>2, <3>3 DEF KeysInv, AddressInv
    <2>5. StartupInv'
      BY <1>1, <1>2, <2>1, <2>2, <2>3, <2>4 DEF StartupInv, DriftPasses, Passes
    <2>6. QED
      BY <1>1, <1>3, <1>4, <2>1, <2>3, <2>5 DEF RestInv
  <1>7. CASE phase = "drift_orphans"
    <2>1. phase' = "drift_restore" /\ todo' = MissingActive /\ hurt' = hurt
      BY <1>1, <1>7 DEF NextPass
    <2>2. /\ (config \cup runtime) \cap Keys \subseteq ActiveKeys /\ config \subseteq ActiveKeys
      BY <1>1, <1>7 DEF KeysInv, StartupInv, DriftPasses, Passes
    <2>3. \A k \in ActiveKeys : k \in MissingActive <=> k \notin config \cap runtime
      BY PeerForOwn DEF MissingActive, KeysInv, ActiveKeys
    <2>4. MissingActive \subseteq ActiveKeys /\ MissingActive \subseteq hurt
      <3>1. MissingActive \subseteq ActiveKeys
        BY DEF MissingActive
      <3>2. QED
        BY <1>1, <1>2, <2>3, <3>1, ClosedRows DEF ActiveKeys
    <2>5. StartupInv'
      BY <1>1, <1>2, <2>1, <2>2, <2>3, <2>4 DEF StartupInv, DriftPasses, Passes
    <2>6. QED
      BY <1>1, <1>3, <1>4, <2>1, <2>4, <2>5 DEF RestInv
  <1>8. CASE phase = "drift_restore"
    <2>1. phase' = "drift_runtime" /\ todo' = RuntimeOrphans /\ hurt' = hurt
      BY <1>1, <1>8 DEF NextPass
    <2>2. /\ (config \cup runtime) \cap Keys \subseteq ActiveKeys /\ config \subseteq ActiveKeys
          /\ ActiveKeys \subseteq config \cap runtime
      BY <1>1, <1>8 DEF KeysInv, StartupInv, DriftPasses, Passes
    <2>3. RuntimeOrphans \cap Keys = {} /\ runtime \ ActiveKeys \subseteq RuntimeOrphans
      BY <2>2 DEF RuntimeOrphans
    <2>4. StartupInv'
      BY <1>1, <1>2, <2>1, <2>2, <2>3 DEF StartupInv, DriftPasses, Passes
    <2>5. QED
      BY <1>1, <1>3, <1>4, <2>1, <2>3, <2>4 DEF RestInv
  <1>9. CASE phase = "drift_runtime"
    <2>1. phase' = "up"
      BY <1>1, <1>9 DEF NextPass
    <2>2. ActiveKeys \subseteq config \cap runtime /\ (config \cup runtime) \cap Keys \subseteq ActiveKeys
      BY <1>1, <1>9 DEF KeysInv, StartupInv, DriftPasses, Passes
    <2>3. \A k \in Keys : Agrees(k, status[k])
      BY <1>2, <2>2 DEF Agrees, Closed, ActiveKeys
    <2>4. QED
      BY <1>4, <2>1, <2>3 DEF StartupInv, RestInv, DriftPasses, Passes
  <1>10. QED
    BY <1>1, <1>5, <1>6, <1>7, <1>8, <1>9 DEF Passes

\* A step of the startup keeps rows, peers and addresses in agreement.
LEMMA StartupKeys ==
  ASSUME TypeOK, ControlInv, KeysInv, StartupStep
  PROVE  KeysInv'
  <1>1. /\ config' = config /\ runtime' = runtime /\ ip' = ip
        /\ phase # "up" /\ phase' # "down" /\ at \in {"free", "row", "drift"}
    BY StartupFrames
  <1>2. TypeOK' /\ ControlInv'
    BY StartupControl
  <1> HIDE DEF StartupStep
  <1>3. /\ JobInv /\ AddressInv /\ PointInv /\ RestInv /\ StartupInv
        /\ at' \in CallPoints => phase' = "up" /\ key' \in Keys
    BY <1>2 DEF KeysInv, ControlInv
  <1>4. \A k \in Keys : Agrees(k, status[k]) \/ k \in hurt
    BY <1>1, <1>3 DEF RestInv, CallPoints
  <1>5. \A k \in Keys : \A s : (Agrees(k, s))' <=> Agrees(k, s)
    BY <1>1 DEF Agrees
  <1>6. rows' = rows /\ at' # "revoking" => AddressInv'
    BY <1>1, <1>3 DEF AddressInv, rows
  <1> DEFINE Rest == \A k \in Keys \ hurt' : (Agrees(k, status[k]))'
  <1>7. Rest /\ (phase' \in DriftPasses => todo' \cap Keys \subseteq hurt') => RestInv'
    BY DEF RestInv
  <1>8. rows' = rows /\ hurt' = hurt => Rest
    BY <1>4, <1>5 DEF rows
  <1>9. /\ phase = "rows" => phase \notin DriftPasses
        /\ phase' = "rows" => phase' \notin DriftPasses
        /\ phase' = "up" => phase' \notin DriftPasses /\ phase' # "rows"
        /\ \A q \in DriftPasses : q # "rows"
    BY DEF DriftPasses, Passes
  \* an adapter call for a key that still has something to be done
  <1>10. ASSUME NEW op \in {"add", "remove", "sync"}, NEW k \in Keys, NEW point \in {"row", "drift"},
                Ask(op, k, point), rows' = rows, todo' = todo, phase' = phase, failed' = failed, hurt' = hurt,
                point = "row" /\ k \notin hurt => status[k] = "delete_failed",
                op # "remove" => column[k] # None
         PROVE  KeysInv'
    <2>1. /\ at' = point /\ job'.op = op /\ job'.peer = k /\ job'.step = "begin"
          /\ job'.had = (k \in config)
      BY <1>10, AskedJob
    <2>2. k \in config => column[k] # None
      BY <1>3 DEF AddressInv
    <2>3. JobInv'
      BY <1>1, <1>10, <2>1, <2>2 DEF JobInv, rows
    <2>4. PointInv'
      BY <1>10, <2>1 DEF PointInv, rows, CallPoints, Points
    <2>5. RestInv'
      BY <1>3, <1>7, <1>8, <1>10 DEF RestInv
    <2>6. StartupInv'
      BY <1>1, <1>3, <1>10 DEF StartupInv, rows, Closed, ActiveKeys
    <2>7. QED
      BY <1>6, <1>10, <2>1, <2>3, <2>4, <2>5, <2>6 DEF KeysInv
  \* the row of a key is written and the pass is done with it
  <1>11. ASSUME NEW k \in Keys, NEW s, status' = [status EXCEPT ![k] = s],
                column' \in {column, [column EXCEPT ![k] = None]},
                at' = "free", hurt' = hurt, phase = "rows", phase' = "rows", todo' = todo \ {k},
                failed' = failed \/ failed' = TRUE,
                s \in Addressed \/ k \in config \cup runtime => column'[k] # None,
                column'[k] # None => s \in AccessMayExist,
                k \notin hurt => Agrees(k, s),
                ~failed' => s \in {"active", "apply_failed", "revoked", "gone"}
         PROVE  KeysInv'
    <2>1. AddressInv'
      BY <1>1, <1>3, <1>11, AddressKept
    <2>2. status'[k] = s /\ \A l \in Keys \ {k} : status'[l] = status[l]
      BY <1>11 DEF TypeOK
    <2>3. Rest
      BY <1>4, <1>5, <1>11, <2>2
    <2>4. RestInv'
      BY <1>7, <1>9, <1>11, <2>3
    <2>5. StartupInv'
      <3>1. ASSUME ~failed', NEW l \in Keys \ todo'
            PROVE  (Closed(l))'
        BY <1>3, <1>11, <2>2, <3>1 DEF StartupInv, Closed
      <3>2. QED
        BY <1>9, <1>11, <3>1 DEF StartupInv
    <2>6. QED
      BY <1>11, <2>1, <2>4, <2>5, LeftKeys DEF KeysInv
  <1>12. CASE Start
    <2>1. /\ phase = "down" /\ phase' = "rows" /\ at' = at /\ rows' = rows /\ hurt' = hurt /\ failed' = failed
          /\ todo' = {k \in Keys : status[k] \in AccessMayExist \ {"active"}} /\ at = "free"
      BY <1>12 DEF Start, callVars, ControlInv
    <2>2. StartupInv'
      <3>1. \A k \in Keys \ todo' : (Closed(k))'
        BY <2>1 DEF rows, Closed, TypeOK, Statuses, AccessMayExist, RowStatuses
      <3>2. QED
        BY <1>9, <2>1, <3>1 DEF StartupInv
    <2>3. RestInv'
      BY <1>7, <1>8, <1>9, <2>1
    <2>4. QED
      BY <1>6, <2>1, <2>2, <2>3, LeftKeys DEF KeysInv
  <1>13. ASSUME NEW k \in Keys, RowApply(k)
         PROVE  KeysInv'
    <2>1. /\ k \in todo /\ phase = "rows" /\ phase' = "rows" /\ at = "free" /\ failed' = failed /\ hurt' = hurt
          /\ status[k] \in {"pending_apply", "apply_failed"}
      BY <1>13 DEF RowApply, Waiting, BootFrame
    <2>2. column[k] # None /\ (PeerFor(k, column[k]) <=> k \in config)
      BY <1>3, <2>1, PeerForOwn DEF AddressInv, Addressed
    <2>3. k \notin hurt => status[k] = "apply_failed" /\ k \notin config \cup runtime
      BY <1>4, <2>1 DEF Agrees
    <2>4. CASE k \in runtime /\ Ask("remove", k, "row") /\ UNCHANGED <<rows, todo>>
      BY <1>10, <2>1, <2>3, <2>4
    <2>5. CASE ~(k \in runtime /\ Ask("remove", k, "row") /\ UNCHANGED <<rows, todo>>)
      <3>1. /\ \E s \in {"active", "apply_failed"} : status' = [status EXCEPT ![k] = s] /\ (s = "active" <=> k \in config)
            /\ column' = column /\ todo' = todo \ {k} /\ at' = "free"
        BY <1>13, <2>1, <2>2, <2>5 DEF RowApply, SetStatus
      <3>2. PICK s \in {"active", "apply_failed"} : status' = [status EXCEPT ![k] = s] /\ (s = "active" <=> k \in config)
        BY <3>1
      <3>3. k \notin hurt => Agrees(k, s)
        BY <2>3, <3>2 DEF Agrees
      <3>4. QED
        BY <1>11, <2>1, <2>2, <3>1, <3>2, <3>3 DEF AccessMayExist, RowStatuses
    <2>6. QED
      BY <2>4, <2>5
  <1>14. ASSUME NEW k \in Keys, RowRemove(k)
         PROVE  KeysInv'
    <2>1. /\ Ask("remove", k, "row") /\ rows' = rows /\ todo' = todo /\ phase' = phase
          /\ failed' = failed /\ hurt' = hurt
          /\ status[k] \in {"pending_revoke", "pending_delete", "delete_failed"}
      BY <1>14 DEF RowRemove, BootFrame
    <2>2. k \notin hurt => status[k] = "delete_failed"
      BY <1>4, <2>1 DEF Agrees
    <2>3. QED
      BY <1>10, <2>1, <2>2
  <1>15. CASE RowRemoved
    <2>1. /\ at = "row" /\ job.step = "ok" /\ at' = "free" /\ todo' = todo \ {job.peer} /\ phase' = phase
          /\ failed' = failed /\ hurt' = hurt
      BY <1>15 DEF RowRemoved, Answer, Leave, BootFrame
    <2>2. job.peer \in Keys /\ job.peer \in todo /\ phase = "rows" /\ job.op = "remove"
      BY <2>1 DEF ControlInv, JobPoints
    <2>3. job.peer \notin config \cup runtime
      BY <1>3, <2>1, <2>2 DEF JobInv, JobPoints
    <2>4. status[job.peer] \in AccessMayExist \ {"active"}
      BY <2>2 DEF ControlInv
    <2>5. \E s \in {"revoked", "gone", "apply_failed"} :
            /\ status' = [status EXCEPT ![job.peer] = s]
            /\ s = "apply_failed" => column' = column /\ status[job.peer] \in Addressed
            /\ s # "apply_failed" => column' = [column EXCEPT ![job.peer] = None]
      <3>1. CASE status[job.peer] = "pending_revoke"
        BY <1>15, <3>1 DEF RowRemoved
      <3>2. CASE status[job.peer] \in {"pending_delete", "delete_failed"}
        BY <1>15, <3>2 DEF RowRemoved
      <3>3. CASE status[job.peer] \in Addressed
        <4>1. /\ status' = [status EXCEPT ![job.peer] = "apply_failed"]
              /\ column' = [column EXCEPT ![job.peer] = column[job.peer]]
          BY <1>15, <3>3 DEF RowRemoved, Addressed
        <4>2. column' = column
          BY <2>2, <4>1 DEF TypeOK
        <4>3. QED
          BY <3>3, <4>1, <4>2
      <3>4. QED
        BY <2>4, <3>1, <3>2, <3>3 DEF AccessMayExist, RowStatuses, Addressed
    <2>6. PICK s \in {"revoked", "gone", "apply_failed"} :
            /\ status' = [status EXCEPT ![job.peer] = s]
            /\ s = "apply_failed" => column' = column /\ status[job.peer] \in Addressed
            /\ s # "apply_failed" => column' = [column EXCEPT ![job.peer] = None]
      BY <2>5
    <2>7. Agrees(job.peer, s)
      BY <2>3 DEF Agrees
    <2>8. /\ s \in Addressed => column'[job.peer] # None
          /\ column'[job.peer] # None => s \in AccessMayExist
      BY <1>3, <2>2, <2>6 DEF AddressInv, Addressed, TypeOK, AccessMayExist, RowStatuses
    <2>9. QED
      BY <1>11, <2>1, <2>2, <2>3, <2>6, <2>7, <2>8
  <1>16. CASE RowFailed
    <2>1. phase = "rows" /\ phase' = "rows" /\ failed' = TRUE /\ hurt' = hurt
      BY <1>16 DEF RowFailed, BootFrame
    <2>2. CASE rows' = rows
      <3>1. at' = "free"
        BY <1>16 DEF RowFailed, Leave, callVars
      <3>2. StartupInv'
        BY <1>9, <2>1 DEF StartupInv
      <3>3. QED
        BY <1>6, <1>7, <1>8, <1>9, <2>1, <2>2, <3>1, <3>2, LeftKeys DEF KeysInv
    <2>3. CASE rows' # rows
      <3>1. /\ at = "row" /\ at' = "free" /\ todo' = todo \ {job.peer} /\ column' = column
            /\ status' = [status EXCEPT ![job.peer] = "delete_failed"]
        BY <1>16, <2>3 DEF RowFailed, Leave, SetStatus
      <3>2. job.peer \in Keys
        BY <3>1 DEF ControlInv, JobPoints
      <3>3. job.peer \in config \cup runtime => column[job.peer] # None
        BY <1>3, <3>2 DEF AddressInv
      <3>4. Agrees(job.peer, "delete_failed")
        BY DEF Agrees
      <3>5. QED
        BY <1>11, <2>1, <3>1, <3>2, <3>3, <3>4 DEF Addressed, AccessMayExist, RowStatuses
    <2>4. QED
      BY <2>2, <2>3
  <1>17. CASE RowsGiveUp \/ DriftFails
    <2>1. phase' = "up" /\ at' = "free" /\ rows' = rows /\ hurt' = hurt
      BY <1>17 DEF RowsGiveUp, DriftFails, GiveUp, Leave
    <2>2. StartupInv'
      BY <1>9, <2>1 DEF StartupInv, DriftPasses, Passes
    <2>3. QED
      BY <1>6, <1>7, <1>8, <1>9, <2>1, <2>2, LeftKeys DEF KeysInv
  <1>18. CASE PassEnds
    <2>1. StartupInv' /\ RestInv'
      BY <1>18, PassKeys
    <2>2. rows' = rows /\ at' = "free"
      BY <1>18 DEF PassEnds, callVars
    <2>3. QED
      BY <1>6, <2>1, <2>2, LeftKeys DEF KeysInv
  <1>19. ASSUME NEW k \in Keys, DriftRestore(k)
         PROVE  KeysInv'
    <2>1. /\ k \in todo /\ phase = "drift_restore" /\ phase' = phase /\ rows' = rows /\ todo' = todo
          /\ failed' = failed /\ hurt' = hurt
          /\ \E op \in {"add", "sync"} : Ask(op, k, "drift")
      BY <1>19 DEF DriftRestore, Waiting, BootFrame
    <2>2. column[k] # None
      BY <1>3, <2>1 DEF StartupInv, ActiveKeys, AddressInv, Addressed
    <2>3. QED
      BY <1>10, <2>1, <2>2
  <1>20. ASSUME NEW k \in Keys, DriftRemove(k)
         PROVE  KeysInv'
    <2>1. /\ phase' = phase /\ rows' = rows /\ todo' = todo
          /\ failed' = failed /\ hurt' = hurt /\ Ask("remove", k, "drift")
      BY <1>20 DEF DriftRemove, BootFrame
    <2>2. QED
      BY <1>10, <2>1
  <1>21. CASE DriftDone
    <2>1. /\ at = "drift" /\ job.step = "ok" /\ at' = "free" /\ todo' = todo \ {job.peer} /\ phase' = phase
          /\ failed' = failed /\ hurt' = hurt /\ rows' = rows
      BY <1>21 DEF DriftDone, Answer, Leave, BootFrame
    <2>2. /\ job.peer \in Keys /\ job.peer \in todo /\ phase \in DriftPasses
          /\ job.op = "remove" <=> phase # "drift_restore"
          /\ job.op # "none"
      BY <2>1 DEF ControlInv, JobPoints
    <2>3. IF job.op = "remove" THEN job.peer \notin config \cup runtime
          ELSE job.peer \in config \cap runtime
      BY <1>3, <2>1 DEF JobInv, JobPoints
    <2>4. \A k \in Keys : (Closed(k))' <=> Closed(k)
      BY <2>1 DEF Closed, rows
    <2>5. ActiveKeys' = ActiveKeys /\ ActiveKeys \subseteq Keys
      BY <2>1 DEF ActiveKeys, rows
    <2>6. StartupInv'
      <3>1. CASE phase = "drift_rows"
        BY <1>1, <1>3, <2>1, <2>2, <2>3, <2>4, <3>1 DEF StartupInv, rows, DriftPasses, Passes
      <3>2. CASE phase \in {"drift_orphans", "drift_runtime"}
        BY <1>3, <2>2, <3>2 DEF StartupInv
      <3>3. CASE phase = "drift_restore"
        BY <1>1, <1>3, <2>1, <2>2, <2>3, <2>4, <2>5, <3>3 DEF StartupInv, DriftPasses, Passes
      <3>4. QED
        BY <2>2, <3>1, <3>2, <3>3 DEF DriftPasses, Passes
    <2>7. RestInv'
      BY <1>3, <1>7, <1>8, <2>1 DEF RestInv
    <2>8. QED
      BY <1>6, <2>1, <2>6, <2>7, LeftKeys DEF KeysInv
  <1>22. QED
    BY <1>12, <1>13, <1>14, <1>15, <1>16, <1>17, <1>18, <1>19, <1>20, <1>21 DEF StartupStep

------------------------------------------------------------------------------

\* A request waits for the lock and changes nothing else.
LEMMA RequestIInv ==
  ASSUME TypeOK, ControlInv, Request
  PROVE  /\ TypeOK' /\ ControlInv' /\ landed' = landed
         /\ KeysInv => KeysInv'
  <1>1. PICK op \in Operations, k \in Keys \cup {None} : Admit(op, k)
    BY DEF Request, Operations
  <1>2. UNCHANGED <<rows, peers, callVars, bootVars, lateVars, hurt>>
    BY <1>1 DEF Admit
  <1>3. queued' \subseteq [op : Operations, key : Keys \cup {None}]
    BY <1>1 DEF Admit, TypeOK
  <1>4. TypeOK'
    BY <1>2, <1>3 DEF TypeOK, rows, peers, callVars, bootVars, lateVars
  <1>5. ControlInv'
    BY <1>2 DEF ControlInv, rows, callVars, bootVars
  <1>6. KeysInv => KeysInv'
    BY <1>2 DEF KeysInv, JobInv, Candidate, AddressInv, PointInv, RestInv, StartupInv, Agrees, Closed,
                ActiveKeys, rows, peers, callVars, bootVars
  <1>7. QED
    BY <1>2, <1>4, <1>5, <1>6 DEF lateVars

\* A crash takes the call and the pass away; its key is one a crash has left.
LEMMA CrashIInv ==
  ASSUME TypeOK, ControlInv, Crash
  PROVE  /\ TypeOK' /\ ControlInv' /\ landed' = landed
         /\ KeysInv => KeysInv'
  <1>1. /\ rows' = rows /\ lateVars' = lateVars /\ phase' = "down" /\ todo' = {} /\ failed' = FALSE
        /\ degraded' = FALSE /\ queued' = {} /\ crashes' = crashes + 1 /\ crashes < MaxCrashes
        /\ hurt' = hurt \cup ({key, job.peer} \cap Keys)
        /\ Leave /\ at' = "free" /\ key' = None /\ prev' = "none" /\ job' = NoJob
        /\ \/ config' = config /\ runtime' = runtime
           \/ job.step = "apply" /\ config' = job.text /\ runtime' \in {runtime, job.text}
    BY DEF Crash, Leave, peers
  <1>2. TypeOK'
    <2>1. config' \subseteq Peers /\ runtime' \subseteq Peers /\ hurt' \subseteq Keys
      BY <1>1 DEF TypeOK
    <2>2. crashes' \in 0..MaxCrashes
      BY <1>1, BoundsAssumption DEF TypeOK
    <2>3. job' \in Jobs
      BY <1>1, NoJobIsJob
    <2>4. QED
      BY <1>1, <2>1, <2>2, <2>3 DEF TypeOK, Jobs, rows, lateVars, Points, Statuses
  <1>3. ControlInv'
    BY <1>1 DEF ControlInv, CallPoints, JobPoints, RemovePoints, DriftPasses, Passes
  <1>4. ASSUME KeysInv
        PROVE  KeysInv'
    <2>1. StartupInv' /\ (phase' \in DriftPasses => todo' \cap Keys \subseteq hurt')
      BY <1>1 DEF StartupInv, DriftPasses, Passes
    <2>2. at \in CallPoints => key \in hurt'
      BY <1>1 DEF ControlInv
    <2>3. CASE config' = config /\ runtime' = runtime
      <3>1. AddressInv'
        BY <1>1, <1>4, <2>3 DEF KeysInv, AddressInv, rows
      <3>2. \A k \in Keys \ hurt' : (Agrees(k, status[k]))'
        BY <1>1, <1>4, <2>2, <2>3 DEF KeysInv, RestInv, Agrees, rows
      <3>3. QED
        BY <1>1, <2>1, <3>1, <3>2, LeftKeys DEF KeysInv, RestInv
    <2>4. CASE job.step = "apply" /\ config' = job.text /\ runtime' \in {runtime, job.text}
      <3> DEFINE p == job.peer
      <3>1. at \in JobPoints
        BY <2>4 DEF ControlInv, NoJob
      <3>2. p \in Keys /\ job.op # "none" /\ p \in hurt' /\ job.op \in {"add", "remove", "sync"} /\ p \notin Foreign
        BY <1>1, <3>1, ForeignAssumption DEF ControlInv, TypeOK
      <3>3. job.text = Candidate(job.op, p) /\ (job.op # "remove" \/ job.had => column[p] # None)
        BY <1>4, <2>4, <3>1 DEF KeysInv, JobInv
      <3>4. /\ \A q \in Peers \ {p} : q \in config' <=> q \in config
            /\ \A q \in Peers \ {p} : (q \in runtime' <=> q \in runtime) \/ (q \in runtime' <=> q \in config)
            /\ p \in config' \cup runtime' => job.op # "remove" \/ p \in config \cup runtime
        BY <2>4, <3>2, <3>3 DEF Candidate
      <3>5. \A k \in Keys : k \in config' \cup runtime' => column[k] # None
        BY <1>4, <3>2, <3>3, <3>4 DEF KeysInv, AddressInv, Peers
      <3>6. config' \cap Foreign = config \cap Foreign
        BY <1>2, <3>2, <3>4 DEF TypeOK, Peers
      <3>7. AddressInv'
        BY <1>1, <1>4, <3>5, <3>6 DEF KeysInv, AddressInv, rows
      <3>8. ASSUME NEW k \in Keys \ hurt'
            PROVE  (Agrees(k, status[k]))'
        <4>1. k # p /\ k \notin hurt /\ k \in Peers
          BY <1>1, <3>2, <3>8 DEF Peers
        <4>2. Agrees(k, status[k])
          BY <1>4, <2>2, <3>8, <4>1 DEF KeysInv, RestInv
        <4>3. QED
          BY <1>1, <3>4, <4>1, <4>2 DEF Agrees, rows
      <3>9. QED
        BY <1>1, <2>1, <3>7, <3>8, LeftKeys DEF KeysInv, RestInv
    <2>5. QED
      BY <1>1, <2>3, <2>4
  <1>5. QED
    BY <1>1, <1>2, <1>3, <1>4 DEF lateVars

\* A helper that lands late moves peers, and nothing that the control reads.
LEMMA LateIInv ==
  ASSUME TypeOK, ControlInv, NEW text \in late, LateHelper(text)
  PROVE  TypeOK' /\ ControlInv' /\ landed' = "now"
  <1>1. /\ UNCHANGED <<rows, queued, callVars, bootVars, mode, timeouts, hurt>>
        /\ config' = text /\ runtime' = text /\ late' \subseteq late /\ landed' = "now"
    BY DEF LateHelper
  <1>2. TypeOK'
    BY <1>1 DEF TypeOK, rows, callVars, bootVars
  <1>3. ControlInv'
    BY <1>1 DEF ControlInv, rows, callVars, bootVars
  <1>4. QED
    BY <1>1, <1>2, <1>3

\* Every step keeps the invariant.
LEMMA StepIInv == IInv /\ [Next]_vars => IInv'
  <1> SUFFICES ASSUME IInv, [Next]_vars PROVE IInv'
    OBVIOUS
  <1>1. TypeOK /\ ControlInv /\ (landed = "no" => KeysInv)
    BY DEF IInv
  <1>2. CASE Adapter
    <2>1. TypeOK' /\ ControlInv' /\ landed' = landed
      BY <1>1, <1>2, AdapterControl, AdapterFrames
    <2>2. landed = "no" => KeysInv'
      BY <1>1, <1>2, AdapterKeys
    <2>3. QED
      BY <2>1, <2>2 DEF IInv
  <1>3. CASE CallStep
    <2>1. TypeOK' /\ ControlInv'
      BY <1>1, <1>3, CallControl
    <2>2. landed' = landed
      BY <1>1, <1>3, CallFrames DEF lateVars
    <2>3. landed = "no" => KeysInv'
      BY <1>1, <1>3, CallKeys
    <2>4. QED
      BY <2>1, <2>2, <2>3 DEF IInv
  <1>4. CASE StartupStep
    <2>1. TypeOK' /\ ControlInv' /\ (landed' = "no" <=> landed = "no")
      BY <1>1, <1>4, StartupControl, StartupFrames
    <2>2. landed = "no" => KeysInv'
      BY <1>1, <1>4, StartupKeys
    <2>3. QED
      BY <2>1, <2>2 DEF IInv
  <1>5. CASE Request
    BY <1>1, <1>5, RequestIInv DEF IInv
  <1>6. CASE Crash
    BY <1>1, <1>6, CrashIInv DEF IInv
  <1>7. ASSUME NEW text \in late, LateHelper(text)
        PROVE  IInv'
    BY <1>1, <1>7, LateIInv DEF IInv
  <1>8. CASE UNCHANGED vars
    <2>1. UNCHANGED <<rows, peers, queued, callVars, bootVars, lateVars, hurt>>
      BY <1>8 DEF vars
    <2>2. TypeOK'
      BY <1>1, <2>1 DEF TypeOK, rows, peers, callVars, bootVars, lateVars
    <2>3. ControlInv'
      BY <1>1, <2>1 DEF ControlInv, rows, callVars, bootVars
    <2>4. KeysInv => KeysInv'
      BY <2>1 DEF KeysInv, JobInv, Candidate, AddressInv, PointInv, RestInv, StartupInv, Agrees, Closed,
                ActiveKeys, rows, peers, callVars, bootVars
    <2>5. QED
      BY <1>1, <2>1, <2>2, <2>3, <2>4 DEF IInv, lateVars
  <1>9. QED
    BY <1>2, <1>3, <1>4, <1>5, <1>6, <1>7, <1>8 DEF Next

\* The variables keep their types, in both modes and after any number of crashes
\* and timeouts.
THEOREM TypeCorrect == Spec => []TypeOK
  <1>1. IInv => TypeOK
    BY DEF IInv
  <1>2. QED
    BY <1>1, InitIInv, StepIInv, PTL DEF Spec

\* What the invariant says of rows, peers and addresses.
LEMMA IInvSound == IInv => PeersAreSound
  <1> SUFFICES ASSUME IInv PROVE PeersAreSound
    OBVIOUS
  <1>1. TypeOK /\ (landed = "no" => KeysInv)
    BY DEF IInv
  <1>2. RevokedHasNoPeer
    BY <1>1 DEF RevokedHasNoPeer, KeysInv, AddressInv, TypeOK
  <1>3. IpExclusive
    <2>1. SUFFICES ASSUME landed = "no"
                   PROVE  /\ \A p, q \in config \cup (runtime \cap Keys) : ip[p] = ip[q] => p = q
                          /\ \A k, l \in Keys : column[k] # None /\ column[k] = column[l] => k = l
      BY DEF IpExclusive
    <2>2. AddressInv
      BY <1>1, <2>1 DEF KeysInv
    <2>3. \A k \in Keys : k \in config \cup runtime => column[k] # None /\ column[k] = ip[k]
      BY <2>2 DEF AddressInv
    <2>4. ASSUME NEW p \in config \cup (runtime \cap Keys), NEW q \in config \cup (runtime \cap Keys),
                 ip[p] = ip[q]
          PROVE  p = q
      <3>1. /\ p \in Keys \/ p \in config \cap Foreign
            /\ q \in Keys \/ q \in config \cap Foreign
        BY <1>1 DEF TypeOK, Peers
      <3>2. CASE p \in Keys /\ q \in Keys
        <4>1. column[p] = column[q] /\ column[p] # None
          BY <2>3, <2>4, <3>2
        <4>2. QED
          BY <2>2, <3>2, <4>1 DEF AddressInv
      <3>3. CASE p \in Keys /\ q \in config \cap Foreign
        BY <2>2, <2>3, <2>4, <3>3 DEF AddressInv
      <3>4. CASE p \in config \cap Foreign /\ q \in Keys
        BY <2>2, <2>3, <2>4, <3>4 DEF AddressInv
      <3>5. CASE p \in config \cap Foreign /\ q \in config \cap Foreign
        BY <2>2, <2>4, <3>5 DEF AddressInv
      <3>6. QED
        BY <3>1, <3>2, <3>3, <3>4, <3>5
    <2>5. QED
      BY <2>2, <2>4 DEF AddressInv
  <1>4. RowMatchesPeer
    BY <1>1 DEF RowMatchesPeer, KeysInv, RestInv, CallPoints
  <1>5. QED
    BY <1>2, <1>3, <1>4 DEF PeersAreSound

\* Revoked and deleted keys have no peer, every address has one owner, and between
\* two calls a row agrees with the file and the interface unless a crash or a failure
\* with an effect has left its key behind: whatever the adapter and the privileged
\* helper fail at, in services/awg.py and adapters/awg_config.py.
THEOREM PeersAgree == Spec => []PeersAreSound
  BY InitIInv, StepIInv, IInvSound, PTL DEF Spec

\* A step into "up" without a failure is the end of the last pass, which had nothing
\* left to look at.
LEMMA StepIsClean == IInv /\ [Next]_vars => [CleanStep]_vars
  <1> SUFFICES ASSUME IInv, Next, CleanEnd, landed = "no"
               PROVE  config' = ActiveKeys' /\ runtime' = ActiveKeys'
    BY DEF CleanStep
  <1>1. TypeOK /\ ControlInv /\ KeysInv
    BY DEF IInv
  <1>2. phase # "up" /\ phase' = "up" /\ ~failed'
    BY DEF CleanEnd, Passes
  <1>3. PassEnds
    <2>1. CASE Adapter
      BY <1>1, <1>2, <2>1, AdapterFrames DEF bootVars
    <2>2. CASE CallStep
      BY <1>1, <1>2, <2>2, CallFrames
    <2>3. CASE StartupStep
      <3>1. ~GiveUp
        BY <1>2 DEF GiveUp
      <3>2. ~Start /\ ~RowFailed /\ ~RowRemoved /\ ~DriftDone
        BY <1>2 DEF Start, RowFailed, RowRemoved, DriftDone
      <3>3. \A k \in Keys : ~RowApply(k) /\ ~RowRemove(k) /\ ~DriftRestore(k) /\ ~DriftRemove(k)
        BY <1>2 DEF RowApply, RowRemove, DriftRestore, DriftRemove
      <3>4. QED
        BY <2>3, <3>1, <3>2, <3>3 DEF StartupStep, RowsGiveUp, DriftFails
    <2>4. CASE Request
      BY <1>2, <2>4 DEF Request, Admit, bootVars
    <2>5. CASE Crash
      BY <1>2, <2>5 DEF Crash
    <2>6. ASSUME NEW text \in late, LateHelper(text) PROVE FALSE
      BY <1>2, <2>6 DEF LateHelper, bootVars
    <2>7. QED
      BY <2>1, <2>2, <2>3, <2>4, <2>5, <2>6 DEF Next
  <1>4. /\ config' = config /\ runtime' = runtime /\ ActiveKeys' = ActiveKeys /\ todo = {}
        /\ phase = "drift_runtime"
    BY <1>2, <1>3 DEF PassEnds, NextPass, Passes, peers, rows, ActiveKeys
  <1>5. /\ config \subseteq ActiveKeys /\ ActiveKeys \subseteq config \cap runtime
        /\ runtime \ ActiveKeys \subseteq todo
    BY <1>1, <1>4 DEF KeysInv, StartupInv
  <1>6. QED
    BY <1>4, <1>5

\* A startup that ends without failure has left exactly the active keys, alike in the
\* file and on the interface, whatever it found: the passes of _startup_reconcile_drift
\* in this order leave each other nothing.
THEOREM StartupIsClean == Spec => CleanStartup
  BY InitIInv, StepIInv, StepIsClean, PTL DEF Spec, CleanStartup

------------------------------------------------------------------------------
(* The service implements KeyAccess, as long as no late helper has landed.   *)

\* A key that nothing was cut short on is in both places or in neither, but for the
\* one that the adapter call under way has changed in the file and not yet on the
\* interface.
Alike ==
  \A k \in Keys \ hurt :
    IF at \in JobPoints /\ job.peer = k /\ job.step = "runtime"
    THEN k \in runtime <=> job.had
    ELSE k \in config <=> k \in runtime

\* between two calls the lock is held for no key
NoCall == at \notin CallPoints => key = None

PromiseInv == IInv /\ NoCall /\ (landed = "no" => Alike)

\* A step of the adapter changes both places of its key, or is remembered.
LEMMA AdapterAlike ==
    ASSUME TypeOK, ControlInv, KeysInv, Alike, Adapter
    PROVE  Alike'
<1>. DEFINE p == job.peer
<1>1. /\ at \in JobPoints /\ p \in Keys /\ at' = at /\ job'.peer = p /\ job'.op = job.op
      /\ job'.had = job.had /\ job' \in Jobs /\ job'.step # "none" /\ Foreign \cap Keys = {}
  BY AdapterFrames, ForeignAssumption
<1>2. Effect /\ JobInv /\ JobInv'
  BY AdapterEffect DEF KeysInv
<1>3. ASSUME NEW k \in Keys \ hurt', k # p
      PROVE  k \in config' <=> k \in runtime'
  <2>1. k \in Peers \ {p} /\ k \notin hurt
    BY <1>2, <1>3 DEF Effect, Peers
  <2>2. k \in config <=> k \in runtime
    BY <1>3, <2>1 DEF Alike
  <2>. QED
    BY <1>2, <2>1, <2>2 DEF Effect, Same
<1>4. ASSUME p \notin hurt'
      PROVE  IF job'.step = "runtime" THEN p \in runtime' <=> job.had
             ELSE p \in config' <=> p \in runtime'
  <2>1. p \notin hurt
    BY <1>2, <1>4 DEF Effect
  <2>2. at # "drift" /\ job.op # "sync"
    BY <1>1, <2>1 DEF KeysInv, RestInv, ControlInv, JobPoints, RemovePoints
  <2>3. CASE job'.step = "runtime"
    <3>1. ~HelperCandidate
      <4>1. HelperCandidate => \/ Step("raised")
                               \/ \E x \in SUBSET Peers : job' = [job EXCEPT !.step = "apply", !.text = x]
        <5>1. /\ config \cup {job.peer} \subseteq Peers
              /\ config \ {job.peer} \subseteq Peers /\ config \subseteq Peers
          BY <1>1 DEF TypeOK, Peers
        <5>. QED
          BY <5>1 DEF HelperCandidate
      <4>2. \A x \in SUBSET Peers : job' = [job EXCEPT !.step = "apply", !.text = x] => job'.step = "apply"
        BY JobApply DEF TypeOK, Jobs
      <4>. QED
        BY <2>3, <4>1, <4>2, StepTaken
    <3>2. /\ ~AddRuntime /\ ~AddRaises /\ ~RemoveRuntime /\ ~RemoveRaises
          /\ ~HelperFails /\ ~HelperTimesOut
      BY <2>3, StepTaken DEF AddRuntime, AddRaises, RemoveRuntime, RemoveRaises, HelperFails, HelperTimesOut
    <3>3. ~SyncRuntime /\ ~SyncRaises /\ ~HelperApplies
      BY <2>3, StepTaken DEF SyncRuntime, SyncRaises, HelperApplies
    <3>4. runtime' = runtime /\ job.step = "begin"
      BY <3>1, <3>2, <3>3 DEF Adapter, AddStep, RemoveStep, SyncStep, HelperStep, AddConfig, RemoveConfig, JobAt
    <3>5. p \in config <=> p \in runtime
      BY <1>1, <2>1, <3>4 DEF Alike
    <3>. QED
      BY <1>1, <1>2, <2>3, <3>4, <3>5 DEF JobInv
  <2>4. CASE job'.step = "ok"
    BY <1>1, <1>2, <2>2, <2>4 DEF JobInv
  <2>5. CASE job'.step \in {"begin", "apply", "raised"}
    <3>1. CASE (p \in config' <=> job.had) /\ (p \in runtime' <=> job.had)
      BY <2>5, <3>1
    <3>2. CASE /\ job.step \in {"begin", "apply"}
               /\ p \in config' <=> p \in config
               /\ p \in runtime' <=> p \in runtime
      BY <1>1, <2>1, <2>5, <3>2 DEF Alike
    <3>. QED
      BY <1>2, <1>4, <2>2, <2>5, <3>1, <3>2 DEF Effect
  <2>. QED
    BY <1>1, <2>3, <2>4, <2>5 DEF Jobs, Outcomes
<1>. QED
  BY <1>1, <1>3, <1>4 DEF Alike

\* The call that begins or goes on leaves the places as they are.
LEMMA AlikeKept ==
    ASSUME Alike, config' = config, runtime' = runtime, hurt \subseteq hurt',
           (job' = job /\ at' = at) \/ job'.step # "runtime",
           at \in JobPoints => job.step # "runtime" \/ (job' = job /\ at' = at)
    PROVE  Alike'
  BY DEF Alike

\* A step of a call leaves the places as they are.
LEMMA CallAlike ==
    ASSUME TypeOK, ControlInv, Alike, CallStep
    PROVE  Alike'
<1>1. config' = config /\ runtime' = runtime /\ hurt \subseteq hurt'
  <2>1. hurt \subseteq hurt'
    BY DEF CallStep, CreateAdd, CreateAdded, CreateFail, CreateActivate, Compensated,
      CompensateRaised, Revoked, Deleted, DeleteRaised, WriteRaises, CreateRow, Revoke, Delete,
      Check, Refused
  <2>. QED
    BY <2>1, CallFrames
<1>2. (job' = job /\ at' = at) \/ job'.step # "runtime"
  <2>1. at \notin JobPoints => job.step = "none"
    BY DEF ControlInv, NoJob
  <2>2. Leave => job'.step = "none"
    BY DEF Leave, NoJob
  <2>3. \A op, k, point : Ask(op, k, point) => job'.step = "begin"
    BY DEF Ask
  <2>4. CreateAdded => job'.step = "none"
    BY DEF CreateAdded, NoJob
  <2>. QED
    BY <2>1, <2>2, <2>3, <2>4 DEF CallStep, CreateAdd, CreateFail, CreateActivate, Compensated,
      CompensateRaised, Revoked, Deleted, DeleteRaised, WriteRaises, CreateRow, Revoke, Delete,
      Check, Refused, callVars, Take, JobPoints, RemovePoints
<1>3. at \in JobPoints => job.step # "runtime" \/ (job' = job /\ at' = at)
  BY DEF CallStep, CreateAdd, CreateAdded, CreateFail, CreateActivate, Compensated,
      CompensateRaised, Revoked, Deleted, DeleteRaised, WriteRaises, CreateRow, Revoke, Delete,
      Check, Refused, Take, JobPoints, RemovePoints, Answer, Outcomes
<1>. QED
  BY <1>1, <1>2, <1>3, AlikeKept

\* A pass leaves the places as they are, and the end of the last one finds both with
\* the active keys and no others.
LEMMA StartupAlike ==
    ASSUME TypeOK, ControlInv, KeysInv, Alike, StartupStep
    PROVE  Alike'
<1>1. config' = config /\ runtime' = runtime
  BY StartupFrames
<1>2. CASE hurt' = hurt
  <2>1. (job' = job /\ at' = at) \/ job'.step # "runtime"
    BY DEF StartupStep, Start, RowRemoved, RowFailed, RowsGiveUp, PassEnds, DriftDone, DriftFails,
           RowApply, RowRemove, DriftRestore, DriftRemove, GiveUp, Ask, Leave, NoJob, callVars
  <2>2. at \in JobPoints => job.step # "runtime" \/ (job' = job /\ at' = at)
    BY DEF StartupStep, Start, RowRemoved, RowFailed, RowsGiveUp, PassEnds, DriftDone, DriftFails,
           RowApply, RowRemove, DriftRestore, DriftRemove, Waiting, Answer, Outcomes, callVars,
           JobPoints, RemovePoints
  <2>. QED
    BY <1>1, <1>2, <2>1, <2>2, AlikeKept
<1>3. CASE hurt' # hurt
  <2>1. PassEnds /\ phase' = "up"
    BY <1>3 DEF StartupStep, Start, RowRemoved, RowFailed, RowsGiveUp, PassEnds, DriftDone, DriftFails,
           RowApply, RowRemove, DriftRestore, DriftRemove, GiveUp, BootFrame
  <2>2. phase = "drift_runtime" /\ todo = {} /\ at' = "free"
    BY <2>1 DEF PassEnds, NextPass, Passes, callVars
  <2>3. config \subseteq ActiveKeys /\ ActiveKeys \subseteq config \cap runtime /\ runtime \subseteq ActiveKeys
    BY <2>2 DEF KeysInv, StartupInv
  <2>. QED
    BY <1>1, <2>2, <2>3 DEF Alike, JobPoints, RemovePoints
<1>. QED
  BY <1>2, <1>3

\* A crash takes the call away with its key.
LEMMA CrashAlike ==
    ASSUME TypeOK, ControlInv, KeysInv, Alike, Crash
    PROVE  Alike'
<1>1. /\ hurt' = hurt \cup ({key, job.peer} \cap Keys) /\ at' = "free"
      /\ \/ config' = config /\ runtime' = runtime
         \/ job.step = "apply" /\ config' = job.text /\ runtime' \in {runtime, job.text}
  BY DEF Crash, Leave, peers
<1>2. ASSUME NEW k \in Keys \ hurt'
      PROVE  k \in config' <=> k \in runtime'
  <2>1. k # job.peer /\ k \notin hurt /\ (k \in config <=> k \in runtime)
    BY <1>1, <1>2 DEF Alike
  <2>2. job.step = "apply" => (k \in job.text <=> k \in config)
    <3>1. job.step = "apply" => at \in JobPoints
      BY DEF ControlInv, NoJob
    <3>. QED
      BY <2>1, <3>1 DEF KeysInv, JobInv, Candidate
  <2>. QED
    BY <1>1, <2>1, <2>2
<1>. QED
  BY <1>1, <1>2 DEF Alike, JobPoints, RemovePoints

\* A call that ends forgets its key, and the startup has none.
LEMMA NoCallStep ==
    ASSUME TypeOK, ControlInv, NoCall, Next
    PROVE  NoCall'
<1>1. CASE Adapter
  BY <1>1, AdapterFrames DEF NoCall
<1>2. CASE CallStep
  BY <1>2 DEF NoCall, CallStep, CreateAdd, CreateAdded, CreateFail, CreateActivate, Compensated,
     CompensateRaised, Revoked, Deleted, DeleteRaised, WriteRaises, CreateRow, Revoke, Delete,
     Check, Refused, Ask, Leave, callVars, CallPoints, Points
<1>3. CASE StartupStep
  <2>1. at \in {"free", "row", "drift"}
    BY <1>3, StartupFrames
  <2>. QED
    BY <1>3, <2>1 DEF NoCall, StartupStep, Start, RowRemoved, RowFailed, RowsGiveUp, PassEnds, DriftDone,
       DriftFails, RowApply, RowRemove, DriftRestore, DriftRemove, GiveUp, Ask, Leave, callVars,
       CallPoints, Points
<1>4. CASE Request \/ Crash
  BY <1>4 DEF NoCall, Request, Admit, Crash, Leave, callVars
<1>5. ASSUME NEW text \in late, LateHelper(text) PROVE NoCall'
  BY <1>5 DEF NoCall, LateHelper, callVars
<1>. QED
  BY <1>1, <1>2, <1>3, <1>4, <1>5 DEF Next

\* The strengthened invariant holds at first.
LEMMA PromiseInvInit == Init => PromiseInv
<1>1. Init => Alike
  <2>1. Init => at \notin JobPoints /\ Keys \cap (config \cup runtime) = {}
    BY ForeignAssumption DEF Init, JobPoints, RemovePoints
  <2>. QED
    BY <2>1 DEF Alike
<1>. QED
  BY <1>1, InitIInv DEF PromiseInv, NoCall, Init

\* Every step keeps it.
LEMMA PromiseInvStep == PromiseInv /\ [Next]_vars => PromiseInv'
<1>. SUFFICES ASSUME PromiseInv, [Next]_vars, landed' = "no" PROVE Alike'
  <2>1. PromiseInv /\ [Next]_vars => NoCall'
    BY NoCallStep DEF PromiseInv, IInv, NoCall, vars, callVars
  <2>. QED
    BY <2>1, StepIInv DEF PromiseInv
<1>1. TypeOK /\ ControlInv /\ (landed = "no" => KeysInv /\ Alike)
  BY DEF PromiseInv, IInv
<1>2. CASE Adapter
  BY <1>1, <1>2, AdapterAlike, AdapterFrames
<1>3. CASE CallStep
  BY <1>1, <1>3, CallAlike, CallFrames DEF lateVars
<1>4. CASE StartupStep
  BY <1>1, <1>4, StartupAlike, StartupFrames
<1>5. CASE Request \/ UNCHANGED vars
  <2>1. UNCHANGED <<config, runtime, hurt, at, job, landed>>
    BY <1>5 DEF Request, Admit, peers, callVars, lateVars, vars
  <2>. QED
    BY <1>1, <2>1 DEF Alike
<1>6. CASE Crash
  BY <1>1, <1>6, CrashAlike DEF Crash, lateVars
<1>7. ASSUME NEW text \in late, LateHelper(text) PROVE FALSE
  BY <1>7 DEF LateHelper
<1>. QED
  BY <1>2, <1>3, <1>4, <1>5, <1>6, <1>7 DEF Next

\* What is mapped to the variables of KeyAccess.
stages == [k \in Keys |-> Stage(k)]
reach  == (runtime \cap Keys) \ hurt

\* What a step may do to the stage of a key and to its access.
Fits(k) ==
  \/ Stage(k)' = Stage(k) /\ (k \in reach' <=> k \in reach)
  \/ Stage(k) = "none" /\ Stage(k)' = "opening" /\ (k \in reach' <=> k \in reach)
  \/ Stage(k) \in {"open", "closed"} /\ Stage(k)' = "closing" /\ (k \in reach' <=> k \in reach)
  \/ Stage(k) = "opening" /\ Stage(k)' = "opening" /\ k \in reach'
  \/ Stage(k) \in {"opening", "closing"} /\ Stage(k)' = Stage(k) /\ k \notin reach'
  \/ Stage(k) \in {"opening", "closing"} /\ Stage(k)' = "open" /\ k \in reach \cap reach'
  \/ Stage(k) \in {"opening", "closing"} /\ Stage(k)' = "closed" /\ k \notin reach \cup reach'
  \/ Stage(k) \in {"opening", "closing"} /\ Stage(k)' = "unclear" /\ k \notin reach'

\* every other key keeps its stage and its access
OthersKept(k) == \A j \in Keys \ {k} : Stage(j)' = Stage(j) /\ (j \in reach' <=> j \in reach)

\* A step is about one key, or about none.
AboutOneKey ==
  \/ stages' = stages /\ reach' = reach
  \/ \E k \in Keys : Fits(k) /\ OthersKept(k)

\* A key is unclear while it is hurt, and then nothing is said of its access.
LEMMA StageIsStage ==
    ASSUME NEW k \in Keys
    PROVE  /\ Stage(k) \in Promise!Stages /\ (Stage(k) = "unclear" <=> k \in hurt)
           /\ k \in reach <=> k \in runtime /\ k \notin hurt
           /\ k \in reach' <=> k \in runtime' /\ k \notin hurt'
  BY DEF Stage, StageOf, reach, Promise!Stages

\* Where the row and its history stay as they are, so does the stage.
LEMMA StageKept ==
    ASSUME NEW k \in Keys, status'[k] = status[k], k \in hurt' <=> k \in hurt
    PROVE  Stage(k)' = Stage(k)
  BY DEF Stage, StageOf

\* A step that moves no peer and writes at most the row of one key is about that key.
LEMMA RowStep ==
    ASSUME NEW k \in Keys, UNCHANGED <<runtime, hurt>>, \A j \in Keys \ {k} : status'[j] = status[j]
    PROVE  OthersKept(k) /\ (k \in reach' <=> k \in reach) /\ (k \in hurt => Stage(k)' = Stage(k))
<1>1. \A j \in Keys \ {k} : Stage(j)' = Stage(j)
  BY StageKept
<1>2. reach' = reach
  BY DEF reach
<1>3. k \in hurt => Stage(k)' = Stage(k)
  BY DEF Stage
<1>. QED
  BY <1>1, <1>2, <1>3 DEF OthersKept

\* A step that writes no row, moves no peer and hurts no key is not seen.
LEMMA QuietStep ==
    ASSUME UNCHANGED <<status, runtime, hurt>>
    PROVE  stages' = stages /\ reach' = reach
  BY DEF stages, reach, Stage, StageOf

\* A step about one key is a step of KeyAccess, or none.
LEMMA OneKeyIsPromised ==
    ASSUME AboutOneKey
    PROVE  [Promise!AccessNext]_Promise!accessVars
<1>1. CASE stages' = stages /\ reach' = reach
  BY <1>1 DEF Promise!accessVars, stages, reach
<1>2. ASSUME NEW k \in Keys, Fits(k), OthersKept(k)
      PROVE  [Promise!AccessNext]_Promise!accessVars
  <2>1. \A j \in Keys \ {k} : Stage(j)' = Stage(j)
    BY <1>2 DEF OthersKept
  <2>2. stages' = [stages EXCEPT ![k] = Stage(k)']
    BY <2>1 DEF stages
  <2>3. Stage(k)' = Stage(k) => stages' = stages
    BY <2>2 DEF stages
  <2>4. Stage(k)' = "unclear" =>
          stages' = [j \in Keys |-> IF j \in {k} THEN "unclear" ELSE stages[j]]
    BY <2>1 DEF stages
  <2>5. Stage(k) \in {"opening", "closing"} => k \in Promise!Changing
    BY DEF Promise!Changing
  <2>6. reach' \ {k} = reach \ {k}
    BY <1>2 DEF OthersKept, reach
  <2>7. (k \in reach' <=> k \in reach) => reach' = reach
    BY <2>6
  <2>8. CASE Stage(k)' = Stage(k) /\ (k \in reach' <=> k \in reach)
    BY <2>3, <2>7, <2>8 DEF Promise!accessVars, stages, reach
  <2>9. CASE Stage(k) = "none" /\ Stage(k)' = "opening" /\ (k \in reach' <=> k \in reach)
    <3>1. Promise!Announce(k)
      BY <2>2, <2>7, <2>9 DEF Promise!Announce, Promise!Turn, stages, reach
    <3>. QED
      BY <3>1 DEF Promise!AccessNext
  <2>10. CASE Stage(k) \in {"open", "closed"} /\ Stage(k)' = "closing" /\ (k \in reach' <=> k \in reach)
    <3>1. Promise!Withdraw(k)
      BY <2>2, <2>7, <2>10 DEF Promise!Withdraw, Promise!Turn, stages, reach
    <3>. QED
      BY <3>1 DEF Promise!AccessNext
  <2>11. CASE Stage(k) = "opening" /\ Stage(k)' = "opening" /\ k \in reach'
    <3>1. stages' = stages /\ reach' = reach \cup {k}
      BY <2>3, <2>6, <2>11
    <3>2. Promise!Give(k)
      BY <2>11, <3>1 DEF Promise!Give, stages, reach
    <3>. QED
      BY <2>5, <2>11, <3>2 DEF Promise!AccessNext
  <2>12. CASE Stage(k) \in {"opening", "closing"} /\ Stage(k)' = Stage(k) /\ k \notin reach'
    <3>1. stages' = stages /\ reach' = reach \ {k}
      BY <2>3, <2>6, <2>12
    <3>2. Promise!Take(k)
      BY <3>1 DEF Promise!Take, stages, reach
    <3>. QED
      BY <2>5, <2>12, <3>2 DEF Promise!AccessNext
  <2>13. CASE Stage(k) \in {"opening", "closing"} /\ Stage(k)' = "open" /\ k \in reach \cap reach'
    <3>1. Promise!Grant(k)
      BY <2>2, <2>7, <2>13 DEF Promise!Grant, Promise!Turn, stages, reach
    <3>. QED
      BY <2>5, <2>13, <3>1 DEF Promise!AccessNext
  <2>14. CASE Stage(k) \in {"opening", "closing"} /\ Stage(k)' = "closed" /\ k \notin reach \cup reach'
    <3>1. Promise!Close(k)
      BY <2>2, <2>7, <2>14 DEF Promise!Close, Promise!Turn, stages, reach
    <3>. QED
      BY <2>5, <2>14, <3>1 DEF Promise!AccessNext
  <2>15. CASE Stage(k) \in {"opening", "closing"} /\ Stage(k)' = "unclear" /\ k \notin reach'
    <3>1. reach' = reach \ {k}
      BY <2>6, <2>15
    <3>2. Promise!Lose({k})
      BY <2>4, <2>15, <3>1 DEF Promise!Lose, stages, reach
    <3>3. {k} \in SUBSET Promise!Changing
      BY <2>5, <2>15
    <3>. QED
      BY <3>2, <3>3 DEF Promise!AccessNext
  <2>. QED
    BY <1>2, <2>8, <2>9, <2>10, <2>11, <2>12, <2>13, <2>14, <2>15 DEF Fits
<1>. QED
  BY <1>1, <1>2 DEF AboutOneKey

\* The adapter works on the key of a change that was announced, or on one that is unclear;
\* while a key is closed it gives nothing back that was not there.
LEMMA AdapterFits ==
    ASSUME TypeOK, ControlInv, KeysInv, Alike, Adapter
    PROVE  AboutOneKey
<1>. DEFINE p == job.peer
<1>1. /\ at \in JobPoints /\ p \in Keys /\ job.step \in {"begin", "runtime", "apply"}
      /\ status' = status /\ at' = at /\ job'.peer = p /\ job'.op = job.op
      /\ job'.had = job.had /\ job'.step \in {"begin", "runtime", "apply", "ok", "raised"}
  <2>1. job.step \in {"none", "begin", "runtime", "apply", "ok", "raised"}
    BY DEF TypeOK, Outcomes
  <2>2. job' \in Jobs => job'.step \in {"none", "begin", "runtime", "apply", "ok", "raised"}
    BY DEF Jobs, Outcomes
  <2>. QED
    BY <2>1, <2>2, AdapterFrames DEF rows, Outcomes
<1>2. Effect /\ JobInv /\ JobInv'
  BY AdapterEffect DEF KeysInv
<1>3. Alike'
  BY AdapterAlike
<1>4. OthersKept(p)
  <2>1. ASSUME NEW j \in Keys \ {p}
        PROVE  Stage(j)' = Stage(j) /\ (j \in reach' <=> j \in reach)
    <3>1. j \in Peers \ {p} /\ (j \in hurt' <=> j \in hurt)
      BY <1>2 DEF Effect, Peers
    <3>2. j \notin hurt => (j \in config <=> j \in runtime)
      BY DEF Alike
    <3>3. j \notin hurt => (j \in runtime' <=> j \in runtime)
      BY <1>2, <3>1, <3>2 DEF Effect, Same
    <3>. QED
      BY <1>1, <3>1, <3>3, StageKept, StageIsStage
  <2>. QED
    BY <2>1 DEF OthersKept
<1>5. Fits(p)
  <2>1. CASE p \in hurt
    <3>1. p \in hurt'
      BY <1>2, <2>1 DEF Effect
    <3>. QED
      BY <1>1, <2>1, <3>1, StageKept, StageIsStage DEF Fits
  <2>2. CASE p \notin hurt
    <3>1. /\ Stage(p) \in {"opening", "closing"}
          /\ Stage(p) = "closing" => job.op = "remove"
      BY <1>1, <2>2 DEF KeysInv, PointInv, RestInv, ControlInv, JobPoints, RemovePoints, CallPoints,
                        Points, Stage, StageOf
    <3>2. CASE p \in hurt'
      BY <1>1, <3>1, <3>2, StageIsStage DEF Fits, Stage
    <3>3. CASE p \notin hurt'
      <4>1. Stage(p)' = Stage(p)
        BY <1>1, <2>2, <3>3, StageKept
      <4>2. p \in runtime <=> job.had
        BY <1>1, <1>2, <2>2 DEF Alike, JobInv
      <4>3. job.op = "remove" /\ p \in runtime' => p \in runtime
        <5>1. job'.step = "runtime" => (p \in runtime' <=> job.had)
          BY <1>1, <1>3, <3>3 DEF Alike
        <5>2. job'.step = "ok" /\ job.op = "remove" => p \notin runtime'
          BY <1>1, <1>2 DEF JobInv
        <5>3. job'.step \in {"begin", "apply", "raised"} /\ job.op = "remove" =>
                (p \in runtime' <=> job.had) \/ (p \in runtime' <=> p \in runtime)
          BY <1>2, <3>3 DEF Effect
        <5>. QED
          BY <1>1, <4>2, <5>1, <5>2, <5>3
      <4>4. /\ p \in reach <=> p \in runtime
            /\ p \in reach' <=> p \in runtime'
        BY <1>1, <2>2, <3>3, StageIsStage
      <4>. QED
        BY <3>1, <4>1, <4>3, <4>4 DEF Fits
    <3>. QED
      BY <3>2, <3>3
  <2>. QED
    BY <2>1, <2>2
<1>. QED
  BY <1>1, <1>4, <1>5 DEF AboutOneKey

\* A step of a call writes the row of its key, and ends with what the row then says; or
\* it fails, and the key is unclear.
LEMMA CallFits ==
    ASSUME TypeOK, ControlInv, KeysInv, CallStep
    PROVE  AboutOneKey
<1>1. runtime' = runtime /\ at \notin {"row", "drift"}
  BY CallFrames
<1>2. /\ at \in CallPoints => key \in Keys /\ (at \in JobPoints => job.peer = key)
      /\ at \notin CallPoints => at = "free"
  BY <1>1 DEF ControlInv, TypeOK, CallPoints, JobPoints
<1>3. status \in [Keys -> Statuses]
  BY DEF TypeOK
<1>4. JobInv /\ AddressInv /\ PointInv /\ RestInv
  BY DEF KeysInv
\* a step that writes the row of one key
<1>5. ASSUME NEW k \in Keys, NEW s, status' = [status EXCEPT ![k] = s], hurt' = hurt,
             k \notin hurt =>
               \/ StageOf(status[k]) = StageOf(s)
               \/ StageOf(status[k]) = "none" /\ StageOf(s) = "opening"
               \/ StageOf(status[k]) \in {"open", "closed"} /\ StageOf(s) = "closing"
               \/ StageOf(status[k]) \in {"opening", "closing"} /\ StageOf(s) = "open" /\ k \in runtime
               \/ StageOf(status[k]) \in {"opening", "closing"} /\ StageOf(s) = "closed" /\ k \notin runtime
      PROVE  AboutOneKey
  <2>1. /\ \A j \in Keys \ {k} : status'[j] = status[j]
        /\ status'[k] = s
    BY <1>3, <1>5
  <2>2. OthersKept(k) /\ (k \in reach' <=> k \in reach) /\ (k \in hurt => Stage(k)' = Stage(k))
    BY <1>1, <1>5, <2>1, RowStep
  <2>3. k \notin hurt => /\ Stage(k) = StageOf(status[k]) /\ Stage(k)' = StageOf(s)
                         /\ k \in reach <=> k \in runtime
    BY <1>5, <2>1 DEF Stage, StageOf, reach
  <2>4. Fits(k)
    BY <1>5, <2>2, <2>3 DEF Fits
  <2>. QED
    BY <2>2, <2>4 DEF AboutOneKey
\* a step that leaves its key behind
<1>6. ASSUME at \in CallPoints, status' = status, hurt' = hurt \cup {key},
             status[key] \in {"pending_apply", "pending_revoke", "pending_delete"}
      PROVE  AboutOneKey
  <2>1. key \in Keys
    BY <1>2, <1>6
  <2>2. PICK k \in Keys : k = key
    BY <2>1
  <2>3. OthersKept(k)
    <3>1. \A j \in Keys \ {k} : Stage(j)' = Stage(j)
      BY <1>6, <2>2, StageKept
    <3>. QED
      BY <1>1, <1>6, <2>2, <3>1 DEF OthersKept, reach
  <2>4. Stage(k) \in {"opening", "closing", "unclear"} /\ Stage(k)' = "unclear" /\ k \notin reach'
    BY <1>6, <2>2 DEF Stage, StageOf, reach
  <2>5. Stage(k) = "unclear" => k \notin reach
    BY StageIsStage
  <2>6. Fits(k)
    BY <2>4, <2>5 DEF Fits
  <2>. QED
    BY <2>3, <2>6 DEF AboutOneKey
<1>7. CASE UNCHANGED <<status, runtime, hurt>>
  BY <1>7, QuietStep DEF AboutOneKey
<1>8. CASE CreateAdd \/ CreateAdded
  BY <1>1, <1>7, <1>8 DEF CreateAdd, CreateAdded, rows
<1>9. CASE CreateFail
  <2>1. /\ at = "create_failed" /\ key \in Keys /\ status[key] = "pending_apply"
        /\ status' = [status EXCEPT ![key] = "apply_failed"] /\ hurt' = hurt
        /\ key \notin hurt => key \notin runtime
    BY <1>2, <1>4, <1>9 DEF CreateFail, SetStatus, PointInv, CallPoints, Points
  <2>. QED
    BY <1>5, <2>1 DEF StageOf
<1>10. CASE CreateActivate
  <2>1. /\ at = "activating" /\ key \in Keys /\ status[key] = "pending_apply" /\ hurt' = hurt
        /\ status' = [status EXCEPT ![key] = "active"] \/ status' = status
        /\ key \notin hurt => key \in runtime
    BY <1>2, <1>4, <1>10 DEF CreateActivate, SetStatus, PointInv, CallPoints, Points, rows
  <2>. QED
    BY <1>1, <1>5, <1>7, <2>1 DEF StageOf
<1>11. CASE Compensated
  <2>1. /\ at = "compensating" /\ key \in Keys /\ status[key] = "pending_apply"
        /\ status' = [status EXCEPT ![key] = "apply_failed"] /\ hurt' = hurt
        /\ job.step = "ok" /\ job.op = "remove" /\ job.peer = key
    BY <1>2, <1>4, <1>11 DEF Compensated, Answer, SetStatus, PointInv, CallPoints, Points, JobPoints,
                             RemovePoints, ControlInv
  <2>2. key \notin runtime
    BY <1>4, <2>1 DEF JobInv, JobPoints, RemovePoints
  <2>. QED
    BY <1>5, <2>1, <2>2 DEF StageOf
<1>12. CASE CompensateRaised
  <2>1. at = "compensating" /\ status' = status /\ hurt' = hurt \cup {key} /\ status[key] = "pending_apply"
    BY <1>4, <1>12 DEF CompensateRaised, PointInv, rows
  <2>. QED
    BY <1>6, <2>1 DEF CallPoints, Points
<1>13. CASE Revoked
  <2>1. /\ at = "revoking" /\ key \in Keys /\ status[key] = "pending_revoke" /\ hurt' = hurt
        /\ job.step \in {"ok", "raised"} /\ job.op = "remove" /\ job.peer = key
    BY <1>2, <1>4, <1>13 DEF Revoked, PointInv, CallPoints, Points, JobPoints,
                             RemovePoints, ControlInv, Outcomes
  <2>2. CASE job.step = "ok"
    <3>1. key \notin runtime
      BY <1>4, <2>1, <2>2 DEF JobInv, JobPoints, RemovePoints
    <3>2. status' = [status EXCEPT ![key] = "revoked"]
      BY <1>13, <2>2 DEF Revoked, Answer
    <3>. QED
      BY <1>5, <2>1, <3>1, <3>2 DEF StageOf
  <2>3. CASE job.step = "raised"
    <3>1. status' = [status EXCEPT ![key] = prev]
      BY <1>13, <2>3 DEF Revoked, Answer, SetStatus
    <3>2. key \notin hurt =>
            /\ prev \in {"active", "apply_failed", "delete_failed"}
            /\ prev = "active" => key \in runtime
            /\ prev = "apply_failed" => key \notin runtime
      <4>1. key \notin hurt => /\ prev \notin {"pending_apply", "pending_revoke", "pending_delete"}
                               /\ Agrees(key, prev)
        BY <1>4, <2>1, <2>3 DEF PointInv, CallPoints, Points
      <4>2. prev \in AccessMayExist
        BY <2>1 DEF ControlInv
      <4>. QED
        BY <4>1, <4>2 DEF Agrees, AccessMayExist, RowStatuses
    <3>. QED
      BY <1>5, <2>1, <3>1, <3>2 DEF StageOf
  <2>. QED
    BY <2>1, <2>2, <2>3
<1>14. CASE Deleted
  <2>1. /\ at \in {"erasing", "deleting"} /\ key \in Keys /\ status[key] = "pending_delete" /\ hurt' = hurt
        /\ status' = [status EXCEPT ![key] = "gone"]
        /\ at = "deleting" => job.step = "ok" /\ job.op = "remove" /\ job.peer = key
        /\ at = "erasing" => column[key] = None
    BY <1>2, <1>4, <1>14 DEF Deleted, Answer, PointInv, CallPoints, Points, JobPoints, RemovePoints, ControlInv
  <2>2. at = "deleting" => key \notin runtime
    BY <1>4, <2>1 DEF JobInv, JobPoints, RemovePoints
  <2>3. at = "erasing" => key \notin runtime
    BY <1>4, <2>1 DEF AddressInv
  <2>. QED
    BY <1>5, <2>1, <2>2, <2>3 DEF StageOf
<1>15. CASE DeleteRaised
  <2>1. /\ at = "deleting" /\ key \in Keys /\ status[key] = "pending_delete" /\ hurt' = hurt
        /\ status' = [status EXCEPT ![key] = "delete_failed"]
    BY <1>2, <1>4, <1>15 DEF DeleteRaised, SetStatus, PointInv, CallPoints, Points
  <2>. QED
    BY <1>5, <2>1 DEF StageOf
<1>16. CASE WriteRaises
  <2>1. /\ at \in {"create_failed", "erasing", "revoking", "deleting", "compensating"}
        /\ status' = status /\ hurt' = hurt \cup {key}
    BY <1>16 DEF WriteRaises, rows
  <2>2. status[key] \in {"pending_apply", "pending_revoke", "pending_delete"}
    BY <1>4, <2>1 DEF PointInv
  <2>. QED
    BY <1>6, <2>1, <2>2 DEF CallPoints, Points
<1>17. ASSUME NEW k \in Keys, NEW i \in Ips, CreateRow(k, i)
       PROVE  AboutOneKey
  <2>1. status[k] = "none" /\ status' = [status EXCEPT ![k] = "pending_apply"] /\ hurt' = hurt
    BY <1>17 DEF CreateRow
  <2>. QED
    BY <1>5, <2>1 DEF StageOf
<1>18. ASSUME NEW k \in Keys, Revoke(k)
       PROVE  AboutOneKey
  <2>1. /\ at = "free" /\ status[k] \in AccessMayExist /\ hurt' = hurt
        /\ status' = [status EXCEPT ![k] = "pending_revoke"]
    BY <1>18 DEF Revoke, Take, SetStatus
  <2>2. k \notin hurt => status[k] \in {"active", "apply_failed", "delete_failed"}
    BY <1>4, <2>1 DEF RestInv, CallPoints, Agrees, AccessMayExist, RowStatuses
  <2>. QED
    BY <1>5, <2>1, <2>2 DEF StageOf
<1>19. ASSUME NEW k \in Keys, Delete(k)
       PROVE  AboutOneKey
  <2>1. /\ at = "free" /\ status[k] \in RowStatuses /\ hurt' = hurt
        /\ status' = [status EXCEPT ![k] = "pending_delete"]
    BY <1>19 DEF Delete, Take, SetStatus
  <2>2. k \notin hurt => status[k] \in {"active", "apply_failed", "revoked", "delete_failed"}
    BY <1>4, <2>1 DEF RestInv, CallPoints, Agrees, RowStatuses
  <2>. QED
    BY <1>5, <2>1, <2>2 DEF StageOf
<1>20. ASSUME NEW k \in Keys, Check(k)
       PROVE  AboutOneKey
  <2>1. PICK s : status' = [status EXCEPT ![k] = s]
    BY <1>20 DEF Check, SetStatus
  <2>2. /\ at = "free" /\ hurt' = hurt
        /\ status[k] = "pending_apply" \/ (status[k] = "apply_failed" /\ k \in config)
    BY <1>20 DEF Check, Take
  <2>3. k \in hurt
    BY <1>4, <2>2 DEF RestInv, CallPoints, Agrees
  <2>. QED
    BY <1>5, <2>1, <2>2, <2>3
<1>21. ASSUME NEW r \in queued, Refused(r.op, r.key)
       PROVE  AboutOneKey
  BY <1>1, <1>7, <1>21 DEF Refused, rows
<1>. QED
  BY <1>8, <1>9, <1>10, <1>11, <1>12, <1>13, <1>14, <1>15, <1>16, <1>17, <1>18, <1>19, <1>20, <1>21
  DEF CallStep

\* The startup closes what was left half way, or finds it unclear; its other steps are
\* not seen.
LEMMA StartupFits ==
    ASSUME TypeOK, ControlInv, KeysInv, StartupStep, hurt' = hurt
    PROVE  AboutOneKey
<1>1. runtime' = runtime
  BY StartupFrames
<1>2. status \in [Keys -> Statuses]
  BY DEF TypeOK
<1>3. JobInv /\ AddressInv /\ PointInv /\ RestInv
  BY DEF KeysInv
<1>4. CASE status' = status
  BY <1>1, <1>4, QuietStep DEF AboutOneKey
\* a step that writes the row of one key
<1>5. ASSUME NEW k \in Keys, NEW s, status' = [status EXCEPT ![k] = s],
             k \notin hurt =>
               \/ StageOf(status[k]) = StageOf(s)
               \/ StageOf(status[k]) = "closing" /\ StageOf(s) = "closed" /\ k \notin runtime
      PROVE  AboutOneKey
  <2>1. /\ \A j \in Keys \ {k} : status'[j] = status[j]
        /\ status'[k] = s
    BY <1>2, <1>5
  <2>2. OthersKept(k) /\ (k \in reach' <=> k \in reach) /\ (k \in hurt => Stage(k)' = Stage(k))
    BY <1>1, <2>1, RowStep
  <2>3. k \notin hurt => /\ Stage(k) = StageOf(status[k]) /\ Stage(k)' = StageOf(s)
                         /\ k \in reach <=> k \in runtime
    BY <2>1 DEF Stage, StageOf, reach
  <2>4. Fits(k)
    BY <1>5, <2>2, <2>3 DEF Fits
  <2>. QED
    BY <2>2, <2>4 DEF AboutOneKey
<1>6. ASSUME NEW k \in Keys, RowApply(k)
      PROVE  AboutOneKey
  <2>1. at = "free" /\ status[k] \in {"pending_apply", "apply_failed"}
    BY <1>6 DEF RowApply, Waiting
  <2>2. CASE status' = status
    BY <1>4, <2>2
  <2>3. CASE status' # status
    <3>1. PICK s : status' = [status EXCEPT ![k] = s] /\ s = IF PeerFor(k, column[k]) THEN "active" ELSE "apply_failed"
      BY <1>6, <2>3 DEF RowApply, SetStatus, rows
    <3>2. k \notin hurt => status[k] = "apply_failed" /\ k \notin config
      BY <1>3, <2>1 DEF RestInv, CallPoints, Agrees
    <3>3. column[k] # None
      BY <1>3, <2>1 DEF AddressInv, Addressed
    <3>4. PeerFor(k, column[k]) <=> k \in config
      BY <1>3, <3>3, PeerForOwn
    <3>. QED
      BY <1>5, <3>1, <3>2, <3>4 DEF StageOf
  <2>. QED
    BY <2>2, <2>3
<1>7. CASE at = "row"
  <2>1. /\ job.peer \in Keys /\ (job.peer \notin hurt => status[job.peer] = "delete_failed")
        /\ job.op = "remove" /\ at \in JobPoints
    BY <1>3, <1>7 DEF PointInv, ControlInv, JobPoints, RemovePoints
  <2>2. CASE RowRemoved
    <3>1. PICK s : /\ status' = [status EXCEPT ![job.peer] = s]
                   /\ status[job.peer] = "delete_failed" => s = "gone"
      BY <2>2 DEF RowRemoved
    <3>2. job.peer \notin runtime
      BY <1>3, <2>1, <2>2 DEF RowRemoved, Answer, JobInv
    <3>. QED
      BY <1>5, <2>1, <3>1, <3>2 DEF StageOf
  <2>3. CASE RowFailed
    <3>1. status' = status \/ status' = [status EXCEPT ![job.peer] = "delete_failed"]
      BY <1>7, <2>3 DEF RowFailed, SetStatus, rows
    <3>. QED
      BY <1>4, <1>5, <2>1, <3>1 DEF StageOf
  <2>. QED
    BY <1>1, <1>4, <1>6, <1>7, <2>2, <2>3
    DEF StartupStep, Start, RowsGiveUp, PassEnds, DriftDone, DriftFails, RowRemove, DriftRestore,
        DriftRemove, GiveUp, rows
<1>8. CASE at # "row"
  BY <1>4, <1>6, <1>8
  DEF StartupStep, Start, RowRemoved, RowFailed, RowsGiveUp, PassEnds, DriftDone, DriftFails, RowRemove,
      DriftRestore, DriftRemove, GiveUp, rows
<1>. QED
  BY <1>7, <1>8

\* A start that ends without a failure finds every unclear key open and on the interface,
\* or closed and off it.
LEMMA CleanIsPromised ==
    ASSUME TypeOK, ControlInv, KeysInv, StartupStep, hurt' # hurt
    PROVE  Promise!AccessNext
<1>1. /\ PassEnds /\ hurt' = {} /\ status' = status /\ runtime' = runtime
      /\ phase = "drift_runtime" /\ todo = {}
  <2>1. PassEnds /\ phase' = "up" /\ hurt' = {}
    BY DEF StartupStep, Start, RowRemoved, RowFailed, RowsGiveUp, PassEnds, DriftDone, DriftFails,
           RowApply, RowRemove, DriftRestore, DriftRemove, GiveUp, BootFrame
  <2>. QED
    BY <2>1 DEF PassEnds, NextPass, Passes, rows, peers
<1>2. /\ \A k \in Keys : status[k] \in {"none", "active", "apply_failed", "revoked", "gone"}
      /\ \A k \in Keys : k \in runtime <=> status[k] = "active"
  <2>1. /\ ActiveKeys \subseteq runtime /\ runtime \ ActiveKeys \subseteq {}
        /\ \A k \in Keys : Closed(k)
    BY <1>1 DEF KeysInv, StartupInv, DriftPasses, Passes
  <2>. QED
    BY <2>1 DEF ActiveKeys, Closed
<1>3. \A k \in Keys : /\ Stage(k)' = StageOf(status[k]) /\ StageOf(status[k]) \in Promise!Settled
                      /\ StageOf(status[k]) = "open" <=> k \in runtime
                      /\ k \notin hurt => Stage(k) = StageOf(status[k])
  BY <1>1, <1>2 DEF Stage, StageOf, Promise!Settled
<1>. DEFINE s == [k \in hurt |-> StageOf(status[k])]
<1>4. hurt \subseteq Keys
  BY DEF TypeOK
<1>5. s \in [hurt -> Promise!Settled]
  BY <1>3, <1>4
<1>6. stages' = [k \in Keys |-> IF k \in hurt THEN s[k] ELSE stages[k]]
  BY <1>3 DEF stages
<1>7. reach' = reach \cup {k \in hurt : s[k] = "open"}
  BY <1>1, <1>3, <1>4 DEF reach
<1>8. hurt \in SUBSET Promise!Unclear
  BY <1>4 DEF Promise!Unclear, Stage
<1>9. Promise!Settle(hurt)
  BY <1>5, <1>6, <1>7 DEF Promise!Settle, stages, reach
<1>. QED
  BY <1>8, <1>9 DEF Promise!AccessNext

\* A crash leaves unclear the key of the call and that of the adapter, and nothing else.
LEMMA CrashIsPromised ==
    ASSUME TypeOK, ControlInv, NoCall, KeysInv, Alike, Crash
    PROVE  Promise!AccessNext
<1>. DEFINE K == (({key, job.peer} \cap Keys) \ hurt)
<1>1. /\ status' = status /\ hurt' = hurt \cup ({key, job.peer} \cap Keys)
      /\ \/ config' = config /\ runtime' = runtime
         \/ job.step = "apply" /\ config' = job.text /\ runtime' \in {runtime, job.text}
  BY DEF Crash, Leave, peers, rows
<1>2. \A k \in Keys : /\ k \in K => Stage(k)' = "unclear"
                      /\ k \notin K => Stage(k)' = Stage(k)
  BY <1>1 DEF Stage, StageOf
<1>3. stages' = [k \in Keys |-> IF k \in K THEN "unclear" ELSE stages[k]]
  BY <1>2 DEF stages
<1>4. reach' = reach \ K
  <2>1. ASSUME NEW k \in Keys \ hurt'
        PROVE  k \in runtime' <=> k \in runtime
    <3>1. k # job.peer /\ k \notin hurt
      BY <1>1, <2>1
    <3>2. job.step = "apply" => (k \in job.text <=> k \in runtime)
      <4>1. job.step = "apply" => at \in JobPoints
        BY DEF ControlInv, NoJob
      <4>. QED
        BY <3>1, <4>1 DEF KeysInv, JobInv, Candidate, Alike
    <3>. QED
      BY <1>1, <3>2
  <2>. QED
    BY <1>1, <2>1 DEF reach
<1>5. ASSUME NEW k \in K
      PROVE  k \in Promise!Changing
  <2>1. k \in Keys /\ k \notin hurt /\ (k = key \/ k = job.peer)
    BY <1>5
  <2>2. at \in CallPoints => status[key] \in {"pending_apply", "pending_revoke", "pending_delete"}
    BY DEF KeysInv, PointInv, CallPoints, Points
  <2>3. status[k] \in {"pending_apply", "pending_revoke", "pending_delete", "delete_failed"}
    <3>1. CASE k = key
      BY <2>1, <2>2, <3>1, NoneAssumption DEF NoCall
    <3>2. CASE k = job.peer
      <4>1. at \in JobPoints
        BY <2>1, <3>2, NoneAssumption DEF ControlInv, NoJob
      <4>2. CASE at \in {"adding"} \cup RemovePoints
        BY <2>2, <3>2, <4>2 DEF ControlInv, CallPoints, Points, RemovePoints
      <4>3. CASE at = "row"
        BY <2>1, <3>2, <4>3 DEF KeysInv, PointInv
      <4>4. CASE at = "drift"
        BY <2>1, <3>2, <4>4 DEF KeysInv, RestInv, ControlInv
      <4>. QED
        BY <4>1, <4>2, <4>3, <4>4 DEF JobPoints
    <3>. QED
      BY <2>1, <3>1, <3>2
  <2>4. Stage(k) \in {"opening", "closing"}
    BY <2>1, <2>3 DEF Stage, StageOf
  <2>. QED
    BY <2>1, <2>4 DEF Promise!Changing
<1>6. Promise!Lose(K)
  BY <1>3, <1>4 DEF Promise!Lose, stages, reach
<1>7. K \in SUBSET Promise!Changing
  BY <1>5
<1>. QED
  BY <1>6, <1>7 DEF Promise!AccessNext

\* Every step of the service is one of KeyAccess, or none, until a late helper has landed.
LEMMA StepIsPromised == PromiseInv /\ [Next]_vars => [PromisedStep]_vars
<1>. SUFFICES ASSUME PromiseInv, Next, landed' = "no"
              PROVE  [Promise!AccessNext]_Promise!accessVars
  BY DEF PromisedStep
<1>1. TypeOK /\ ControlInv /\ NoCall /\ (landed = "no" => KeysInv /\ Alike)
  BY DEF PromiseInv, IInv
<1>2. CASE Adapter
  BY <1>1, <1>2, AdapterFrames, AdapterFits, OneKeyIsPromised
<1>3. CASE CallStep
  BY <1>1, <1>3, CallFrames, CallFits, OneKeyIsPromised DEF lateVars
<1>4. CASE StartupStep
  BY <1>1, <1>4, StartupFrames, StartupFits, CleanIsPromised, OneKeyIsPromised
<1>5. CASE Request
  <2>1. UNCHANGED <<status, runtime, hurt>>
    BY <1>5 DEF Request, Admit, rows, peers
  <2>. QED
    BY <2>1, QuietStep, OneKeyIsPromised DEF AboutOneKey
<1>6. CASE Crash
  BY <1>1, <1>6, CrashIsPromised DEF Crash, lateVars
<1>7. ASSUME NEW text \in late, LateHelper(text) PROVE FALSE
  BY <1>7 DEF LateHelper
<1>. QED
  BY <1>2, <1>3, <1>4, <1>5, <1>6, <1>7 DEF Next

\* services/awg.py over adapters/awg_config.py implements KeyAccess, for every set of
\* keys, addresses and foreign peers, in both modes and whatever fails or is cut off,
\* as long as no helper that timed out has installed its candidate.
THEOREM ServiceKeepsPromise == Spec => KeepsPromise
<1>1. Init => Promise!AccessInit
  BY ForeignAssumption DEF Init, Promise!AccessInit, Stage, StageOf
<1>. QED
  BY <1>1, PromiseInvInit, PromiseInvStep, StepIsPromised, PTL DEF Spec, KeepsPromise

------------------------------------------------------------------------------
(* The text of the config file (AwgConfigFile).                              *)

\* A line of the file, and what it may say of whom.
Lines == [is : {"interface", "peer", "options", "start", "end"}, of : FileKeys \cup FileForeign \cup {Nobody}]

\* What every text has in common that an edit of the bot or of the administrator
\* leaves: the interface comes first; a head of a peer and its options stand
\* together, in this order, once for every peer; a start marker is followed by the
\* whole block that it names, and an end marker ends the options it names.  An end
\* marker may be without a start marker: what is taken with a section goes on to
\* the next head, and the start marker of the next block is before it.
Shape(text) ==
  /\ text \in Seq(Lines) /\ Len(text) >= 1
  /\ \A i \in 1..Len(text) : text[i].is = "interface" <=> i = 1
  /\ text[1] = Header
  /\ \A i \in 1..Len(text) : text[i].is = "peer" =>
       text[i] = PeerHead /\ i < Len(text) /\ text[i + 1].is = "options"
  /\ \A i \in 1..Len(text) : text[i].is = "options" =>
       i > 1 /\ text[i - 1].is = "peer" /\ text[i].of # Nobody
  /\ \A i, j \in 1..Len(text) :
       text[i].is = "options" /\ text[j].is = "options" /\ text[i].of = text[j].of => i = j
  /\ \A i \in 1..Len(text) : text[i].is = "start" =>
       /\ i + 3 <= Len(text) /\ text[i + 1].is = "peer"
       /\ text[i + 2] = Line("options", text[i].of) /\ text[i + 3] = EndMark(text[i].of)
  /\ \A i \in 1..Len(text) : text[i].is = "end" =>
       i > 1 /\ text[i - 1] = Line("options", text[i].of)

\* The peers whose options a text has, and what an edit makes of a set of peers.
OptionLines(text) == {i \in 1..Len(text) : text[i].is = "options"}
Named(text) == {text[i].of : i \in OptionLines(text)}
EditPoints == {"free", "begun", "candidate", "compared", "staged", "written", "unwritten"}

\* What the edit has in hand is well formed, and the snapshot it began with is the
\* file itself until someone else writes it: up to the last comparison no one has,
\* and from there on no one unnoticed by overlooked.
EditInv ==
  /\ edit \in [op : {"none", "add", "remove"}, of : FileKeys \cup {Nobody}, at : EditPoints,
               text : Seq(Lines), backup : Seq(Lines), mode : {"none", "direct", "helper"}]
  /\ edit.at # "free" => edit.op # "none" /\ edit.of \in FileKeys /\ Shape(edit.backup)
  /\ edit.at \in {"candidate", "compared", "staged", "written"} => Shape(edit.text)
  /\ edit.at \in {"begun", "candidate"} /\ ~changed => file = edit.backup
  /\ edit.at \in {"compared", "staged"} /\ ~overlooked => file = edit.backup
  /\ edit.at \in {"candidate", "compared"} => Named(edit.text) = AsAsked(Named(edit.backup))
  /\ edit.at \in {"staged", "written"} /\ ~overlooked => Named(edit.text) = AsAsked(Named(edit.backup))
  /\ edit.at = "written" /\ ~overlooked => file = edit.text
  /\ edit.at = "unwritten" /\ ~overlooked => Named(file) = AsAsked(Named(file))

FInv ==
  /\ Shape(file) /\ EditInv
  /\ changed \in BOOLEAN /\ overlooked \in BOOLEAN /\ handEdits \in 0..MaxHandEdits

\* A set of numbers that is not empty has a least element.
LEMMA LeastOf == ASSUME NEW S \in SUBSET Nat, S # {} PROVE \E x \in S : \A y \in S : x <= y
<1>1. PICK x \in S : \A y \in S : ~(<<y, x>> \in OpToRel(<, Nat))
  BY WFMin, NatLessThanWellFounded
<1>2. ASSUME NEW y \in S PROVE x <= y
  <2>1. ~(y < x)
    <3>1. <<y, x>> \in Nat \X Nat
      OBVIOUS
    <3>2. <<y, x>> \notin {ss \in Nat \X Nat : ss[1] < ss[2]}
      BY <1>1 DEF OpToRel
    <3>. QED
      BY <3>1, <3>2
  <2>. QED
    BY <2>1
<1>. QED
  BY <1>2

\* Min of such a set is its least element, whatever else is known of it.
LEMMA MinOf == ASSUME NEW S \in SUBSET Nat, S # {} PROVE Min(S) \in S /\ \A y \in S : Min(S) <= y
<1>1. \E x \in S : \A y \in S : x <= y
  BY LeastOf
<1>. QED
  BY <1>1 DEF Min

\* Min of one number.
LEMMA MinOfOne == ASSUME NEW S \in SUBSET Nat, NEW x \in S, \A y \in S : y = x PROVE Min(S) = x
  BY MinOf

------------------------------------------------------------------------------
(* Taking lines out of a text.                                               *)

\* Where a line that stays comes to stand.
Stay(text, lines) == DOMAIN text \ lines
Place(kept, i) == Cardinality({j \in kept : j <= i})

\* The places of a finite set of numbers count it through in its order.
LEMMA Places ==
    ASSUME NEW m \in Nat, NEW kept \in SUBSET (1..m)
    PROVE  /\ IsFiniteSet(kept) /\ Cardinality(kept) \in Nat
           /\ \A i \in kept : Place(kept, i) \in 1..Cardinality(kept)
           /\ \A i, j \in kept : i < j => Place(kept, i) < Place(kept, j)
           /\ \A n \in 1..Cardinality(kept) : \E i \in kept : Place(kept, i) = n
           /\ \A i \in kept : i + 1 \in kept => Place(kept, i + 1) = Place(kept, i) + 1
           /\ 1 \in kept => Place(kept, 1) = 1
<1>. DEFINE Upto(i) == {j \in kept : j <= i}
<1>0. \A i \in kept : i \in Nat /\ i >= 1
  OBVIOUS
<1>1. IsFiniteSet(1..m)
  BY FS_Interval
<1>2. IsFiniteSet(kept)
  BY <1>1, FS_Subset
<1>3. Cardinality(kept) \in Nat
  BY <1>2, FS_CardinalityType
<1>4. ASSUME NEW i \in kept
      PROVE  IsFiniteSet(Upto(i)) /\ Cardinality(Upto(i)) \in Nat /\ Cardinality(Upto(i)) <= Cardinality(kept)
  <2>1. Upto(i) \in SUBSET kept
    OBVIOUS
  <2>2. IsFiniteSet(Upto(i)) /\ Cardinality(Upto(i)) <= Cardinality(kept)
    BY <1>2, <2>1, FS_Subset
  <2>. QED
    BY <2>2, FS_CardinalityType
<1>5. ASSUME NEW i \in kept PROVE Place(kept, i) \in 1..Cardinality(kept)
  <2>1. Upto(i) # {}
    OBVIOUS
  <2>2. Cardinality(Upto(i)) # 0
    BY <1>4, <2>1, FS_EmptySet
  <2>. QED
    BY <1>3, <1>4, <2>2 DEF Place
<1>6. ASSUME NEW i \in kept, NEW j \in kept, i < j PROVE Place(kept, i) < Place(kept, j)
  <2>1. Upto(i) \in SUBSET Upto(j) /\ j \in Upto(j) /\ j \notin Upto(i)
    <3>1. \A a \in kept : a <= i => a <= j
      BY <1>0, <1>6
    <3>2. j <= j /\ ~(j <= i)
      BY <1>0, <1>6
    <3>. QED
      BY <3>1, <3>2
  <2>2. Cardinality(Upto(i)) <= Cardinality(Upto(j)) /\ Cardinality(Upto(i)) # Cardinality(Upto(j))
    BY <1>4, <2>1, FS_Subset
  <2>. QED
    BY <1>4, <2>2 DEF Place
<1>7. ASSUME NEW n \in 1..Cardinality(kept) PROVE \E i \in kept : Place(kept, i) = n
  <2>. DEFINE f == [i \in kept |-> Place(kept, i)]
              N == 1..Cardinality(kept)
  <2>1. f \in [kept -> N]
    BY <1>5
  <2>2. \A i, j \in kept : f[i] = f[j] => i = j
    <3>. SUFFICES ASSUME NEW i \in kept, NEW j \in kept, i # j, f[i] = f[j] PROVE FALSE
      OBVIOUS
    <3>1. i < j \/ j < i
      OBVIOUS
    <3>. QED
      BY <1>5, <1>6, <3>1
  <2>3. f \in Injection(kept, N)
    BY <2>1, <2>2 DEF Injection, IsInjective
  <2>4. IsFiniteSet(N) /\ Cardinality(N) = Cardinality(kept)
    BY <1>3, FS_Interval
  <2>5. f \in Surjection(kept, N)
    BY <2>3, <2>4, FS_Injection
  <2>6. \E i \in kept : f[i] = n
    BY <2>5 DEF Surjection
  <2>. QED
    BY <2>6
<1>8. ASSUME NEW i \in kept, i + 1 \in kept PROVE Place(kept, i + 1) = Place(kept, i) + 1
  <2>1. Upto(i + 1) = Upto(i) \cup {i + 1} /\ i + 1 \notin Upto(i)
    <3>1. \A a \in kept : a <= i + 1 <=> a <= i \/ a = i + 1
      BY <1>0
    <3>2. ~(i + 1 <= i)
      BY <1>0
    <3>. QED
      BY <1>8, <3>1, <3>2
  <2>2. Cardinality(Upto(i + 1)) = Cardinality(Upto(i)) + 1
    BY <1>4, <2>1, FS_AddElement
  <2>. QED
    BY <2>2 DEF Place
<1>9. ASSUME 1 \in kept PROVE Place(kept, 1) = 1
  <2>1. Upto(1) = {1}
    <3>1. \A a \in kept : a <= 1 <=> a = 1
      BY <1>0
    <3>. QED
      BY <1>9, <3>1
  <2>. QED
    BY <2>1, FS_Singleton DEF Place
<1>. QED
  BY <1>2, <1>3, <1>5, <1>6, <1>7, <1>8, <1>9

\* What stays of a text: the same lines, in the same order, and what stood together
\* and stays still stands together.
LEMMA WithoutLines ==
    ASSUME NEW text \in Seq(Lines), NEW lines, NEW kept, kept = Stay(text, lines)
    PROVE  /\ Without(text, lines) \in Seq(Lines) /\ Len(Without(text, lines)) = Cardinality(kept)
           /\ \A i \in kept : Place(kept, i) \in 1..Cardinality(kept)
                              /\ Without(text, lines)[Place(kept, i)] = text[i]
<1>1. DOMAIN text = 1..Len(text) /\ Len(text) \in Nat /\ kept \in SUBSET (1..Len(text))
  BY DEF Stay
<1>0. /\ Cardinality(kept) \in Nat
      /\ \A i \in kept : i \in Nat /\ Place(kept, i) \in 1..Cardinality(kept) /\ Place(kept, i) \in Nat
  <2>1. \A i \in kept : i \in Nat
    BY <1>1
  <2>2. Cardinality(kept) \in Nat /\ \A i \in kept : Place(kept, i) \in 1..Cardinality(kept)
    BY <1>1, Places
  <2>. QED
    BY <2>1, <2>2
<1>2. Without(text, lines) =
        [n \in 1..Cardinality(kept) |-> text[CHOOSE i \in kept : Place(kept, i) = n]]
  BY DEF Without, Stay, Place
<1>3. ASSUME NEW n \in 1..Cardinality(kept)
      PROVE  (CHOOSE i \in kept : Place(kept, i) = n) \in kept
  BY <1>1, <1>3, Places
<1>4. ASSUME NEW i \in kept PROVE (CHOOSE j \in kept : Place(kept, j) = Place(kept, i)) = i
  <2>. DEFINE j == CHOOSE j \in kept : Place(kept, j) = Place(kept, i)
  <2>1. j \in kept /\ Place(kept, j) = Place(kept, i)
    OBVIOUS
  <2>2. \A a, b \in kept : a < b => Place(kept, a) < Place(kept, b)
    BY <1>1, Places
  <2>3. \A a \in kept : a \in Nat /\ Place(kept, a) \in Nat
    BY <1>0
  <2>. HIDE DEF j
  <2>4. ~(i < j) /\ ~(j < i)
    BY <2>1, <2>2, <2>3
  <2>5. j = i
    BY <2>1, <2>3, <2>4
  <2>. QED
    BY <2>5 DEF j
<1>6. \A n \in 1..Cardinality(kept) : text[CHOOSE i \in kept : Place(kept, i) = n] \in Lines
  BY <1>1, <1>3
<1>7. Without(text, lines) \in Seq(Lines) /\ Len(Without(text, lines)) = Cardinality(kept)
  <2>. DEFINE c == Cardinality(kept)
              w == Without(text, lines)
  <2>1. w \in [1..c -> Lines] /\ DOMAIN w = 1..c /\ c \in Nat
    BY <1>0, <1>2, <1>6
  <2>. HIDE DEF c, w
  <2>2. w \in Seq(Lines) /\ Len(w) = c
    BY <2>1, LenProperties, SeqDef
  <2>. QED
    BY <2>2 DEF c, w
<1>. QED
  BY <1>0, <1>2, <1>4, <1>7

------------------------------------------------------------------------------
(* Reading a text.                                                           *)

\* The lines of a text are records of a kind and a peer.
LEMMA LineFacts ==
    ASSUME NEW text, Shape(text)
    PROVE  /\ Len(text) \in Nat /\ DOMAIN text = 1..Len(text)
           /\ \A i \in 1..Len(text) : text[i] \in Lines
           /\ Heads(text) = {i \in 1..Len(text) : text[i].is \in {"interface", "peer"}}
           /\ PeerHeads(text) = {i \in 1..Len(text) : text[i].is = "peer"}
<1>1. text \in Seq(Lines)
  BY DEF Shape
<1>2. Len(text) \in Nat /\ DOMAIN text = 1..Len(text) /\ \A i \in 1..Len(text) : text[i] \in Lines
  BY <1>1
<1>3. Heads(text) = {i \in 1..Len(text) : text[i].is \in {"interface", "peer"}}
  BY <1>2 DEF Heads, IsHead
<1>. QED
  BY <1>2, <1>3 DEF PeerHeads

\* Where the section of a peer ends: it has the options of the peer, no other head,
\* and goes on to the next one.
LEMMA SectionOf ==
    ASSUME NEW text, Shape(text), NEW i \in PeerHeads(text), NEW e, e = SectionEnd(text, i)
    PROVE  /\ i \in 1..Len(text) /\ i + 1 \in 1..Len(text) /\ e \in (i + 1)..Len(text)
           /\ \A j \in (i + 1)..e : text[j].is \notin {"interface", "peer"}
           /\ e < Len(text) => text[e + 1].is \in {"interface", "peer"}
<1>. DEFINE Ends0 == {j - 1 : j \in {h \in Heads(text) : h > i}}
            S == Ends0 \cup {Len(text)}
<1>1. /\ Len(text) \in Nat /\ Heads(text) = {j \in 1..Len(text) : text[j].is \in {"interface", "peer"}}
      /\ i \in 1..Len(text) /\ text[i].is = "peer"
  BY LineFacts
<1>2. i < Len(text) /\ text[i + 1].is = "options"
  BY <1>1 DEF Shape
<1>3. S \in SUBSET Nat /\ S # {}
  BY <1>1
<1>4. e = Min(S)
  BY DEF SectionEnd
<1>5. e \in S /\ \A y \in S : e <= y
  BY <1>3, <1>4, MinOf
<1>6. e <= Len(text) /\ e \in Nat
  BY <1>3, <1>5
<1>7. ASSUME NEW j \in (i + 1)..e PROVE text[j].is \notin {"interface", "peer"}
  <2>. SUFFICES ASSUME text[j].is \in {"interface", "peer"} PROVE FALSE
    OBVIOUS
  <2>1. j \in Heads(text) /\ j > i
    BY <1>1, <1>6
  <2>2. j - 1 \in S
    BY <2>1
  <2>. QED
    BY <1>1, <1>5, <1>6, <2>2
<1>8. e >= i + 1
  <2>1. ASSUME NEW h \in Heads(text), h > i, e = h - 1 PROVE e >= i + 1
    <3>1. h \in Nat /\ h # i + 1
      BY <1>1, <1>2
    <3>. QED
      BY <1>1, <2>1, <3>1
  <2>. QED
    BY <1>1, <1>2, <1>5, <2>1
<1>9. ASSUME e < Len(text) PROVE text[e + 1].is \in {"interface", "peer"}
  <2>1. PICK h \in Heads(text) : e = h - 1
    BY <1>5, <1>6, <1>9
  <2>2. h \in Nat /\ h = e + 1
    BY <1>1, <2>1
  <2>. QED
    BY <1>1, <2>1, <2>2
<1>. QED
  BY <1>1, <1>2, <1>6, <1>7, <1>8, <1>9

\* A section has one line of options, after its head, and they name the peer.
LEMMA OptionsOf ==
    ASSUME NEW text, Shape(text), NEW i \in PeerHeads(text)
    PROVE  /\ Options(text, i) = {i + 1} /\ Identity(text, i) = text[i + 1].of
           /\ text[i + 1].is = "options"
<1>. DEFINE e == SectionEnd(text, i)
<1>1. /\ i \in 1..Len(text) /\ i + 1 \in 1..Len(text) /\ e \in (i + 1)..Len(text)
      /\ \A j \in (i + 1)..e : text[j].is \notin {"interface", "peer"}
  BY SectionOf
<1>2. text[i].is = "peer" /\ Len(text) \in Nat
  BY LineFacts
<1>3. text[i + 1].is = "options"
  BY <1>1, <1>2 DEF Shape
<1>4. Section(text, i) = i..e
  BY DEF Section
<1>. HIDE DEF e
<1>5. ASSUME NEW j \in i..e, text[j].is = "options", j # i + 1 PROVE FALSE
  <2>1. j # i
    BY <1>2, <1>5
  <2>2. j - 1 \in (i + 1)..e /\ j \in 1..Len(text)
    BY <1>1, <1>2, <1>5, <2>1
  <2>3. text[j - 1].is = "peer"
    BY <1>5, <2>2 DEF Shape
  <2>. QED
    BY <1>1, <2>2, <2>3
<1>6. i + 1 \in i..e
  BY <1>1, <1>2
<1>7. Options(text, i) = {i + 1}
  BY <1>3, <1>4, <1>5, <1>6 DEF Options
<1>8. Max({i + 1}) = i + 1
  BY <1>1, <1>2 DEF Max
<1>. QED
  BY <1>3, <1>7, <1>8 DEF Identity

\* Reading the sections gives the peers whose options are in the text.
LEMMA PeersAreNamed == ASSUME NEW text, Shape(text) PROVE PeersOf(text) = Named(text)
<1>1. \A i \in PeerHeads(text) : i \in 1..Len(text) /\ i + 1 \in 1..Len(text)
  BY SectionOf
<1>2. \A i \in PeerHeads(text) : Identity(text, i) = text[i + 1].of /\ i + 1 \in OptionLines(text)
  BY <1>1, OptionsOf DEF OptionLines
<1>3. ASSUME NEW j \in OptionLines(text) PROVE j - 1 \in PeerHeads(text) /\ j = (j - 1) + 1
  <2>1. j \in 1..Len(text) /\ text[j].is = "options" /\ Len(text) \in Nat
    BY LineFacts DEF OptionLines
  <2>2. j > 1 /\ text[j - 1].is = "peer"
    BY <2>1 DEF Shape
  <2>3. j - 1 \in 1..Len(text)
    BY <2>1, <2>2
  <2>. QED
    BY <2>1, <2>2, <2>3, LineFacts
<1>4. ASSUME NEW j \in OptionLines(text) PROVE text[j].of \in PeersOf(text)
  <2>1. Identity(text, j - 1) = text[(j - 1) + 1].of
    BY <1>2, <1>3
  <2>. QED
    BY <1>3, <2>1 DEF PeersOf
<1>. QED
  BY <1>2, <1>4 DEF PeersOf, Named

\* The bot and awg-quick can read it.
LEMMA ShapeParses == ASSUME NEW text, Shape(text) PROVE Parses(text)
<1>1. 1 \in Heads(text) /\ text[1] = Header
  <2>1. 1 \in 1..Len(text) /\ text[1].is = "interface"
    BY LineFacts DEF Shape
  <2>. QED
    BY <2>1, LineFacts DEF Shape
<1>2. \A j \in 1..Len(text) : text[j].is = "options" => 1 < j
  BY LineFacts DEF Shape
<1>3. \A i \in PeerHeads(text) : Cardinality(Options(text, i)) <= 1
  <2>. TAKE i \in PeerHeads(text)
  <2>1. Options(text, i) = {i + 1}
    BY OptionsOf
  <2>2. Cardinality({i + 1}) = 1
    BY FS_Singleton
  <2>. QED
    BY <2>1, <2>2
<1>. QED
  BY <1>1, <1>2, <1>3, LineFacts DEF Parses

\* A peer of the text has one section, and no other peer has none.
LEMMA FindPeerOf ==
    ASSUME NEW text, Shape(text), NEW p
    PROVE  /\ \A i \in FindPeer(text, p) : i \in PeerHeads(text) /\ text[i + 1].of = p
           /\ \A i \in PeerHeads(text) : text[i + 1].of = p => i \in FindPeer(text, p)
           /\ \A i, j \in FindPeer(text, p) : i = j
           /\ FindPeer(text, p) = {} <=> p \notin Named(text)
<1>1. \A i \in PeerHeads(text) : Identity(text, i) = text[i + 1].of /\ text[i + 1].is = "options"
  BY OptionsOf
<1>2. \A i \in PeerHeads(text) : i \in Nat /\ i + 1 \in 1..Len(text)
  BY SectionOf
<1>3. \A i, j \in FindPeer(text, p) : i = j
  <2>. SUFFICES ASSUME NEW i \in FindPeer(text, p), NEW j \in FindPeer(text, p) PROVE i = j
    OBVIOUS
  <2>1. i \in PeerHeads(text) /\ j \in PeerHeads(text) /\ text[i + 1].of = text[j + 1].of
    BY <1>1 DEF FindPeer
  <2>2. i + 1 = j + 1
    BY <1>1, <1>2, <2>1 DEF Shape
  <2>. QED
    BY <1>2, <2>1, <2>2
<1>4. FindPeer(text, p) = {} <=> p \notin PeersOf(text)
  BY DEF FindPeer, PeersOf
<1>. QED
  BY <1>1, <1>3, <1>4, PeersAreNamed DEF FindPeer

\* The block of a peer: four lines that stand together, one such block at most.
LEMMA BlockOf ==
    ASSUME NEW text, Shape(text), NEW k, HasBlock(text, k), NEW i, i = Min(Starts(text, k))
    PROVE  /\ i \in 1..Len(text) /\ i + 3 \in 1..Len(text) /\ text[i] = StartMark(k)
           /\ text[i + 1].is = "peer" /\ text[i + 2] = Line("options", k) /\ text[i + 3] = EndMark(k)
           /\ Ends(text, k) # {} /\ Min(Ends(text, k)) = i + 3
<1>1. Len(text) \in Nat /\ DOMAIN text = 1..Len(text)
  BY LineFacts
<1>2. Starts(text, k) \in SUBSET Nat /\ Starts(text, k) # {}
  BY <1>1 DEF Starts, HasBlock
<1>3. i \in Starts(text, k)
  BY <1>2, MinOf
<1>4. i \in 1..Len(text) /\ text[i] = StartMark(k)
  BY <1>1, <1>3 DEF Starts
<1>5. text[i].is = "start" /\ text[i].of = k
  BY <1>4 DEF StartMark, Line
<1>6. /\ i + 3 <= Len(text) /\ text[i + 1].is = "peer"
      /\ text[i + 2] = Line("options", k) /\ text[i + 3] = EndMark(k)
  BY <1>4, <1>5 DEF Shape
<1>7. i + 2 \in 1..Len(text) /\ i + 3 \in 1..Len(text)
  BY <1>1, <1>4, <1>6
<1>8. i + 3 \in Ends(text, k) /\ Ends(text, k) \in SUBSET Nat
  BY <1>1, <1>4, <1>6, <1>7 DEF Ends
<1>9. ASSUME NEW j \in Ends(text, k) PROVE j = i + 3
  <2>1. j \in 1..Len(text) /\ text[j].is = "end" /\ text[j].of = k
    BY <1>1 DEF Ends, EndMark, Line
  <2>2. j > 1 /\ text[j - 1] = Line("options", k)
    BY <2>1 DEF Shape
  <2>3. j - 1 \in 1..Len(text)
    BY <1>1, <2>1, <2>2
  <2>4. j - 1 = i + 2
    BY <1>6, <1>7, <2>2, <2>3 DEF Shape, Line
  <2>. QED
    BY <1>1, <1>4, <2>1, <2>4
<1>10. Min(Ends(text, k)) = i + 3
  BY <1>8, <1>9, MinOfOne
<1>. QED
  BY <1>4, <1>6, <1>7, <1>8, <1>10

------------------------------------------------------------------------------
(* Changing a text.                                                          *)

\* Lines that can be taken out together: no head without its options, no options
\* without their head, no start marker without its block and no end of a block
\* without its options stays.
Whole(text, kept) ==
  /\ 1 \in kept
  /\ \A i \in kept : text[i].is = "peer" => i + 1 \in kept
  /\ \A i \in kept : text[i].is = "options" => i - 1 \in kept
  /\ \A i \in kept : text[i].is = "start" => i + 1 \in kept /\ i + 2 \in kept /\ i + 3 \in kept
  /\ \A i \in kept : text[i].is = "end" => i - 1 \in kept

\* Where a line came from, and where the line after it and before it are.
LEMMA CameFrom ==
    ASSUME NEW text, Shape(text), NEW lines, NEW kept, kept = Stay(text, lines),
           NEW w, w = Without(text, lines)
    PROVE  /\ w \in Seq(Lines) /\ Len(w) \in Nat /\ Len(w) = Cardinality(kept)
           /\ kept \in SUBSET (1..Len(text))
           /\ \A n \in 1..Len(w) : \E i \in kept : Place(kept, i) = n /\ w[n] = text[i]
           /\ \A i \in kept : Place(kept, i) \in 1..Len(w) /\ w[Place(kept, i)] = text[i]
           /\ \A i \in kept : i + 1 \in kept =>
                Place(kept, i) + 1 = Place(kept, i + 1) /\ w[Place(kept, i) + 1] = text[i + 1]
           /\ \A i, j \in kept : Place(kept, i) = Place(kept, j) => i = j
           /\ 1 \in kept => Place(kept, 1) = 1
<1>1. Len(text) \in Nat /\ DOMAIN text = 1..Len(text) /\ text \in Seq(Lines)
  BY LineFacts DEF Shape
<1>2. kept \in SUBSET (1..Len(text))
  BY <1>1 DEF Stay
<1>3. w \in Seq(Lines) /\ Len(w) = Cardinality(kept)
  BY <1>1, WithoutLines
<1>4. \A i \in kept : Place(kept, i) \in 1..Len(w) /\ w[Place(kept, i)] = text[i]
  BY <1>1, <1>3, WithoutLines
<1>5. /\ Cardinality(kept) \in Nat
      /\ \A i, j \in kept : i < j => Place(kept, i) < Place(kept, j)
      /\ \A n \in 1..Cardinality(kept) : \E i \in kept : Place(kept, i) = n
      /\ \A i \in kept : i + 1 \in kept => Place(kept, i + 1) = Place(kept, i) + 1
      /\ 1 \in kept => Place(kept, 1) = 1
  BY <1>1, <1>2, Places
<1>6. ASSUME NEW i \in kept, NEW j \in kept, Place(kept, i) = Place(kept, j) PROVE i = j
  <2>1. i \in Nat /\ j \in Nat /\ Place(kept, i) \in Nat
    BY <1>1, <1>2, <1>3, <1>4, <1>5
  <2>2. ~(i < j) /\ ~(j < i)
    BY <1>5, <1>6, <2>1
  <2>. QED
    BY <2>1, <2>2
<1>7. ASSUME NEW n \in 1..Len(w) PROVE \E i \in kept : Place(kept, i) = n /\ w[n] = text[i]
  BY <1>3, <1>4, <1>5
<1>8. ASSUME NEW i \in kept, i + 1 \in kept
      PROVE  Place(kept, i) + 1 = Place(kept, i + 1) /\ w[Place(kept, i) + 1] = text[i + 1]
  BY <1>4, <1>5, <1>8
<1>. QED
  BY <1>2, <1>3, <1>4, <1>5, <1>6, <1>7, <1>8

\* What is left when such lines are taken out has the shape again, and the peers
\* whose options stay.
LEMMA WithoutShape ==
    ASSUME NEW text, Shape(text), NEW lines, NEW kept, kept = Stay(text, lines),
           Whole(text, kept), NEW w, w = Without(text, lines)
    PROVE  Shape(w) /\ Named(w) = {text[i].of : i \in OptionLines(text) \cap kept}
<1>1. /\ w \in Seq(Lines) /\ Len(w) \in Nat
      /\ kept \in SUBSET (1..Len(text)) /\ Len(text) \in Nat
  BY CameFrom, LineFacts
<1>2. /\ \A n \in 1..Len(w) : \E i \in kept : Place(kept, i) = n /\ w[n] = text[i]
      /\ \A i \in kept : Place(kept, i) \in 1..Len(w) /\ w[Place(kept, i)] = text[i]
  BY CameFrom
<1>3. \A i \in kept : i + 1 \in kept =>
        Place(kept, i) + 1 = Place(kept, i + 1) /\ w[Place(kept, i) + 1] = text[i + 1]
  BY CameFrom
<1>4. /\ \A i, j \in kept : Place(kept, i) = Place(kept, j) => i = j
      /\ Place(kept, 1) = 1 /\ 1 \in kept
  BY CameFrom DEF Whole
<1>5. Len(w) >= 1 /\ w[1] = Header
  BY <1>1, <1>2, <1>4 DEF Shape
<1>6. ASSUME NEW n \in 1..Len(w) PROVE w[n].is = "interface" <=> n = 1
  <2>1. PICK i \in kept : Place(kept, i) = n /\ w[n] = text[i]
    BY <1>2
  <2>2. text[i].is = "interface" <=> i = 1
    BY <1>1 DEF Shape
  <2>. QED
    BY <1>4, <2>1, <2>2
<1>7. ASSUME NEW n \in 1..Len(w), w[n].is = "peer"
      PROVE  w[n] = PeerHead /\ n < Len(w) /\ w[n + 1].is = "options"
  <2>1. PICK i \in kept : Place(kept, i) = n /\ w[n] = text[i]
    BY <1>2
  <2>2. text[i] = PeerHead /\ text[i + 1].is = "options" /\ i + 1 \in kept
    BY <1>1, <1>7, <2>1 DEF Shape, Whole
  <2>3. n + 1 = Place(kept, i + 1) /\ w[n + 1] = text[i + 1]
    BY <1>3, <2>1, <2>2
  <2>4. n + 1 \in 1..Len(w)
    BY <1>2, <2>2, <2>3
  <2>. QED
    BY <1>1, <2>1, <2>2, <2>3, <2>4
<1>8. ASSUME NEW n \in 1..Len(w), w[n].is = "options"
      PROVE  n > 1 /\ w[n - 1].is = "peer" /\ w[n].of # Nobody
  <2>1. PICK i \in kept : Place(kept, i) = n /\ w[n] = text[i]
    BY <1>2
  <2>2. text[i - 1].is = "peer" /\ i - 1 \in kept /\ text[i].of # Nobody /\ i \in Nat
    BY <1>1, <1>8, <2>1 DEF Shape, Whole
  <2>3. (i - 1) + 1 = i
    BY <2>2
  <2>4. Place(kept, i - 1) + 1 = n /\ w[Place(kept, i - 1)] = text[i - 1] /\ Place(kept, i - 1) \in 1..Len(w)
    BY <1>2, <1>3, <2>1, <2>2, <2>3
  <2>. QED
    BY <1>1, <2>1, <2>2, <2>4
<1>9. ASSUME NEW m \in 1..Len(w), NEW n \in 1..Len(w), w[m].is = "options", w[n].is = "options",
             w[m].of = w[n].of
      PROVE  m = n
  <2>1. PICK i \in kept : Place(kept, i) = m /\ w[m] = text[i]
    BY <1>2
  <2>2. PICK j \in kept : Place(kept, j) = n /\ w[n] = text[j]
    BY <1>2
  <2>3. i = j
    BY <1>1, <1>9, <2>1, <2>2 DEF Shape
  <2>. QED
    BY <2>1, <2>2, <2>3
<1>10. ASSUME NEW n \in 1..Len(w), w[n].is = "start"
       PROVE  /\ n + 3 <= Len(w) /\ w[n + 1].is = "peer"
              /\ w[n + 2] = Line("options", w[n].of) /\ w[n + 3] = EndMark(w[n].of)
  <2>1. PICK i \in kept : Place(kept, i) = n /\ w[n] = text[i]
    BY <1>2
  <2>2. /\ i + 1 \in kept /\ i + 2 \in kept /\ i + 3 \in kept /\ i \in Nat
        /\ text[i + 1].is = "peer" /\ text[i + 2] = Line("options", w[n].of)
        /\ text[i + 3] = EndMark(w[n].of)
    BY <1>1, <1>10, <2>1 DEF Shape, Whole
  <2>3. (i + 1) + 1 = i + 2 /\ (i + 2) + 1 = i + 3 /\ (n + 1) + 1 = n + 2 /\ (n + 2) + 1 = n + 3
    BY <1>1, <2>2
  <2>4. n + 1 = Place(kept, i + 1) /\ w[n + 1] = text[i + 1]
    BY <1>3, <2>1, <2>2
  <2>5. n + 2 = Place(kept, i + 2) /\ w[n + 2] = text[i + 2]
    BY <1>3, <2>2, <2>3, <2>4
  <2>6. n + 3 = Place(kept, i + 3) /\ w[n + 3] = text[i + 3]
    BY <1>3, <2>2, <2>3, <2>5
  <2>7. n + 3 \in 1..Len(w)
    BY <1>2, <2>2, <2>6
  <2>. QED
    BY <1>1, <2>2, <2>4, <2>5, <2>6, <2>7
<1>11. ASSUME NEW n \in 1..Len(w), w[n].is = "end"
       PROVE  n > 1 /\ w[n - 1] = Line("options", w[n].of)
  <2>1. PICK i \in kept : Place(kept, i) = n /\ w[n] = text[i]
    BY <1>2
  <2>2. text[i - 1] = Line("options", w[n].of) /\ i - 1 \in kept /\ i \in Nat
    BY <1>1, <1>11, <2>1 DEF Shape, Whole
  <2>3. (i - 1) + 1 = i
    BY <2>2
  <2>4. Place(kept, i - 1) + 1 = n /\ w[Place(kept, i - 1)] = text[i - 1] /\ Place(kept, i - 1) \in 1..Len(w)
    BY <1>2, <1>3, <2>1, <2>2, <2>3
  <2>. QED
    BY <1>1, <2>1, <2>2, <2>4
<1>12. Shape(w)
  BY <1>1, <1>5, <1>6, <1>7, <1>8, <1>9, <1>10, <1>11 DEF Shape
<1>13. ASSUME NEW p \in Named(w) PROVE p \in {text[i].of : i \in OptionLines(text) \cap kept}
  <2>1. PICK n \in 1..Len(w) : w[n].is = "options" /\ p = w[n].of
    BY DEF Named, OptionLines
  <2>2. PICK i \in kept : w[n] = text[i]
    BY <1>2
  <2>. QED
    BY <1>1, <2>1, <2>2 DEF OptionLines
<1>14. ASSUME NEW i \in OptionLines(text) \cap kept PROVE text[i].of \in Named(w)
  BY <1>2 DEF Named, OptionLines
<1>. QED
  BY <1>12, <1>13, <1>14

\* The kinds of a line exclude each other: what two lines that stand together are.
LEMMA Neighbours ==
    ASSUME NEW text, Shape(text), NEW i \in 1..Len(text)
    PROVE  /\ i \in Nat /\ Len(text) \in Nat /\ text[i] \in Lines
           /\ text[i].is = "peer" => i + 1 \in 1..Len(text) /\ text[i + 1].is = "options"
           /\ text[i].is = "options" => i - 1 \in 1..Len(text) /\ text[i - 1].is = "peer"
           /\ text[i].is = "end" =>
                i - 1 \in 1..Len(text) /\ text[i - 1].is = "options" /\ text[i - 1].of = text[i].of
           /\ text[i].is = "start" =>
                /\ i + 1 \in 1..Len(text) /\ i + 2 \in 1..Len(text) /\ i + 3 \in 1..Len(text)
                /\ text[i + 1].is = "peer" /\ text[i + 3].is = "end"
                /\ text[i + 2].is = "options" /\ text[i + 2].of = text[i].of
<1>1. Len(text) \in Nat /\ i \in Nat /\ text[i] \in Lines
  BY LineFacts
<1>2. text[i].is = "peer" => i + 1 \in 1..Len(text) /\ text[i + 1].is = "options"
  BY <1>1 DEF Shape
<1>3. text[i].is = "options" => i - 1 \in 1..Len(text) /\ text[i - 1].is = "peer"
  BY <1>1 DEF Shape
<1>4. ASSUME text[i].is = "end"
      PROVE  i - 1 \in 1..Len(text) /\ text[i - 1].is = "options" /\ text[i - 1].of = text[i].of
  <2>1. i - 1 \in 1..Len(text) /\ text[i - 1] = Line("options", text[i].of)
    BY <1>1, <1>4 DEF Shape
  <2>. QED
    BY <2>1 DEF Line
<1>5. ASSUME text[i].is = "start"
      PROVE  /\ i + 1 \in 1..Len(text) /\ i + 2 \in 1..Len(text) /\ i + 3 \in 1..Len(text)
             /\ text[i + 1].is = "peer" /\ text[i + 3].is = "end"
             /\ text[i + 2].is = "options" /\ text[i + 2].of = text[i].of
  <2>1. /\ i + 3 <= Len(text) /\ text[i + 1].is = "peer" /\ text[i + 2] = Line("options", text[i].of)
        /\ text[i + 3] = EndMark(text[i].of)
    BY <1>5 DEF Shape
  <2>2. text[i + 2].is = "options" /\ text[i + 2].of = text[i].of /\ text[i + 3].is = "end"
    BY <2>1 DEF Line, EndMark
  <2>. QED
    BY <1>1, <2>1, <2>2
<1>. QED
  BY <1>1, <1>2, <1>3, <1>4, <1>5

\* _remove_managed_block takes out the block of its peer and nothing else.
LEMMA WithoutBlockOf ==
    ASSUME NEW text, Shape(text), NEW k, HasBlock(text, k)
    PROVE  Shape(WithoutBlock(text, k)) /\ Named(WithoutBlock(text, k)) = Named(text) \ {k}
<1>. DEFINE b == Min(Starts(text, k))
            lines == b..(b + 3)
            kept == Stay(text, lines)
<1>1. /\ b \in 1..Len(text) /\ b + 3 \in 1..Len(text) /\ text[b] = StartMark(k)
      /\ text[b + 1].is = "peer" /\ text[b + 2] = Line("options", k) /\ text[b + 3] = EndMark(k)
      /\ Min(Ends(text, k)) = b + 3
  BY BlockOf
<1>2. WithoutBlock(text, k) = Without(text, lines)
  BY <1>1 DEF WithoutBlock
<1>. HIDE DEF b
<1>3. Len(text) \in Nat /\ b \in Nat /\ DOMAIN text = 1..Len(text)
  BY <1>1, LineFacts
<1>4. /\ text[b].is = "start" /\ text[b + 2].is = "options" /\ text[b + 3].is = "end"
      /\ text[b + 2].of = k
  BY <1>1 DEF StartMark, EndMark, Line
<1>5. lines = {b, b + 1, b + 2, b + 3} /\ b + 1 \in Nat /\ b + 2 \in Nat /\ b + 3 \in Nat
  BY <1>3
<1>6. \A i \in kept : i \in 1..Len(text) /\ i \in Nat /\ i # b /\ i # b + 1 /\ i # b + 2 /\ i # b + 3
  BY <1>3, <1>5 DEF Stay
<1>7. \A i \in 1..Len(text) : i # b /\ i # b + 1 /\ i # b + 2 /\ i # b + 3 => i \in kept
  BY <1>3, <1>5 DEF Stay
<1>. HIDE DEF lines, kept
<1>8. 1 \in kept
  <2>1. 1 \in 1..Len(text) /\ text[1].is = "interface"
    BY <1>1, <1>3 DEF Shape
  <2>2. 1 # b /\ 1 # b + 1 /\ 1 # b + 2 /\ 1 # b + 3
    BY <1>1, <1>3, <1>4, <2>1
  <2>. QED
    BY <1>7, <2>1, <2>2
<1>9. ASSUME NEW i \in kept, text[i].is = "peer" PROVE i + 1 \in kept
  <2>1. i \in 1..Len(text) /\ i + 1 \in 1..Len(text) /\ text[i + 1].is = "options"
    BY <1>6, <1>9, Neighbours
  <2>2. i + 1 # b /\ i + 1 # b + 1 /\ i + 1 # b + 2 /\ i + 1 # b + 3
    BY <1>1, <1>3, <1>4, <1>6, <2>1
  <2>. QED
    BY <1>7, <2>1, <2>2
<1>10. ASSUME NEW i \in kept, text[i].is = "options" PROVE i - 1 \in kept
  <2>1. i \in 1..Len(text) /\ i - 1 \in 1..Len(text) /\ text[i - 1].is = "peer"
    BY <1>6, <1>10, Neighbours
  <2>2. i - 1 # b /\ i - 1 # b + 1 /\ i - 1 # b + 2 /\ i - 1 # b + 3
    BY <1>1, <1>3, <1>4, <1>6, <2>1
  <2>. QED
    BY <1>7, <2>1, <2>2
<1>11. ASSUME NEW i \in kept, text[i].is = "start" PROVE i + 1 \in kept /\ i + 2 \in kept /\ i + 3 \in kept
  <2>1. /\ i + 1 \in 1..Len(text) /\ i + 2 \in 1..Len(text) /\ i + 3 \in 1..Len(text)
        /\ text[i + 1].is = "peer" /\ text[i + 2].is = "options" /\ text[i + 3].is = "end"
    BY <1>6, <1>11, Neighbours
  <2>2. i # b /\ i + 1 # b /\ i + 2 # b /\ i + 3 # b
    BY <1>4, <1>6, <2>1
  <2>3. i + 1 # b + 1 /\ i + 2 # b + 1 /\ i + 3 # b + 1
    BY <1>1, <1>3, <1>6, <2>1
  <2>4. i + 1 # b + 2 /\ i + 2 # b + 2 /\ i + 3 # b + 2
    BY <1>3, <1>4, <1>6, <2>1
  <2>5. i + 1 # b + 3 /\ i + 2 # b + 3 /\ i + 3 # b + 3
    BY <1>3, <1>4, <1>6, <2>1
  <2>. QED
    BY <1>7, <2>1, <2>2, <2>3, <2>4, <2>5
<1>12. ASSUME NEW i \in kept, text[i].is = "end" PROVE i - 1 \in kept
  <2>1. i \in 1..Len(text) /\ i - 1 \in 1..Len(text) /\ text[i - 1].is = "options"
    BY <1>6, <1>12, Neighbours
  <2>2. i - 1 # b /\ i - 1 # b + 1 /\ i - 1 # b + 2 /\ i - 1 # b + 3
    BY <1>1, <1>3, <1>4, <1>6, <2>1
  <2>. QED
    BY <1>7, <2>1, <2>2
<1>13. Whole(text, kept)
  BY <1>8, <1>9, <1>10, <1>11, <1>12 DEF Whole
<1>14. /\ Shape(WithoutBlock(text, k))
       /\ Named(WithoutBlock(text, k)) = {text[i].of : i \in OptionLines(text) \cap kept}
  <2>1. kept = Stay(text, lines)
    BY DEF kept
  <2>. QED
    BY <1>2, <1>13, <2>1, WithoutShape
<1>15. b + 2 \in OptionLines(text) /\ \A i \in OptionLines(text) : text[i].of = k => i = b + 2
  <2>1. b + 2 \in 1..Len(text)
    BY <1>1, <1>3
  <2>. QED
    BY <1>4, <2>1 DEF Shape, OptionLines
<1>16. \A i \in OptionLines(text) : i \in kept <=> text[i].of # k
  <2>1. \A i \in OptionLines(text) : i \in 1..Len(text) /\ text[i].is = "options"
    BY DEF OptionLines
  <2>2. \A i \in OptionLines(text) : i # b /\ i # b + 1 /\ i # b + 3
    BY <1>1, <1>4, <2>1
  <2>. QED
    BY <1>4, <1>6, <1>7, <1>15, <2>1, <2>2
<1>. QED
  BY <1>14, <1>16 DEF Named

\* _remove_peer_section_by_identity: of a text without a block of the peer, it takes
\* out the peer and whatever comments there are up to the next section.
LEMMA WithoutPeerOf ==
    ASSUME NEW text, Shape(text), NEW k, ~HasBlock(text, k)
    PROVE  Shape(WithoutPeer(text, k)) /\ Named(WithoutPeer(text, k)) = Named(text) \ {k}
<1>. DEFINE lines == UNION {Section(text, i) : i \in FindPeer(text, k)}
            kept == Stay(text, lines)
<1>1. Len(text) \in Nat /\ DOMAIN text = 1..Len(text)
  BY LineFacts
<1>2. \A j \in lines : \E i \in FindPeer(text, k) : j \in i..SectionEnd(text, i)
  BY DEF Section
<1>3. \A i \in FindPeer(text, k) : \A j \in i..SectionEnd(text, i) : j \in lines
  BY DEF Section
<1>4. WithoutPeer(text, k) = Without(text, lines)
  BY DEF WithoutPeer
<1>. HIDE DEF lines
<1>5. ASSUME NEW i \in FindPeer(text, k)
      PROVE  /\ i \in PeerHeads(text) /\ i \in 1..Len(text) /\ text[i].is = "peer"
             /\ SectionEnd(text, i) \in (i + 1)..Len(text)
             /\ \A j \in (i + 1)..SectionEnd(text, i) : text[j].is \notin {"interface", "peer"}
             /\ SectionEnd(text, i) < Len(text) =>
                  text[SectionEnd(text, i) + 1].is \in {"interface", "peer"}
             /\ text[i + 1].is = "options" /\ text[i + 1].of = k
  <2>1. i \in PeerHeads(text)
    BY <1>5, FindPeerOf
  <2>. QED
    BY <1>5, <2>1, SectionOf, OptionsOf, FindPeerOf, LineFacts
<1>6. \A i \in kept : i \in 1..Len(text) /\ i \notin lines
  BY <1>1 DEF Stay
<1>7. \A i \in 1..Len(text) : i \notin lines => i \in kept
  BY <1>1 DEF Stay
<1>. HIDE DEF kept
<1>8. 1 \in kept
  <2>1. 1 \in 1..Len(text) /\ text[1].is = "interface"
    BY <1>1 DEF Shape
  <2>2. ASSUME 1 \in lines PROVE FALSE
    <3>1. PICK i \in FindPeer(text, k) : 1 \in i..SectionEnd(text, i)
      BY <1>2, <2>2
    <3>2. i = 1
      BY <1>1, <1>5, <3>1
    <3>. QED
      BY <1>5, <2>1, <3>2
  <2>. QED
    BY <1>7, <2>1, <2>2
<1>9. ASSUME NEW i \in kept, text[i].is = "peer" PROVE i + 1 \in kept
  <2>1. i \in 1..Len(text) /\ i + 1 \in 1..Len(text) /\ text[i + 1].is = "options"
    BY <1>6, <1>9, Neighbours
  <2>2. ASSUME NEW h \in FindPeer(text, k), i + 1 \in h..SectionEnd(text, h) PROVE FALSE
    <3>1. h # i + 1
      BY <1>5, <2>1
    <3>2. i \in h..SectionEnd(text, h)
      BY <1>1, <1>5, <2>1, <2>2, <3>1
    <3>. QED
      BY <1>3, <1>6, <3>2
  <2>. QED
    BY <1>2, <1>7, <2>1, <2>2
<1>10. ASSUME NEW i \in kept, text[i].is = "options" PROVE i - 1 \in kept
  <2>1. i \in 1..Len(text) /\ i - 1 \in 1..Len(text) /\ text[i - 1].is = "peer"
    BY <1>6, <1>10, Neighbours
  <2>2. ASSUME NEW h \in FindPeer(text, k), i - 1 \in h..SectionEnd(text, h) PROVE FALSE
    <3>1. i - 1 = h
      BY <1>1, <1>5, <2>1, <2>2
    <3>2. i \in h..SectionEnd(text, h)
      BY <1>1, <1>5, <2>1, <2>2, <3>1
    <3>. QED
      BY <1>3, <1>6, <3>2
  <2>. QED
    BY <1>2, <1>7, <2>1, <2>2
<1>11. ASSUME NEW i \in kept, text[i].is = "start" PROVE i + 1 \in kept /\ i + 2 \in kept /\ i + 3 \in kept
  <2>1. /\ i \in 1..Len(text) /\ i + 1 \in 1..Len(text) /\ i + 2 \in 1..Len(text) /\ i + 3 \in 1..Len(text)
        /\ text[i + 1].is = "peer" /\ text[i + 3].is = "end"
        /\ text[i + 2].is = "options" /\ text[i + 2].of = text[i].of
    BY <1>6, <1>11, Neighbours
  <2>2. text[i + 2].of # k
    <3>1. i \notin Starts(text, k)
      BY DEF HasBlock
    <3>2. text[i] # StartMark(k)
      BY <1>1, <2>1, <3>1 DEF Starts
    <3>3. text[i] \in Lines
      BY <2>1, Neighbours
    <3>4. text[i].of # k
      BY <1>11, <3>2, <3>3 DEF Lines, StartMark, Line
    <3>. QED
      BY <2>1, <3>4
  <2>3. ASSUME NEW h \in FindPeer(text, k), NEW j \in {i + 1, i + 2, i + 3}, j \in h..SectionEnd(text, h)
        PROVE  FALSE
    <3>1. h # i + 2 /\ h # i + 3 /\ h \in Nat
      BY <1>1, <1>5, <2>1
    <3>2. h # i + 1
      <4>1. ASSUME h = i + 1 PROVE text[i + 2].of = k
        <5>1. h + 1 = i + 2
          BY <2>1, <4>1
        <5>. QED
          BY <1>5, <5>1
      <4>. QED
        BY <2>2, <4>1
    <3>3. h <= i
      BY <1>1, <2>1, <2>3, <3>1, <3>2
    <3>4. i \in h..SectionEnd(text, h)
      BY <1>1, <1>5, <2>1, <2>3, <3>3
    <3>. QED
      BY <1>3, <1>6, <3>4
  <2>. QED
    BY <1>2, <1>7, <2>1, <2>3
<1>12. ASSUME NEW i \in kept, text[i].is = "end" PROVE i - 1 \in kept
  <2>1. i \in 1..Len(text) /\ i - 1 \in 1..Len(text) /\ text[i - 1].is = "options"
    BY <1>6, <1>12, Neighbours
  <2>2. ASSUME NEW h \in FindPeer(text, k), i - 1 \in h..SectionEnd(text, h) PROVE FALSE
    <3>1. i \notin h..SectionEnd(text, h)
      BY <1>3, <1>6
    <3>2. SectionEnd(text, h) = i - 1
      BY <1>1, <1>5, <2>1, <2>2, <3>1
    <3>3. SectionEnd(text, h) < Len(text) /\ SectionEnd(text, h) + 1 = i
      BY <1>1, <2>1, <3>2
    <3>. QED
      BY <1>5, <1>12, <3>3
  <2>. QED
    BY <1>2, <1>7, <2>1, <2>2
<1>13. Whole(text, kept)
  BY <1>8, <1>9, <1>10, <1>11, <1>12 DEF Whole
<1>14. /\ Shape(WithoutPeer(text, k))
       /\ Named(WithoutPeer(text, k)) = {text[i].of : i \in OptionLines(text) \cap kept}
  <2>1. kept = Stay(text, lines)
    BY DEF kept
  <2>. QED
    BY <1>4, <1>13, <2>1, WithoutShape
<1>15. ASSUME NEW j \in OptionLines(text) PROVE j \in kept <=> text[j].of # k
  <2>1. j \in 1..Len(text) /\ text[j].is = "options" /\ j - 1 \in 1..Len(text) /\ text[j - 1].is = "peer"
    BY Neighbours DEF OptionLines
  <2>2. (j - 1) + 1 = j /\ j - 1 \in PeerHeads(text)
    BY <1>1, <2>1, LineFacts
  <2>3. ASSUME text[j].of = k PROVE j \in lines
    <3>1. j - 1 \in FindPeer(text, k)
      BY <2>2, <2>3, FindPeerOf
    <3>2. j \in (j - 1)..SectionEnd(text, j - 1)
      BY <1>1, <1>5, <2>1, <3>1
    <3>. QED
      BY <1>3, <3>1, <3>2
  <2>4. ASSUME NEW h \in FindPeer(text, k), j \in h..SectionEnd(text, h) PROVE text[j].of = k
    <3>1. j # h
      BY <1>5, <2>1
    <3>2. j - 1 = h
      BY <1>1, <1>5, <2>1, <2>4, <3>1
    <3>3. h + 1 = j
      BY <1>1, <2>1, <3>2
    <3>. QED
      BY <1>5, <3>3
  <2>. QED
    BY <1>2, <1>6, <1>7, <2>1, <2>3, <2>4
<1>. QED
  BY <1>14, <1>15 DEF Named

\* What remove_peer makes of a text, with or without markers.
LEMMA RemovedOf ==
    ASSUME NEW text, Shape(text), NEW k
    PROVE  Shape(Removed(text, k)) /\ Named(Removed(text, k)) = Named(text) \ {k}
  BY WithoutBlockOf, WithoutPeerOf DEF Removed

\* What awg-quick save leaves of a text: no comments.
LEMMA SavedShape ==
    ASSUME NEW text, Shape(text)
    PROVE  Shape(Without(text, {i \in DOMAIN text : text[i].is \in {"start", "end"}}))
<1>. DEFINE lines == {i \in DOMAIN text : text[i].is \in {"start", "end"}}
            kept == Stay(text, lines)
<1>1. DOMAIN text = 1..Len(text) /\ Len(text) \in Nat
  BY LineFacts
<1>2. \A i \in 1..Len(text) : i \in kept <=> text[i].is \notin {"start", "end"}
  BY <1>1 DEF Stay
<1>3. \A i \in kept : i \in 1..Len(text)
  BY <1>1 DEF Stay
<1>. HIDE DEF lines, kept
<1>4. 1 \in kept
  BY <1>1, <1>2 DEF Shape
<1>5. \A i \in kept : text[i].is = "peer" => i + 1 \in kept
  BY <1>2, <1>3, Neighbours
<1>6. \A i \in kept : text[i].is = "options" => i - 1 \in kept
  BY <1>2, <1>3, Neighbours
<1>7. Whole(text, kept)
  BY <1>2, <1>3, <1>4, <1>5, <1>6 DEF Whole
<1>8. kept = Stay(text, lines)
  BY DEF kept
<1>9. Shape(Without(text, lines))
  BY <1>7, <1>8, WithoutShape
<1>. QED
  BY <1>9 DEF lines

\* What is left when a peer is taken out with its markers.
LEMMA TakenOutShape ==
    ASSUME NEW text, Shape(text), NEW p, p # Nobody
    PROVE  Shape(Without(text, FindPeer(text, p) \cup {i \in DOMAIN text : text[i].of = p}))
<1>. DEFINE lines == FindPeer(text, p) \cup {i \in DOMAIN text : text[i].of = p}
            kept == Stay(text, lines)
<1>1. DOMAIN text = 1..Len(text) /\ Len(text) \in Nat
  BY LineFacts
<1>2. \A i \in 1..Len(text) : i \in kept <=> i \notin FindPeer(text, p) /\ text[i].of # p
  BY <1>1 DEF Stay
<1>3. \A i \in kept : i \in 1..Len(text)
  BY <1>1 DEF Stay
<1>4. ASSUME NEW i \in FindPeer(text, p) PROVE text[i].is = "peer" /\ text[i + 1].of = p
  BY FindPeerOf, LineFacts
<1>5. ASSUME NEW i \in 1..Len(text), text[i].is = "peer"
      PROVE  text[i].of # p /\ (i \in FindPeer(text, p) <=> text[i + 1].of = p)
  <2>1. text[i] = PeerHead
    BY <1>5 DEF Shape
  <2>2. i \in PeerHeads(text)
    BY <1>5, LineFacts
  <2>. QED
    BY <2>1, <2>2, FindPeerOf DEF PeerHead, Line
<1>. HIDE DEF lines, kept
<1>6. 1 \in kept
  <2>1. text[1].is = "interface" /\ text[1].of = Nobody /\ 1 \in 1..Len(text)
    BY <1>1 DEF Shape, Header, Line
  <2>. QED
    BY <1>2, <1>4, <2>1
<1>7. ASSUME NEW i \in kept, text[i].is = "peer" PROVE i + 1 \in kept
  <2>1. i \in 1..Len(text) /\ i + 1 \in 1..Len(text) /\ text[i + 1].is = "options"
    BY <1>3, <1>7, Neighbours
  <2>. QED
    BY <1>2, <1>4, <1>5, <1>7, <2>1
<1>8. ASSUME NEW i \in kept, text[i].is = "options" PROVE i - 1 \in kept
  <2>1. i \in 1..Len(text) /\ i - 1 \in 1..Len(text) /\ text[i - 1].is = "peer" /\ (i - 1) + 1 = i
    BY <1>1, <1>3, <1>8, Neighbours
  <2>. QED
    BY <1>2, <1>5, <2>1
<1>9. ASSUME NEW i \in kept, text[i].is = "end" PROVE i - 1 \in kept
  <2>1. /\ i \in 1..Len(text) /\ i - 1 \in 1..Len(text)
        /\ text[i - 1].is = "options" /\ text[i - 1].of = text[i].of
    BY <1>3, <1>9, Neighbours
  <2>. QED
    BY <1>2, <1>4, <2>1
<1>10. ASSUME NEW i \in kept, text[i].is = "start" PROVE i + 1 \in kept /\ i + 2 \in kept /\ i + 3 \in kept
  <2>1. /\ i \in 1..Len(text) /\ i + 1 \in 1..Len(text) /\ i + 2 \in 1..Len(text) /\ i + 3 \in 1..Len(text)
        /\ text[i + 1].is = "peer" /\ text[i + 3].is = "end"
        /\ text[i + 2].is = "options" /\ text[i + 2].of = text[i].of
    BY <1>3, <1>10, Neighbours
  <2>2. (i + 1) + 1 = i + 2 /\ (i + 3) - 1 = i + 2
    BY <1>1, <2>1
  <2>3. i + 2 \in kept
    BY <1>2, <1>4, <2>1
  <2>4. i + 1 \in kept
    BY <1>2, <1>5, <2>1, <2>2, <2>3
  <2>5. text[i + 3].of = text[i + 2].of
    BY <2>1, <2>2, Neighbours
  <2>6. i + 3 \in kept
    BY <1>2, <1>4, <2>1, <2>3, <2>5
  <2>. QED
    BY <2>3, <2>4, <2>6
<1>11. Whole(text, kept)
  BY <1>6, <1>7, <1>8, <1>9, <1>10 DEF Whole
<1>12. kept = Stay(text, lines)
  BY DEF kept
<1>13. Shape(Without(text, lines))
  BY <1>11, <1>12, WithoutShape
<1>. QED
  BY <1>13 DEF lines

\* A block of the bot after a text that does not have its peer.
LEMMA AppendedShape ==
    ASSUME NEW text, Shape(text), NEW k \in FileKeys, k \notin Named(text)
    PROVE  Shape(text \o Block(k)) /\ Named(text \o Block(k)) = Named(text) \cup {k}
<1>. DEFINE w == text \o Block(k)
            l == Len(text)
<1>1. l \in Nat /\ l >= 1 /\ text \in Seq(Lines) /\ \A i \in 1..l : text[i] \in Lines
  BY LineFacts DEF Shape
<1>2. Block(k) \in Seq(Lines) /\ Len(Block(k)) = 4
  BY DEF Block, StartMark, EndMark, PeerHead, Line, Lines
<1>3. /\ Block(k)[1] = StartMark(k) /\ Block(k)[2] = PeerHead /\ Block(k)[3] = Line("options", k)
      /\ Block(k)[4] = EndMark(k)
  BY DEF Block
<1>4. /\ w \in Seq(Lines) /\ Len(w) = l + 4
      /\ \A i \in 1..(l + 4) : w[i] = IF i <= l THEN text[i] ELSE Block(k)[i - l]
  <2>1. /\ w \in Seq(Lines) /\ Len(w) = l + Len(Block(k))
        /\ \A i \in 1..(l + Len(Block(k))) : w[i] = IF i <= l THEN text[i] ELSE Block(k)[i - l]
    BY <1>1, <1>2, ConcatProperties
  <2>2. l + Len(Block(k)) = l + 4
    BY <1>2
  <2>. QED
    BY <2>1, <2>2
<1>5. \A i \in 1..l : w[i] = text[i]
  BY <1>1, <1>4
<1>6. w[l + 1] = StartMark(k) /\ w[l + 2] = PeerHead /\ w[l + 3] = Line("options", k) /\ w[l + 4] = EndMark(k)
  <2>1. (l + 1) - l = 1 /\ (l + 2) - l = 2 /\ (l + 3) - l = 3 /\ (l + 4) - l = 4
    BY <1>1
  <2>2. \A d \in {1, 2, 3, 4} : w[l + d] = Block(k)[(l + d) - l]
    BY <1>1, <1>4
  <2>. QED
    BY <1>3, <2>1, <2>2
<1>7. /\ w[l + 1].is = "start" /\ w[l + 1].of = k /\ w[l + 2].is = "peer" /\ w[l + 3].is = "options"
      /\ w[l + 3].of = k /\ w[l + 4].is = "end" /\ w[l + 4].of = k
  BY <1>6 DEF StartMark, EndMark, PeerHead, Line
<1>8. \A n \in 1..(l + 4) : n \in 1..l \/ n = l + 1 \/ n = l + 2 \/ n = l + 3 \/ n = l + 4
  BY <1>1
<1>9. \A i \in 1..l : text[i].is = "options" => text[i].of # k
  BY DEF Named, OptionLines
<1>. HIDE DEF w, l
<1>10. (l + 1) + 1 = l + 2 /\ (l + 1) + 2 = l + 3 /\ (l + 1) + 3 = l + 4 /\ (l + 2) + 1 = l + 3
       /\ (l + 3) - 1 = l + 2 /\ (l + 4) - 1 = l + 3
  BY <1>1
<1>11. w[1] = Header /\ 1 \in 1..l
  <2>1. text[1] = Header /\ 1 \in 1..l
    BY <1>1 DEF Shape, l
  <2>. QED
    BY <1>5, <2>1
<1>12. \A n \in 1..(l + 4) : w[n].is = "interface" <=> n = 1
  <2>1. \A n \in 1..l : text[n].is = "interface" <=> n = 1
    BY DEF Shape, l
  <2>. QED
    BY <1>1, <1>5, <1>7, <1>8, <2>1
<1>13. ASSUME NEW n \in 1..(l + 4), w[n].is = "peer"
       PROVE  w[n] = PeerHead /\ n < l + 4 /\ w[n + 1].is = "options"
  <2>1. CASE n = l + 2
    BY <1>1, <1>6, <1>7, <1>10, <2>1
  <2>2. CASE n \in 1..l
    <3>1. text[n] = PeerHead /\ n + 1 \in 1..l /\ text[n + 1].is = "options"
      BY <1>5, <1>13, <2>2, Neighbours DEF Shape, l
    <3>. QED
      BY <1>1, <1>5, <2>2, <3>1
  <2>. QED
    BY <1>7, <1>8, <1>13, <2>1, <2>2
<1>14. ASSUME NEW n \in 1..(l + 4), w[n].is = "options"
       PROVE  n > 1 /\ w[n - 1].is = "peer" /\ w[n].of # Nobody
  <2>1. CASE n = l + 3
    BY <1>1, <1>7, <1>10, <2>1, FileAssumption
  <2>2. CASE n \in 1..l
    <3>1. n > 1 /\ n - 1 \in 1..l /\ text[n - 1].is = "peer" /\ text[n].of # Nobody
      BY <1>5, <1>14, <2>2, Neighbours DEF Shape, l
    <3>. QED
      BY <1>5, <2>2, <3>1
  <2>. QED
    BY <1>7, <1>8, <1>14, <2>1, <2>2
<1>15. ASSUME NEW m \in 1..(l + 4), NEW n \in 1..(l + 4), w[m].is = "options", w[n].is = "options",
              w[m].of = w[n].of
       PROVE  m = n
  <2>1. \A i, j \in 1..l :
          text[i].is = "options" /\ text[j].is = "options" /\ text[i].of = text[j].of => i = j
    BY DEF Shape, l
  <2>2. (m \in 1..l \/ m = l + 3) /\ (n \in 1..l \/ n = l + 3)
    BY <1>7, <1>8, <1>15
  <2>. QED
    BY <1>5, <1>7, <1>9, <1>15, <2>1, <2>2
<1>16. ASSUME NEW n \in 1..(l + 4), w[n].is = "start"
       PROVE  /\ n + 3 <= l + 4 /\ w[n + 1].is = "peer"
              /\ w[n + 2] = Line("options", w[n].of) /\ w[n + 3] = EndMark(w[n].of)
  <2>1. CASE n = l + 1
    BY <1>1, <1>6, <1>7, <1>10, <2>1
  <2>2. CASE n \in 1..l
    <3>1. n + 1 \in 1..l /\ n + 2 \in 1..l /\ n + 3 \in 1..l
      BY <1>5, <1>16, <2>2, Neighbours DEF l
    <3>2. /\ text[n + 1].is = "peer" /\ text[n + 2] = Line("options", text[n].of)
          /\ text[n + 3] = EndMark(text[n].of)
      BY <1>5, <1>16, <2>2 DEF Shape, l
    <3>3. w[n] = text[n] /\ w[n + 1] = text[n + 1] /\ w[n + 2] = text[n + 2] /\ w[n + 3] = text[n + 3]
      BY <1>5, <2>2, <3>1
    <3>4. n + 3 <= l + 4
      BY <1>1, <2>2
    <3>. QED
      BY <3>2, <3>3, <3>4
  <2>. QED
    BY <1>7, <1>8, <1>16, <2>1, <2>2
<1>17. ASSUME NEW n \in 1..(l + 4), w[n].is = "end" PROVE n > 1 /\ w[n - 1] = Line("options", w[n].of)
  <2>1. CASE n = l + 4
    BY <1>1, <1>6, <1>7, <1>10, <2>1
  <2>2. CASE n \in 1..l
    <3>1. n > 1 /\ n - 1 \in 1..l /\ text[n - 1] = Line("options", text[n].of)
      BY <1>5, <1>17, <2>2, Neighbours DEF Shape, l
    <3>. QED
      BY <1>5, <2>2, <3>1
  <2>. QED
    BY <1>7, <1>8, <1>17, <2>1, <2>2
<1>18. Len(w) >= 1 /\ Len(w) = l + 4 /\ w \in Seq(Lines)
  BY <1>1, <1>4 DEF w
<1>19. Shape(w)
  BY <1>11, <1>12, <1>13, <1>14, <1>15, <1>16, <1>17, <1>18 DEF Shape
<1>20. OptionLines(w) = OptionLines(text) \cup {l + 3}
  <2>1. \A n \in 1..(l + 4) : w[n].is = "options" <=> (n \in 1..l /\ text[n].is = "options") \/ n = l + 3
    BY <1>1, <1>5, <1>7, <1>8
  <2>2. \A n \in 1..l : n \in 1..(l + 4)
    BY <1>1
  <2>3. l + 3 \in 1..(l + 4)
    BY <1>1
  <2>. QED
    BY <1>18, <2>1, <2>2, <2>3 DEF OptionLines, l
<1>21. \A i \in OptionLines(text) : w[i].of = text[i].of
  BY <1>5 DEF OptionLines, l
<1>22. Named(w) = Named(text) \cup {k}
  BY <1>7, <1>20, <1>21 DEF Named
<1>. QED
  BY <1>19, <1>22 DEF w

\* A peer written between two others, or last, by the administrator.
LEMMA InsertedShape ==
    ASSUME NEW text, Shape(text), NEW p, p \in FileKeys \cup FileForeign, p \notin Named(text),
           NEW i \in 2..(Len(text) + 1),
           i <= Len(text) => text[i].is = "start" \/ (text[i] = PeerHead /\ text[i - 1].is # "start")
    PROVE  Shape(SubSeq(text, 1, i - 1) \o PlainBlock(p) \o SubSeq(text, i, Len(text)))
<1>. DEFINE l == Len(text)
            first == SubSeq(text, 1, i - 1)
            rest == SubSeq(text, i, l)
            w == first \o PlainBlock(p) \o rest
<1>1. l \in Nat /\ l >= 1 /\ text \in Seq(Lines) /\ \A n \in 1..l : text[n] \in Lines
  BY LineFacts DEF Shape
<1>2. i \in Nat /\ i >= 2 /\ i <= l + 1
  BY <1>1
<1>3. first \in Seq(Lines) /\ Len(first) = i - 1 /\ \A n \in 1..(i - 1) : first[n] = text[n]
  <2>1. \A n \in 1..(i - 1) : text[n] \in Lines
    BY <1>1, <1>2
  <2>2. /\ first \in Seq(Lines) /\ Len(first) = IF 1 <= i - 1 THEN (i - 1) - 1 + 1 ELSE 0
        /\ \A n \in 1..((i - 1) - 1 + 1) : first[n] = text[1 + n - 1]
    BY <1>2, <2>1, SubSeqProperties
  <2>3. (i - 1) - 1 + 1 = i - 1 /\ 1 <= i - 1 /\ \A n \in 1..(i - 1) : 1 + n - 1 = n
    BY <1>2
  <2>. QED
    BY <2>2, <2>3
<1>4. rest \in Seq(Lines) /\ Len(rest) = l + 1 - i /\ \A n \in 1..(l + 1 - i) : rest[n] = text[i + n - 1]
  <2>1. \A n \in i..l : text[n] \in Lines
    BY <1>1, <1>2
  <2>2. /\ rest \in Seq(Lines) /\ Len(rest) = IF i <= l THEN l - i + 1 ELSE 0
        /\ \A n \in 1..(l - i + 1) : rest[n] = text[i + n - 1]
    BY <1>1, <1>2, <2>1, SubSeqProperties
  <2>3. l - i + 1 = l + 1 - i /\ (i > l => l + 1 - i = 0)
    BY <1>1, <1>2
  <2>. QED
    BY <1>1, <1>2, <2>2, <2>3
<1>5. /\ PlainBlock(p) \in Seq(Lines) /\ Len(PlainBlock(p)) = 2
      /\ PlainBlock(p)[1] = PeerHead /\ PlainBlock(p)[2] = Line("options", p)
  BY DEF PlainBlock, PeerHead, Line, Lines
<1>. HIDE DEF first, rest, l
<1>6. /\ first \o PlainBlock(p) \in Seq(Lines) /\ Len(first \o PlainBlock(p)) = i + 1
      /\ \A n \in 1..(i + 1) : (first \o PlainBlock(p))[n] =
           IF n <= i - 1 THEN text[n] ELSE PlainBlock(p)[n - (i - 1)]
  <2>1. /\ first \o PlainBlock(p) \in Seq(Lines) /\ Len(first \o PlainBlock(p)) = Len(first) + Len(PlainBlock(p))
        /\ \A n \in 1..(Len(first) + Len(PlainBlock(p))) : (first \o PlainBlock(p))[n] =
             IF n <= Len(first) THEN first[n] ELSE PlainBlock(p)[n - Len(first)]
    BY <1>3, <1>5, ConcatProperties
  <2>2. Len(first) + Len(PlainBlock(p)) = i + 1
    BY <1>2, <1>3, <1>5
  <2>. QED
    BY <1>2, <1>3, <2>1, <2>2
<1>7. /\ w \in Seq(Lines) /\ Len(w) = l + 2
      /\ \A n \in 1..(l + 2) : w[n] =
           IF n <= i + 1 THEN (first \o PlainBlock(p))[n] ELSE rest[n - (i + 1)]
  <2>1. /\ w \in Seq(Lines) /\ Len(w) = Len(first \o PlainBlock(p)) + Len(rest)
        /\ \A n \in 1..(Len(first \o PlainBlock(p)) + Len(rest)) : w[n] =
             IF n <= Len(first \o PlainBlock(p)) THEN (first \o PlainBlock(p))[n]
             ELSE rest[n - Len(first \o PlainBlock(p))]
    BY <1>4, <1>6, ConcatProperties
  <2>2. Len(first \o PlainBlock(p)) + Len(rest) = l + 2
    BY <1>1, <1>2, <1>4, <1>6
  <2>. QED
    BY <1>6, <2>1, <2>2
<1>8. \A n \in 1..(i - 1) : n \in 1..l /\ w[n] = text[n]
  <2>1. \A n \in 1..(i - 1) : n \in 1..l /\ n \in 1..(l + 2) /\ n \in 1..(i + 1) /\ n <= i + 1 /\ n <= i - 1
    BY <1>1, <1>2
  <2>. QED
    BY <1>6, <1>7, <2>1
<1>9. w[i] = PeerHead /\ w[i + 1] = Line("options", p)
  <2>1. i \in 1..(l + 2) /\ i + 1 \in 1..(l + 2) /\ i <= i + 1 /\ ~(i <= i - 1) /\ ~(i + 1 <= i - 1)
        /\ i - (i - 1) = 1 /\ (i + 1) - (i - 1) = 2 /\ i \in 1..(i + 1) /\ i + 1 \in 1..(i + 1)
        /\ i + 1 <= i + 1
    BY <1>1, <1>2
  <2>. QED
    BY <1>5, <1>6, <1>7, <2>1
<1>10. \A n \in i..l : n + 2 \in 1..(l + 2) /\ w[n + 2] = text[n]
  <2>. SUFFICES ASSUME NEW n \in i..l PROVE n + 2 \in 1..(l + 2) /\ w[n + 2] = text[n]
    OBVIOUS
  <2>1. n + 2 \in 1..(l + 2) /\ ~(n + 2 <= i + 1) /\ (n + 2) - (i + 1) \in 1..(l + 1 - i)
        /\ i + ((n + 2) - (i + 1)) - 1 = n
    BY <1>1, <1>2
  <2>. QED
    BY <1>4, <1>7, <2>1
<1>. HIDE DEF w
\* a line of the new text is one of the old text or one of the two new ones
<1>11. ASSUME NEW n \in 1..(l + 2)
       PROVE  \/ n \in 1..(i - 1) \/ n = i \/ n = i + 1
              \/ (n - 2 \in i..l /\ n - 2 \in 1..l /\ w[n] = text[n - 2])
  <2>1. n \in 1..(i - 1) \/ n = i \/ n = i + 1 \/ (n - 2 \in i..l /\ n - 2 \in 1..l /\ (n - 2) + 2 = n)
    BY <1>1, <1>2
  <2>. QED
    BY <1>10, <2>1
<1>12. /\ w[i].is = "peer" /\ w[i + 1].is = "options" /\ w[i + 1].of = p /\ p # Nobody
       /\ i + 1 \in 1..(l + 2) /\ (i + 1) - 1 = i
  <2>1. w[i].is = "peer" /\ w[i + 1].is = "options" /\ w[i + 1].of = p
    BY <1>9 DEF PeerHead, Line
  <2>2. p # Nobody
    BY FileAssumption
  <2>3. i + 1 \in 1..(l + 2) /\ (i + 1) - 1 = i
    BY <1>1, <1>2
  <2>. QED
    BY <2>1, <2>2, <2>3
\* what stands together in the old text is not parted
<1>13. i \in 1..l => text[i].is \notin {"options", "end"}
  <2>1. PeerHead.is = "peer"
    BY DEF PeerHead, Line
  <2>. QED
    BY <2>1, <1>1, <1>2 DEF l
<1>14. ASSUME NEW n \in 1..(i - 1), n + 1 \in 1..l,
              text[n + 1].is \in {"options", "end"} \/ (text[n].is = "start" /\ text[n + 1].is = "peer")
       PROVE  n + 1 \in 1..(i - 1)
  <2>1. n + 1 # i
    <3>1. ASSUME n + 1 = i PROVE n = i - 1 /\ i <= l
      BY <1>1, <1>2, <1>14, <3>1
    <3>2. PeerHead.is = "peer"
      BY DEF PeerHead, Line
    <3>. QED
      BY <1>13, <1>14, <3>1, <3>2 DEF l
  <2>. QED
    BY <1>1, <1>2, <2>1
<1>15. w[1] = Header /\ Len(w) >= 1
  <2>1. text[1] = Header /\ 1 \in 1..(i - 1)
    BY <1>2 DEF Shape
  <2>. QED
    BY <1>1, <1>7, <1>8, <2>1
<1>16. ASSUME NEW n \in 1..(l + 2) PROVE w[n].is = "interface" <=> n = 1
  <2>1. \A m \in 1..l : text[m].is = "interface" <=> m = 1
    BY DEF Shape, l
  <2>2. CASE n \in 1..(i - 1)
    BY <1>8, <2>1, <2>2
  <2>3. CASE n = i \/ n = i + 1
    BY <1>2, <1>12, <2>3
  <2>4. CASE n - 2 \in i..l /\ n - 2 \in 1..l /\ w[n] = text[n - 2]
    <3>1. n # 1 /\ n - 2 # 1
      BY <1>1, <1>2, <2>4
    <3>. QED
      BY <2>1, <2>4, <3>1
  <2>. QED
    BY <1>11, <2>2, <2>3, <2>4
<1>17. ASSUME NEW n \in 1..(l + 2), w[n].is = "peer"
       PROVE  w[n] = PeerHead /\ n < l + 2 /\ w[n + 1].is = "options"
  <2>1. CASE n \in 1..(i - 1)
    <3>1. text[n] = PeerHead /\ n + 1 \in 1..l /\ text[n + 1].is = "options"
      BY <1>8, <1>17, <2>1, Neighbours DEF Shape, l
    <3>2. n + 1 \in 1..(i - 1)
      BY <1>14, <2>1, <3>1
    <3>. QED
      BY <1>1, <1>2, <1>8, <2>1, <3>1, <3>2
  <2>2. CASE n = i
    BY <1>1, <1>2, <1>9, <1>12, <2>2
  <2>3. CASE n - 2 \in i..l /\ n - 2 \in 1..l /\ w[n] = text[n - 2]
    <3>1. text[n - 2] = PeerHead /\ (n - 2) + 1 \in 1..l /\ text[(n - 2) + 1].is = "options"
      BY <1>17, <2>3, Neighbours DEF Shape, l
    <3>2. (n - 2) + 1 \in i..l /\ ((n - 2) + 1) + 2 = n + 1 /\ n < l + 2
      BY <1>1, <1>2, <2>3, <3>1
    <3>3. w[n + 1] = text[(n - 2) + 1]
      BY <1>10, <3>2
    <3>. QED
      BY <2>3, <3>1, <3>2, <3>3
  <2>. QED
    BY <1>11, <1>12, <1>17, <2>1, <2>2, <2>3
<1>18. ASSUME NEW n \in 1..(l + 2), w[n].is = "options"
       PROVE  n > 1 /\ w[n - 1].is = "peer" /\ w[n].of # Nobody
  <2>1. CASE n \in 1..(i - 1)
    <3>1. n > 1 /\ n - 1 \in 1..l /\ text[n - 1].is = "peer" /\ text[n].of # Nobody
      BY <1>8, <1>18, <2>1, Neighbours DEF Shape, l
    <3>2. n - 1 \in 1..(i - 1)
      BY <1>2, <2>1, <3>1
    <3>. QED
      BY <1>8, <2>1, <3>1, <3>2
  <2>2. CASE n = i + 1
    BY <1>2, <1>12, <2>2
  <2>3. CASE n - 2 \in i..l /\ n - 2 \in 1..l /\ w[n] = text[n - 2]
    <3>1. n - 2 > 1 /\ (n - 2) - 1 \in 1..l /\ text[(n - 2) - 1].is = "peer" /\ text[n - 2].of # Nobody
      BY <1>18, <2>3, Neighbours DEF Shape, l
    <3>2. n - 2 # i
      BY <1>13, <1>18, <2>3
    <3>3. (n - 2) - 1 \in i..l /\ ((n - 2) - 1) + 2 = n - 1 /\ n > 1
      BY <1>1, <1>2, <2>3, <3>2
    <3>4. w[n - 1] = text[(n - 2) - 1]
      BY <1>10, <3>3
    <3>. QED
      BY <2>3, <3>1, <3>3, <3>4
  <2>. QED
    BY <1>11, <1>12, <1>18, <2>1, <2>2, <2>3
<1>19. ASSUME NEW m \in 1..(l + 2), NEW n \in 1..(l + 2), w[m].is = "options", w[n].is = "options",
              w[m].of = w[n].of
       PROVE  m = n
  <2>. DEFINE Old(x, a) == a \in 1..l /\ w[x] = text[a] /\ ((a = x /\ x < i) \/ (a = x - 2 /\ a >= i))
  <2>1. \A x \in 1..(l + 2) : x = i \/ x = i + 1 \/ \E a \in 1..l : Old(x, a)
    <3>1. ASSUME NEW x \in 1..(i - 1) PROVE Old(x, x)
      BY <1>2, <1>8
    <3>2. ASSUME NEW x \in 1..(l + 2), x - 2 \in i..l, x - 2 \in 1..l, w[x] = text[x - 2] PROVE Old(x, x - 2)
      BY <1>1, <1>2, <3>2
    <3>. HIDE DEF Old
    <3>. QED
      BY <1>8, <1>11, <3>1, <3>2
  <2>2. ASSUME NEW a \in 1..l, text[a].is = "options" PROVE text[a].of # p
    BY <2>2 DEF Named, OptionLines, l
  <2>3. \A a, b \in 1..l :
          text[a].is = "options" /\ text[b].is = "options" /\ text[a].of = text[b].of => a = b
    BY DEF Shape, l
  <2>4. ASSUME NEW a \in 1..l, NEW b \in 1..l, Old(m, a), Old(n, b) PROVE m = n
    <3>1. a = b
      BY <1>19, <2>3, <2>4
    <3>. QED
      BY <1>1, <1>2, <2>4, <3>1
  <2>5. ASSUME NEW a \in 1..l, NEW x \in 1..(l + 2), Old(x, a), w[x].is = "options" PROVE w[x].of # p
    BY <2>2, <2>5
  <2>6. (m = i + 1 \/ \E a \in 1..l : Old(m, a)) /\ (n = i + 1 \/ \E b \in 1..l : Old(n, b))
    BY <1>12, <1>19, <2>1
  <2>. HIDE DEF Old
  <2>. QED
    BY <1>12, <1>19, <2>4, <2>5, <2>6
<1>20. ASSUME NEW n \in 1..(l + 2), w[n].is = "start"
       PROVE  /\ n + 3 <= l + 2 /\ w[n + 1].is = "peer"
              /\ w[n + 2] = Line("options", w[n].of) /\ w[n + 3] = EndMark(w[n].of)
  <2>1. CASE n \in 1..(i - 1)
    <3>1. /\ n + 1 \in 1..l /\ n + 2 \in 1..l /\ n + 3 \in 1..l
          /\ text[n + 1].is = "peer" /\ text[n + 2].is = "options" /\ text[n + 3].is = "end"
      BY <1>8, <1>20, <2>1, Neighbours DEF l
    <3>2. text[n + 2] = Line("options", text[n].of) /\ text[n + 3] = EndMark(text[n].of)
      BY <1>8, <1>20, <2>1 DEF Shape, l
    <3>3. (n + 1) + 1 = n + 2 /\ (n + 2) + 1 = n + 3
      BY <1>2, <2>1
    <3>4. n + 1 \in 1..(i - 1)
      BY <1>8, <1>14, <1>20, <2>1, <3>1
    <3>5. n + 2 \in 1..(i - 1)
      BY <1>14, <3>1, <3>3, <3>4
    <3>6. n + 3 \in 1..(i - 1)
      BY <1>14, <3>1, <3>3, <3>5
    <3>7. w[n] = text[n] /\ w[n + 1] = text[n + 1] /\ w[n + 2] = text[n + 2] /\ w[n + 3] = text[n + 3]
      BY <1>8, <2>1, <3>4, <3>5, <3>6
    <3>8. n + 3 <= l + 2
      BY <1>1, <3>1
    <3>. QED
      BY <3>1, <3>2, <3>7, <3>8
  <2>2. CASE n - 2 \in i..l /\ n - 2 \in 1..l /\ w[n] = text[n - 2]
    <3>. DEFINE m == n - 2
    <3>1. m \in i..l /\ m \in 1..l /\ w[n] = text[m] /\ text[m].is = "start"
      BY <1>20, <2>2
    <3>2. m + 1 = n - 1 /\ m + 2 = n /\ m + 3 = n + 1 /\ (m + 1) + 2 = n + 1 /\ (m + 2) + 2 = n + 2
          /\ (m + 3) + 2 = n + 3
      BY <1>1, <1>2
    <3>. HIDE DEF m
    <3>3. /\ m + 1 \in 1..l /\ m + 2 \in 1..l /\ m + 3 \in 1..l /\ text[m + 1].is = "peer"
      BY <3>1, Neighbours DEF l
    <3>4. text[m + 2] = Line("options", text[m].of) /\ text[m + 3] = EndMark(text[m].of)
      BY <3>1 DEF Shape, l
    <3>5. m + 1 \in i..l /\ m + 2 \in i..l /\ m + 3 \in i..l
      BY <1>1, <1>2, <3>1, <3>3
    <3>6. w[n + 1] = text[m + 1] /\ w[n + 2] = text[m + 2] /\ w[n + 3] = text[m + 3]
      BY <1>10, <3>2, <3>5
    <3>7. n + 3 <= l + 2
      BY <1>1, <1>2, <3>2, <3>5
    <3>. QED
      BY <3>1, <3>3, <3>4, <3>6, <3>7
  <2>. QED
    BY <1>11, <1>12, <1>20, <2>1, <2>2
<1>21. ASSUME NEW n \in 1..(l + 2), w[n].is = "end"
       PROVE  n > 1 /\ w[n - 1] = Line("options", w[n].of)
  <2>1. CASE n \in 1..(i - 1)
    <3>1. n > 1 /\ n - 1 \in 1..l /\ text[n - 1] = Line("options", text[n].of)
      BY <1>8, <1>21, <2>1, Neighbours DEF Shape, l
    <3>2. n - 1 \in 1..(i - 1)
      BY <1>2, <2>1, <3>1
    <3>. QED
      BY <1>8, <2>1, <3>1, <3>2
  <2>2. CASE n - 2 \in i..l /\ n - 2 \in 1..l /\ w[n] = text[n - 2]
    <3>1. n - 2 > 1 /\ (n - 2) - 1 \in 1..l /\ text[(n - 2) - 1] = Line("options", text[n - 2].of)
      BY <1>21, <2>2, Neighbours DEF Shape, l
    <3>2. n - 2 # i
      BY <1>13, <1>21, <2>2
    <3>3. (n - 2) - 1 \in i..l /\ ((n - 2) - 1) + 2 = n - 1 /\ n > 1
      BY <1>1, <1>2, <2>2, <3>2
    <3>4. w[n - 1] = text[(n - 2) - 1]
      BY <1>10, <3>3
    <3>. QED
      BY <2>2, <3>1, <3>3, <3>4
  <2>. QED
    BY <1>11, <1>12, <1>21, <2>1, <2>2
<1>22. Len(w) = l + 2 /\ w \in Seq(Lines)
  BY <1>7
<1>23. Shape(w)
  BY <1>15, <1>16, <1>17, <1>18, <1>19, <1>20, <1>21, <1>22 DEF Shape
<1>. QED
  BY <1>23 DEF w, first, rest, l

------------------------------------------------------------------------------
(* The file keeps its shape, and an edit knows what it writes.               *)

\* The lines after the first alternate.
LEMMA Alternate ==
    ASSUME NEW n \in Nat, NEW i \in 1..(2 * n + 1)
    PROVE  /\ i % 2 = 0 => i # 1 /\ i + 1 \in 1..(2 * n + 1) /\ (i + 1) % 2 # 0 /\ i + 1 # 1
           /\ i # 1 /\ i % 2 # 0 => /\ i - 1 \in 1..(2 * n + 1) /\ (i - 1) % 2 = 0 /\ i - 1 # 1
                                    /\ (i - 1) \div 2 \in 1..n /\ i = 2 * ((i - 1) \div 2) + 1
  OBVIOUS

\* A text of heads and options that alternate, of a peer each.
Alternates(text, l, heads) ==
  /\ l \in Nat /\ l >= 1 /\ text \in Seq(Lines) /\ Len(text) = l /\ text[1] = Header
  /\ 1 \notin heads
  /\ \A i \in heads : i \in 1..l /\ i + 1 \in 1..l /\ i + 1 \notin heads /\ i + 1 # 1
  /\ \A i \in 1..l : i \in heads => text[i] = PeerHead
  /\ \A i \in 1..l : i # 1 /\ i \notin heads =>
       i - 1 \in heads /\ text[i].is = "options" /\ text[i].of # Nobody
  /\ \A i, j \in 1..l : i \notin heads /\ j \notin heads /\ text[i].of = text[j].of => i = j

\* Such a text has the shape.
LEMMA AlternateShape ==
    ASSUME NEW text, NEW l, NEW heads, Alternates(text, l, heads)
    PROVE  Shape(text)
<1>. USE DEF Alternates
<1>1. Header.is = "interface" /\ PeerHead.is = "peer"
  BY DEF Header, PeerHead, Line
<1>2. \A i \in 1..l : text[i].is = "interface" <=> i = 1
  BY <1>1
<1>3. ASSUME NEW i \in 1..l, text[i].is = "peer"
      PROVE  text[i] = PeerHead /\ i < l /\ text[i + 1].is = "options"
  <2>1. i \in heads
    BY <1>1, <1>3
  <2>2. i + 1 \in 1..l /\ i + 1 # 1 /\ i + 1 \notin heads /\ text[i] = PeerHead
    BY <2>1
  <2>3. text[i + 1].is = "options"
    BY <2>2
  <2>. QED
    BY <2>2, <2>3
<1>4. \A i \in 1..l : text[i].is = "options" => i > 1 /\ text[i - 1].is = "peer" /\ text[i].of # Nobody
  BY <1>1
<1>5. \A i, j \in 1..l :
        text[i].is = "options" /\ text[j].is = "options" /\ text[i].of = text[j].of => i = j
  BY <1>1
<1>6. \A i \in 1..l : text[i].is # "start" /\ text[i].is # "end"
  BY <1>1
<1>. QED
  BY <1>2, <1>3, <1>4, <1>5, <1>6 DEF Shape

\* Peers of the administrator, in any order, after the interface.
LEMMA FirstShape ==
    ASSUME NEW n \in Nat, NEW p \in [1..n -> FileForeign], \A a, b \in 1..n : p[a] = p[b] => a = b,
           NEW text, text = [i \in 1..(2 * n + 1) |->
                               IF i = 1 THEN Header
                               ELSE IF i % 2 = 0 THEN PeerHead ELSE Line("options", p[(i - 1) \div 2])]
    PROVE  Shape(text)
<1>. DEFINE l == 2 * n + 1
            Heads0 == {i \in 1..l : i % 2 = 0}
<1>1. l \in Nat /\ l >= 1
  OBVIOUS
<1>2. /\ \A i \in Heads0 : i # 1 /\ i \in 1..l /\ i + 1 \in 1..l /\ i + 1 \notin Heads0 /\ i + 1 # 1
      /\ \A i \in 1..l : i # 1 /\ i \notin Heads0 =>
           i - 1 \in Heads0 /\ (i - 1) \div 2 \in 1..n /\ i = 2 * ((i - 1) \div 2) + 1
  BY Alternate
<1>3. text[1] = Header /\ 1 \in 1..l
  BY <1>1
<1>4. ASSUME NEW i \in Heads0 PROVE text[i] = PeerHead
  BY <1>2
<1>5. ASSUME NEW i \in 1..l, i # 1, i \notin Heads0
      PROVE  /\ text[i] = Line("options", p[(i - 1) \div 2]) /\ p[(i - 1) \div 2] \in FileForeign
             /\ text[i].is = "options" /\ text[i].of = p[(i - 1) \div 2] /\ text[i].of # Nobody
  <2>1. text[i] = Line("options", p[(i - 1) \div 2]) /\ p[(i - 1) \div 2] \in FileForeign
    BY <1>2, <1>5
  <2>. QED
    BY <2>1, FileAssumption DEF Line
<1>6. ASSUME NEW i \in 1..l PROVE text[i] \in Lines
  <2>1. text[i] \in {Header, PeerHead} \/ \E q \in FileForeign : text[i] = Line("options", q)
    BY <1>3, <1>4, <1>5
  <2>. QED
    BY <2>1 DEF Header, PeerHead, Line, Lines
<1>7. text \in Seq(Lines) /\ Len(text) = l
  <2>1. DOMAIN text = 1..l /\ text = [i \in 1..l |-> text[i]]
    OBVIOUS
  <2>. QED
    BY <1>1, <1>6, <2>1
<1>8. ASSUME NEW i \in 1..l, NEW j \in 1..l, i \notin Heads0, j \notin Heads0, text[i].of = text[j].of
      PROVE  i = j
  <2>1. Header.of = Nobody
    BY DEF Header, Line
  <2>2. CASE i # 1 /\ j # 1
    <3>1. p[(i - 1) \div 2] = p[(j - 1) \div 2]
      BY <1>5, <1>8, <2>2
    <3>2. (i - 1) \div 2 = (j - 1) \div 2
      BY <1>2, <1>8, <2>2, <3>1
    <3>. QED
      BY <1>2, <1>8, <2>2, <3>2
  <2>. QED
    BY <1>3, <1>5, <1>8, <2>1, <2>2
<1>. HIDE DEF l, Heads0
<1>9. \A i \in 1..l : i \in Heads0 => text[i] = PeerHead
  BY <1>4
<1>10. \A i \in 1..l : i # 1 /\ i \notin Heads0 =>
         i - 1 \in Heads0 /\ text[i].is = "options" /\ text[i].of # Nobody
  BY <1>2, <1>5
<1>11. Alternates(text, l, Heads0)
  BY <1>1, <1>2, <1>3, <1>7, <1>8, <1>9, <1>10 DEF Alternates
<1>. QED
  BY <1>11, AlternateShape

\* The bot starts with a file of the administrator and no edit.
LEMMA FileInitInv == FileInit => FInv
<1>. SUFFICES ASSUME FileInit PROVE FInv
  OBVIOUS
<1>1. PICK n \in 0..Cardinality(FileForeign) : \E p \in Injection(1..n, FileForeign) :
        file = [i \in 1..(2 * n + 1) |->
                  IF i = 1 THEN Header
                  ELSE IF i % 2 = 0 THEN PeerHead ELSE Line("options", p[(i - 1) \div 2])]
  BY DEF FileInit
<1>2. PICK p \in Injection(1..n, FileForeign) :
        file = [i \in 1..(2 * n + 1) |->
                  IF i = 1 THEN Header
                  ELSE IF i % 2 = 0 THEN PeerHead ELSE Line("options", p[(i - 1) \div 2])]
  BY <1>1
<1>3. p \in [1..n -> FileForeign] /\ n \in Nat /\ \A a, b \in 1..n : p[a] = p[b] => a = b
  BY DEF Injection, IsInjective
<1>4. Shape(file)
  BY <1>2, <1>3, FirstShape
<1>5. edit = NoEdit /\ changed = FALSE /\ overlooked = FALSE /\ handEdits = 0
  BY DEF FileInit
<1>6. EditInv
  BY <1>5 DEF EditInv, NoEdit, EditPoints
<1>7. 0 \in 0..MaxHandEdits
  BY FileAssumption
<1>. QED
  BY <1>4, <1>5, <1>6, <1>7 DEF FInv

\* What is known of an edit that is over, and of a step of one that goes on.
LEMMA EditOver == ASSUME FInv, Shape(file'), edit' = NoEdit, EditFrame PROVE FInv'
<1>1. EditInv'
  BY DEF EditInv, NoEdit, EditPoints
<1>. QED
  BY <1>1 DEF FInv, EditFrame

\* A step of an edit that goes on moves its point and nothing else of it.
LEMMA EditGoes ==
    ASSUME FInv, NEW point \in EditPoints, Goto(point)
    PROVE  /\ edit'.op = edit.op /\ edit'.of = edit.of /\ edit'.mode = edit.mode /\ edit'.at = point
           /\ edit'.text = edit.text /\ edit'.backup = edit.backup
           /\ edit' \in [op : {"none", "add", "remove"}, of : FileKeys \cup {Nobody}, at : EditPoints,
                         text : Seq(Lines), backup : Seq(Lines), mode : {"none", "direct", "helper"}]
  BY DEF FInv, EditInv, Goto

\* An edit begins with the file as it is.
LEMMA BeginInv ==
    ASSUME FInv, NEW op \in {"add", "remove"}, NEW k \in FileKeys, NEW m \in {"direct", "helper"},
           BeginEdit(op, k, m)
    PROVE  FInv'
<1>1. /\ edit' = [op |-> op, of |-> k, at |-> "begun", text |-> <<>>, backup |-> file, mode |-> m]
      /\ changed' = FALSE /\ overlooked' = FALSE /\ file' = file /\ handEdits' = handEdits
  BY DEF BeginEdit
<1>2. Shape(file) /\ file \in Seq(Lines)
  BY DEF FInv, Shape
<1>3. EditInv'
  BY <1>1, <1>2 DEF EditInv, EditPoints
<1>. QED
  BY <1>1, <1>3 DEF FInv

\* Reading: the file is the snapshot, and the candidate has what was asked for.
LEMMA ReadInv == ASSUME FInv, ReadForAdd \/ ReadForRemove PROVE FInv'
<1>. DEFINE k == edit.of
            Set == [op : {"none", "add", "remove"}, of : FileKeys \cup {Nobody}, at : EditPoints,
                    text : Seq(Lines), backup : Seq(Lines), mode : {"none", "direct", "helper"}]
<1>1. /\ Shape(file) /\ file \in Seq(Lines) /\ edit \in Set /\ k \in FileKeys /\ edit.at = "begun"
      /\ ~changed /\ file = edit.backup /\ Shape(edit.backup) /\ edit.op # "none"
      /\ file' = file /\ changed' = changed /\ overlooked' = overlooked /\ handEdits' = handEdits
  BY DEF FInv, EditInv, Shape, ReadForAdd, ReadForRemove, EditFrame
<1>2. ASSUME edit' = [edit EXCEPT !.at = "unwritten"], Named(file) = AsAsked(Named(file)) PROVE EditInv'
  <2>1. /\ edit'.op = edit.op /\ edit'.of = k /\ edit'.at = "unwritten" /\ edit'.backup = edit.backup
        /\ edit' \in Set
    BY <1>1, <1>2 DEF EditPoints
  <2>2. AsAsked(Named(file))' = AsAsked(Named(file))
    BY <1>1, <2>1 DEF AsAsked
  <2>. QED
    BY <1>1, <1>2, <2>1, <2>2 DEF EditInv
<1>3. ASSUME NEW point \in {"candidate", "compared"}, NEW text, Shape(text),
             Named(text) = AsAsked(Named(file)), edit' = [edit EXCEPT !.at = point, !.text = text]
      PROVE  EditInv'
  <2>0. text \in Seq(Lines)
    BY <1>3 DEF Shape
  <2>1. /\ edit'.op = edit.op /\ edit'.of = k /\ edit'.at = point /\ edit'.backup = edit.backup
        /\ edit'.text = text /\ edit' \in Set
    BY <1>1, <1>3, <2>0 DEF EditPoints
  <2>2. Named(text) = AsAsked(Named(edit.backup))'
    BY <1>1, <1>3, <2>1 DEF AsAsked
  <2>. QED
    BY <1>1, <1>3, <2>1, <2>2 DEF EditInv
<1>4. ASSUME HasBlock(file, k) PROVE k \in Named(file)
  <2>. DEFINE i == Min(Starts(file, k))
  <2>1. i \in 1..Len(file) /\ i + 3 \in 1..Len(file) /\ file[i + 2] = Line("options", k)
    BY <1>1, <1>4, BlockOf
  <2>2. i + 2 \in OptionLines(file)
    BY <1>1, <2>1, LineFacts DEF OptionLines, Line
  <2>. QED
    BY <2>1, <2>2 DEF Named, Line
<1>5. CASE ReadForAdd
  <2>0. edit.op = "add"
    BY <1>5 DEF ReadForAdd
  <2>1. CASE HasBlock(file, k)
    <3>1. Named(file) = AsAsked(Named(file))
      BY <1>4, <2>0, <2>1 DEF AsAsked
    <3>2. \/ edit' = [edit EXCEPT !.at = "compared", !.text = file]
          \/ edit' = [edit EXCEPT !.at = "unwritten"]
      BY <1>5, <2>1 DEF ReadForAdd
    <3>. QED
      BY <1>1, <1>2, <1>3, <3>1, <3>2 DEF FInv
  <2>2. CASE ~HasBlock(file, k)
    <3>1. FindPeer(file, k) = {} /\ edit' = [edit EXCEPT !.at = "candidate", !.text = file \o Block(k)]
      BY <1>5, <2>2 DEF ReadForAdd
    <3>2. k \notin Named(file)
      BY <1>1, <3>1, FindPeerOf
    <3>3. Shape(file \o Block(k)) /\ Named(file \o Block(k)) = AsAsked(Named(file))
      BY <1>1, <2>0, <3>2, AppendedShape DEF AsAsked
    <3>. QED
      BY <1>1, <1>3, <3>1, <3>3 DEF FInv
  <2>. QED
    BY <2>1, <2>2
<1>6. CASE ReadForRemove
  <2>1. edit.op = "remove"
    BY <1>6 DEF ReadForRemove
  <2>2. Shape(Removed(file, k)) /\ Named(Removed(file, k)) = AsAsked(Named(file))
    BY <1>1, <2>1, RemovedOf DEF AsAsked
  <2>3. \/ edit' = [edit EXCEPT !.at = "unwritten"] /\ Removed(file, k) = file
        \/ edit' = [edit EXCEPT !.at = "candidate", !.text = Removed(file, k)]
    BY <1>6 DEF ReadForRemove
  <2>. QED
    BY <1>1, <1>2, <1>3, <2>2, <2>3 DEF FInv
<1>. QED
  BY <1>5, <1>6

\* Up to the answer: the text that was compared is written, to the file it was
\* compared with unless that is overlooked.
LEMMA WriteInv ==
    ASSUME FInv, Compare \/ WriteFile \/ HelperBacksUp \/ HelperInstalls
    PROVE  FInv'
<1>. DEFINE Set == [op : {"none", "add", "remove"}, of : FileKeys \cup {Nobody}, at : EditPoints,
                    text : Seq(Lines), backup : Seq(Lines), mode : {"none", "direct", "helper"}]
<1>1. /\ changed' = changed /\ overlooked' = overlooked /\ handEdits' = handEdits
      /\ edit.at \in {"candidate", "compared", "staged"} /\ edit \in Set /\ EditInv /\ Shape(file)
      /\ Shape(edit.text) /\ Shape(edit.backup) /\ edit.op # "none" /\ edit.of \in FileKeys
  BY DEF FInv, EditInv, Compare, WriteFile, HelperBacksUp, HelperInstalls, EditFrame
<1>2. CASE Compare
  <2>1. edit.at = "candidate" /\ ~changed /\ file' = file /\ Goto("compared")
    BY <1>2 DEF Compare
  <2>2. /\ edit'.op = edit.op /\ edit'.of = edit.of /\ edit'.at = "compared" /\ edit'.text = edit.text
        /\ edit'.backup = edit.backup /\ edit' \in Set
    BY <2>1, EditGoes DEF EditPoints
  <2>3. AsAsked(Named(edit.backup))' = AsAsked(Named(edit.backup))
    BY <2>2 DEF AsAsked
  <2>4. file = edit.backup /\ Named(edit.text) = AsAsked(Named(edit.backup))
    BY <1>1, <2>1 DEF EditInv
  <2>5. EditInv'
    BY <1>1, <2>1, <2>2, <2>3, <2>4 DEF EditInv
  <2>. QED
    BY <1>1, <2>1, <2>5 DEF FInv
<1>3. CASE WriteFile \/ HelperInstalls
  <2>1. edit.at \in {"compared", "staged"} /\ file' = edit.text /\ Goto("written")
    BY <1>3 DEF WriteFile, HelperInstalls
  <2>2. /\ edit'.op = edit.op /\ edit'.of = edit.of /\ edit'.at = "written" /\ edit'.text = edit.text
        /\ edit'.backup = edit.backup /\ edit' \in Set
    BY <2>1, EditGoes DEF EditPoints
  <2>3. AsAsked(Named(edit.backup))' = AsAsked(Named(edit.backup))
    BY <2>2 DEF AsAsked
  <2>4. ~overlooked => Named(edit.text) = AsAsked(Named(edit.backup))
    BY <1>1, <2>1 DEF EditInv
  <2>5. EditInv'
    BY <1>1, <2>1, <2>2, <2>3, <2>4 DEF EditInv
  <2>. QED
    BY <1>1, <2>1, <2>5 DEF FInv
<1>4. CASE HelperBacksUp
  <2>0. Shape(file) /\ file \in Seq(Lines)
    BY <1>1 DEF Shape
  <2>1. edit.at = "compared" /\ edit' = [edit EXCEPT !.at = "staged", !.backup = file] /\ file' = file
    BY <1>4 DEF HelperBacksUp
  <2>2. /\ edit'.op = edit.op /\ edit'.of = edit.of /\ edit'.at = "staged" /\ edit'.text = edit.text
        /\ edit'.backup = file /\ edit' \in Set
    BY <1>1, <2>0, <2>1 DEF EditPoints
  <2>3. ~overlooked => file = edit.backup /\ Named(edit.text) = AsAsked(Named(edit.backup))
    BY <1>1, <2>1 DEF EditInv
  <2>4. ~overlooked => Named(edit.text) = AsAsked(Named(edit.backup))'
    BY <2>2, <2>3 DEF AsAsked
  <2>5. EditInv'
    BY <1>1, <2>0, <2>1, <2>2, <2>3, <2>4 DEF EditInv
  <2>. QED
    BY <1>1, <2>1, <2>5 DEF FInv
<1>. QED
  BY <1>2, <1>3, <1>4

\* The end of an edit, with an answer, an exception or a restored file.
LEMMA EndInv == ASSUME FInv, EditEnds \/ EditRaises \/ EditRollsBack PROVE FInv'
<1>1. edit' = NoEdit /\ EditFrame
  BY DEF EditEnds, EditRaises, EditRollsBack
<1>2. file' \in {file, edit.backup} /\ edit.at # "free"
  BY DEF EditEnds, EditRaises, EditRollsBack
<1>3. Shape(file) /\ Shape(edit.backup)
  BY <1>2 DEF FInv, EditInv
<1>4. Shape(file')
  BY <1>2, <1>3
<1>. QED
  BY <1>1, <1>4, EditOver

\* The administrator leaves a text of the shape, and the edit under way as it is.
LEMMA ByHandInv == ASSUME FInv, NEW text, Shape(text), ByHand(text) PROVE FInv'
<1>1. /\ file' = text /\ edit' = edit /\ changed' = TRUE /\ handEdits < MaxHandEdits
      /\ handEdits' = handEdits + 1
      /\ overlooked' = (overlooked \/ edit.at \in {"compared", "staged", "written", "unwritten"})
  BY DEF ByHand
<1>2. EditInv /\ overlooked \in BOOLEAN /\ handEdits \in 0..MaxHandEdits
  BY DEF FInv
<1>3. overlooked' \in BOOLEAN
  BY <1>1, <1>2
<1>4. handEdits' \in 0..MaxHandEdits
  BY <1>1, <1>2, FileAssumption
<1>5. AsAsked(Named(edit.backup))' = AsAsked(Named(edit.backup))
  BY <1>1 DEF AsAsked
<1>6. edit.at \in {"compared", "staged", "written", "unwritten"} => overlooked'
  BY <1>1
<1>7. ~overlooked' => ~overlooked
  BY <1>1
<1>8. EditInv'
  BY <1>1, <1>2, <1>5, <1>6, <1>7 DEF EditInv
<1>. QED
  BY <1>1, <1>3, <1>4, <1>8 DEF FInv

\* Each change of the administrator is such a text.
LEMMA HandInv == ASSUME FInv, HandStep PROVE FInv'
<1>1. Shape(file)
  BY DEF FInv
<1>2. CASE HandSaves
  BY <1>1, <1>2, SavedShape, ByHandInv DEF HandSaves
<1>3. ASSUME NEW p \in FileForeign, HandAdds(p) PROVE FInv'
  <2>1. p \notin Named(file)
    BY <1>1, <1>3, PeersAreNamed DEF HandAdds
  <2>2. PICK i \in 2..(Len(file) + 1) :
          /\ i <= Len(file) => file[i].is = "start" \/ (file[i] = PeerHead /\ file[i - 1].is # "start")
          /\ ByHand(SubSeq(file, 1, i - 1) \o PlainBlock(p) \o SubSeq(file, i, Len(file)))
    BY <1>3 DEF HandAdds
  <2>3. Shape(SubSeq(file, 1, i - 1) \o PlainBlock(p) \o SubSeq(file, i, Len(file)))
    BY <1>1, <2>1, <2>2, InsertedShape
  <2>. QED
    BY <2>2, <2>3, ByHandInv
<1>4. ASSUME NEW p \in FileForeign \cup FileKeys, HandRemoves(p) PROVE FInv'
  <2>1. p # Nobody
    BY FileAssumption
  <2>2. Shape(Without(file, FindPeer(file, p) \cup {i \in DOMAIN file : file[i].of = p}))
    BY <1>1, <2>1, TakenOutShape
  <2>. QED
    BY <1>4, <2>2, ByHandInv DEF HandRemoves
<1>. QED
  BY <1>2, <1>3, <1>4 DEF HandStep

\* Every step keeps the invariant.
LEMMA FileStepInv == FInv /\ [FileNext]_fileVars => FInv'
<1>. SUFFICES ASSUME FInv, [FileNext]_fileVars PROVE FInv'
  OBVIOUS
<1>1. CASE UNCHANGED fileVars
  BY <1>1 DEF FInv, EditInv, AsAsked, fileVars
<1>2. ASSUME NEW op \in {"add", "remove"}, NEW k \in FileKeys, NEW m \in {"direct", "helper"},
             BeginEdit(op, k, m)
      PROVE  FInv'
  BY <1>2, BeginInv
<1>3. CASE ReadForAdd \/ ReadForRemove
  BY <1>3, ReadInv
<1>4. CASE Compare \/ WriteFile \/ HelperBacksUp \/ HelperInstalls
  BY <1>4, WriteInv
<1>5. CASE EditEnds \/ EditRaises \/ EditRollsBack
  BY <1>5, EndInv
<1>6. CASE HandStep
  BY <1>6, HandInv
<1>. QED
  BY <1>1, <1>2, <1>3, <1>4, <1>5, <1>6 DEF FileNext, EditStep

\* The types follow.
LEMMA FileTypes == FInv => FileTypeOK
<1>. SUFFICES ASSUME FInv PROVE FileTypeOK
  OBVIOUS
<1>1. Shape(file) /\ EditInv
  BY DEF FInv
<1>2. Parses(file)
  BY <1>1, ShapeParses
<1>3. \A i \in DOMAIN file : file[i].of \in FileKeys \cup FileForeign \cup {Nobody}
  BY <1>1, LineFacts DEF Lines
<1>4. edit.at \in EditPoints /\ edit.of \in FileKeys \cup {Nobody}
  BY <1>1 DEF EditInv
<1>. QED
  BY <1>2, <1>3, <1>4 DEF FInv, FileTypeOK, EditPoints

\* A step that writes the file writes the candidate over its snapshot or restores it,
\* and an answer finds what was asked for, unless something was overlooked.
LEMMA StepIsExact == FInv /\ [FileNext]_fileVars => [ExactStep]_fileVars
<1>. SUFFICES ASSUME FInv, FileNext PROVE ExactStep
  BY DEF ExactStep
<1>1. EditInv /\ Shape(file) /\ handEdits \in Nat /\ PeersOf(file) = Named(file)
  BY FileAssumption, PeersAreNamed DEF FInv
<1>2. ASSUME edit.at \in {"written", "unwritten"}, ~overlooked
      PROVE  PeersOf(file) = AsAsked(PeersOf(file))
  BY <1>1, <1>2 DEF EditInv, AsAsked
<1>3. ASSUME file' # file, handEdits' = handEdits, ~overlooked
      PROVE  \/ edit.at \in {"compared", "staged"} /\ PeersOf(file') = AsAsked(PeersOf(file))
             \/ edit.at = "written" /\ PeersOf(file') \ {edit.of} = PeersOf(file) \ {edit.of}
  <2>1. ~HandStep
    <3>1. ASSUME NEW text, ByHand(text) PROVE FALSE
      BY <1>1, <1>3, <3>1 DEF ByHand
    <3>2. ~HandSaves
      BY <3>1 DEF HandSaves
    <3>3. \A p \in FileForeign : ~HandAdds(p)
      BY <3>1 DEF HandAdds
    <3>4. \A p \in FileForeign \cup FileKeys : ~HandRemoves(p)
      BY <3>1 DEF HandRemoves
    <3>. QED
      BY <3>2, <3>3, <3>4 DEF HandStep
  <2>2. WriteFile \/ HelperInstalls \/ EditRollsBack
    BY <1>3, <2>1
    DEF FileNext, EditStep, BeginEdit, ReadForAdd, ReadForRemove, Compare, HelperBacksUp, EditEnds, EditRaises
  <2>3. CASE WriteFile \/ HelperInstalls
    <3>1. edit.at \in {"compared", "staged"} /\ file' = edit.text
      BY <2>3 DEF WriteFile, HelperInstalls
    <3>2. /\ Shape(edit.text) /\ file = edit.backup
          /\ Named(edit.text) = AsAsked(Named(edit.backup))
      BY <1>1, <1>3, <3>1 DEF EditInv
    <3>3. PeersOf(edit.text) = Named(edit.text)
      BY <3>2, PeersAreNamed
    <3>. QED
      BY <1>1, <3>1, <3>2, <3>3
  <2>4. CASE EditRollsBack
    <3>1. edit.at \in {"staged", "written"} /\ file' = edit.backup
      BY <1>3, <2>4 DEF EditRollsBack
    <3>2. edit.at = "written"
      BY <1>1, <1>3, <3>1 DEF EditInv
    <3>3. Named(file) = AsAsked(Named(edit.backup)) /\ Shape(edit.backup)
      BY <1>1, <1>3, <3>2 DEF EditInv
    <3>4. PeersOf(edit.backup) = Named(edit.backup)
      BY <3>3, PeersAreNamed
    <3>. QED
      BY <1>1, <3>1, <3>2, <3>3, <3>4 DEF AsAsked
  <2>. QED
    BY <2>2, <2>3, <2>4
<1>4. EditEnds => edit.at \in {"written", "unwritten"}
  BY DEF EditEnds
<1>. QED
  BY <1>2, <1>3, <1>4 DEF ExactStep

\* The file can always be read, and an edit is what it says: the types of the file and
\* of the edit.
THEOREM FileIsTyped == FileSpec => []FileTypeOK
  BY FileInitInv, FileStepInv, FileTypes, PTL DEF FileSpec

\* add_peer and remove_peer of adapters/awg_config.py: for every set of peers and any
\* number of changes by the administrator, an edit changes its own peer and no other
\* in the file, and has changed it when it is answered, but for what he writes after
\* its last comparison.
THEOREM EditsKeepTheRest == FileSpec => EditsAreExact
  BY FileInitInv, FileStepInv, StepIsExact, PTL DEF FileSpec, EditsAreExact

------------------------------------------------------------------------------
(* Both parts together, as MCAwgKeys runs them.                              *)

\* A behaviour of one part leaves the variables of the other as they are, so each
\* part sees steps of its own or none.
LEMMA PartsOfIt == AwgSpec => Spec /\ FileSpec
<1>1. AwgInit => Init /\ FileInit
  BY DEF AwgInit
<1>2. [AwgNext]_<<vars, fileVars, part>> => [Next]_vars
  BY DEF AwgNext
<1>3. [AwgNext]_<<vars, fileVars, part>> => [FileNext]_fileVars
  BY DEF AwgNext
<1>. QED
  BY <1>1, <1>2, <1>3, PTL DEF AwgSpec, Spec, FileSpec

\* The types of both parts of the AmneziaWG keys: rows, peers and calls of
\* services/awg.py, and the lines and edits of adapters/awg_config.py.
THEOREM BothAreTyped == AwgSpec => []TypesOK
<1>1. AwgSpec => []TypeOK /\ []FileTypeOK
  BY PartsOfIt, TypeCorrect, FileIsTyped
<1>. QED
  BY <1>1, PTL DEF TypesOK

\* In either part, the rows and the peers agree, a clean startup leaves what is active,
\* the service keeps its promise, and an edit of the file is exact.
THEOREM BothAreSound == AwgSpec => []PeersAreSound /\ CleanStartup /\ KeepsPromise /\ EditsAreExact
  BY PartsOfIt, PeersAgree, StartupIsClean, ServiceKeepsPromise, EditsKeepTheRest

==============================================================================
