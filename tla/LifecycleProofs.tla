-------------------------- MODULE LifecycleProofs --------------------------
(* That a process of the bot works alone, serves only what it reconciled and *)
(* closes the database last (Lifecycle), for any number of processes, jobs   *)
(* and backends.                                                            *)
EXTENDS Lifecycle, TLAPS

WithDatabase == {"build", "reconcile", "jobs", "servers", "polling", "stop web", "stop jobs", "stop warp", "close"}
WithJobs == {"servers", "polling", "stop web", "stop jobs"}
WithWeb == {"servers", "polling", "stop web"}
AfterStartup == {"jobs", "servers", "polling", "stop web", "stop jobs", "stop warp", "close"}

Reconciled(p) ==
    \A b \in Backends : outcome[p][b] # "untried" /\ (outcome[p][b] = "raised" => b \in marked[p])

(* Where main() is says who holds the lock, whether the connection is there,   *)
(* and what else of the process may be at work.                               *)
Placed(p) ==
    /\ at[p] \notin {"down", "end", "stuck"} => holder = p
    /\ at[p] \in WithDatabase => dbOpen[p]
    /\ at[p] = "down" => ~dbOpen[p]
    /\ at[p] \notin WithJobs => job[p] = AllOff
    /\ web[p] => at[p] \in WithWeb
    /\ polled[p] => at[p] \in {"polling"} \cup Stopping
    /\ at[p] \in AfterStartup \/ polled[p] => Reconciled(p)

\* The inductive invariant: every process is placed.
LifeInv == LifeTypeOK /\ \A p \in Processes : Placed(p)

--------------------------------------------------------------------------------

\* At first every process is.
LEMMA InitPlaced == LifeInit => LifeInv
<1>. SUFFICES ASSUME LifeInit PROVE LifeInv
  OBVIOUS
<1>. USE DEF LifeInit
<1>1. LifeTypeOK
  BY DEF LifeTypeOK, Places, Starting, Stopping, Untried, AllOff
<1>2. ASSUME NEW p \in Processes PROVE Placed(p)
  BY <1>2 DEF Placed, WithDatabase, WithJobs, WithWeb, AfterStartup, AllOff
<1>. QED
  BY <1>1, <1>2 DEF LifeInv

(* What a step of p changes is p's own, except the lock, which it takes only when *)
(* nobody holds it and gives back only when it has it.                           *)
Own(p) ==
    \A q \in Processes \ {p} :
        /\ at'[q] = at[q] /\ dbOpen'[q] = dbOpen[q] /\ outcome'[q] = outcome[q] /\ marked'[q] = marked[q]
        /\ job'[q] = job[q] /\ web'[q] = web[q] /\ polled'[q] = polled[q]
        /\ holder = q => holder' = q

\* A step of one process keeps the others placed.
LEMMA OthersPlaced ==
    ASSUME NEW p \in Processes, Own(p), \A q \in Processes : Placed(q), Placed(p)'
    PROVE  \A q \in Processes : Placed(q)'
<1>1. ASSUME NEW q \in Processes \ {p} PROVE Placed(q)'
  BY <1>1 DEF Own, Placed, Reconciled
<1>. QED
  BY <1>1

(* Each kind of step leaves p where it may be, and is p's own.                  *)
LEMMA StartPlaced ==
    ASSUME LifeInv, NEW p \in Processes,
           \/ TakeInstanceLock(p) \/ Connect(p) \/ BuildRaises(p) \/ Build(p)
           \/ MarkFailed(p) \/ StartJobs(p) \/ StartPolling(p)
           \/ \E i \in DOMAIN Passes : Reconcile(p, i)
    PROVE  LifeTypeOK' /\ Placed(p)' /\ Own(p)
<1>. USE DEF LifeInv, LifeTypeOK, Own, Goes, requests
<1>1. CASE TakeInstanceLock(p)
  <2>1. LifeTypeOK' /\ Own(p)
    BY <1>1, LifeAssumption DEF TakeInstanceLock, Places, Starting
  <2>2. Placed(p)'
    BY <1>1 DEF TakeInstanceLock, Placed, Stopping, WithDatabase, WithJobs, WithWeb, AfterStartup
  <2>. QED
    BY <2>1, <2>2
<1>2. CASE Connect(p)
  <2>1. LifeTypeOK' /\ Own(p)
    BY <1>2, LifeAssumption DEF Connect, Placed, Places, Starting, Stopping
  <2>2. Placed(p)'
    BY <1>2 DEF Connect, Placed, Stopping, WithDatabase, WithJobs, WithWeb, AfterStartup
  <2>. QED
    BY <2>1, <2>2
<1>3. CASE BuildRaises(p)
  <2>1. LifeTypeOK' /\ Own(p)
    BY <1>3 DEF BuildRaises, Closed, Places, Stopping
  <2>2. Placed(p)'
    BY <1>3 DEF BuildRaises, Placed, Stopping, WithDatabase, WithJobs, WithWeb, AfterStartup
  <2>. QED
    BY <2>1, <2>2
<1>4. CASE Build(p)
  BY <1>4 DEF Build, Placed, Places, Starting, Stopping, WithDatabase, WithJobs, WithWeb, AfterStartup, Reconciled
<1>5. CASE MarkFailed(p)
  <2>1. LifeTypeOK' /\ Own(p)
    BY <1>5 DEF MarkFailed, Places, Starting
  <2>2. Reconciled(p)'
    BY <1>5 DEF MarkFailed, Reconciled
  <2>3. at[p] = "reconcile" /\ at'[p] = "jobs" /\ UNCHANGED <<holder, dbOpen, job, web, polled>>
    BY <1>5 DEF MarkFailed
  <2>. QED
    BY <2>1, <2>2, <2>3 DEF Placed, Stopping, WithDatabase, WithJobs, WithWeb, AfterStartup
<1>6. CASE StartJobs(p)
  BY <1>6 DEF StartJobs, Placed, Places, Starting, Stopping, WithDatabase, WithJobs, WithWeb, AfterStartup, Reconciled
<1>7. CASE StartPolling(p)
  BY <1>7 DEF StartPolling, Placed, Places, Starting, Stopping, WithDatabase, WithJobs, WithWeb, AfterStartup,
     Reconciled
<1>8. ASSUME NEW i \in DOMAIN Passes, Reconcile(p, i) PROVE LifeTypeOK' /\ Placed(p)' /\ Own(p)
  <2>1. PICK o \in {"ok", "raised"} : outcome' = [outcome EXCEPT ![p][Passes[i]] = o]
    BY <1>8 DEF Reconcile
  <2>2. at[p] = "reconcile" /\ UNCHANGED <<at, holder, dbOpen, marked, job, web, polled>>
    BY <1>8 DEF Reconcile
  <2>3. outcome' \in [Processes -> [Backends -> {"untried", "ok", "raised"}]]
    BY <2>1
  <2>4. \A q \in Processes \ {p} : outcome'[q] = outcome[q]
    BY <2>1
  <2>. QED
    BY <2>2, <2>3, <2>4 DEF Placed, Stopping, WithDatabase, WithJobs, WithWeb, AfterStartup
<1>. QED
  BY <1>1, <1>2, <1>3, <1>4, <1>5, <1>6, <1>7, <1>8

\* The steps of startup and work keep their process placed.
LEMMA WorkPlaced ==
    ASSUME LifeInv, NEW p \in Processes,
           \/ WebRequest(p) \/ Update(p) \/ StopRequested(p)
           \/ \E j \in Jobs : JobWakes(p, j) \/ JobSleeps(p, j) \/ CancelJob(p, j) \/ JobUnwinds(p, j)
    PROVE  LifeTypeOK' /\ Placed(p)' /\ Own(p)
<1>. USE DEF LifeInv, LifeTypeOK, Own, Goes, requests
<1>1. CASE WebRequest(p)
  BY <1>1 DEF WebRequest, Placed, Stopping, WithDatabase, WithJobs, WithWeb, AfterStartup, Reconciled
<1>2. CASE Update(p)
  <2>1. LifeTypeOK' /\ Own(p)
    BY <1>2 DEF Update
  <2>2. (at[p] = "polling" \/ polled[p]) /\ UNCHANGED <<at, holder, dbOpen, outcome, marked, job, web>>
    BY <1>2 DEF Update
  <2>. QED
    BY <2>1, <2>2 DEF Placed, Reconciled, AfterStartup
<1>3. CASE StopRequested(p)
  BY <1>3 DEF StopRequested, Placed, Places, Stopping, WithDatabase, WithJobs, WithWeb, AfterStartup, Reconciled
<1>4. ASSUME NEW j \in Jobs, JobWakes(p, j) \/ JobSleeps(p, j) \/ CancelJob(p, j) \/ JobUnwinds(p, j)
      PROVE  LifeTypeOK' /\ Placed(p)' /\ Own(p)
  <2>1. at[p] \in WithJobs
    <3>1. job[p][j] # "off"
      BY <1>4 DEF JobWakes, JobSleeps, CancelJob, JobUnwinds
    <3>2. job[p] # AllOff
      BY <3>1 DEF AllOff
    <3>. QED
      BY <3>2 DEF Placed
  <2>2. PICK to \in {"off", "asleep", "busy", "cancelled"} : job' = [job EXCEPT ![p][j] = to]
    BY <1>4 DEF JobWakes, JobSleeps, CancelJob, JobUnwinds
  <2>3. UNCHANGED <<at, holder, dbOpen, outcome, marked, web, polled>>
    BY <1>4 DEF JobWakes, JobSleeps, CancelJob, JobUnwinds
  <2>4. /\ job' \in [Processes -> [Jobs -> {"off", "asleep", "busy", "cancelled"}]]
        /\ \A q \in Processes \ {p} : job'[q] = job[q]
    BY <2>2
  <2>. QED
    BY <2>1, <2>3, <2>4 DEF Placed, Reconciled
<1>. QED
  BY <1>1, <1>2, <1>3, <1>4

\* So do those of the shutdown.
LEMMA EndPlaced ==
    ASSUME LifeInv, NEW p \in Processes,
           \/ StopWeb(p) \/ JobsStopped(p) \/ StopWarp(p) \/ CloseDatabase(p)
           \/ GiveInstanceLock(p) \/ EndLoop(p) \/ Kill(p)
    PROVE  LifeTypeOK' /\ Placed(p)' /\ Own(p)
<1>. USE DEF LifeInv, LifeTypeOK, Own, Goes, requests
<1>1. CASE StopWeb(p)
  BY <1>1 DEF StopWeb, Placed, Places, Stopping, WithDatabase, WithJobs, WithWeb, AfterStartup, Reconciled
<1>2. CASE JobsStopped(p)
  BY <1>2 DEF JobsStopped, Placed, Places, Stopping, WithDatabase, WithJobs, WithWeb, AfterStartup, Reconciled
<1>3. CASE StopWarp(p)
  BY <1>3 DEF StopWarp, Placed, Places, Stopping, WithDatabase, WithJobs, WithWeb, AfterStartup, Reconciled
<1>4. CASE CloseDatabase(p)
  BY <1>4 DEF CloseDatabase, Closed, Placed, Places, Stopping, WithDatabase, WithJobs, WithWeb, AfterStartup,
     Reconciled
<1>5. CASE GiveInstanceLock(p)
  BY <1>5, LifeAssumption DEF GiveInstanceLock, Placed, Places, Stopping, WithDatabase, WithJobs, WithWeb,
     AfterStartup, Reconciled
<1>6. CASE EndLoop(p)
  BY <1>6 DEF EndLoop, Gone, Untried, AllOff, Placed, Places, Stopping, WithDatabase, WithJobs, WithWeb, AfterStartup
<1>7. CASE Kill(p)
  BY <1>7, LifeAssumption DEF Kill, Gone, Untried, AllOff, Placed, Places, WithDatabase, WithJobs, WithWeb,
     AfterStartup
<1>. QED
  BY <1>1, <1>2, <1>3, <1>4, <1>5, <1>6, <1>7

\* Every step keeps the invariant.
LEMMA StepPlaced == LifeInv /\ [LifeNext]_lifeVars => LifeInv'
<1>. SUFFICES ASSUME LifeInv, [LifeNext]_lifeVars PROVE LifeInv'
  OBVIOUS
<1>1. ASSUME NEW p \in Processes,
             \/ TakeInstanceLock(p) \/ ProcessStep(p) \/ StopRequested(p) \/ Kill(p)
             \/ WebRequest(p) \/ Update(p)
             \/ \E j \in Jobs : JobWakes(p, j) \/ JobSleeps(p, j)
      PROVE  LifeInv'
  <2>1. LifeTypeOK' /\ Placed(p)' /\ Own(p)
    BY <1>1, StartPlaced, WorkPlaced, EndPlaced DEF ProcessStep
  <2>2. \A q \in Processes : Placed(q)'
    BY <2>1, OthersPlaced DEF LifeInv
  <2>. QED
    BY <2>1, <2>2 DEF LifeInv
<1>2. CASE UNCHANGED lifeVars
  BY <1>2 DEF lifeVars, LifeInv, LifeTypeOK, Placed, Reconciled
<1>. QED
  BY <1>1, <1>2 DEF LifeNext

\* Placed processes are ordered.
LEMMA PlacedIsOrdered == LifeInv => LifeIsOrdered
<1>. SUFFICES ASSUME LifeInv PROVE LifeIsOrdered
  OBVIOUS
<1>1. ASSUME NEW p \in Processes, AtWork(p) PROVE holder = p
  BY <1>1 DEF LifeInv, Placed, AtWork, AllOff, WithJobs, WithWeb
<1>2. OneAtWork
  BY <1>1 DEF OneAtWork
<1>3. ReadyBeforeServing
  BY DEF LifeInv, Placed, Reconciled, ReadyBeforeServing, WithJobs, WithWeb, AfterStartup
<1>4. DatabaseOutlivesWork
  BY DEF LifeInv, Placed, DatabaseOutlivesWork, WithJobs, WithWeb, WithDatabase
<1>. QED
  BY <1>2, <1>3, <1>4 DEF LifeInv, LifeIsOrdered

(* At most one process works, nothing is served before the backends were      *)
(* reconciled, and the database outlives what uses it (main.py, bot/app.py,   *)
(* utils/single_instance.py).                                                *)
THEOREM ProcessLifeIsOrdered == LifeSpec => []LifeIsOrdered
  BY InitPlaced, StepPlaced, PlacedIsOrdered, PTL DEF LifeSpec
=============================================================================
