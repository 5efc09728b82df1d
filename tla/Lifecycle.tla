----------------------------- MODULE Lifecycle -----------------------------
(* The life of a process of the bot (main.py, bot/app.py,                    *)
(* utils/single_instance.py): the lock of the instance, the database, the    *)
(* startup reconciliation, the background jobs, the two servers, polling,    *)
(* and the teardown in the order of its finally block.  Several processes    *)
(* may be started; a step may raise, a process may be stopped or killed.     *)
(* What a startup pass, a job or a request does is in the other modules.     *)
EXTENDS Naturals, Sequences

CONSTANTS
    Processes,  \* processes that may be started, one after another or at once
    Jobs,       \* the background jobs the settings turn on
    Backends,   \* the backends this installation has
    NoProcess,
    MaxKills    \* how often a process is killed

ASSUME LifeAssumption == NoProcess \notin Processes /\ MaxKills \in Nat

VARIABLES
    at,          \* at[p]: where main() is
    holder,      \* who holds the lock of the instance
    dbOpen,      \* dbOpen[p]: the process has its connection
    outcome,     \* outcome[p][b]: how the startup pass of the backend went
    marked,      \* marked[p]: the backends BackendHealth refuses changes of
    job,         \* job[p][j]: what the background job does
    web, polled, \* web[p], polled[p]: a request of the web app, an update of the bot is handled
    kills

lifeVars == <<at, holder, dbOpen, outcome, marked, job, web, polled, kills>>
requests == <<web, polled>>

Starting == {"connect", "build", "reconcile", "jobs", "servers"}
Stopping == {"stop web", "stop jobs", "stop warp", "close", "unlock", "end"}
Places == Starting \cup Stopping \cup {"down", "polling", "stuck"}

Passes == SelectSeq(<<"xray", "awg", "mtproto", "socks5">>, LAMBDA b : b \in Backends)
Untried == [b \in Backends |-> "untried"]
AllOff == [j \in Jobs |-> "off"]

LifeInit ==
    /\ at = [p \in Processes |-> "down"] /\ holder = NoProcess /\ kills = 0
    /\ dbOpen = [p \in Processes |-> FALSE]
    /\ outcome = [p \in Processes |-> Untried] /\ marked = [p \in Processes |-> {}]
    /\ job = [p \in Processes |-> AllOff]
    /\ web = [p \in Processes |-> FALSE] /\ polled = [p \in Processes |-> FALSE]

Goes(p, from, to) == at[p] = from /\ at' = [at EXCEPT ![p] = to]

--------------------------------------------------------------------------------
(* The start *)

\* flock without waiting: a second process ends with SingleInstanceError.
TakeInstanceLock(p) ==
    /\ holder = NoProcess /\ holder' = p /\ Goes(p, "down", "connect")
    /\ UNCHANGED <<dbOpen, outcome, marked, job, requests, kills>>

\* connect is outside the try of create_app: when a PRAGMA fails the connection and
\* its thread stay, while the lock is given back.
Connect(p) ==
    /\ \/ Goes(p, "connect", "build") /\ dbOpen' = [dbOpen EXCEPT ![p] = TRUE] /\ UNCHANGED holder
       \/ Goes(p, "connect", "unlock") /\ UNCHANGED <<dbOpen, holder>>
       \/ Goes(p, "connect", "stuck") /\ dbOpen' = [dbOpen EXCEPT ![p] = TRUE] /\ holder' = NoProcess
    /\ UNCHANGED <<outcome, marked, job, requests, kills>>

\* The connection may stay when closing it raises.
Closed(p) == \E left \in {FALSE, dbOpen[p]} : dbOpen' = [dbOpen EXCEPT ![p] = left]

\* Whatever raises in _build_app, a cancellation included, closes the database.
BuildRaises(p) ==
    /\ at[p] \in {"build", "reconcile"} /\ at' = [at EXCEPT ![p] = "unlock"] /\ Closed(p)
    /\ UNCHANGED <<holder, outcome, marked, job, requests, kills>>

\* Migrations, administrators, services.
Build(p) ==
    /\ Goes(p, "build", "reconcile")
    /\ UNCHANGED <<holder, dbOpen, outcome, marked, job, requests, kills>>

\* A pass that raises is a pass that failed; the start goes on with the next.
Reconcile(p, i) ==
    LET b == Passes[i] IN
    /\ at[p] = "reconcile" /\ outcome[p][b] = "untried"
    /\ \A k \in 1..(i - 1) : outcome[p][Passes[k]] # "untried"
    /\ \E o \in {"ok", "raised"} : outcome' = [outcome EXCEPT ![p][b] = o]
    /\ UNCHANGED <<at, holder, dbOpen, marked, job, requests, kills>>

\* What else makes a pass fail is in the module of its backend.
MarkFailed(p) ==
    /\ \A b \in Backends : outcome[p][b] # "untried"
    /\ marked' = [marked EXCEPT ![p] = {b \in Backends : outcome[p][b] = "raised"}]
    /\ Goes(p, "reconcile", "jobs")
    /\ UNCHANGED <<holder, dbOpen, outcome, job, requests, kills>>

StartJobs(p) ==
    /\ Goes(p, "jobs", "servers") /\ job' = [job EXCEPT ![p] = [j \in Jobs |-> "asleep"]]
    /\ UNCHANGED <<holder, dbOpen, outcome, marked, requests, kills>>

\* The health endpoint, the web app, WARP and the webhook.
StartPolling(p) ==
    /\ Goes(p, "servers", "polling")
    /\ UNCHANGED <<holder, dbOpen, outcome, marked, job, requests, kills>>

--------------------------------------------------------------------------------
(* At work *)

\* One turn of a job; what it raises is logged and it sleeps again.
JobWakes(p, j) ==
    /\ job[p][j] = "asleep" /\ job' = [job EXCEPT ![p][j] = "busy"]
    /\ UNCHANGED <<at, holder, dbOpen, outcome, marked, requests, kills>>

JobSleeps(p, j) ==
    /\ job[p][j] = "busy" /\ job' = [job EXCEPT ![p][j] = "asleep"]
    /\ UNCHANGED <<at, holder, dbOpen, outcome, marked, requests, kills>>

WebRequest(p) ==
    /\ at[p] \in {"servers", "polling"} /\ web' = [web EXCEPT ![p] = ~web[p]]
    /\ UNCHANGED <<at, holder, dbOpen, outcome, marked, job, polled, kills>>

\* An update is handled in a task of its own, which nobody waits for.
Update(p) ==
    /\ at[p] = "polling" \/ polled[p]
    /\ polled' = [polled EXCEPT ![p] = ~polled[p]]
    /\ UNCHANGED <<at, holder, dbOpen, outcome, marked, job, web, kills>>

--------------------------------------------------------------------------------
(* The end *)

\* A signal, or an exception between the jobs and polling.
StopRequested(p) ==
    /\ at[p] \in {"jobs", "servers", "polling"} /\ at' = [at EXCEPT ![p] = "stop web"]
    /\ UNCHANGED <<holder, dbOpen, outcome, marked, job, requests, kills>>

\* AppRunner.cleanup waits for the requests at work, and then cancels them.
StopWeb(p) ==
    /\ Goes(p, "stop web", "stop jobs") /\ web' = [web EXCEPT ![p] = FALSE]
    /\ UNCHANGED <<holder, dbOpen, outcome, marked, job, polled, kills>>

CancelJob(p, j) ==
    /\ at[p] = "stop jobs" /\ job[p][j] \in {"asleep", "busy"}
    /\ \A i \in Jobs : job[p][i] # "cancelled"
    /\ job' = [job EXCEPT ![p][j] = IF @ = "busy" THEN "cancelled" ELSE "off"]
    /\ UNCHANGED <<at, holder, dbOpen, outcome, marked, requests, kills>>

\* A cancelled job rolls back and gives its locks back.
JobUnwinds(p, j) ==
    /\ job[p][j] = "cancelled" /\ job' = [job EXCEPT ![p][j] = "off"]
    /\ UNCHANGED <<at, holder, dbOpen, outcome, marked, requests, kills>>

\* Mutant: a cancelled job is not waited for.
JobsStoppedUnawaited(p) ==
    /\ \A j \in Jobs : job[p][j] \in {"off", "cancelled"} /\ Goes(p, "stop jobs", "stop warp")
    /\ UNCHANGED <<holder, dbOpen, outcome, marked, job, requests, kills>>

\* Each task is cancelled and gathered before the next.
JobsStopped(p) ==
    /\ job[p] = AllOff /\ Goes(p, "stop jobs", "stop warp")
    /\ UNCHANGED <<holder, dbOpen, outcome, marked, job, requests, kills>>

\* WarpManager.stop and the health endpoint; what they raise is logged.
StopWarp(p) ==
    /\ Goes(p, "stop warp", "close")
    /\ UNCHANGED <<holder, dbOpen, outcome, marked, job, requests, kills>>

CloseDatabase(p) ==
    /\ Goes(p, "close", "unlock") /\ Closed(p)
    /\ UNCHANGED <<holder, outcome, marked, job, requests, kills>>

GiveInstanceLock(p) ==
    /\ Goes(p, "unlock", "end") /\ holder' = NoProcess
    /\ UNCHANGED <<dbOpen, outcome, marked, job, requests, kills>>

\* Nothing of the process is left.
Gone(p) ==
    /\ outcome' = [outcome EXCEPT ![p] = Untried] /\ marked' = [marked EXCEPT ![p] = {}]
    /\ job' = [job EXCEPT ![p] = AllOff] /\ dbOpen' = [dbOpen EXCEPT ![p] = FALSE]
    /\ web' = [web EXCEPT ![p] = FALSE] /\ polled' = [polled EXCEPT ![p] = FALSE]

\* asyncio.run cancels the tasks that are left, updates of the bot.
EndLoop(p) == Goes(p, "end", "down") /\ Gone(p) /\ UNCHANGED <<holder, kills>>

\* The kernel gives back the lock of a killed process.
Kill(p) ==
    /\ at[p] # "down" /\ kills < MaxKills /\ kills' = kills + 1
    /\ at' = [at EXCEPT ![p] = "down"] /\ Gone(p)
    /\ holder' = IF holder = p THEN NoProcess ELSE holder

ProcessStep(p) ==
    \/ Connect(p) \/ BuildRaises(p) \/ Build(p) \/ \E i \in DOMAIN Passes : Reconcile(p, i)
    \/ MarkFailed(p) \/ StartJobs(p) \/ StartPolling(p)
    \/ StopWeb(p) \/ JobsStopped(p) \/ StopWarp(p) \/ CloseDatabase(p) \/ GiveInstanceLock(p) \/ EndLoop(p)
    \/ \E j \in Jobs : CancelJob(p, j) \/ JobUnwinds(p, j)

LifeNext ==
    \E p \in Processes :
        \/ TakeInstanceLock(p) \/ ProcessStep(p) \/ StopRequested(p) \/ Kill(p)
        \/ WebRequest(p) \/ Update(p)
        \/ \E j \in Jobs : JobWakes(p, j) \/ JobSleeps(p, j)

\* main() goes on whenever it can.
LifeFairness == \A p \in Processes : WF_lifeVars(ProcessStep(p))
LifeSpec == LifeInit /\ [][LifeNext]_lifeVars /\ LifeFairness

--------------------------------------------------------------------------------
(* Properties *)

\* Every variable keeps its type.
LifeTypeOK ==
    /\ at \in [Processes -> Places] /\ holder \in Processes \cup {NoProcess}
    /\ dbOpen \in [Processes -> BOOLEAN] /\ web \in [Processes -> BOOLEAN] /\ polled \in [Processes -> BOOLEAN]
    /\ outcome \in [Processes -> [Backends -> {"untried", "ok", "raised"}]]
    /\ marked \in [Processes -> SUBSET Backends]
    /\ job \in [Processes -> [Jobs -> {"off", "asleep", "busy", "cancelled"}]]

AtWork(p) ==
    \/ dbOpen[p] /\ at[p] \notin {"end", "stuck"}
    \/ web[p]
    \/ \E j \in Jobs : job[p][j] # "off"

\* At most one process reconciles, serves or tidies up, however they are started,
\* stopped and killed.  Left out is what is left when the lock goes back: updates
\* still handled, and a connection that could not be closed.
OneAtWork == \A p, q \in Processes : AtWork(p) /\ AtWork(q) => p = q

\* No job and no request comes before every backend was reconciled, and a backend
\* whose pass raised then refuses changes.
ReadyBeforeServing ==
    \A p \in Processes : web[p] \/ polled[p] \/ job[p] # AllOff =>
        \A b \in Backends : outcome[p][b] # "untried" /\ (outcome[p][b] = "raised" => b \in marked[p])

\* The database outlives every job, those that were cancelled at work included, and
\* every request of the web app.
DatabaseOutlivesWork ==
    \A p \in Processes : web[p] \/ job[p] # AllOff => dbOpen[p]

\* main.py:31-149 and bot/app.py:77-88: the order of the start and of the teardown.
LifeIsOrdered == LifeTypeOK /\ OneAtWork /\ ReadyBeforeServing /\ DatabaseOutlivesWork

\* A start comes up or is given up, and a stop ends with the lock given back; only a
\* connection that fails half way leaves a process behind.
StartsAndStopsEnd ==
    \A p \in Processes : at[p] \in Starting \cup Stopping ~> at[p] \in {"down", "polling", "stuck"}
=============================================================================
