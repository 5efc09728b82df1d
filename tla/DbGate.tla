------------------------------- MODULE DbGate -------------------------------
(***************************************************************************)
(* db/database.py: every coroutine of the bot works on ONE SQLite          *)
(* connection, so a transaction is the connection's, not the task's.  The  *)
(* gate (_transaction_lock with its two owner fields) keeps the units of   *)
(* different tasks apart: explicit transactions (async with transaction()) *)
(* and implicit ones (a write followed by commit()).                       *)
(*                                                                         *)
(* aiosqlite runs the commands of all tasks in one thread, in the order    *)
(* they were sent; a task awaits each of its commands.  A read is two      *)
(* commands: execute, which steps to the first row, and fetchall, which    *)
(* steps through the others.                                               *)
(*                                                                         *)
(* Left out: child tasks that inherit a transaction's context (no code     *)
(* under services/ starts one inside a transaction), connect and close.    *)
(***************************************************************************)
EXTENDS Naturals, Sequences, SequencesExt, FiniteSets

CONSTANTS
  Tasks,       \* tasks that use the connection
  Monitors,    \* those that are cancelled while the bot runs (the WARP monitor)
  None,        \* no task
  MaxStmts,    \* bound on the statements of one unit
  MaxCancels   \* bound on cancellations

ASSUME MonitorsAssumption == Monitors \subseteq Tasks
ASSUME NoTaskAssumption   == None \notin Tasks
ASSUME BoundsAssumption   == MaxStmts \in Nat \ {0} /\ MaxCancels \in Nat

VARIABLES
  lock,      \* holder of _transaction_lock, or None
  waiters,   \* its waiters, in order
  txOwner,   \* _transaction_owner
  wrOwner,   \* _implicit_write_owner
  pc,        \* pc[t]: where the task is
  stmts,     \* stmts[t]: statements sent in its running unit
  sent,      \* commands the connection's thread has not run yet, oldest first
  dirty,     \* tasks with uncommitted work on the connection
  saw,       \* saw[t]: tasks whose uncommitted work t's running read met
  cancels

vars == <<lock, waiters, txOwner, wrOwner, pc, stmts, sent, dirty, saw, cancels>>
gateVars == <<lock, waiters, txOwner, wrOwner>>

Commands == {"begin", "write", "select", "fetch", "commit", "rollback"}
Waits    == {"wait_begin", "wait_write", "wait_select", "wait_commit"}
Points   == {"idle", "body", "lost"} \cup Commands \cup Waits

Owner(t) == txOwner = t \/ wrOwner = t
\* where a task is between two commands: inside its unit, or outside
Home(t)  == IF Owner(t) THEN "body" ELSE "idle"
Ready(t) == pc[t] \in {"idle", "body"}

------------------------------------------------------------------------------
(* Building blocks.                                                          *)

Send(t, op) == /\ pc' = [pc EXCEPT ![t] = op]
               /\ sent' = Append(sent, [by |-> t, op |-> op])

Wait(t, point) == /\ pc' = [pc EXCEPT ![t] = point]
                  /\ waiters' = Append(waiters, t)
                  /\ UNCHANGED <<lock, sent>>

\* asyncio.Lock: no overtaking of those who wait
Free == lock = None /\ waiters = <<>>

Count(t) == stmts[t] < MaxStmts /\ stmts' = [stmts EXCEPT ![t] = @ + 1]

Init ==
  /\ lock = None /\ waiters = <<>> /\ txOwner = None /\ wrOwner = None
  /\ pc = [t \in Tasks |-> "idle"]
  /\ stmts = [t \in Tasks |-> 0]
  /\ sent = <<>> /\ dirty = {}
  /\ saw = [t \in Tasks |-> {}]
  /\ cancels = 0

------------------------------------------------------------------------------
(* What a task asks of the database.                                         *)

\* mutant: a reader does not look at the lock
ReadUngated(t) ==
  /\ Ready(t) /\ Count(t)
  /\ saw' = [saw EXCEPT ![t] = {}]
  /\ Send(t, "select")
  /\ UNCHANGED <<lock, waiters, txOwner, wrOwner, dirty, cancels>>

\* _before_connection_execute of a SELECT: an owner reads its own unit, the
\* others wait for their turn if the lock is held at this moment
Read(t) ==
  /\ Ready(t) /\ Count(t)
  /\ saw' = [saw EXCEPT ![t] = {}]
  /\ \/ (Owner(t) \/ lock = None) /\ Send(t, "select") /\ UNCHANGED <<lock, waiters>>
     \/ ~Owner(t) /\ lock # None /\ Wait(t, "wait_select")
  /\ UNCHANGED <<txOwner, wrOwner, dirty, cancels>>

\* a write outside a unit opens an implicit one, which holds the lock to its commit()
Write(t) ==
  /\ Ready(t) /\ Count(t)
  /\ \/ Owner(t) /\ Send(t, "write") /\ UNCHANGED <<lock, waiters, wrOwner>>
     \/ /\ ~Owner(t) /\ Free
        /\ lock' = t /\ wrOwner' = t /\ Send(t, "write") /\ UNCHANGED waiters
     \/ ~Owner(t) /\ ~Free /\ Wait(t, "wait_write") /\ UNCHANGED wrOwner
  /\ UNCHANGED <<txOwner, dirty, saw, cancels>>

\* mutant: a commit from outside does not wait
CommitUngated(t) ==
  /\ Ready(t)
  /\ \/ txOwner = t /\ UNCHANGED <<pc, sent>>
     \/ txOwner # t /\ Send(t, "commit")
  /\ UNCHANGED <<lock, waiters, txOwner, wrOwner, stmts, dirty, saw, cancels>>

\* Database.commit(): nothing inside a transaction, the end of an implicit unit,
\* and for any other task a commit that must not hit a running unit
Commit(t) ==
  /\ Ready(t)
  /\ \/ txOwner = t /\ UNCHANGED <<pc, sent, lock, waiters>>
     \/ wrOwner = t /\ Send(t, "commit") /\ UNCHANGED <<lock, waiters>>
     \/ ~Owner(t) /\ lock = None /\ Send(t, "commit") /\ UNCHANGED <<lock, waiters>>
     \/ ~Owner(t) /\ lock # None /\ Wait(t, "wait_commit")
  /\ UNCHANGED <<txOwner, wrOwner, stmts, dirty, saw, cancels>>

\* async with transaction(); inside a transaction it joins, which changes nothing
Transaction(t) ==
  /\ pc[t] = "idle" /\ t \notin Monitors
  /\ \/ Free /\ lock' = t /\ txOwner' = t /\ Send(t, "begin") /\ UNCHANGED waiters
     \/ ~Free /\ Wait(t, "wait_begin") /\ UNCHANGED txOwner
  /\ UNCHANGED <<wrOwner, stmts, dirty, saw, cancels>>

\* the body returns, or raises
TransactionEnds(t) ==
  /\ pc[t] = "body" /\ txOwner = t
  /\ \E op \in {"commit", "rollback"} : Send(t, op)
  /\ UNCHANGED <<lock, waiters, txOwner, wrOwner, stmts, dirty, saw, cancels>>

\* the lock is free and wakes its first waiter; _wait_for_connection_turn gives it
\* back in the same step
Wake ==
  /\ lock = None /\ waiters # <<>>
  /\ LET t == Head(waiters) IN
     /\ waiters' = Tail(waiters)
     /\ \/ pc[t] = "wait_select" /\ Send(t, "select") /\ UNCHANGED <<lock, txOwner, wrOwner>>
        \/ pc[t] = "wait_commit" /\ Send(t, "commit") /\ UNCHANGED <<lock, txOwner, wrOwner>>
        \/ /\ pc[t] = "wait_write" /\ Send(t, "write")
           /\ lock' = t /\ wrOwner' = t /\ UNCHANGED txOwner
        \/ /\ pc[t] = "wait_begin" /\ Send(t, "begin")
           /\ lock' = t /\ txOwner' = t /\ UNCHANGED wrOwner
  /\ UNCHANGED <<stmts, dirty, saw, cancels>>

------------------------------------------------------------------------------
(* The connection's thread runs the oldest command and its task goes on, if  *)
(* it still awaits the result.                                               *)

First(op) == sent # <<>> /\ Head(sent).op = op

Resume(t, point) == pc' = IF pc[t] = "lost" THEN pc ELSE [pc EXCEPT ![t] = point]
Reset(t, point)  == stmts' = IF point = "idle" THEN [stmts EXCEPT ![t] = 0] ELSE stmts
Return(t, point) == Resume(t, point) /\ Reset(t, point) /\ sent' = Tail(sent)

\* the task's next command, sent as soon as it is resumed
Follow(t, op) ==
  /\ pc' = [pc EXCEPT ![t] = op]
  /\ sent' = Append(Tail(sent), [by |-> t, op |-> op])
  /\ UNCHANGED stmts

\* mutant: the error path of BEGIN forgets the lock
ReleaseOwnerOnly(t) == /\ UNCHANGED lock
                       /\ txOwner' = IF txOwner = t THEN None ELSE txOwner
                       /\ wrOwner' = IF wrOwner = t THEN None ELSE wrOwner

Release(t) == /\ lock' = IF lock = t THEN None ELSE lock
              /\ txOwner' = IF txOwner = t THEN None ELSE txOwner
              /\ wrOwner' = IF wrOwner = t THEN None ELSE wrOwner

RunBegin ==
  /\ First("begin")
  /\ LET t == Head(sent).by IN
     \/ Return(t, "body") /\ UNCHANGED gateVars
     \/ Return(t, "idle") /\ Release(t) /\ UNCHANGED waiters
  /\ UNCHANGED <<dirty, saw, cancels>>

\* a failed statement leaves no work; an implicit unit is rolled back, a
\* transaction's body gets the exception
RunWrite ==
  /\ First("write")
  /\ LET t == Head(sent).by IN
     \/ dirty' = dirty \cup {t} /\ Return(t, "body")
     \/ /\ dirty' = dirty
        /\ IF pc[t] # "lost" /\ wrOwner = t THEN Follow(t, "rollback") ELSE Return(t, "body")
  /\ UNCHANGED gateVars /\ UNCHANGED <<saw, cancels>>

RunSelect ==
  /\ First("select")
  /\ LET t == Head(sent).by IN
     /\ saw' = [saw EXCEPT ![t] = dirty \ {t}]
     /\ \/ pc[t] # "lost" /\ Follow(t, "fetch")
        \/ Return(t, Home(t))
  /\ UNCHANGED gateVars /\ UNCHANGED <<dirty, cancels>>

RunFetch ==
  /\ First("fetch")
  /\ LET t == Head(sent).by IN
     /\ saw' = [saw EXCEPT ![t] = @ \cup (dirty \ {t})]
     /\ Return(t, Home(t))
  /\ UNCHANGED gateVars /\ UNCHANGED <<dirty, cancels>>

\* COMMIT or ROLLBACK; a COMMIT that fails is rolled back by SQLite
RunEnd ==
  /\ First("commit") \/ First("rollback")
  /\ LET t == Head(sent).by IN
     /\ dirty' = {}
     /\ Return(t, "idle")
     /\ IF pc[t] = "lost" THEN UNCHANGED gateVars ELSE Release(t) /\ UNCHANGED waiters
  /\ UNCHANGED <<saw, cancels>>

Run == RunBegin \/ RunWrite \/ RunSelect \/ RunFetch \/ RunEnd

\* mutant: a cancelled waiter stays in the queue
CancelStaysQueued(t) ==
  /\ t \in Monitors /\ pc[t] \notin {"idle", "lost"} /\ cancels < MaxCancels
  /\ cancels' = cancels + 1
  /\ pc' = [pc EXCEPT ![t] = "lost"]
  /\ IF pc[t] \in {"commit", "rollback"} THEN Release(t)
     ELSE UNCHANGED <<lock, txOwner, wrOwner>>
  /\ UNCHANGED <<waiters, stmts, sent, dirty, saw>>

\* Task.cancel(): CancelledError at the await.  Only commit() and the rollback
\* after an error release the lock in a "finally"; "except Exception" in execute
\* does not see a CancelledError.  The sent command runs all the same.
Cancel(t) ==
  /\ t \in Monitors /\ pc[t] \notin {"idle", "lost"} /\ cancels < MaxCancels
  /\ cancels' = cancels + 1
  /\ pc' = [pc EXCEPT ![t] = "lost"]
  /\ IF pc[t] \in Waits
     THEN \E i \in DOMAIN waiters : waiters[i] = t /\ waiters' = RemoveAt(waiters, i)
     ELSE UNCHANGED waiters
  /\ IF pc[t] \in {"commit", "rollback"} THEN Release(t)
     ELSE UNCHANGED <<lock, txOwner, wrOwner>>
  /\ UNCHANGED <<stmts, sent, dirty, saw>>

------------------------------------------------------------------------------
Request(t) == Read(t) \/ Write(t) \/ Transaction(t) \/ Commit(t)

\* what a task inside a unit does in the end
UnitEnds(t) == TransactionEnds(t) \/ (wrOwner = t /\ Commit(t))

Next == Wake \/ Run \/ \E t \in Tasks : Request(t) \/ TransactionEnds(t) \/ Cancel(t)

Spec == Init /\ [][Next]_vars

\* the event loop and the connection's thread run what is ready; bodies end
Fairness == WF_vars(Wake) /\ WF_vars(Run) /\ \A t \in Tasks : WF_vars(UnitEnds(t))
FairSpec == Spec /\ Fairness

------------------------------------------------------------------------------
TypeOK ==
  /\ {lock, txOwner, wrOwner} \subseteq Tasks \cup {None}
  /\ waiters \in Seq(Tasks)
  /\ Range(waiters) = {t \in Tasks : pc[t] \in Waits}
  /\ pc \in [Tasks -> Points]
  /\ stmts \in [Tasks -> 0..MaxStmts]
  /\ sent \in Seq([by : Tasks, op : Commands])
  /\ dirty \subseteq Tasks
  /\ saw \in [Tasks -> SUBSET Tasks]
  /\ cancels \in 0..MaxCancels

\* Safety: the open transaction of the connection never mixes the work of two
\* tasks, so a commit or rollback is all of one unit and nothing else.
NoMixing == Cardinality(dirty) <= 1

\* Action: uncommitted work is committed or rolled back by the task that did it;
\* a commit() from outside a unit never ends the unit of another task.
EndsOwnWork ==
  [][dirty # {} /\ dirty' = {} => dirty = {Head(sent).by}]_vars

\* Safety: the first row of a read is read from committed data (or its own unit),
\* whatever the waiting order.
ReadsStartCommitted == \A t \in Tasks : pc[t] = "fetch" => saw[t] = {}

\* Safety: what the gate is for, of writers and of readers.
Isolated == NoMixing /\ ReadsStartCommitted

\* Liveness: no database operation waits for ever, and no unit stays open, whatever
\* statements fail, unless a task is cancelled (hazard warp/health.py:172: a
\* cancelled owner may take the gate with it).
OperationsEnd == \A t \in Tasks : pc[t] # "idle" ~> (pc[t] = "idle" \/ cancels > 0)

\* db/database.py: "Independent reader tasks ... fall through to the lock wait
\* below, so they never see uncommitted data".
ReadsCommitted == \A t \in Tasks : saw[t] = {}
==============================================================================
