---------------------------- MODULE DbGateProofs ----------------------------
(* That the gate keeps the work of different tasks apart (DbGate), for any   *)
(* number of tasks, of statements in a unit, and of cancellations.           *)
EXTENDS DbGate, SequenceTheorems, FiniteSetTheorems, TLAPS

Command == [by : Tasks, op : Commands]
Ends == {"commit", "rollback"}

(* When the first n commands of the queue q have run, on top of the uncommitted *)
(* work of the tasks d, there is no uncommitted work but t's.                   *)
LeavesOnly(q, d, n, t) ==
  /\ \A u \in d : u = t \/ \E j \in 1..n : q[j].op \in Ends
  /\ \A k \in 1..n : q[k].op = "write" =>
       q[k].by = t \/ \E j \in (k + 1)..n : q[j].op \in Ends

\* Every command but the rest of a read meets no work but its own task's.
MeetOwn(q, d) == \A i \in 1..Len(q) : q[i].op # "fetch" => LeavesOnly(q, d, i - 1, q[i].by)

\* A task has one command in the queue, the one it awaits or was cancelled at.
QueueInv ==
  /\ \A i, j \in 1..Len(sent) : sent[i].by = sent[j].by => i = j
  /\ \A i \in 1..Len(sent) : pc[sent[i].by] \in {sent[i].op, "lost"}
  /\ \A t \in Tasks : pc[t] \in Commands => \E i \in 1..Len(sent) : sent[i].by = t

\* An owner of the gate holds its lock, a task that begins its transaction is one.
\* Monitors open no transaction, and only
\* they are cancelled.
OwnerInv ==
  /\ \A t \in Tasks : Owner(t) => lock = t
  /\ \A t \in Tasks : pc[t] = "begin" => Owner(t)
  /\ \A t \in Tasks : pc[t] = "lost" => t \in Monitors
  /\ \A t \in Tasks : pc[t] \in {"begin", "wait_begin"} => t \notin Monitors
  /\ \A i \in 1..Len(sent) : sent[i].op = "begin" => sent[i].by \notin Monitors

(* The work on the connection is of one task, a command meets only that of its *)
(* own, and when the queue has run there is only the lock holder's; there is   *)
(* none of a holder whose transaction has not begun.                          *)
WorkInv ==
  /\ \A u, v \in dirty : u = v
  /\ MeetOwn(sent, dirty)
  /\ LeavesOnly(sent, dirty, Len(sent), lock)
  /\ \A t \in Tasks : pc[t] = "begin" => LeavesOnly(sent, dirty, Len(sent), None)
  /\ ReadsStartCommitted

Distinct(w) == \A i, j \in 1..Len(w) : w[i] = w[j] => i = j

\* A task waits at one place of the queue.
WaitersInv == Distinct(waiters)

GateInv == TypeOK /\ WaitersInv /\ QueueInv /\ OwnerInv /\ WorkInv

------------------------------------------------------------------------------
(* The queue of commands: one more at its end, one less at its head.         *)

\* What the thread's next command h may leave of the work d.
After(h, d) ==
  IF h.op \in Ends THEN {{}}
  ELSE IF h.op = "write" THEN {d, d \cup {h.by}}
  ELSE {d}

\* A longer queue leaves the same after its first commands.
LEMMA Appended ==
  ASSUME NEW q \in Seq(Command), NEW d \in SUBSET Tasks, NEW c \in Command,
         NEW n \in 0..Len(q), NEW t, LeavesOnly(q, d, n, t)
  PROVE  LeavesOnly(Append(q, c), d, n, t)
<1>. DEFINE r == Append(q, c)
<1>1. \A i \in 1..n : r[i] = q[i]
  BY AppendProperties
<1>. HIDE DEF r
<1>. QED
  BY <1>1 DEF LeavesOnly

\* One more command leaves no other task's work, unless it is a write of another.
LEMMA AppendedLast ==
  ASSUME NEW q \in Seq(Command), NEW d \in SUBSET Tasks, NEW c \in Command,
         NEW t, LeavesOnly(q, d, Len(q), t), c.op = "write" => c.by = t
  PROVE  LeavesOnly(Append(q, c), d, Len(Append(q, c)), t)
<1>. DEFINE r == Append(q, c)
            n == Len(q)
<1>1. n \in Nat /\ Len(r) = n + 1 /\ r[n + 1] = c /\ \A i \in 1..n : r[i] = q[i]
  BY AppendProperties, LenProperties
<1>. HIDE DEF r, n
<1>2. LeavesOnly(q, d, n, t)
  BY DEF n
<1>3. LeavesOnly(r, d, n + 1, t)
  BY <1>1, <1>2 DEF LeavesOnly
<1>. QED
  BY <1>1, <1>3 DEF r

\* With its head run, the rest of the queue leaves what the whole did.
LEMMA HeadRun ==
  ASSUME NEW q \in Seq(Command), q # <<>>, NEW d \in SUBSET Tasks,
         NEW e \in After(Head(q), d), NEW n \in 1..Len(q), NEW t, LeavesOnly(q, d, n, t)
  PROVE  LeavesOnly(Tail(q), e, n - 1, t)
<1>. DEFINE r == Tail(q)
            m == Len(q)
            h == Head(q)
<1>1. /\ m \in Nat \ {0} /\ h = q[1] /\ Len(r) = m - 1
      /\ \A i \in 1..(m - 1) : r[i] = q[i + 1]
  BY HeadTailProperties, LenProperties
<1>2. e \in After(h, d) /\ n \in 1..m
  OBVIOUS
<1>. HIDE DEF r, m, h
<1>3. ASSUME NEW u \in e PROVE u = t \/ \E j \in 1..(n - 1) : r[j].op \in Ends
  <2>1. CASE h.op \in Ends
    BY <1>2, <1>3, <2>1 DEF After
  <2>2. CASE h.op \notin Ends /\ u \in d
    <3>1. u = t \/ \E j \in 1..n : q[j].op \in Ends
      BY <2>2 DEF LeavesOnly
    <3>2. ASSUME NEW j \in 1..n, q[j].op \in Ends PROVE j - 1 \in 1..(n - 1) /\ r[j - 1].op \in Ends
      BY <1>1, <1>2, <2>2, <3>2
    <3>. QED
      BY <3>1, <3>2
  <2>3. CASE h.op = "write" /\ u = h.by
    <3>1. u = t \/ \E j \in 2..n : q[j].op \in Ends
      BY <1>1, <1>2, <2>3 DEF LeavesOnly
    <3>2. ASSUME NEW j \in 2..n, q[j].op \in Ends PROVE j - 1 \in 1..(n - 1) /\ r[j - 1].op \in Ends
      BY <1>1, <1>2, <3>2
    <3>. QED
      BY <3>1, <3>2
  <2>. QED
    BY <1>2, <1>3, <2>1, <2>2, <2>3 DEF After
<1>4. ASSUME NEW k \in 1..(n - 1), r[k].op = "write"
      PROVE  r[k].by = t \/ \E j \in (k + 1)..(n - 1) : r[j].op \in Ends
  <2>1. k + 1 \in 1..n /\ r[k] = q[k + 1]
    BY <1>1, <1>2
  <2>2. q[k + 1].by = t \/ \E j \in (k + 2)..n : q[j].op \in Ends
    BY <1>2, <1>4, <2>1 DEF LeavesOnly
  <2>3. ASSUME NEW j \in (k + 2)..n, q[j].op \in Ends
        PROVE  j - 1 \in (k + 1)..(n - 1) /\ r[j - 1].op \in Ends
    BY <1>1, <1>2, <2>3
  <2>. QED
    BY <2>1, <2>2, <2>3
<1>5. LeavesOnly(r, e, n - 1, t)
  BY <1>3, <1>4 DEF LeavesOnly
<1>. QED
  BY <1>5 DEF r

\* The two facts for every command of the queue.
LEMMA MeetAppended ==
  ASSUME NEW q \in Seq(Command), NEW d \in SUBSET Tasks, NEW c \in Command, MeetOwn(q, d),
         c.op # "fetch" => LeavesOnly(q, d, Len(q), c.by)
  PROVE  MeetOwn(Append(q, c), d)
<1>. DEFINE r == Append(q, c)
            n == Len(q)
<1>1. n \in Nat /\ Len(r) = n + 1 /\ r[n + 1] = c /\ \A i \in 1..n : r[i] = q[i]
  BY AppendProperties, LenProperties
<1>2. ASSUME NEW m \in 0..n, NEW t, LeavesOnly(q, d, m, t) PROVE LeavesOnly(r, d, m, t)
  BY <1>2, Appended
<1>3. c.op # "fetch" => LeavesOnly(q, d, n, c.by)
  OBVIOUS
<1>. HIDE DEF r, n
<1>4. ASSUME NEW i \in 1..Len(r), r[i].op # "fetch" PROVE LeavesOnly(r, d, i - 1, r[i].by)
  <2>1. CASE i = n + 1
    <3>1. i - 1 = n /\ n \in 0..n /\ r[i] = c
      BY <1>1, <2>1
    <3>2. LeavesOnly(q, d, n, c.by)
      BY <1>3, <1>4, <3>1
    <3>. QED
      BY <1>2, <3>1, <3>2
  <2>2. CASE i \in 1..n
    <3>1. r[i] = q[i] /\ i - 1 \in 0..n
      BY <1>1, <2>2
    <3>2. LeavesOnly(q, d, i - 1, q[i].by)
      BY <1>4, <2>2, <3>1 DEF MeetOwn, n
    <3>. QED
      BY <1>2, <3>1, <3>2
  <2>. QED
    BY <1>1, <2>1, <2>2
<1>5. MeetOwn(r, d)
  BY <1>4 DEF MeetOwn
<1>. QED
  BY <1>5 DEF r

\* A task meets only its own writes at the head of the queue, also after that command.
LEMMA MeetRun ==
  ASSUME NEW q \in Seq(Command), q # <<>>, NEW d \in SUBSET Tasks,
         NEW e \in After(Head(q), d), MeetOwn(q, d)
  PROVE  MeetOwn(Tail(q), e)
<1>. DEFINE r == Tail(q)
            m == Len(q)
<1>1. /\ m \in Nat \ {0} /\ Len(r) = m - 1 /\ \A i \in 1..(m - 1) : r[i] = q[i + 1]
  BY HeadTailProperties, LenProperties
<1>2. ASSUME NEW n \in 1..m, NEW t, LeavesOnly(q, d, n, t) PROVE LeavesOnly(r, e, n - 1, t)
  BY <1>2, HeadRun
<1>. HIDE DEF r, m
<1>3. ASSUME NEW i \in 1..Len(r), r[i].op # "fetch" PROVE LeavesOnly(r, e, i - 1, r[i].by)
  <2>1. i + 1 \in 1..m /\ i \in 1..m /\ (i + 1) - 1 = i /\ r[i] = q[i + 1]
    BY <1>1
  <2>2. LeavesOnly(q, d, i, q[i + 1].by)
    BY <1>3, <2>1 DEF MeetOwn, m
  <2>. QED
    BY <1>2, <2>1, <2>2
<1>4. MeetOwn(r, e)
  BY <1>3 DEF MeetOwn
<1>. QED
  BY <1>4 DEF r

\* Work that the queue leaves to nobody is left to t at most.
LEMMA Anyone ==
  ASSUME NEW q \in Seq(Command), NEW d \in SUBSET Tasks, NEW n \in 0..Len(q), NEW t \in Tasks,
         LeavesOnly(q, d, n, None)
  PROVE  LeavesOnly(q, d, n, t)
<1>1. ASSUME NEW k \in 1..n PROVE q[k].by \in Tasks
  <2>1. k \in 1..Len(q)
    BY LenProperties
  <2>2. q[k] \in Command
    BY <2>1, ElementOfSeq
  <2>. QED
    BY <2>2 DEF Command
<1>. QED
  BY <1>1, NoTaskAssumption DEF LeavesOnly

\* None of t's is left when the queue ends what it did and it sent no write.
LEMMA Nobody ==
  ASSUME NEW q, NEW d, NEW n \in Nat, NEW t, LeavesOnly(q, d, n, t),
         t \in d => \E j \in 1..n : q[j].op \in Ends,
         \A k \in 1..n : q[k].by = t => q[k].op # "write"
  PROVE  LeavesOnly(q, d, n, None)
BY DEF LeavesOnly

------------------------------------------------------------------------------
(* The queue of the lock's waiters.                                          *)

\* A task that joins the waiters stands there once.
LEMMA Joined ==
  ASSUME NEW w \in Seq(Tasks), Distinct(w), NEW t \in Tasks, t \notin Range(w)
  PROVE  /\ Append(w, t) \in Seq(Tasks) /\ Distinct(Append(w, t))
         /\ Range(Append(w, t)) = Range(w) \cup {t}
<1>. DEFINE r == Append(w, t)
            n == Len(w)
<1>1. /\ n \in Nat /\ Len(r) = n + 1 /\ r[n + 1] = t /\ \A i \in 1..n : r[i] = w[i]
      /\ r \in Seq(Tasks) /\ DOMAIN r = 1..(n + 1) /\ DOMAIN w = 1..n
  BY AppendProperties, LenProperties
<1>. HIDE DEF r, n
<1>2. \A i \in 1..n : w[i] # t
  BY <1>1 DEF Range
<1>3. Distinct(r)
  <2>. SUFFICES ASSUME NEW i \in 1..(n + 1), NEW j \in 1..(n + 1), r[i] = r[j] PROVE i = j
    BY <1>1 DEF Distinct
  <2>1. CASE i \in 1..n /\ j \in 1..n
    <3>1. w[i] = w[j]
      BY <1>1, <2>1
    <3>. QED
      BY <2>1, <3>1 DEF Distinct, n
  <2>. QED
    BY <1>1, <1>2, <2>1
<1>4. Range(r) = Range(w) \cup {t}
  <2>1. ASSUME NEW x \in Range(r) PROVE x \in Range(w) \cup {t}
    BY <1>1, <2>1 DEF Range
  <2>2. ASSUME NEW x \in Range(w) PROVE x \in Range(r)
    <3>1. PICK i \in 1..n : w[i] = x
      BY <1>1, <2>2 DEF Range
    <3>. QED
      BY <1>1, <3>1 DEF Range
  <2>3. t \in Range(r)
    BY <1>1 DEF Range
  <2>. QED
    BY <2>1, <2>2, <2>3
<1>. QED
  BY <1>1, <1>3, <1>4 DEF r

\* The waiter at place i leaves, the first one included.
LEMMA Removed ==
  ASSUME NEW w \in Seq(Tasks), Distinct(w), NEW i \in 1..Len(w), NEW r \in Seq(Tasks),
         Len(r) = Len(w) - 1,
         \A j \in 1..(Len(w) - 1) : r[j] = IF j < i THEN w[j] ELSE w[j + 1]
  PROVE  Distinct(r) /\ Range(r) = Range(w) \ {w[i]}
<1>. DEFINE n == Len(w)
<1>1. n \in Nat /\ i \in 1..n /\ Len(r) = n - 1 /\ DOMAIN w = 1..n /\ DOMAIN r = 1..(n - 1)
  BY LenProperties
<1>2. \A j \in 1..(n - 1) : r[j] = IF j < i THEN w[j] ELSE w[j + 1]
  OBVIOUS
<1>3. \A j, k \in 1..n : w[j] = w[k] => j = k
  BY DEF Distinct
<1>. HIDE DEF n
<1>4. Distinct(r)
  <2>. SUFFICES ASSUME NEW j \in 1..(n - 1), NEW k \in 1..(n - 1), r[j] = r[k] PROVE j = k
    BY <1>1 DEF Distinct
  <2>. DEFINE a == IF j < i THEN j ELSE j + 1
              b == IF k < i THEN k ELSE k + 1
  <2>1. a \in 1..n /\ b \in 1..n /\ r[j] = w[a] /\ r[k] = w[b]
    BY <1>1, <1>2
  <2>2. a = b
    BY <1>3, <2>1
  <2>. QED
    BY <1>1, <2>2
<1>5. ASSUME NEW x \in Range(r) PROVE x \in Range(w) \ {w[i]}
  <2>1. PICK j \in 1..(n - 1) : r[j] = x
    BY <1>1, <1>5 DEF Range
  <2>2. CASE j < i
    BY <1>1, <1>2, <1>3, <2>1, <2>2 DEF Range
  <2>3. CASE ~(j < i)
    <3>1. j + 1 \in 1..n /\ x = w[j + 1] /\ j + 1 # i
      BY <1>1, <1>2, <2>1, <2>3
    <3>. QED
      BY <1>1, <1>3, <3>1 DEF Range
  <2>. QED
    BY <2>2, <2>3
<1>6. ASSUME NEW x \in Range(w) \ {w[i]} PROVE x \in Range(r)
  <2>1. PICK k \in 1..n : w[k] = x
    BY <1>1, <1>6 DEF Range
  <2>2. CASE k < i
    <3>1. k \in 1..(n - 1) /\ r[k] = x
      BY <1>1, <1>2, <2>1, <2>2
    <3>. QED
      BY <1>1, <3>1 DEF Range
  <2>3. CASE ~(k < i)
    <3>1. k # i
      BY <1>6, <2>1
    <3>2. k - 1 \in 1..(n - 1) /\ ~(k - 1 < i) /\ (k - 1) + 1 = k
      BY <1>1, <2>3, <3>1
    <3>3. r[k - 1] = x
      BY <1>2, <2>1, <3>2
    <3>. QED
      BY <1>1, <3>2, <3>3 DEF Range
  <2>. QED
    BY <2>2, <2>3
<1>. QED
  BY <1>4, <1>5, <1>6

\* The first waiter leaves them with the others in their places.
LEMMA HeadLeaves ==
  ASSUME NEW w \in Seq(Tasks), Distinct(w), w # <<>>
  PROVE  /\ Tail(w) \in Seq(Tasks) /\ Distinct(Tail(w)) /\ Head(w) \in Range(w)
         /\ Range(Tail(w)) = Range(w) \ {Head(w)}
<1>. DEFINE r == Tail(w)
            n == Len(w)
<1>1. /\ n \in Nat \ {0} /\ r \in Seq(Tasks) /\ Len(r) = n - 1 /\ DOMAIN w = 1..n
      /\ Head(w) = w[1] /\ \A i \in 1..(n - 1) : r[i] = w[i + 1]
  BY HeadTailProperties, LenProperties
<1>2. 1 \in 1..n /\ \A j \in 1..(n - 1) : ~(j < 1)
  BY <1>1
<1>3. \A j \in 1..(n - 1) : r[j] = IF j < 1 THEN w[j] ELSE w[j + 1]
  BY <1>1, <1>2
<1>. HIDE DEF r
<1>4. Distinct(r) /\ Range(r) = Range(w) \ {w[1]}
  BY <1>1, <1>2, <1>3, Removed
<1>. QED
  BY <1>1, <1>2, <1>4 DEF Range, r

\* So does any other.
LEMMA OneLeaves ==
  ASSUME NEW w \in Seq(Tasks), Distinct(w), NEW i \in DOMAIN w
  PROVE  /\ RemoveAt(w, i) \in Seq(Tasks) /\ Distinct(RemoveAt(w, i))
         /\ Range(RemoveAt(w, i)) = Range(w) \ {w[i]}
<1>. DEFINE n == Len(w)
            a == SubSeq(w, 1, i - 1)
            b == SubSeq(w, i + 1, n)
            r == RemoveAt(w, i)
<1>1. n \in Nat /\ i \in 1..n /\ DOMAIN w = 1..n /\ \A j \in 1..n : w[j] \in Tasks
  BY LenProperties, ElementOfSeq
<1>2. a \in Seq(Tasks) /\ Len(a) = i - 1 /\ \A j \in 1..(i - 1) : a[j] = w[j]
  <2>1. 1 \in Int /\ i - 1 \in Int /\ \A j \in 1..(i - 1) : w[j] \in Tasks
    BY <1>1
  <2>. HIDE DEF n
  <2>2. /\ a \in Seq(Tasks) /\ Len(a) = IF 1 <= i - 1 THEN (i - 1) - 1 + 1 ELSE 0
        /\ \A j \in 1..((i - 1) - 1 + 1) : a[j] = w[1 + j - 1]
    BY <2>1, SubSeqProperties
  <2>. HIDE DEF a
  <2>3. Len(a) = i - 1
    BY <1>1, <2>2
  <2>4. ASSUME NEW j \in 1..(i - 1) PROVE a[j] = w[j]
    <3>1. j \in 1..((i - 1) - 1 + 1) /\ 1 + j - 1 = j
      BY <1>1
    <3>. QED
      BY <2>2, <3>1
  <2>. QED
    BY <2>2, <2>3, <2>4
<1>3. b \in Seq(Tasks) /\ Len(b) = n - i /\ \A j \in 1..(n - i) : b[j] = w[i + j]
  <2>1. i + 1 \in Int /\ n \in Int /\ \A j \in (i + 1)..n : w[j] \in Tasks
    BY <1>1
  <2>. HIDE DEF n
  <2>2. /\ b \in Seq(Tasks) /\ Len(b) = IF i + 1 <= n THEN n - (i + 1) + 1 ELSE 0
        /\ \A j \in 1..(n - (i + 1) + 1) : b[j] = w[(i + 1) + j - 1]
    BY <2>1, SubSeqProperties
  <2>. HIDE DEF b
  <2>3. Len(b) = n - i
    BY <1>1, <2>2
  <2>4. ASSUME NEW j \in 1..(n - i) PROVE b[j] = w[i + j]
    <3>1. j \in 1..(n - (i + 1) + 1) /\ (i + 1) + j - 1 = i + j
      BY <1>1
    <3>. QED
      BY <2>2, <3>1
  <2>. QED
    BY <2>2, <2>3, <2>4
<1>4. r = a \o b
  BY DEF RemoveAt
<1>. HIDE DEF a, b, n, r
<1>5. /\ r \in Seq(Tasks) /\ Len(r) = Len(a) + Len(b)
      /\ \A j \in 1..(Len(a) + Len(b)) : r[j] = IF j <= Len(a) THEN a[j] ELSE b[j - Len(a)]
  BY <1>2, <1>3, <1>4, ConcatProperties
<1>6. Len(a) + Len(b) = n - 1
  BY <1>1, <1>2, <1>3
<1>7. ASSUME NEW j \in 1..(n - 1) PROVE r[j] = IF j < i THEN w[j] ELSE w[j + 1]
  <2>1. CASE j < i
    <3>1. j \in 1..(i - 1) /\ j <= Len(a) /\ j \in 1..(Len(a) + Len(b))
      BY <1>1, <1>2, <1>6, <2>1
    <3>. QED
      BY <1>2, <1>5, <2>1, <3>1
  <2>2. CASE ~(j < i)
    <3>1. /\ ~(j <= Len(a)) /\ j \in 1..(Len(a) + Len(b)) /\ j - Len(a) \in 1..(n - i)
          /\ i + (j - Len(a)) = j + 1
      BY <1>1, <1>2, <1>6, <2>2
    <3>. QED
      BY <1>3, <1>5, <2>2, <3>1
  <2>. QED
    BY <2>1, <2>2
<1>8. Distinct(r) /\ Range(r) = Range(w) \ {w[i]}
  <2>1. /\ i \in 1..Len(w) /\ r \in Seq(Tasks) /\ Len(r) = Len(w) - 1
        /\ \A j \in 1..(Len(w) - 1) : r[j] = IF j < i THEN w[j] ELSE w[j + 1]
    BY <1>1, <1>5, <1>6, <1>7 DEF n
  <2>. QED
    BY <2>1, Removed
<1>. QED
  BY <1>5, <1>8 DEF r

------------------------------------------------------------------------------
(* What a step does to the two queues and to the work on the connection: a   *)
(* command is sent, nothing is sent or run, the oldest one has run, or it    *)
(* has run and its task sent the next one at once.                           *)

Facts == sent \in Seq(Command) /\ dirty \in SUBSET Tasks /\ pc \in [Tasks -> Points]

\* What the invariant says of the types.
LEMMA GateFacts ==
  ASSUME GateInv
  PROVE  /\ Facts /\ Len(sent) \in Nat
         /\ \A i \in 1..Len(sent) : sent[i].by \in Tasks /\ sent[i].op \in Commands
<1>1. sent \in Seq(Command) /\ dirty \in SUBSET Tasks /\ pc \in [Tasks -> Points]
  BY DEF GateInv, TypeOK, Command
<1>2. Len(sent) \in Nat
  BY <1>1, LenProperties
<1>3. ASSUME NEW i \in 1..Len(sent) PROVE sent[i].by \in Tasks /\ sent[i].op \in Commands
  <2>1. sent[i] \in Command
    BY <1>1, ElementOfSeq
  <2>. QED
    BY <2>1 DEF Command
<1>. QED
  BY <1>1, <1>2, <1>3 DEF Facts

\* And of the head of the queue.
LEMMA HeadFacts ==
  ASSUME GateInv, sent # <<>>
  PROVE  /\ Len(sent) \in Nat \ {0} /\ Head(sent) = sent[1] /\ Head(sent) \in Command
         /\ Tail(sent) \in Seq(Command) /\ Len(Tail(sent)) = Len(sent) - 1
         /\ \A i \in 1..(Len(sent) - 1) : Tail(sent)[i] = sent[i + 1]
         /\ pc[Head(sent).by] \in {Head(sent).op, "lost"}
<1>1. sent \in Seq(Command)
  BY GateFacts DEF Facts
<1>2. Len(sent) \in Nat \ {0} /\ Head(sent) = sent[1]
  BY <1>1, LenProperties, EmptySeq
<1>3. Head(sent) \in Command /\ Tail(sent) \in Seq(Command) /\ Len(Tail(sent)) = Len(sent) - 1
      /\ \A i \in 1..Len(Tail(sent)) : Tail(sent)[i] = sent[i + 1]
  BY <1>1, HeadTailProperties
<1>4. pc[sent[1].by] \in {sent[1].op, "lost"}
  BY <1>2 DEF GateInv, QueueInv
<1>. QED
  BY <1>2, <1>3, <1>4

\* A command that is sent joins the queue, one to a task.
LEMMA SendQueues ==
  ASSUME GateInv, NEW t \in Tasks, NEW op \in Commands, pc[t] \notin Commands \cup {"lost"},
         Send(t, op)
  PROVE  QueueInv'
<1>. DEFINE n == Len(sent)
            c == [by |-> t, op |-> op]
            r == Append(sent, c)
<1>1. c \in Command
  BY DEF Command
<1>2. /\ n \in Nat /\ Len(r) = n + 1 /\ r[n + 1] = c /\ \A i \in 1..n : r[i] = sent[i]
  BY <1>1, AppendProperties, GateFacts DEF Facts
<1>3. \A i \in 1..n : sent[i].by \in Tasks /\ sent[i].op \in Commands /\ sent[i].by # t
  BY GateFacts DEF GateInv, QueueInv
<1>4. /\ \A i, j \in 1..n : sent[i].by = sent[j].by => i = j
      /\ \A i \in 1..n : pc[sent[i].by] \in {sent[i].op, "lost"}
      /\ \A u \in Tasks : pc[u] \in Commands => \E i \in 1..n : sent[i].by = u
  BY DEF GateInv, QueueInv
<1>5. sent' = r /\ pc'[t] = op /\ \A u \in Tasks \ {t} : pc'[u] = pc[u]
  BY GateFacts DEF Send, Facts
<1>6. c.by = t /\ c.op = op
  OBVIOUS
<1>. HIDE DEF n, c, r
<1>7. \A i, j \in 1..(n + 1) : r[i].by = r[j].by => i = j
  BY <1>2, <1>3, <1>4, <1>6
<1>8. ASSUME NEW i \in 1..(n + 1) PROVE pc'[r[i].by] \in {r[i].op, "lost"}
  <2>1. CASE i = n + 1
    BY <1>2, <1>5, <1>6, <2>1
  <2>2. CASE i \in 1..n
    BY <1>2, <1>3, <1>4, <1>5, <2>2
  <2>. QED
    BY <1>2, <2>1, <2>2
<1>9. ASSUME NEW u \in Tasks, pc'[u] \in Commands PROVE \E i \in 1..(n + 1) : r[i].by = u
  <2>1. CASE u = t
    <3>1. n + 1 \in 1..(n + 1) /\ r[n + 1].by = u
      BY <1>2, <1>6, <2>1
    <3>. QED
      BY <3>1
  <2>2. CASE u # t
    <3>1. PICK i \in 1..n : sent[i].by = u
      BY <1>4, <1>5, <1>9, <2>2
    <3>2. i \in 1..(n + 1) /\ r[i].by = u
      BY <1>2, <3>1
    <3>. QED
      BY <3>2
  <2>. QED
    BY <2>1, <2>2
<1>. QED
  BY <1>2, <1>5, <1>7, <1>8, <1>9 DEF QueueInv

\* A step that sends and takes nothing leaves the queue right.
LEMMA KeepQueues ==
  ASSUME GateInv, sent' = sent,
         \A u \in Tasks : \/ pc'[u] = pc[u]
                          \/ pc'[u] = "lost"
                          \/ pc[u] \notin Commands \cup {"lost"} /\ pc'[u] \notin Commands
  PROVE  QueueInv'
<1>1. \A i \in 1..Len(sent) : sent[i].by \in Tasks /\ sent[i].op \in Commands
  BY GateFacts
<1>2. "lost" \notin Commands
  BY DEF Commands
<1>3. /\ \A i, j \in 1..Len(sent) : sent[i].by = sent[j].by => i = j
      /\ \A i \in 1..Len(sent) : pc[sent[i].by] \in {sent[i].op, "lost"}
      /\ \A u \in Tasks : pc[u] \in Commands => \E i \in 1..Len(sent) : sent[i].by = u
  BY DEF GateInv, QueueInv
<1>4. \A i \in 1..Len(sent) : pc'[sent[i].by] \in {sent[i].op, "lost"}
  BY <1>1, <1>2, <1>3
<1>5. \A u \in Tasks : pc'[u] \in Commands => \E i \in 1..Len(sent) : sent[i].by = u
  BY <1>2, <1>3
<1>. QED
  BY <1>3, <1>4, <1>5 DEF QueueInv

\* So does a command that returns,
LEMMA ReturnQueues ==
  ASSUME GateInv, sent # <<>>, sent' = Tail(sent), pc'[Head(sent).by] \notin Commands,
         \A u \in Tasks : u # Head(sent).by => pc'[u] = pc[u]
  PROVE  QueueInv'
<1>. DEFINE n == Len(sent)
            r == Tail(sent)
<1>1. n \in Nat \ {0} /\ Head(sent) = sent[1] /\ Len(r) = n - 1 /\ \A i \in 1..(n - 1) : r[i] = sent[i + 1]
  BY HeadFacts
<1>2. \A i \in 1..n : sent[i].by \in Tasks
  BY GateFacts
<1>3. /\ \A i, j \in 1..n : sent[i].by = sent[j].by => i = j
      /\ \A i \in 1..n : pc[sent[i].by] \in {sent[i].op, "lost"}
      /\ \A u \in Tasks : pc[u] \in Commands => \E i \in 1..n : sent[i].by = u
  BY DEF GateInv, QueueInv
<1>. HIDE DEF n, r
<1>4. ASSUME NEW i \in 1..(n - 1)
      PROVE  /\ i + 1 \in 1..n /\ r[i] = sent[i + 1] /\ r[i].by # sent[1].by
             /\ pc'[r[i].by] \in {r[i].op, "lost"}
  <2>1. i + 1 \in 1..n /\ 1 \in 1..n /\ i + 1 # 1 /\ r[i] = sent[i + 1]
    BY <1>1
  <2>2. r[i].by # sent[1].by
    BY <1>3, <2>1
  <2>3. r[i].by \in Tasks /\ pc[r[i].by] \in {r[i].op, "lost"}
    BY <1>2, <1>3, <2>1
  <2>4. pc'[r[i].by] = pc[r[i].by]
    BY <1>1, <2>2, <2>3
  <2>. QED
    BY <2>1, <2>2, <2>3, <2>4
<1>5. ASSUME NEW u \in Tasks, pc'[u] \in Commands PROVE \E i \in 1..(n - 1) : r[i].by = u
  <2>1. u # sent[1].by
    BY <1>1, <1>5
  <2>2. PICK i \in 1..n : sent[i].by = u
    BY <1>1, <1>3, <1>5, <2>1
  <2>3. i - 1 \in 1..(n - 1) /\ r[i - 1].by = u
    BY <1>1, <2>1, <2>2
  <2>. QED
    BY <2>3
<1>6. ASSUME NEW i \in 1..(n - 1), NEW j \in 1..(n - 1), r[i].by = r[j].by PROVE i = j
  <2>1. i + 1 = j + 1
    BY <1>3, <1>4, <1>6
  <2>. QED
    BY <2>1
<1>7. sent' = r /\ Len(sent') = n - 1
  BY <1>1 DEF r
<1>8. \A i \in 1..(n - 1) : pc'[r[i].by] \in {r[i].op, "lost"}
  BY <1>4
<1>9. \A u \in Tasks : pc'[u] \in Commands => \E i \in 1..(n - 1) : r[i].by = u
  BY <1>5
<1>. QED
  BY <1>6, <1>7, <1>8, <1>9 DEF QueueInv

\* and one whose task sends the next at once.
LEMMA FollowQueues ==
  ASSUME GateInv, sent # <<>>, NEW op \in Commands, Follow(Head(sent).by, op)
  PROVE  QueueInv'
<1>. DEFINE n == Len(sent)
            t == Head(sent).by
            c == [by |-> t, op |-> op]
            q == Tail(sent)
            r == Append(q, c)
<1>1. /\ n \in Nat \ {0} /\ Head(sent) = sent[1] /\ t \in Tasks /\ q \in Seq(Command)
      /\ Len(q) = n - 1 /\ \A i \in 1..(n - 1) : q[i] = sent[i + 1]
  BY HeadFacts DEF Command
<1>2. c \in Command /\ c.by = t /\ c.op = op
  BY <1>1 DEF Command
<1>3. Len(r) = n /\ r[n] = c /\ \A i \in 1..(n - 1) : r[i] = sent[i + 1]
  <2>1. Len(r) = Len(q) + 1 /\ r[Len(q) + 1] = c /\ \A i \in 1..Len(q) : r[i] = q[i]
    BY <1>1, <1>2, AppendProperties
  <2>2. Len(q) + 1 = n /\ 1..Len(q) = 1..(n - 1)
    BY <1>1
  <2>. QED
    BY <1>1, <2>1, <2>2
<1>4. \A i \in 1..n : sent[i].by \in Tasks
  BY GateFacts
<1>5. /\ \A i, j \in 1..n : sent[i].by = sent[j].by => i = j
      /\ \A i \in 1..n : pc[sent[i].by] \in {sent[i].op, "lost"}
      /\ \A u \in Tasks : pc[u] \in Commands => \E i \in 1..n : sent[i].by = u
  BY DEF GateInv, QueueInv
<1>6. sent' = r /\ pc'[t] = op /\ \A u \in Tasks \ {t} : pc'[u] = pc[u]
  BY <1>1, GateFacts DEF Follow, Facts
<1>7. t = sent[1].by
  BY <1>1
<1>. HIDE DEF n, t, c, q, r
<1>8. ASSUME NEW i \in 1..(n - 1)
      PROVE  /\ i + 1 \in 1..n /\ r[i] = sent[i + 1] /\ r[i].by # t
             /\ pc'[r[i].by] \in {r[i].op, "lost"}
  <2>1. i + 1 \in 1..n /\ 1 \in 1..n /\ i + 1 # 1 /\ r[i] = sent[i + 1]
    BY <1>1, <1>3
  <2>2. r[i].by # t
    BY <1>5, <1>7, <2>1
  <2>3. r[i].by \in Tasks /\ pc[r[i].by] \in {r[i].op, "lost"}
    BY <1>4, <1>5, <2>1
  <2>4. pc'[r[i].by] = pc[r[i].by]
    BY <1>6, <2>2, <2>3
  <2>. QED
    BY <2>1, <2>2, <2>3, <2>4
<1>9. ASSUME NEW i \in 1..n, NEW j \in 1..n, r[i].by = r[j].by PROVE i = j
  <2>1. CASE i = n \/ j = n
    BY <1>1, <1>2, <1>3, <1>8, <1>9, <2>1
  <2>2. CASE i \in 1..(n - 1) /\ j \in 1..(n - 1)
    <3>1. i + 1 = j + 1
      BY <1>5, <1>8, <1>9, <2>2
    <3>. QED
      BY <3>1
  <2>. QED
    BY <1>1, <2>1, <2>2
<1>10. ASSUME NEW i \in 1..n PROVE pc'[r[i].by] \in {r[i].op, "lost"}
  <2>1. CASE i = n
    BY <1>2, <1>3, <1>6, <2>1
  <2>2. CASE i \in 1..(n - 1)
    BY <1>8, <2>2
  <2>. QED
    BY <1>1, <2>1, <2>2
<1>11. ASSUME NEW u \in Tasks, pc'[u] \in Commands PROVE \E i \in 1..n : r[i].by = u
  <2>1. CASE u = t
    <3>1. n \in 1..n /\ r[n].by = u
      BY <1>1, <1>2, <1>3, <2>1
    <3>. QED
      BY <3>1
  <2>2. CASE u # t
    <3>1. PICK i \in 1..n : sent[i].by = u
      BY <1>5, <1>6, <1>11, <2>2
    <3>2. i - 1 \in 1..(n - 1) /\ i - 1 \in 1..n /\ r[i - 1].by = u
      BY <1>1, <1>3, <1>7, <2>2, <3>1
    <3>. QED
      BY <3>2
  <2>. QED
    BY <2>1, <2>2
<1>. QED
  BY <1>3, <1>6, <1>9, <1>10, <1>11 DEF QueueInv

\* A command that is sent meets only the work it may.
LEMMA SendWork ==
  ASSUME GateInv, NEW t \in Tasks, NEW op \in Commands \ {"fetch"}, Send(t, op),
         lock \in {None, t}, lock' \in {lock, t}, op = "write" => lock' = t,
         op = "begin" => lock = None,
         dirty' = dirty, saw' \in {saw, [saw EXCEPT ![t] = {}]}
  PROVE  WorkInv'
<1>. DEFINE n == Len(sent)
            c == [by |-> t, op |-> op]
            r == Append(sent, c)
<1>1. sent \in Seq(Command) /\ dirty \in SUBSET Tasks /\ n \in Nat /\ n \in 0..n
  BY GateFacts DEF Facts
<1>2. c \in Command /\ c.by = t /\ c.op = op
  BY DEF Command
<1>3. sent' = r /\ pc'[t] = op /\ \A u \in Tasks \ {t} : pc'[u] = pc[u]
  BY GateFacts DEF Send, Facts
<1>4. MeetOwn(sent, dirty) /\ LeavesOnly(sent, dirty, n, lock)
  BY DEF GateInv, WorkInv
<1>5. LeavesOnly(sent, dirty, n, t)
  <2>1. CASE lock = None
    <3>1. LeavesOnly(sent, dirty, n, None)
      BY <1>4, <2>1
    <3>. HIDE DEF n
    <3>. QED
      BY <1>1, <3>1, Anyone DEF n
  <2>. QED
    BY <1>4, <2>1
<1>6. MeetOwn(r, dirty)
  BY <1>1, <1>2, <1>4, <1>5, MeetAppended
<1>7. LeavesOnly(r, dirty, Len(r), lock')
  <2>1. CASE lock' = t
    BY <1>1, <1>2, <1>5, <2>1, AppendedLast
  <2>2. CASE lock' # t
    <3>1. lock' = lock /\ op # "write"
      BY <2>2
    <3>2. LeavesOnly(r, dirty, Len(r), lock)
      BY <1>1, <1>2, <1>4, <3>1, AppendedLast
    <3>. QED
      BY <3>1, <3>2
  <2>. QED
    BY <2>1, <2>2
<1>8. ASSUME NEW u \in Tasks, pc'[u] = "begin" PROVE LeavesOnly(r, dirty, Len(r), None)
  <2>1. CASE u = t
    <3>1. op = "begin" /\ lock = None
      BY <1>3, <1>8, <2>1
    <3>2. LeavesOnly(sent, dirty, n, None) /\ op # "write"
      BY <1>4, <3>1
    <3>. QED
      BY <1>1, <1>2, <3>2, AppendedLast
  <2>2. CASE u # t
    <3>1. pc[u] = "begin"
      BY <1>3, <1>8, <2>2
    <3>2. lock = u
      BY <3>1 DEF GateInv, OwnerInv
    <3>. QED
      BY <2>2, <3>2, NoTaskAssumption
  <2>. QED
    BY <2>1, <2>2
<1>9. ASSUME NEW u \in Tasks, pc'[u] = "fetch" PROVE saw'[u] = {}
  <2>1. u # t /\ pc[u] = "fetch"
    BY <1>3, <1>9
  <2>2. saw[u] = {} /\ saw \in [Tasks -> SUBSET Tasks]
    BY <2>1 DEF GateInv, WorkInv, ReadsStartCommitted, TypeOK
  <2>. QED
    BY <2>1, <2>2
<1>10. \A u, v \in dirty : u = v
  BY DEF GateInv, WorkInv
<1>. HIDE DEF r, n, c
<1>. QED
  BY <1>3, <1>6, <1>7, <1>8, <1>9, <1>10 DEF WorkInv, ReadsStartCommitted

\* A step beside the queue leaves that so.
LEMMA KeepWork ==
  ASSUME GateInv, sent' = sent, dirty' = dirty, LeavesOnly(sent, dirty, Len(sent), lock'),
         NEW t \in Tasks, saw' \in {saw, [saw EXCEPT ![t] = {}]},
         \A u \in Tasks : pc'[u] \in {"begin", "fetch"} => pc'[u] = pc[u]
  PROVE  WorkInv'
<1>1. /\ \A u, v \in dirty : u = v
      /\ MeetOwn(sent, dirty)
      /\ \A u \in Tasks : pc[u] = "begin" => LeavesOnly(sent, dirty, Len(sent), None)
      /\ \A u \in Tasks : pc[u] = "fetch" => saw[u] = {}
  BY DEF GateInv, WorkInv, ReadsStartCommitted
<1>2. ASSUME NEW u \in Tasks, pc'[u] = "begin" PROVE LeavesOnly(sent, dirty, Len(sent), None)
  BY <1>1, <1>2
<1>3. ASSUME NEW u \in Tasks, pc'[u] = "fetch" PROVE saw'[u] = {}
  <2>1. saw[u] = {} /\ saw \in [Tasks -> SUBSET Tasks]
    BY <1>1, <1>3 DEF GateInv, TypeOK
  <2>. QED
    BY <2>1
<1>. QED
  BY <1>1, <1>2, <1>3 DEF WorkInv, ReadsStartCommitted

\* What a command that meets only its own task's work leaves on the connection.
LEMMA OneTask ==
  ASSUME GateInv, sent # <<>>, Head(sent).op # "fetch", NEW e \in After(Head(sent), dirty)
  PROVE  /\ dirty \subseteq {Head(sent).by} /\ \A u, v \in e : u = v /\ e \in SUBSET Tasks
<1>1. /\ Len(sent) \in Nat \ {0} /\ Head(sent) = sent[1] /\ Head(sent).by \in Tasks
      /\ 1 \in 1..Len(sent)
  BY HeadFacts DEF Command
<1>2. LeavesOnly(sent, dirty, 1 - 1, Head(sent).by)
  BY <1>1 DEF GateInv, WorkInv, MeetOwn
<1>3. \A u \in dirty : u = Head(sent).by \/ \E j \in 1..(1 - 1) : sent[j].op \in Ends
  BY <1>2 DEF LeavesOnly
<1>4. \A j \in 1..(1 - 1) : FALSE
  OBVIOUS
<1>5. dirty \subseteq {Head(sent).by}
  BY <1>3, <1>4
<1>6. \A u \in e : u = Head(sent).by
  BY <1>5 DEF After
<1>. QED
  BY <1>1, <1>5, <1>6

\* The oldest command has run, and its task stays or goes out of its way.
LEMMA ReturnWork ==
  ASSUME GateInv, sent # <<>>, sent' = Tail(sent), dirty' \in After(Head(sent), dirty),
         \/ lock' = lock
         \/ lock' = None /\ LeavesOnly(Tail(sent), dirty', Len(Tail(sent)), None),
         pc'[Head(sent).by] \notin {"begin", "fetch"},
         \A u \in Tasks : u # Head(sent).by => pc'[u] = pc[u] /\ saw'[u] = saw[u]
  PROVE  WorkInv'
<1>. DEFINE n == Len(sent)
            q == Tail(sent)
<1>1. /\ n \in Nat \ {0} /\ n \in 1..n /\ sent \in Seq(Command) /\ dirty \in SUBSET Tasks
      /\ Len(q) = n - 1
  BY HeadFacts, GateFacts DEF Facts
<1>2. MeetOwn(q, dirty')
  BY <1>1, MeetRun DEF GateInv, WorkInv
<1>3. ASSUME NEW t, LeavesOnly(sent, dirty, n, t) PROVE LeavesOnly(q, dirty', Len(q), t)
  BY <1>1, <1>3, HeadRun
<1>4. LeavesOnly(q, dirty', Len(q), lock')
  BY <1>3 DEF GateInv, WorkInv
<1>5. ASSUME NEW u \in Tasks, pc'[u] = "begin" PROVE LeavesOnly(q, dirty', Len(q), None)
  <2>1. pc[u] = "begin"
    BY <1>5
  <2>2. LeavesOnly(sent, dirty, n, None)
    BY <2>1 DEF GateInv, WorkInv
  <2>. QED
    BY <1>3, <2>2
<1>6. ASSUME NEW u \in Tasks, pc'[u] = "fetch" PROVE saw'[u] = {}
  BY <1>6 DEF GateInv, WorkInv, ReadsStartCommitted
<1>7. \A u, v \in dirty' : u = v
  <2>1. CASE Head(sent).op = "fetch"
    BY <2>1 DEF GateInv, WorkInv, After, Ends
  <2>2. CASE Head(sent).op # "fetch"
    BY <2>2, OneTask
  <2>. QED
    BY <2>1, <2>2
<1>. HIDE DEF q
<1>8. sent' = q
  BY DEF q
<1>. QED
  BY <1>2, <1>4, <1>5, <1>6, <1>7, <1>8 DEF WorkInv, ReadsStartCommitted

\* The oldest command has run and left the work as it was, and its task, which
\* holds the lock if it rolls back, sent the next one.
LEMMA FollowWork ==
  ASSUME GateInv, sent # <<>>, dirty' = dirty, dirty \in After(Head(sent), dirty), lock' = lock,
         NEW op \in {"fetch", "rollback"}, Follow(Head(sent).by, op),
         op = "rollback" => lock = Head(sent).by,
         op = "fetch" => saw'[Head(sent).by] = {},
         \A u \in Tasks : u # Head(sent).by => saw'[u] = saw[u]
  PROVE  WorkInv'
<1>. DEFINE n == Len(sent)
            t == Head(sent).by
            c == [by |-> t, op |-> op]
            q == Tail(sent)
            r == Append(q, c)
<1>1. /\ n \in Nat \ {0} /\ n \in 1..n /\ sent \in Seq(Command) /\ dirty \in SUBSET Tasks
      /\ Len(q) = n - 1 /\ q \in Seq(Command) /\ t \in Tasks
  BY HeadFacts, GateFacts DEF Facts, Command
<1>2. c \in Command /\ c.by = t /\ c.op = op
  BY <1>1 DEF Command, Commands
<1>3. sent' = r /\ pc'[t] = op /\ \A u \in Tasks \ {t} : pc'[u] = pc[u]
  BY <1>1, GateFacts DEF Follow, Facts
<1>4. MeetOwn(q, dirty)
  BY <1>1, MeetRun DEF GateInv, WorkInv
<1>5. ASSUME NEW u, LeavesOnly(sent, dirty, n, u) PROVE LeavesOnly(q, dirty, Len(q), u)
  BY <1>1, <1>5, HeadRun
<1>6. ASSUME NEW u, LeavesOnly(q, dirty, Len(q), u) PROVE LeavesOnly(r, dirty, Len(r), u)
  BY <1>1, <1>2, <1>6, AppendedLast
<1>7. LeavesOnly(sent, dirty, n, lock)
  BY DEF GateInv, WorkInv
<1>8. MeetOwn(r, dirty)
  <2>1. c.op # "fetch" => LeavesOnly(q, dirty, Len(q), c.by)
    BY <1>2, <1>5, <1>7
  <2>. QED
    BY <1>1, <1>2, <1>4, <2>1, MeetAppended
<1>9. LeavesOnly(r, dirty, Len(r), lock)
  BY <1>5, <1>6, <1>7
<1>10. ASSUME NEW u \in Tasks, pc'[u] = "begin" PROVE LeavesOnly(r, dirty, Len(r), None)
  <2>1. pc[u] = "begin"
    BY <1>3, <1>10
  <2>2. LeavesOnly(sent, dirty, n, None)
    BY <2>1 DEF GateInv, WorkInv
  <2>. QED
    BY <1>5, <1>6, <2>2
<1>11. ASSUME NEW u \in Tasks, pc'[u] = "fetch" PROVE saw'[u] = {}
  <2>1. CASE u = t
    BY <1>3, <1>11, <2>1
  <2>2. CASE u # t
    BY <1>3, <1>11, <2>2 DEF GateInv, WorkInv, ReadsStartCommitted
  <2>. QED
    BY <2>1, <2>2
<1>12. \A u, v \in dirty : u = v
  BY DEF GateInv, WorkInv
<1>. HIDE DEF r, q, c, t, n
<1>. QED
  BY <1>3, <1>8, <1>9, <1>10, <1>11, <1>12 DEF WorkInv, ReadsStartCommitted

------------------------------------------------------------------------------
(* The steps.                                                                *)

\* The task t, which is not in the queue of waiters, does not enter it.
LEMMA NoWaiter ==
  ASSUME GateInv, NEW t \in Tasks, pc[t] \notin Waits, NEW p \in Points \ Waits,
         pc' \in {pc, [pc EXCEPT ![t] = p]}, waiters' = waiters
  PROVE  WaitersInv' /\ Range(waiters') = {u \in Tasks : pc'[u] \in Waits}
<1>1. Distinct(waiters) /\ Range(waiters) = {u \in Tasks : pc[u] \in Waits}
      /\ pc \in [Tasks -> Points]
  BY DEF GateInv, TypeOK, WaitersInv
<1>2. \A u \in Tasks : pc'[u] \in Waits <=> pc[u] \in Waits
  BY <1>1
<1>3. {u \in Tasks : pc'[u] \in Waits} = {u \in Tasks : pc[u] \in Waits}
  BY <1>2
<1>. QED
  BY <1>1, <1>3 DEF WaitersInv

\* A task that begins to wait is among the waiters.
LEMMA NewWaiter ==
  ASSUME GateInv, NEW t \in Tasks, pc[t] \notin Waits, NEW p \in Waits,
         pc' = [pc EXCEPT ![t] = p], waiters' = Append(waiters, t)
  PROVE  /\ WaitersInv' /\ waiters' \in Seq(Tasks)
         /\ Range(waiters') = {u \in Tasks : pc'[u] \in Waits}
<1>1. /\ Distinct(waiters) /\ Range(waiters) = {u \in Tasks : pc[u] \in Waits}
      /\ pc \in [Tasks -> Points] /\ waiters \in Seq(Tasks)
  BY DEF GateInv, TypeOK, WaitersInv
<1>2. waiters' \in Seq(Tasks) /\ Distinct(waiters') /\ Range(waiters') = Range(waiters) \cup {t}
  BY <1>1, Joined
<1>3. \A u \in Tasks : pc'[u] \in Waits <=> pc[u] \in Waits \/ u = t
  BY <1>1
<1>4. {u \in Tasks : pc'[u] \in Waits} = {u \in Tasks : pc[u] \in Waits} \cup {t}
  BY <1>3
<1>. QED
  BY <1>1, <1>2, <1>4 DEF WaitersInv

\* One waiter leaves the queue, for a command or for good.
LEMMA WaiterGone ==
  ASSUME GateInv, NEW t \in Tasks, NEW p \in Points \ Waits, pc' = [pc EXCEPT ![t] = p],
         \/ waiters # <<>> /\ t = Head(waiters) /\ waiters' = Tail(waiters)
         \/ \E i \in DOMAIN waiters : waiters[i] = t /\ waiters' = RemoveAt(waiters, i)
  PROVE  /\ WaitersInv' /\ waiters' \in Seq(Tasks)
         /\ Range(waiters') = {u \in Tasks : pc'[u] \in Waits}
<1>1. /\ Distinct(waiters) /\ Range(waiters) = {u \in Tasks : pc[u] \in Waits}
      /\ pc \in [Tasks -> Points] /\ waiters \in Seq(Tasks)
  BY DEF GateInv, TypeOK, WaitersInv
<1>2. waiters' \in Seq(Tasks) /\ Distinct(waiters') /\ Range(waiters') = Range(waiters) \ {t}
  <2>1. CASE waiters # <<>> /\ t = Head(waiters) /\ waiters' = Tail(waiters)
    BY <1>1, <2>1, HeadLeaves
  <2>2. CASE \E i \in DOMAIN waiters : waiters[i] = t /\ waiters' = RemoveAt(waiters, i)
    BY <1>1, <2>2, OneLeaves
  <2>. QED
    BY <2>1, <2>2
<1>3. \A u \in Tasks : pc'[u] \in Waits <=> pc[u] \in Waits /\ u # t
  BY <1>1
<1>4. {u \in Tasks : pc'[u] \in Waits} = {u \in Tasks : pc[u] \in Waits} \ {t}
  BY <1>3
<1>. QED
  BY <1>1, <1>2, <1>4 DEF WaitersInv
\* What is in the queue of commands stays well formed.
Begins(q) == \A i \in 1..Len(q) : q[i].op = "begin" => q[i].by \notin Monitors

\* The queue stays a queue of commands.
LEMMA SentTypes ==
  ASSUME GateInv, NEW t \in Tasks, NEW op \in Commands, op = "begin" => t \notin Monitors,
         \/ sent' = sent
         \/ sent' = Append(sent, [by |-> t, op |-> op])
         \/ sent # <<>> /\ sent' = Tail(sent)
         \/ sent # <<>> /\ sent' = Append(Tail(sent), [by |-> t, op |-> op])
  PROVE  sent' \in Seq(Command) /\ Begins(sent')
<1>. DEFINE c == [by |-> t, op |-> op]
<1>1. c \in Command /\ c.by = t /\ c.op = op
  BY DEF Command
<1>2. sent \in Seq(Command) /\ Begins(sent)
  BY GateFacts DEF Facts, GateInv, OwnerInv, Begins
<1>3. ASSUME sent # <<>> PROVE Tail(sent) \in Seq(Command) /\ Begins(Tail(sent))
  <2>1. /\ Len(sent) \in Nat /\ Tail(sent) \in Seq(Command) /\ Len(Tail(sent)) = Len(sent) - 1
        /\ \A i \in 1..(Len(sent) - 1) : Tail(sent)[i] = sent[i + 1]
    BY <1>3, HeadFacts
  <2>. QED
    BY <1>2, <2>1 DEF Begins
<1>4. ASSUME NEW q \in Seq(Command), Begins(q) PROVE Append(q, c) \in Seq(Command) /\ Begins(Append(q, c))
  <2>. DEFINE r == Append(q, c)
  <2>1. /\ Len(q) \in Nat /\ r \in Seq(Command) /\ Len(r) = Len(q) + 1 /\ r[Len(q) + 1] = c
        /\ \A i \in 1..Len(q) : r[i] = q[i]
    BY <1>1, AppendProperties, LenProperties
  <2>. HIDE DEF r, c
  <2>2. Begins(r)
    BY <1>1, <1>4, <2>1 DEF Begins
  <2>. QED
    BY <2>1, <2>2 DEF r
<1>. HIDE DEF c
<1>5. CASE sent' = sent
  BY <1>2, <1>5
<1>6. CASE sent' = Append(sent, c)
  BY <1>2, <1>4, <1>6
<1>7. CASE sent # <<>> /\ sent' = Tail(sent)
  BY <1>3, <1>7
<1>8. CASE sent # <<>> /\ sent' = Append(Tail(sent), c)
  BY <1>3, <1>4, <1>8
<1>. QED
  BY <1>5, <1>6, <1>7, <1>8 DEF c

\* The types no queue is needed for.
Plain ==
  /\ lock \in Tasks \cup {None} /\ txOwner \in Tasks \cup {None} /\ wrOwner \in Tasks \cup {None}
  /\ pc \in [Tasks -> Points] /\ stmts \in [Tasks -> 0..MaxStmts] /\ dirty \in SUBSET Tasks
  /\ saw \in [Tasks -> SUBSET Tasks] /\ cancels \in 0..MaxCancels

\* The owners' part that no queue is needed for.
Owners ==
  /\ \A t \in Tasks : Owner(t) => lock = t
  /\ \A t \in Tasks : pc[t] = "begin" => Owner(t)
  /\ \A t \in Tasks : pc[t] = "lost" => t \in Monitors
  /\ \A t \in Tasks : pc[t] \in {"begin", "wait_begin"} => t \notin Monitors

\* The invariant from its parts.
LEMMA GateParts ==
  /\ GateInv => Plain /\ Owners /\ waiters \in Seq(Tasks)
  /\ /\ Plain' /\ Owners' /\ sent' \in Seq(Command) /\ Begins(sent')
     /\ waiters' \in Seq(Tasks) /\ WaitersInv' /\ Range(waiters') = {u \in Tasks : pc'[u] \in Waits}
     /\ QueueInv' /\ WorkInv'
     => GateInv'
<1>1. GateInv => Plain /\ Owners /\ waiters \in Seq(Tasks)
  BY DEF GateInv, TypeOK, Plain, Owners, OwnerInv
<1>2. ASSUME Plain', Owners', sent' \in Seq(Command), Begins(sent'), waiters' \in Seq(Tasks),
             WaitersInv', Range(waiters') = {u \in Tasks : pc'[u] \in Waits}, QueueInv', WorkInv'
      PROVE  GateInv'
  <2>1. OwnerInv'
    BY <1>2 DEF Owners, OwnerInv, Begins
  <2>2. TypeOK'
    BY <1>2 DEF Plain, TypeOK, Command
  <2>. QED
    BY <1>2, <2>1, <2>2 DEF GateInv
<1>. QED
  BY <1>1, <1>2

\* t sends a command: it holds the lock, takes it, or nobody has it.
LEMMA SendStep ==
  ASSUME GateInv, NEW t \in Tasks, NEW op \in Commands \ {"fetch"}, Send(t, op),
         pc[t] \in {"idle", "body"} \cup Waits, op = "begin" => t \notin Monitors,
         lock \in {None, t}, op = "write" => lock' = t, op = "begin" => lock = None,
         \/ lock' = lock /\ txOwner' = txOwner /\ wrOwner' = wrOwner /\ op # "begin"
         \/ lock' = t /\ txOwner' = t /\ wrOwner' = wrOwner
         \/ lock' = t /\ txOwner' = txOwner /\ wrOwner' = t,
         \/ pc[t] \notin Waits /\ waiters' = waiters
         \/ waiters # <<>> /\ t = Head(waiters) /\ waiters' = Tail(waiters),
         stmts' \in [Tasks -> 0..MaxStmts], cancels' = cancels,
         dirty' = dirty, saw' \in {saw, [saw EXCEPT ![t] = {}]}
  PROVE  GateInv'
<1>1. Plain /\ Owners /\ waiters \in Seq(Tasks)
  BY GateParts
<1>2. pc' = [pc EXCEPT ![t] = op] /\ op \in Points \ Waits /\ pc[t] \notin Commands \cup {"lost"}
  BY DEF Send, Points, Commands, Waits
<1>3. lock' \in {lock, t}
  OBVIOUS
<1>4. QueueInv' /\ WorkInv'
  BY <1>2, <1>3, SendQueues, SendWork
<1>5. sent' \in Seq(Command) /\ Begins(sent')
  <2>1. sent' = Append(sent, [by |-> t, op |-> op])
    BY DEF Send
  <2>. QED
    BY <2>1, SentTypes
<1>6. /\ waiters' \in Seq(Tasks) /\ WaitersInv'
      /\ Range(waiters') = {u \in Tasks : pc'[u] \in Waits}
  <2>1. CASE pc[t] \notin Waits /\ waiters' = waiters
    BY <1>1, <1>2, <2>1, NoWaiter
  <2>2. CASE waiters # <<>> /\ t = Head(waiters) /\ waiters' = Tail(waiters)
    BY <1>2, <2>2, WaiterGone
  <2>. QED
    BY <2>1, <2>2
<1>7. Plain'
  BY <1>1, <1>2 DEF Plain
<1>8. Owners'
  <2>1. \A u \in Tasks \ {t} : pc'[u] = pc[u]
    BY <1>1, <1>2 DEF Plain
  <2>2. pc'[t] = op
    BY <1>1, <1>2 DEF Plain
  <2>3. op \notin {"lost", "wait_begin"}
    BY DEF Commands
  <2>. QED
    BY <1>1, <2>1, <2>2, <2>3, NoTaskAssumption DEF Owners, Owner, Plain
<1>. QED
  BY <1>1, <1>4, <1>5, <1>6, <1>7, <1>8, GateParts

\* t waits for its turn.
LEMMA WaitStep ==
  ASSUME GateInv, NEW t \in Tasks, NEW p \in Waits, Wait(t, p), pc[t] \in {"idle", "body"},
         p = "wait_begin" => t \notin Monitors,
         txOwner' = txOwner, wrOwner' = wrOwner, cancels' = cancels, dirty' = dirty,
         stmts' \in [Tasks -> 0..MaxStmts], saw' \in {saw, [saw EXCEPT ![t] = {}]}
  PROVE  GateInv'
<1>1. Plain /\ Owners /\ waiters \in Seq(Tasks)
  BY GateParts
<1>2. /\ pc' = [pc EXCEPT ![t] = p] /\ waiters' = Append(waiters, t) /\ lock' = lock
      /\ sent' = sent /\ p \in Points /\ pc[t] \notin Waits \cup Commands \cup {"lost"}
      /\ p \notin Commands \cup {"lost", "begin", "fetch"}
  BY DEF Wait, Points, Commands, Waits
<1>3. pc'[t] = p /\ \A u \in Tasks \ {t} : pc'[u] = pc[u]
  BY <1>1, <1>2 DEF Plain
<1>4. QueueInv'
  BY <1>2, <1>3, KeepQueues
<1>5. WorkInv'
  <2>1. LeavesOnly(sent, dirty, Len(sent), lock')
    BY <1>2 DEF GateInv, WorkInv
  <2>2. \A u \in Tasks : pc'[u] \in {"begin", "fetch"} => pc'[u] = pc[u]
    BY <1>2, <1>3
  <2>. QED
    BY <1>2, <2>1, <2>2, KeepWork
<1>6. sent' \in Seq(Command) /\ Begins(sent')
  BY <1>2, GateFacts DEF Facts, GateInv, OwnerInv, Begins
<1>7. /\ waiters' \in Seq(Tasks) /\ WaitersInv'
      /\ Range(waiters') = {u \in Tasks : pc'[u] \in Waits}
  BY <1>2, NewWaiter
<1>8. Plain'
  BY <1>1, <1>2 DEF Plain
<1>9. Owners'
  BY <1>1, <1>2, <1>3 DEF Owners, Owner
<1>. QED
  BY <1>4, <1>5, <1>6, <1>7, <1>8, <1>9, GateParts

\* The lock and its owners, when t gives up what it holds.
LEMMA Released ==
  ASSUME GateInv, NEW t \in Tasks, Release(t)
  PROVE  /\ lock' \in Tasks \cup {None} /\ txOwner' \in Tasks \cup {None}
         /\ wrOwner' \in Tasks \cup {None}
         /\ lock' = lock \/ (lock = t /\ lock' = None)
         /\ \A u \in Tasks : (u # t => (Owner(u)' <=> Owner(u))) /\ (u = t => ~Owner(u)')
         /\ \A u \in Tasks : Owner(u)' => lock' = u
<1>1. Plain /\ Owners
  BY GateParts
<1>. QED
  BY <1>1, NoTaskAssumption DEF Release, Owner, Plain, Owners

\* The thread ran the oldest command, and its task goes on at p, if it still waits for it.
LEMMA ReturnStep ==
  ASSUME GateInv, sent # <<>>, NEW p \in {"idle", "body"}, Return(Head(sent).by, p),
         dirty' \in After(Head(sent), dirty), dirty' \in SUBSET Tasks,
         \/ lock' = lock /\ txOwner' = txOwner /\ wrOwner' = wrOwner
         \/ /\ Release(Head(sent).by) /\ pc[Head(sent).by] # "lost"
            /\ lock' # lock => LeavesOnly(Tail(sent), dirty', Len(Tail(sent)), None),
         waiters' = waiters, cancels' = cancels, saw' \in [Tasks -> SUBSET Tasks],
         \A u \in Tasks : u # Head(sent).by => saw'[u] = saw[u]
  PROVE  GateInv'
<1>. DEFINE t == Head(sent).by
            x == IF pc[t] = "lost" THEN "lost" ELSE p
<1>1. Plain /\ Owners /\ waiters \in Seq(Tasks)
  BY GateParts
<1>2. /\ t \in Tasks /\ pc[t] \in Commands \cup {"lost"} /\ sent' = Tail(sent)
      /\ Head(sent).op \in Commands
  BY HeadFacts DEF Command, Return
<1>3. /\ pc' = [pc EXCEPT ![t] = x] /\ pc'[t] = x /\ \A u \in Tasks \ {t} : pc'[u] = pc[u]
  <2>1. pc' = IF pc[t] = "lost" THEN pc ELSE [pc EXCEPT ![t] = p]
    BY DEF Return, Resume
  <2>. HIDE DEF t
  <2>. QED
    BY <1>1, <1>2, <2>1 DEF Plain
<1>4. x \in Points \ (Waits \cup Commands \cup {"begin", "fetch", "wait_begin"}) /\ pc[t] \notin Waits
  BY <1>2 DEF Points, Waits, Commands
<1>5. QueueInv'
  BY <1>2, <1>3, <1>4, ReturnQueues
<1>6. WorkInv'
  <2>1. lock' = lock \/ lock' = None
    BY DEF Release
  <2>. QED
    BY <1>2, <1>3, <1>4, <2>1, ReturnWork
<1>7. sent' \in Seq(Command) /\ Begins(sent')
  <2>1. "write" \in Commands /\ "write" # "begin"
    BY DEF Commands
  <2>. QED
    BY <1>2, <2>1, SentTypes
<1>8. /\ waiters' \in Seq(Tasks) /\ WaitersInv'
      /\ Range(waiters') = {u \in Tasks : pc'[u] \in Waits}
  BY <1>1, <1>2, <1>3, <1>4, NoWaiter
<1>9. stmts' \in [Tasks -> 0..MaxStmts]
  <2>1. stmts' = IF p = "idle" THEN [stmts EXCEPT ![t] = 0] ELSE stmts
    BY DEF Return, Reset
  <2>. HIDE DEF t
  <2>. QED
    BY <1>1, <1>2, <2>1, BoundsAssumption DEF Plain
<1>10. CASE lock' = lock /\ txOwner' = txOwner /\ wrOwner' = wrOwner
  <2>. HIDE DEF t, x
  <2>1. Plain'
    BY <1>1, <1>3, <1>4, <1>9, <1>10 DEF Plain
  <2>2. pc[t] = "lost" => t \in Monitors
    BY <1>1, <1>2 DEF Owners
  <2>3. x = "lost" => pc[t] = "lost"
    BY DEF x
  <2>4. Owners'
    BY <1>1, <1>3, <1>4, <1>10, <2>2, <2>3 DEF Owners, Owner
  <2>. QED
    BY <1>5, <1>6, <1>7, <1>8, <2>1, <2>4, GateParts
<1>11. CASE Release(t) /\ pc[t] # "lost"
  <2>1. x # "lost"
    BY <1>11
  <2>. HIDE DEF t, x
  <2>2. /\ lock' \in Tasks \cup {None} /\ txOwner' \in Tasks \cup {None}
        /\ wrOwner' \in Tasks \cup {None}
        /\ \A u \in Tasks : u # t => (Owner(u)' <=> Owner(u))
        /\ \A u \in Tasks : Owner(u)' => lock' = u
    BY <1>2, <1>11, Released
  <2>3. Plain'
    BY <1>1, <1>3, <1>4, <1>9, <2>2 DEF Plain
  <2>4. Owners'
    BY <1>1, <1>3, <1>4, <2>1, <2>2 DEF Owners
  <2>. QED
    BY <1>5, <1>6, <1>7, <1>8, <2>3, <2>4, GateParts
<1>. QED
  BY <1>10, <1>11

\* The thread ran the oldest command, which left the work as it was, and its task sent
\* the next one: the rest of a read, or the end of its implicit unit.
LEMMA FollowStep ==
  ASSUME GateInv, sent # <<>>, dirty' = dirty, dirty \in After(Head(sent), dirty),
         NEW op \in {"fetch", "rollback"}, Follow(Head(sent).by, op), pc[Head(sent).by] # "lost",
         op = "rollback" => wrOwner = Head(sent).by,
         UNCHANGED gateVars, cancels' = cancels, saw' \in [Tasks -> SUBSET Tasks],
         op = "fetch" => saw'[Head(sent).by] = {},
         \A u \in Tasks : u # Head(sent).by => saw'[u] = saw[u]
  PROVE  GateInv'
<1>. DEFINE t == Head(sent).by
<1>1. Plain /\ Owners /\ waiters \in Seq(Tasks)
  BY GateParts
<1>2. t \in Tasks /\ pc[t] \in Commands /\ op \in Commands \cap Points /\ op \notin Waits
  BY HeadFacts DEF Command, Commands, Points, Waits
<1>3. /\ pc' = [pc EXCEPT ![t] = op] /\ sent' = Append(Tail(sent), [by |-> t, op |-> op])
      /\ stmts' = stmts /\ lock' = lock /\ txOwner' = txOwner /\ wrOwner' = wrOwner
      /\ waiters' = waiters
  BY DEF Follow, gateVars
<1>4. QueueInv'
  BY <1>2, FollowQueues
<1>5. WorkInv'
  <2>1. op = "rollback" => lock = t
    BY <1>1, <1>2 DEF Owners, Owner
  <2>. QED
    BY <1>3, <2>1, FollowWork
<1>6. sent' \in Seq(Command) /\ Begins(sent')
  <2>1. op # "begin"
    OBVIOUS
  <2>. QED
    BY <1>2, <1>3, <2>1, SentTypes
<1>7. /\ waiters' \in Seq(Tasks) /\ WaitersInv'
      /\ Range(waiters') = {u \in Tasks : pc'[u] \in Waits}
  <2>1. pc[t] \notin Waits
    BY <1>2 DEF Commands, Waits
  <2>. QED
    BY <1>1, <1>2, <1>3, <2>1, NoWaiter
<1>. HIDE DEF t
<1>8. Plain'
  BY <1>1, <1>2, <1>3 DEF Plain
<1>9. Owners'
  BY <1>1, <1>2, <1>3 DEF Owners, Owner, Plain
<1>. QED
  BY <1>4, <1>5, <1>6, <1>7, <1>8, <1>9, GateParts

\* A read keeps the invariant.
LEMMA ReadKeeps == ASSUME GateInv, NEW t \in Tasks, Read(t) PROVE GateInv'
<1>1. /\ pc[t] \in {"idle", "body"} /\ stmts' \in [Tasks -> 0..MaxStmts]
      /\ Owner(t) => lock = t
  BY GateParts, BoundsAssumption DEF Read, Ready, Count, Plain, Owners
<1>2. /\ saw' = [saw EXCEPT ![t] = {}] /\ txOwner' = txOwner /\ wrOwner' = wrOwner
      /\ dirty' = dirty /\ cancels' = cancels
  BY DEF Read
<1>3. CASE (Owner(t) \/ lock = None) /\ Send(t, "select") /\ lock' = lock /\ waiters' = waiters
  <2>1. "select" \in Commands \ {"fetch"} /\ lock \in {None, t} /\ pc[t] \notin Waits
    BY <1>1, <1>3 DEF Commands, Waits
  <2>. QED
    BY <1>1, <1>2, <1>3, <2>1, SendStep
<1>4. CASE Wait(t, "wait_select")
  <2>1. "wait_select" \in Waits
    BY DEF Waits
  <2>. QED
    BY <1>1, <1>2, <1>4, <2>1, WaitStep
<1>. QED
  BY <1>3, <1>4 DEF Read

\* A write does.
LEMMA WriteKeeps == ASSUME GateInv, NEW t \in Tasks, Write(t) PROVE GateInv'
<1>1. /\ pc[t] \in {"idle", "body"} /\ stmts' \in [Tasks -> 0..MaxStmts]
      /\ Owner(t) => lock = t
  BY GateParts, BoundsAssumption DEF Write, Ready, Count, Plain, Owners
<1>2. saw' = saw /\ txOwner' = txOwner /\ dirty' = dirty /\ cancels' = cancels
  BY DEF Write
<1>3. "write" \in Commands \ {"fetch"} /\ "wait_write" \in Waits /\ pc[t] \notin Waits
  BY <1>1 DEF Commands, Waits
<1>4. CASE Owner(t) /\ Send(t, "write") /\ UNCHANGED <<lock, waiters, wrOwner>>
  <2>1. lock = t /\ lock' = t /\ wrOwner' = wrOwner /\ waiters' = waiters
    BY <1>1, <1>4
  <2>. QED
    BY <1>1, <1>2, <1>3, <1>4, <2>1, SendStep
<1>5. CASE ~Owner(t) /\ Free /\ lock' = t /\ wrOwner' = t /\ Send(t, "write") /\ UNCHANGED waiters
  BY <1>1, <1>2, <1>3, <1>5, SendStep DEF Free
<1>6. CASE ~Owner(t) /\ ~Free /\ Wait(t, "wait_write") /\ UNCHANGED wrOwner
  BY <1>1, <1>2, <1>3, <1>6, WaitStep
<1>. QED
  BY <1>4, <1>5, <1>6 DEF Write

\* A commit does.
LEMMA CommitKeeps == ASSUME GateInv, NEW t \in Tasks, Commit(t) PROVE GateInv'
<1>1. pc[t] \in {"idle", "body"} /\ (Owner(t) => lock = t) /\ stmts \in [Tasks -> 0..MaxStmts]
  BY GateParts DEF Commit, Ready, Plain, Owners
<1>2. /\ saw' = saw /\ txOwner' = txOwner /\ wrOwner' = wrOwner /\ dirty' = dirty
      /\ cancels' = cancels /\ stmts' = stmts
  BY DEF Commit
<1>3. "commit" \in Commands \ {"fetch"} /\ "wait_commit" \in Waits /\ pc[t] \notin Waits
  BY <1>1 DEF Commands, Waits
<1>4. CASE txOwner = t /\ UNCHANGED <<pc, sent, lock, waiters>>
  <2>1. Plain' /\ Owners' /\ sent' \in Seq(Command) /\ Begins(sent') /\ waiters' \in Seq(Tasks)
    BY <1>2, <1>4, GateParts, GateFacts
       DEF Plain, Owners, Owner, Facts, GateInv, OwnerInv, Begins
  <2>2. WaitersInv' /\ Range(waiters') = {u \in Tasks : pc'[u] \in Waits}
    BY <1>4 DEF GateInv, TypeOK, WaitersInv
  <2>3. QueueInv'
    BY <1>4, KeepQueues
  <2>4. WorkInv'
    <3>1. LeavesOnly(sent, dirty, Len(sent), lock')
      BY <1>4 DEF GateInv, WorkInv
    <3>. QED
      BY <1>2, <1>4, <3>1, KeepWork
  <2>. QED
    BY <2>1, <2>2, <2>3, <2>4, GateParts
<1>5. CASE (wrOwner = t \/ lock = None) /\ Send(t, "commit") /\ UNCHANGED <<lock, waiters>>
  <2>1. lock \in {None, t} /\ lock' = lock /\ waiters' = waiters
    BY <1>1, <1>5 DEF Owner
  <2>. QED
    BY <1>1, <1>2, <1>3, <1>5, <2>1, SendStep
<1>6. CASE Wait(t, "wait_commit")
  BY <1>1, <1>2, <1>3, <1>6, WaitStep
<1>. QED
  BY <1>4, <1>5, <1>6 DEF Commit

\* A transaction that is asked for does.
LEMMA TransactionKeeps ==
  ASSUME GateInv, NEW t \in Tasks, Transaction(t) \/ TransactionEnds(t)
  PROVE  GateInv'
<1>1. stmts \in [Tasks -> 0..MaxStmts] /\ (Owner(t) => lock = t)
  BY GateParts DEF Plain, Owners
<1>2. saw' = saw /\ wrOwner' = wrOwner /\ dirty' = dirty /\ cancels' = cancels /\ stmts' = stmts
  BY DEF Transaction, TransactionEnds
<1>3. /\ "begin" \in Commands \ {"fetch"} /\ "wait_begin" \in Waits
      /\ {"commit", "rollback"} \subseteq Commands \ {"fetch", "write", "begin"}
      /\ {"idle", "body"} \cap Waits = {}
  BY DEF Commands, Waits
<1>4. CASE Transaction(t)
  <2>1. pc[t] = "idle" /\ t \notin Monitors
    BY <1>4 DEF Transaction
  <2>2. CASE Free /\ lock' = t /\ txOwner' = t /\ Send(t, "begin") /\ UNCHANGED waiters
    <3>1. lock = None /\ waiters' = waiters /\ pc[t] \in {"idle", "body"} \cup Waits /\ pc[t] \notin Waits
      BY <1>3, <2>1, <2>2 DEF Free
    <3>. QED
      BY <1>1, <1>2, <1>3, <2>1, <2>2, <3>1, SendStep
  <2>3. CASE ~Free /\ Wait(t, "wait_begin") /\ UNCHANGED txOwner
    BY <1>1, <1>2, <1>3, <2>1, <2>3, WaitStep
  <2>. QED
    BY <1>4, <2>2, <2>3 DEF Transaction
<1>5. CASE TransactionEnds(t)
  <2>1. PICK op \in {"commit", "rollback"} : Send(t, op)
    BY <1>5 DEF TransactionEnds
  <2>2. /\ pc[t] = "body" /\ lock = t /\ lock' = lock /\ waiters' = waiters /\ txOwner' = txOwner
        /\ op \in Commands \ {"fetch", "write", "begin"} /\ pc[t] \notin Waits
    BY <1>1, <1>3, <1>5 DEF TransactionEnds, Owner
  <2>. QED
    BY <1>1, <1>2, <2>1, <2>2, SendStep
<1>. QED
  BY <1>4, <1>5

\* A waiter that is woken does.
LEMMA WakeKeeps == ASSUME GateInv, Wake PROVE GateInv'
<1>. DEFINE t == Head(waiters)
<1>1. /\ lock = None /\ waiters # <<>> /\ waiters' = Tail(waiters) /\ stmts' = stmts
      /\ dirty' = dirty /\ saw' = saw /\ cancels' = cancels
  BY DEF Wake
<1>2. /\ t \in Tasks /\ pc[t] \in Waits /\ stmts \in [Tasks -> 0..MaxStmts]
      /\ \A u \in Tasks : pc[u] = "wait_begin" => u \notin Monitors
  <2>1. t \in Range(waiters)
    BY <1>1, HeadLeaves DEF GateInv, TypeOK, WaitersInv
  <2>. QED
    BY <2>1, GateParts DEF GateInv, TypeOK, Plain, Owners
<1>3. {"select", "commit", "write", "begin"} \subseteq Commands \ {"fetch"}
  BY DEF Commands
<1>4. PICK op \in {"select", "commit", "write", "begin"} :
        /\ Send(t, op)
        /\ op = "begin" => pc[t] = "wait_begin"
        /\ \/ op \in {"select", "commit"} /\ lock' = lock /\ txOwner' = txOwner /\ wrOwner' = wrOwner
           \/ op = "write" /\ lock' = t /\ wrOwner' = t /\ txOwner' = txOwner
           \/ op = "begin" /\ lock' = t /\ txOwner' = t /\ wrOwner' = wrOwner
  BY DEF Wake
<1>. HIDE DEF t
<1>. QED
  BY <1>1, <1>2, <1>3, <1>4, SendStep DEF t

\* A task that is cancelled does.
LEMMA CancelKeeps == ASSUME GateInv, NEW t \in Tasks, Cancel(t) PROVE GateInv'
<1>1. /\ t \in Monitors /\ pc[t] \notin {"idle", "lost"} /\ cancels < MaxCancels
      /\ cancels' = cancels + 1 /\ pc' = [pc EXCEPT ![t] = "lost"]
      /\ stmts' = stmts /\ sent' = sent /\ dirty' = dirty /\ saw' = saw
  BY DEF Cancel
<1>2. Plain /\ Owners /\ waiters \in Seq(Tasks)
  BY GateParts
<1>3. /\ pc'[t] = "lost" /\ \A u \in Tasks \ {t} : pc'[u] = pc[u]
      /\ "lost" \in Points \ (Waits \cup Commands)
  BY <1>1, <1>2 DEF Plain, Points, Waits, Commands
<1>4. QueueInv'
  BY <1>1, <1>3, KeepQueues
<1>5. sent' \in Seq(Command) /\ Begins(sent')
  BY <1>1, GateFacts DEF Facts, GateInv, OwnerInv, Begins
<1>6. /\ waiters' \in Seq(Tasks) /\ WaitersInv'
      /\ Range(waiters') = {u \in Tasks : pc'[u] \in Waits}
  <2>1. CASE pc[t] \in Waits
    <3>1. \E i \in DOMAIN waiters : waiters[i] = t /\ waiters' = RemoveAt(waiters, i)
      BY <2>1 DEF Cancel
    <3>. QED
      BY <1>1, <1>3, <3>1, WaiterGone
  <2>2. CASE pc[t] \notin Waits
    <3>1. waiters' = waiters
      BY <2>2 DEF Cancel
    <3>. QED
      BY <1>1, <1>2, <1>3, <2>2, <3>1, NoWaiter
  <2>. QED
    BY <2>1, <2>2
<1>7. CASE pc[t] \in {"commit", "rollback"} /\ Release(t)
  <2>1. /\ lock' \in Tasks \cup {None} /\ txOwner' \in Tasks \cup {None}
        /\ wrOwner' \in Tasks \cup {None}
        /\ lock' = lock \/ (lock = t /\ lock' = None)
        /\ \A u \in Tasks : (u # t => (Owner(u)' <=> Owner(u))) /\ (u = t => ~Owner(u)')
        /\ \A u \in Tasks : Owner(u)' => lock' = u
    BY <1>7, Released
  <2>2. LeavesOnly(sent, dirty, Len(sent), lock)
    BY DEF GateInv, WorkInv
  <2>3. ASSUME lock = t PROVE LeavesOnly(sent, dirty, Len(sent), None)
    <3>1. LeavesOnly(sent, dirty, Len(sent), t)
      BY <2>2, <2>3
    <3>2. PICK i \in 1..Len(sent) : sent[i].by = t
      BY <1>7 DEF GateInv, QueueInv, Commands
    <3>3. sent[i].op \in Ends
      BY <1>7, <3>2 DEF GateInv, QueueInv, Ends
    <3>4. \A k \in 1..Len(sent) : sent[k].by = t => sent[k].op # "write"
      BY <3>2, <3>3 DEF GateInv, QueueInv, Ends
    <3>. QED
      BY <3>1, <3>3, <3>4, GateFacts, Nobody
  <2>4. WorkInv'
    <3>1. LeavesOnly(sent, dirty, Len(sent), lock')
      BY <2>1, <2>2, <2>3
    <3>2. \A u \in Tasks : pc'[u] \in {"begin", "fetch"} => pc'[u] = pc[u]
      BY <1>3
    <3>. QED
      BY <1>1, <3>1, <3>2, KeepWork
  <2>5. Plain'
    BY <1>1, <1>2, <1>3, <2>1, BoundsAssumption DEF Plain
  <2>6. Owners'
    BY <1>1, <1>2, <1>3, <2>1 DEF Owners
  <2>. QED
    BY <1>4, <1>5, <1>6, <2>4, <2>5, <2>6, GateParts
<1>8. CASE UNCHANGED <<lock, txOwner, wrOwner>>
  <2>1. WorkInv'
    <3>1. LeavesOnly(sent, dirty, Len(sent), lock')
      BY <1>8 DEF GateInv, WorkInv
    <3>2. \A u \in Tasks : pc'[u] \in {"begin", "fetch"} => pc'[u] = pc[u]
      BY <1>3
    <3>. QED
      BY <1>1, <3>1, <3>2, KeepWork
  <2>2. Plain'
    BY <1>1, <1>2, <1>3, <1>8, BoundsAssumption DEF Plain
  <2>3. Owners'
    BY <1>1, <1>2, <1>3, <1>8 DEF Owners, Owner
  <2>. QED
    BY <1>4, <1>5, <1>6, <2>1, <2>2, <2>3, GateParts
<1>. QED
  BY <1>7, <1>8 DEF Cancel

\* The oldest command runs.
LEMMA RunKeeps == ASSUME GateInv, Run PROVE GateInv'
<1>. DEFINE h == Head(sent)
            t == h.by
<1>1. sent # <<>>
  BY DEF Run, RunBegin, RunWrite, RunSelect, RunFetch, RunEnd, First
<1>2. /\ h \in Command /\ t \in Tasks /\ pc[t] \in {h.op, "lost"}
      /\ Plain /\ Owners
  BY <1>1, HeadFacts, GateParts DEF Command
<1>3. Home(t) \in {"idle", "body"}
  BY DEF Home
<1>4. CASE RunBegin
  <2>1. h.op = "begin" /\ dirty' = dirty /\ saw' = saw /\ cancels' = cancels /\ waiters' = waiters
    BY <1>4 DEF RunBegin, First, gateVars
  <2>2. dirty' \in After(h, dirty) /\ dirty' \in SUBSET Tasks /\ saw' \in [Tasks -> SUBSET Tasks]
    BY <1>2, <2>1 DEF After, Ends, Plain
  <2>3. CASE Return(t, "body") /\ UNCHANGED gateVars
    BY <1>1, <2>1, <2>2, <2>3, ReturnStep DEF gateVars
  <2>4. CASE Return(t, "idle") /\ Release(t)
    <3>1. t \notin Monitors
      <4>1. 1 \in 1..Len(sent) /\ h = sent[1]
        BY <1>1, HeadFacts
      <4>. QED
        BY <2>1, <4>1 DEF GateInv, OwnerInv
    <3>2. pc[t] = "begin"
      BY <1>2, <2>1, <3>1 DEF Owners
    <3>3. LeavesOnly(sent, dirty, Len(sent), None)
      BY <1>2, <3>2 DEF GateInv, WorkInv
    <3>4. LeavesOnly(Tail(sent), dirty', Len(Tail(sent)), None)
      <4>1. Len(sent) \in 1..Len(sent) /\ Len(Tail(sent)) = Len(sent) - 1
        BY <1>1, HeadFacts
      <4>. QED
        BY <1>1, <2>2, <3>3, <4>1, HeadRun, GateFacts DEF Facts
    <3>. QED
      BY <1>1, <2>1, <2>2, <2>4, <3>2, <3>4, ReturnStep
  <2>. QED
    BY <1>4, <2>3, <2>4 DEF RunBegin
<1>5. CASE RunWrite
  <2>1. h.op = "write" /\ UNCHANGED gateVars /\ saw' = saw /\ cancels' = cancels
    BY <1>5 DEF RunWrite, First
  <2>2. saw' \in [Tasks -> SUBSET Tasks] /\ dirty \in After(h, dirty) /\ dirty \cup {t} \in After(h, dirty)
    BY <1>2, <2>1 DEF Plain, After, Ends
  <2>3. dirty \in SUBSET Tasks /\ dirty \cup {t} \in SUBSET Tasks
    BY <1>2 DEF Plain
  <2>4. CASE dirty' \in {dirty, dirty \cup {t}} /\ Return(t, "body")
    BY <1>1, <2>1, <2>2, <2>3, <2>4, ReturnStep DEF gateVars
  <2>5. CASE dirty' = dirty /\ pc[t] # "lost" /\ wrOwner = t /\ Follow(t, "rollback")
    BY <1>1, <2>1, <2>2, <2>5, FollowStep DEF gateVars
  <2>. QED
    BY <1>5, <2>4, <2>5 DEF RunWrite
<1>6. CASE RunSelect
  <2>1. /\ h.op = "select" /\ UNCHANGED gateVars /\ dirty' = dirty /\ cancels' = cancels
        /\ saw' = [saw EXCEPT ![t] = dirty \ {t}]
    BY <1>6 DEF RunSelect, First
  <2>2. /\ dirty' \in After(h, dirty) /\ dirty' \in SUBSET Tasks /\ saw' \in [Tasks -> SUBSET Tasks]
        /\ saw'[t] = dirty \ {t} /\ \A u \in Tasks : u # t => saw'[u] = saw[u]
    BY <1>2, <2>1 DEF After, Ends, Plain
  <2>3. CASE Return(t, Home(t))
    BY <1>1, <1>3, <2>1, <2>2, <2>3, ReturnStep DEF gateVars
  <2>4. CASE pc[t] # "lost" /\ Follow(t, "fetch")
    <3>1. saw'[t] = {}
      BY <1>1, <2>1, <2>2, OneTask
    <3>. QED
      BY <1>1, <2>1, <2>2, <2>4, <3>1, FollowStep
  <2>. QED
    BY <1>6, <2>3, <2>4 DEF RunSelect
<1>7. CASE RunFetch
  <2>1. /\ h.op = "fetch" /\ UNCHANGED gateVars /\ dirty' = dirty /\ cancels' = cancels
        /\ saw' = [saw EXCEPT ![t] = @ \cup (dirty \ {t})] /\ Return(t, Home(t))
    BY <1>7 DEF RunFetch, First
  <2>2. /\ dirty' \in After(h, dirty) /\ dirty' \in SUBSET Tasks /\ saw' \in [Tasks -> SUBSET Tasks]
        /\ \A u \in Tasks : u # t => saw'[u] = saw[u]
    BY <1>2, <2>1 DEF After, Ends, Plain
  <2>. QED
    BY <1>1, <1>3, <2>1, <2>2, ReturnStep DEF gateVars
<1>8. CASE RunEnd
  <2>1. h.op \in Ends /\ dirty' = {} /\ saw' = saw /\ cancels' = cancels /\ Return(t, "idle")
    BY <1>8 DEF RunEnd, First, Ends
  <2>2. /\ dirty' \in After(h, dirty) /\ dirty' \in SUBSET Tasks /\ saw' \in [Tasks -> SUBSET Tasks]
    BY <1>2, <2>1 DEF After, Plain
  <2>3. CASE UNCHANGED gateVars
    BY <1>1, <2>1, <2>2, <2>3, ReturnStep DEF gateVars
  <2>4. CASE pc[t] # "lost" /\ Release(t) /\ UNCHANGED waiters
    <3>1. ASSUME lock' # lock PROVE LeavesOnly(Tail(sent), dirty', Len(Tail(sent)), None)
      <4>1. lock = t
        BY <3>1, <2>4 DEF Release
      <4>2. /\ Len(sent) \in Nat \ {0} /\ Len(sent) \in 1..Len(sent) /\ h = sent[1]
            /\ Len(Tail(sent)) = Len(sent) - 1
            /\ \A i \in 1..(Len(sent) - 1) : Tail(sent)[i] = sent[i + 1]
        BY <1>1, HeadFacts
      <4>3. LeavesOnly(sent, dirty, Len(sent), t)
        BY <4>1 DEF GateInv, WorkInv
      <4>4. LeavesOnly(Tail(sent), dirty', Len(sent) - 1, t)
        BY <1>1, <2>2, <4>2, <4>3, HeadRun, GateFacts DEF Facts
      <4>5. ASSUME NEW k \in 1..(Len(sent) - 1) PROVE Tail(sent)[k].by # t
        <5>1. k + 1 \in 1..Len(sent) /\ 1 \in 1..Len(sent) /\ k + 1 # 1 /\ Tail(sent)[k] = sent[k + 1]
          BY <4>2
        <5>. QED
          BY <4>2, <5>1 DEF GateInv, QueueInv
      <4>6. t \notin dirty' /\ Len(sent) - 1 \in Nat
        BY <2>1, <4>2
      <4>. HIDE DEF t, h
      <4>. QED
        BY <4>2, <4>4, <4>5, <4>6, Nobody
    <3>. QED
      BY <1>1, <2>1, <2>2, <2>4, <3>1, ReturnStep
  <2>. QED
    BY <1>8, <2>3, <2>4 DEF RunEnd
<1>. QED
  BY <1>4, <1>5, <1>6, <1>7, <1>8 DEF Run

------------------------------------------------------------------------------

\* The invariant holds at first,
LEMMA GateInit == Init => GateInv
<1>. SUFFICES ASSUME Init PROVE GateInv
  OBVIOUS
<1>1. /\ lock = None /\ txOwner = None /\ wrOwner = None /\ waiters = <<>> /\ sent = <<>>
      /\ dirty = {} /\ cancels = 0 /\ pc = [t \in Tasks |-> "idle"]
      /\ stmts = [t \in Tasks |-> 0] /\ saw = [t \in Tasks |-> {}]
  BY DEF Init
<1>2. /\ <<>> \in Seq(Tasks) /\ <<>> \in Seq([by : Tasks, op : Commands]) /\ Len(<<>>) = 0
      /\ DOMAIN <<>> = {} /\ "idle" \in Points \ (Waits \cup Commands \cup {"lost"})
      /\ \A i \in 1..0 : FALSE
  BY DEF Points, Waits, Commands
<1>3. Range(waiters) = {t \in Tasks : pc[t] \in Waits}
  <2>1. Range(waiters) = {}
    BY <1>1, <1>2 DEF Range
  <2>2. {t \in Tasks : pc[t] \in Waits} = {}
    BY <1>1, <1>2
  <2>. QED
    BY <2>1, <2>2
<1>4. TypeOK
  BY <1>1, <1>2, <1>3, BoundsAssumption DEF TypeOK
<1>5. WaitersInv /\ QueueInv
  BY <1>1, <1>2 DEF WaitersInv, Distinct, QueueInv
<1>6. OwnerInv
  BY <1>1, <1>2, NoTaskAssumption DEF OwnerInv, Owner, Points, Waits, Commands
<1>7. WorkInv
  BY <1>1, <1>2 DEF WorkInv, MeetOwn, LeavesOnly, ReadsStartCommitted
<1>. QED
  BY <1>4, <1>5, <1>6, <1>7 DEF GateInv

\* after every step,
LEMMA GateStep == GateInv /\ [Next]_vars => GateInv'
<1>. SUFFICES ASSUME GateInv, [Next]_vars PROVE GateInv'
  OBVIOUS
<1>1. CASE Wake
  BY <1>1, WakeKeeps
<1>2. CASE Run
  BY <1>2, RunKeeps
<1>3. ASSUME NEW t \in Tasks, Request(t) \/ TransactionEnds(t) \/ Cancel(t) PROVE GateInv'
  BY <1>3, ReadKeeps, WriteKeeps, CommitKeeps, TransactionKeeps, CancelKeeps DEF Request
<1>4. CASE UNCHANGED vars
  <2>1. /\ lock' = lock /\ txOwner' = txOwner /\ wrOwner' = wrOwner /\ waiters' = waiters
        /\ sent' = sent /\ dirty' = dirty /\ cancels' = cancels /\ pc' = pc /\ stmts' = stmts
        /\ saw' = saw
    BY <1>4 DEF vars
  <2>2. TypeOK' /\ WaitersInv' /\ QueueInv' /\ OwnerInv' /\ WorkInv'
    BY <2>1 DEF GateInv, TypeOK, WaitersInv, QueueInv, OwnerInv, Owner, WorkInv, ReadsStartCommitted
  <2>. QED
    BY <2>2 DEF GateInv
<1>. QED
  BY <1>1, <1>2, <1>3, <1>4 DEF Next

\* and always.
LEMMA GateInvariant == Spec => []GateInv
BY GateInit, GateStep, PTL DEF Spec

\* The open transaction of the connection holds the work of one task at a time, and
\* every read starts on committed data or its own task's (Database.execute, commit,
\* transaction), whatever the order of the waiters, of failures and cancellations.
THEOREM UnitsAreIsolated == Spec => []Isolated
<1>1. GateInv => Isolated
  <2>. SUFFICES ASSUME GateInv PROVE Isolated
    OBVIOUS
  <2>1. \A u, v \in dirty : u = v
    BY DEF GateInv, WorkInv
  <2>2. Cardinality(dirty) <= 1
    <3>1. CASE dirty = {}
      BY <3>1, FS_EmptySet
    <3>2. CASE dirty # {}
      <4>1. PICK u \in dirty : dirty = {u}
        BY <2>1, <3>2
      <4>2. Cardinality({u}) = 1
        BY FS_Singleton
      <4>. QED
        BY <4>1, <4>2
    <3>. QED
      BY <3>1, <3>2
  <2>. QED
    BY <2>2 DEF Isolated, NoMixing, GateInv, WorkInv
<1>. QED
  BY <1>1, GateInvariant, PTL

\* Uncommitted work ends by the commit or rollback of the task that did it: no commit()
\* from outside a unit ends a unit of another task (Database.commit).
THEOREM UnitsEndByTheirOwner == Spec => EndsOwnWork
<1>1. GateInv /\ [Next]_vars => [dirty # {} /\ dirty' = {} => dirty = {Head(sent).by}]_vars
  <2>. SUFFICES ASSUME GateInv, Next, dirty # {}, dirty' = {} PROVE dirty = {Head(sent).by}
    OBVIOUS
  <2>1. RunEnd
    BY DEF Next, Wake, Run, RunBegin, RunWrite, RunSelect, RunFetch, Request, Read, Write, Commit,
           Transaction, TransactionEnds, Cancel
  <2>2. sent # <<>> /\ Head(sent).op \in Ends
    BY <2>1 DEF RunEnd, First, Ends
  <2>3. dirty \subseteq {Head(sent).by}
    <3>1. {} \in After(Head(sent), dirty) /\ Head(sent).op # "fetch"
      BY <2>2 DEF After, Ends
    <3>. QED
      BY <2>2, <3>1, OneTask
  <2>. QED
    BY <2>3
<1>. QED
  BY <1>1, GateInvariant, PTL DEF Spec, EndsOwnWork

\* The variables of the gate keep their types; the waiters of the lock are the tasks
\* suspended at _transaction_lock.acquire(), each once.
THEOREM GateTypes == Spec => []TypeOK
<1>1. GateInv => TypeOK
  BY DEF GateInv
<1>. QED
  BY <1>1, GateInvariant, PTL
=============================================================================
