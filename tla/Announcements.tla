--------------------------- MODULE Announcements ---------------------------
(* One announcement: services/announcements.py over the two tables of         *)
(* repositories/announcements.py.  A sender is a task that runs _send_batch:   *)
(* the first send, an administrator's resume or retry, or the schedule loop.  *)
(* Telegram delivers a message or not, and its answer may not tell which.     *)
EXTENDS FiniteSets, Integers

CONSTANTS Recipients,       \* telegram ids, in the order in which they are listed
          Senders,
          PageSize,         \* batch_size
          MaxAnnouncementPasses, \* bound: passes over the recipients
          MaxAnnouncementCrashes

ASSUME AnnouncementBounds ==
    /\ Recipients \subseteq Nat \ {0} /\ IsFiniteSet(Recipients) /\ IsFiniteSet(Senders)
    /\ PageSize \in Nat \ {0} /\ {MaxAnnouncementPasses, MaxAnnouncementCrashes} \subseteq Nat

VARIABLES status, closed,    \* announcement_batches: status, completed_at is set
          delivery,          \* announcement_deliveries: recipient -> status
          eligible,          \* recipients who have not been blocked since
          at, page, last, retry, \* a sender: where it awaits, its page, last_seen_id
          outcome,           \* what _copy_message returned to it
          cancelling,        \* cancel_batch has read the batch
          passes, annCrashes,
          copies,            \* history: messages a recipient got (2: more than one)
          overlapped,        \* history: two senders have run at the same time
          unclear            \* history: recipients of a message the ledger does not have as sent

ledger == <<status, closed, delivery>>
sender == <<at, page, last, retry, outcome>>
annVars == <<ledger, eligible, sender, cancelling, passes, annCrashes, copies, overlapped, unclear>>

Idle == [s \in Senders |-> "idle"]
Sending == {s \in Senders : at[s] # "idle"}
FewerThan(n, bound) == IF n < bound THEN n + 1 ELSE bound

AnnInit ==
    /\ status = "none" /\ closed = FALSE /\ delivery = [u \in Recipients |-> "none"]
    /\ eligible = Recipients /\ passes = 0
    /\ at = Idle /\ page = [s \in Senders |-> {}] /\ last = [s \in Senders |-> 0]
    /\ retry = [s \in Senders |-> FALSE] /\ outcome = [s \in Senders |-> "none"]
    /\ cancelling = FALSE /\ annCrashes = 0
    /\ copies = [u \in Recipients |-> 0] /\ overlapped = FALSE /\ unclear = {}

-----------------------------------------------------------------------------
(* Creating and starting.                                                    *)

Begin(s, again) ==
    /\ passes < MaxAnnouncementPasses /\ passes' = passes + 1
    /\ at' = [at EXCEPT ![s] = "set"] /\ retry' = [retry EXCEPT ![s] = again]
    /\ overlapped' = (overlapped \/ Sending # {})

\* send_to_all and schedule_to_all: the recipients of this moment, in one transaction.
\* Recipients stands for them.
CreateBatch(s) ==
    /\ status = "none" /\ at[s] = "idle"
    /\ delivery' = [u \in Recipients |-> "pending"]
    /\ \/ status' = "pending" /\ Begin(s, FALSE)
       \/ status' = "scheduled" /\ UNCHANGED <<at, retry, passes, overlapped>>
    /\ UNCHANGED <<closed, eligible, page, last, outcome, cancelling, annCrashes, copies, unclear>>

Resumable == {"pending", "sending", "failed", "scheduled"}

\* resume_batch: nothing forbids it while another sender is at work.
Resume(s, again) ==
    /\ at[s] = "idle" /\ status \in Resumable /\ ~closed /\ Begin(s, again)
    /\ UNCHANGED <<ledger, eligible, page, last, outcome, cancelling, annCrashes, copies, unclear>>

\* check_and_send_due, at or after the time of the batch: only what is still "scheduled".
SendDue(s) ==
    /\ at[s] = "idle" /\ status = "scheduled" /\ Begin(s, FALSE)
    /\ UNCHANGED <<ledger, eligible, page, last, outcome, cancelling, annCrashes, copies, unclear>>

-----------------------------------------------------------------------------
(* _send_batch.                                                              *)

Move(s, label) == at' = [at EXCEPT ![s] = label]
Keep == UNCHANGED <<eligible, cancelling, passes, annCrashes, overlapped>>
Quiet == UNCHANGED <<copies, unclear>>
Ends(s) ==
    /\ Move(s, "idle") /\ last' = [last EXCEPT ![s] = 0] /\ page' = [page EXCEPT ![s] = {}]
    /\ retry' = [retry EXCEPT ![s] = FALSE] /\ outcome' = [outcome EXCEPT ![s] = "none"]

\* set_batch_status leaves a cancelled batch as it is.
SetBatchStatus(new) == status' = IF status = "cancelled" THEN status ELSE new

SetSending(s) ==
    /\ at[s] = "set"
    /\ \/ SetBatchStatus("sending") /\ Move(s, "list") /\ UNCHANGED <<page, last, retry, outcome>>
       \/ Ends(s) /\ UNCHANGED status
    /\ UNCHANGED <<closed, delivery>> /\ Keep /\ Quiet

Wanted(s) == {"pending"} \union (IF retry[s] THEN {"failed"} ELSE {})
\* Mutants: one id further, and no keyset at all.
BehindNext(s) == {u \in Recipients : u > last[s] + 1 /\ delivery[u] \in Wanted(s)}
BehindAll(s) == {u \in Recipients : delivery[u] \in Wanted(s)}

Behind(s) == {u \in Recipients : u > last[s] /\ delivery[u] \in Wanted(s)}

\* The first PageSize of the deliveries behind last_seen_id.
PageOf(s) == {u \in Behind(s) : Cardinality({v \in Behind(s) : v < u}) < PageSize}
FirstOf(ids) == CHOOSE u \in ids : \A v \in ids : u <= v

\* Every database call of the loop may raise; the batch is then marked failed.
ListPage(s) ==
    /\ at[s] = "list" /\ page[s] = {}
    /\ \/ status = "cancelled" /\ Ends(s)
       \/ /\ status # "cancelled" /\ UNCHANGED <<last, retry, outcome>>
          /\ page' = [page EXCEPT ![s] = PageOf(s)]
          /\ Move(s, IF Behind(s) = {} THEN "count" ELSE "list")
       \/ Move(s, "failing") /\ UNCHANGED <<page, last, retry, outcome>>
    /\ UNCHANGED ledger /\ Keep /\ Quiet

\* The next recipient of the page, unless the batch was cancelled.
NextDelivery(s) ==
    /\ at[s] = "list" /\ page[s] # {}
    /\ \/ status = "cancelled" /\ Ends(s)
       \/ /\ status # "cancelled" /\ UNCHANGED <<retry, outcome>>
          /\ last' = [last EXCEPT ![s] = FirstOf(page[s])]
          /\ page' = [page EXCEPT ![s] = @ \ {FirstOf(@)}]
          /\ Move(s, "copy")
    /\ UNCHANGED ledger /\ Keep /\ Quiet

Delivered(u) == copies' = [copies EXCEPT ![u] = FewerThan(@, 2)]

\* is_announcement_recipient, asked again at the time of sending, and _copy_message:
\* sent; refused; or an error after the message has gone out.
Copy(s) ==
    /\ at[s] = "copy" /\ Move(s, "mark") /\ UNCHANGED <<page, last, retry>>
    /\ LET u == last[s]
           Comes(o) == outcome' = [outcome EXCEPT ![s] = o]
           NotSent == UNCHANGED <<copies, unclear>> IN
       \/ u \in eligible /\ Comes("sent") /\ Delivered(u) /\ UNCHANGED unclear
       \/ u \in eligible /\ Comes("failed") /\ NotSent
       \/ u \in eligible /\ Comes("failed") /\ Delivered(u) /\ unclear' = unclear \union {u}
       \/ u \notin eligible /\ Comes("skipped") /\ NotSent
    /\ UNCHANGED ledger /\ Keep

\* mark_delivery: InvalidTransition when the row is settled already.
MarkDelivery(s) ==
    /\ at[s] = "mark" /\ UNCHANGED <<status, closed, page, last, retry>>
    /\ outcome' = [outcome EXCEPT ![s] = "none"]
    /\ LET u == last[s] IN
       \/ /\ delivery[u] \in {"pending", "failed"}
          /\ delivery' = [delivery EXCEPT ![u] = outcome[s]] /\ Move(s, "list") /\ UNCHANGED unclear
       \/ /\ Move(s, "failing") /\ UNCHANGED delivery
          /\ unclear' = IF outcome[s] = "sent" THEN unclear \union {u} ELSE unclear
    /\ Keep /\ UNCHANGED copies

Failing(s) ==
    /\ at[s] = "failing" /\ Ends(s)
    /\ SetBatchStatus("failed") \/ UNCHANGED status
    /\ UNCHANGED <<closed, delivery>> /\ Keep /\ Quiet

\* Mutant: skipped recipients do not count.
CountFailed(s) ==
    /\ at[s] = "count" /\ Move(s, "close") /\ UNCHANGED <<page, last, retry>>
    /\ outcome' = [outcome EXCEPT ![s] = IF \A u \in Recipients : delivery[u] # "failed"
                                         THEN "complete" ELSE "partial"]
    /\ UNCHANGED ledger /\ Keep /\ Quiet

\* _ledger_result: failed and skipped deliveries keep a batch from being completed.
Count(s) ==
    /\ at[s] = "count"
    /\ \/ Move(s, "close") /\ outcome' =
             [outcome EXCEPT ![s] = IF \A u \in Recipients : delivery[u] \notin {"failed", "skipped"}
                                    THEN "complete" ELSE "partial"]
             /\ UNCHANGED <<page, last, retry>>
       \/ Ends(s)
    /\ UNCHANGED ledger /\ Keep /\ Quiet

\* The status the count calls for, whatever has happened since.
Close(s) ==
    /\ at[s] = "close" /\ Ends(s)
    /\ LET complete == outcome[s] = "complete" IN
       \/ /\ SetBatchStatus(IF complete THEN "completed" ELSE "failed")
          /\ closed' = (closed \/ (complete /\ status # "cancelled"))
       \/ UNCHANGED <<status, closed>>
    /\ UNCHANGED delivery /\ Keep /\ Quiet

-----------------------------------------------------------------------------
(* Cancelling, the clock, the users, crashes.                                *)

CancelAsked ==
    /\ ~cancelling /\ status \in Resumable /\ ~closed /\ cancelling' = TRUE
    /\ UNCHANGED <<ledger, eligible, sender, passes, annCrashes, copies, overlapped, unclear>>

\* mark_cancelled does not look at the status again.
CancelWritten ==
    /\ cancelling /\ cancelling' = FALSE
    /\ \/ status' = "cancelled" /\ closed' = TRUE
       \/ UNCHANGED <<status, closed>>
    /\ UNCHANGED <<delivery, eligible, sender, passes, annCrashes, copies, overlapped, unclear>>

\* A recipient is blocked or demoted.
LosesAccess(u) ==
    /\ u \in eligible /\ eligible' = eligible \ {u}
    /\ UNCHANGED <<ledger, sender, cancelling, passes, annCrashes, copies, overlapped, unclear>>

\* The senders are gone; what one of them had sent and not marked is unclear.
AnnCrash ==
    /\ annCrashes < MaxAnnouncementCrashes /\ annCrashes' = annCrashes + 1
    /\ at' = Idle /\ page' = [s \in Senders |-> {}] /\ last' = [s \in Senders |-> 0]
    /\ retry' = [s \in Senders |-> FALSE] /\ outcome' = [s \in Senders |-> "none"]
    /\ cancelling' = FALSE
    /\ unclear' = unclear \union {last[s] : s \in {t \in Senders : outcome[t] = "sent"}}
    /\ UNCHANGED <<ledger, eligible, passes, copies, overlapped>>

Send(s) ==
    \/ SetSending(s) \/ ListPage(s) \/ NextDelivery(s) \/ Copy(s)
    \/ MarkDelivery(s) \/ Failing(s) \/ Count(s) \/ Close(s)

AnnNext ==
    \/ \E s \in Senders : CreateBatch(s) \/ SendDue(s) \/ Send(s) \/ \E r \in BOOLEAN : Resume(s, r)
    \/ CancelAsked \/ CancelWritten \/ (\E u \in Recipients : LosesAccess(u)) \/ AnnCrash

AnnSpec == AnnInit /\ [][AnnNext]_annVars
AnnFairness == \A s \in Senders : WF_annVars(Send(s))

-----------------------------------------------------------------------------
(* Properties.                                                               *)

\* The values the state of the module takes.
AnnTypeOK ==
    /\ status \in Resumable \union {"none", "completed", "cancelled"} /\ closed \in BOOLEAN
    /\ delivery \in [Recipients -> {"none", "pending", "sent", "failed", "skipped"}]
    /\ eligible \subseteq Recipients /\ {cancelling, overlapped} \subseteq BOOLEAN
    /\ at \in [Senders -> {"idle", "set", "list", "copy", "mark", "failing", "count", "close"}]
    /\ page \in [Senders -> SUBSET Recipients] /\ last \in [Senders -> Recipients \union {0}]
    /\ retry \in [Senders -> BOOLEAN] /\ outcome \in [Senders -> {"none", "sent", "failed", "skipped", "complete", "partial"}]
    /\ passes \in 0 .. MaxAnnouncementPasses /\ annCrashes \in 0 .. MaxAnnouncementCrashes /\ copies \in [Recipients -> 0 .. 2]
    /\ unclear \subseteq Recipients

\* Nobody gets the announcement twice through resumes, retries, schedules and restarts,
\* unless two senders have overlapped or the ledger could not learn of the first message.
NobodyTwice == \A u \in Recipients : copies[u] > 1 => overlapped \/ u \in unclear

\* What the ledger has as sent was sent.
SentWasSent == \A u \in Recipients : delivery[u] = "sent" => copies[u] > 0

\* A batch shown as completed has reached everyone it was made for, whoever finished it.
CompletedReachedAll ==
    closed /\ status # "cancelled" => \A u \in Recipients : delivery[u] \in {"sent", "none"}

\* A cancellation is final, also against a sender that finishes or fails later.
CancelIsFinal == [][status = "cancelled" => status' = "cancelled"]_annVars

\* Once the batch is cancelled no sender turns to another recipient: what is still sent
\* was about to be sent.
CancelStops == [][status = "cancelled" => \A s \in Senders : at'[s] = "copy" => at[s] = "copy"]_annVars

\* A pass that comes to its end has left nobody pending, whatever became of its pages.
PassSkipsNobody ==
    [][\A s \in Senders : at[s] = "list" /\ at'[s] = "count"
          => \A u \in Recipients : delivery[u] # "pending"]_annVars

\* Every pass comes to its end.
PassesEnd == \A s \in Senders : []<>(at[s] = "idle")

\* The ledger against the messages that really went out, for two senders, a cancellation,
\* failing rows and crashes.
LedgerIsTrue == NobodyTwice /\ SentWasSent /\ CompletedReachedAll

\* What no step of a sender or of a cancellation may do.
AnnouncementSteps == CancelIsFinal /\ CancelStops /\ PassSkipsNobody
=============================================================================
