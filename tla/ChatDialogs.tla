---------------------------- MODULE ChatDialogs ----------------------------
(* The dialogs of one administrator's chat that end in a confirmation: a key  *)
(* of his own (bot/handlers/keys.py), a key for another user and an           *)
(* announcement (bot/handlers/admin.py), and the note and the fingerprint of  *)
(* a key.  They share the chat's one state and its one set of answers        *)
(* (bot/fsm/ttl_storage.py), and old buttons stay in the chat.               *)
(* The administrator answers one question at a time, but a confirmation may   *)
(* be pressed again before the first press is through, and the session may   *)
(* be wiped in the middle of anything: by /cancel, by the sweep of idle       *)
(* sessions, by a block or by a restart.  MTU and fingerprint, of which a    *)
(* key has one, are its option.                                              *)
EXTENDS Naturals, FiniteSets

CONSTANTS
    KeyTypes, Owners, OldKeys,  \* what there is to choose from
    Presses,                    \* the confirmations that may be in flight at once
    MaxAnswers,                 \* how many questions are answered
    Nothing

\* Nothing is no answer, and no part of a handler that awaits its next message.
ASSUME DialogsAssumption ==
    /\ MaxAnswers \in Nat /\ Nothing \notin KeyTypes \union Owners \union OldKeys \union {"given"}
    /\ Nothing # [do |-> "show"]

Fields == {"owner", "type", "note", "option", "expires", "key", "message"}

Choices == [f \in Fields |->
    CASE f = "owner" -> Owners [] f = "type" -> KeyTypes [] f = "key" -> OldKeys [] OTHER -> {"given"}]

Empty == [f \in Fields |-> Nothing]

VARIABLES
    dialog,   \* the state of the chat: a dialog and its step
    answers,  \* the data of the chat
    busy,     \* a handler between two of its parts, or Nothing
    press,    \* the confirmations in flight
    hot,      \* the actions whose rate limit has not passed
    shown,    \* the last thing the chat was asked to confirm, until it is done
    given     \* how many questions were answered

dlgVars == <<dialog, answers, busy, press, hot, shown, given>>

NoDialog == <<"none", "none">>

Confirming(kind) == <<kind, "confirming">>

\* What a confirmation of a kind speaks of, in a set of answers.
FieldsOf(kind) ==
    CASE kind = "user" -> {"type", "note", "option", "expires"}
      [] kind = "admin" -> {"owner", "type", "note", "option", "expires"}
      [] kind = "note" -> {"key", "note"}
      [] kind = "fp" -> {"key"}
      [] kind = "announce" -> {"message"}

Says(kind, data) == [kind |-> kind, what |-> [f \in FieldsOf(kind) |-> data[f]]]

NoPress == [at |-> "free", kind |-> "none", from |-> NoDialog, data |-> Empty, slow |-> FALSE]

DlgInit ==
    /\ dialog = NoDialog /\ answers = Empty /\ busy = Nothing /\ press = [p \in Presses |-> NoPress]
    /\ hot = {} /\ shown = Nothing /\ given = 0

--------------------------------------------------------------------------------
(* Questions and answers *)

\* One is answered when nothing is in flight.
Answering ==
    /\ given < MaxAnswers /\ given' = given + 1
    /\ busy = Nothing /\ \A p \in Presses : press[p].at = "free"
    /\ UNCHANGED <<press, hot>>

Set(f, v) == answers' = [answers EXCEPT ![f] = v]

\* create_key_choose: its buttons have no state filter.
ChooseType ==
    \E t \in KeyTypes :
        /\ Answering /\ dialog' = <<"user", "note">> /\ Set("type", t) /\ UNCHANGED <<busy, shown>>

\* admin_issue_user_selected
ChooseUser ==
    \E o \in Owners :
        /\ Answering /\ dialog' = <<"admin", "type">> /\ Set("owner", o) /\ UNCHANGED <<busy, shown>>

\* admin_issue_type_selected: a button of an older list names another user.
ChooseTypeFor ==
    \E o \in Owners, t \in KeyTypes :
        /\ Answering /\ dialog = <<"admin", "type">> /\ UNCHANGED <<busy, shown>>
        /\ IF answers.owner = o
           THEN dialog' = <<"admin", "note">> /\ Set("type", t)
           ELSE dialog' = NoDialog /\ answers' = Empty

\* admin_issue_proto_vless only shows the transports of a type.
ShowTransports ==
    \E o \in Owners :
        /\ Answering /\ dialog = <<"admin", "type">> /\ answers.owner # o
        /\ dialog' = NoDialog /\ answers' = Empty /\ UNCHANGED <<busy, shown>>

\* The prompt of a note is deleted before the next step.
NoteGiven(kind) ==
    /\ Answering /\ dialog = <<kind, "note">> /\ Set("note", "given")
    /\ busy' = [do |-> "step", to |-> <<kind, IF answers.type = Nothing THEN "expiry" ELSE "option">>]
    /\ UNCHANGED <<dialog, shown>>

GiveNote == NoteGiven("user")

GiveNoteFor == NoteGiven("admin")

\* Of the buttons fp: and mtu: a key of a type has one.
OptionChosen(kind) ==
    /\ Answering /\ dialog = <<kind, "option">> /\ dialog' = <<kind, "expiry">>
    /\ Set("option", "given") /\ UNCHANGED <<busy, shown>>

ChooseOption == OptionChosen("user")

ChooseOptionFor == OptionChosen("admin")

\* The handlers of mtu:custom and expiry:custom.
TextAsked(kind) ==
    \E step \in {<<"option", "option text">>, <<"expiry", "days">>} :
        /\ Answering /\ dialog = <<kind, step[1]>> /\ dialog' = <<kind, step[2]>> /\ UNCHANGED <<answers, busy, shown>>

AskForText == TextAsked("user")

AskForTextFor == TextAsked("admin")

\* create_key_mtu_custom, admin_issue_mtu_custom
OptionGiven(kind) ==
    /\ Answering /\ dialog = <<kind, "option text">> /\ Set("option", "given")
    /\ busy' = [do |-> "step", to |-> <<kind, "expiry">>] /\ UNCHANGED <<dialog, shown>>

GiveOption == OptionGiven("user")

GiveOptionFor == OptionGiven("admin")

\* create_key_expiry and create_key_custom_days: the answer is acknowledged
\* before the data is read for the confirmation.
GiveExpiry ==
    /\ Answering /\ dialog \in {<<"user", "expiry">>, <<"user", "days">>} /\ Set("expires", "given")
    /\ dialog' = Confirming("user") /\ busy' = [do |-> "show"] /\ UNCHANGED shown

\* admin_issue_expiry and admin_issue_custom_days: the data is read first, and
\* lacks the user after a wipe; the second clears the state on any error.
GiveExpiryFor ==
    /\ Answering /\ dialog \in {<<"admin", "expiry">>, <<"admin", "days">>} /\ UNCHANGED shown
    /\ \/ /\ answers.owner # Nothing /\ answers.type # Nothing
          /\ Set("expires", "given") /\ UNCHANGED dialog
          /\ busy' = [do |-> "confirm", kind |-> "admin", data |-> answers']
       \/ /\ answers.owner = Nothing \/ answers.type = Nothing
          /\ UNCHANGED busy
          /\ IF dialog[2] = "days"
             THEN dialog' = NoDialog /\ answers' = Empty
             ELSE Set("expires", "given") /\ UNCHANGED dialog

\* edit_note_prompt
AskNote ==
    \E k \in OldKeys :
        /\ Answering /\ dialog' = <<"note", "text">> /\ Set("key", k) /\ UNCHANGED <<busy, shown>>

\* edit_note_waiting
EditNote ==
    /\ Answering /\ dialog = <<"note", "text">> /\ UNCHANGED shown
    /\ IF answers.key # Nothing
       THEN Set("note", "given") /\ busy' = [do |-> "confirm", kind |-> "note", data |-> answers'] /\ UNCHANGED dialog
       ELSE dialog' = NoDialog /\ answers' = Empty /\ UNCHANGED busy

\* edit_fp_prompt
AskFingerprint ==
    \E k \in OldKeys :
        /\ Answering /\ dialog' = Confirming("fp") /\ Set("key", k) /\ UNCHANGED busy
        /\ shown' = Says("fp", answers')

\* admin_announcement_start
Announce ==
    /\ Answering /\ dialog' = <<"announce", "message">> /\ answers' = Empty /\ UNCHANGED <<busy, shown>>

\* admin_announcement_message
GiveMessage ==
    /\ Answering /\ dialog = <<"announce", "message">> /\ Set("message", "given")
    /\ dialog' = Confirming("announce") /\ shown' = Says("announce", answers') /\ UNCHANGED busy

\* admin_announcement_schedule_request
AskTime ==
    /\ Answering /\ dialog = Confirming("announce") /\ dialog' = <<"announce", "time">> /\ UNCHANGED <<answers, busy, shown>>

\* The second part of a handler.
GoOn ==
    /\ busy # Nothing /\ busy' = Nothing /\ UNCHANGED <<answers, press, hot, given>>
    /\ CASE busy.do = "step" -> dialog' = busy.to /\ UNCHANGED shown
         [] busy.do = "show" -> shown' = Says("user", answers) /\ UNCHANGED dialog
         [] busy.do = "confirm" -> dialog' = Confirming(busy.kind) /\ shown' = Says(busy.kind, busy.data)

--------------------------------------------------------------------------------
(* Confirmations *)

Free(p) == press[p].at = "free"

\* The filters of create_key_confirm, edit_note_confirm, edit_fp_select and
\* admin_announcement_send or _schedule_time; admin_issue_confirm has none.
Accepts(kind) ==
    \/ dialog = Confirming(kind)
    \/ kind = "admin"
    \/ kind = "announce" /\ dialog = <<"announce", "time">>

Press(p) ==
    \E kind \in {"user", "admin", "note", "fp", "announce"} :
        /\ Free(p) /\ busy = Nothing /\ Accepts(kind)
        /\ press' = [press EXCEPT ![p] = [at |-> "sent", kind |-> kind, from |-> dialog, data |-> Empty, slow |-> FALSE]]
        /\ UNCHANGED <<dialog, answers, busy, hot, shown, given>>

Clear == dialog' = NoDialog /\ answers' = Empty

\* Mutant: what was done is not cleared.
ActKeeps(p) == UNCHANGED <<dialog, answers>> /\ shown' = Nothing /\ press' = [press EXCEPT ![p] = NoPress]

\* Something is done with the answers.
Act(p) == Clear /\ shown' = Nothing /\ press' = [press EXCEPT ![p] = NoPress]

Drop(p) == press' = [press EXCEPT ![p] = NoPress]

Sent(p, kind) == press[p].at = "sent" /\ press[p].kind = kind /\ UNCHANGED <<busy, given>>

\* The dialog is left with nothing done.
Leave(p) == Clear /\ Drop(p) /\ UNCHANGED <<hot, shown>>

\* edit_note_confirm reads and clears without an await in between.
NoteChanged(p) == Sent(p, "note") /\ answers.key # Nothing /\ Act(p) /\ UNCHANGED hot

ConfirmNote(p) == NoteChanged(p) \/ (Sent(p, "note") /\ answers.key = Nothing /\ Leave(p))

\* edit_fp_select
FingerprintChanged(p) == Sent(p, "fp") /\ answers.key # Nothing /\ Act(p) /\ UNCHANGED hot

SelectFingerprint(p) == FingerprintChanged(p) \/ (Sent(p, "fp") /\ answers.key = Nothing /\ Leave(p))

\* admin_announcement_send: the rate limit and a missing message keep the
\* state, a lost role clears it.
AnnouncementSent(p) ==
    /\ Sent(p, "announce") /\ press[p].from = Confirming("announce")
    /\ answers.message # Nothing /\ "announce" \notin hot /\ hot' = hot \union {"announce"} /\ Act(p)

SendAnnouncement(p) ==
    \/ AnnouncementSent(p)
    \/ /\ Sent(p, "announce") /\ press[p].from = Confirming("announce")
       /\ \/ /\ answers.message = Nothing \/ "announce" \in hot
             /\ Drop(p) /\ UNCHANGED <<dialog, answers, hot, shown>>
          \/ Leave(p)

\* admin_announcement_schedule_time: a lost role clears the state.
AnnouncementScheduled(p) ==
    /\ Sent(p, "announce") /\ press[p].from = <<"announce", "time">>
    /\ answers.message # Nothing /\ Act(p) /\ UNCHANGED hot

ScheduleAnnouncement(p) ==
    \/ AnnouncementScheduled(p)
    \/ Sent(p, "announce") /\ press[p].from = <<"announce", "time">> /\ Leave(p)

\* create_key_confirm and admin_issue_confirm read the data before the role is
\* looked up.
Take(p) ==
    /\ press[p].at = "sent" /\ press[p].kind \in {"user", "admin"}
    /\ press' = [press EXCEPT ![p].at = "taken", ![p].data = answers]
    /\ UNCHANGED <<dialog, answers, busy, hot, shown, given>>

Taken(p, kind) == press[p].at = "taken" /\ press[p].kind = kind /\ UNCHANGED <<busy, given>>

\* RateLimiter.check
PassesLimit == "create" \notin hot /\ hot' = hot \union {"create"}

\* The rate limit and a role that was lost keep the state; an unknown type
\* clears it.
KeyMade(p) == Taken(p, "user") /\ PassesLimit /\ press[p].data.type # Nothing /\ Act(p)

ConfirmKey(p) ==
    \/ KeyMade(p)
    \/ Taken(p, "user") /\ Drop(p) /\ UNCHANGED <<dialog, answers, hot, shown>>
    \/ /\ Taken(p, "user") /\ PassesLimit /\ press[p].data.type = Nothing
       /\ Clear /\ Drop(p) /\ UNCHANGED shown

\* A missing type is "xray" and a missing user the administrator himself.
KeyMadeFor(p) == Taken(p, "admin") /\ PassesLimit /\ Act(p)

ConfirmKeyFor(p) ==
    KeyMadeFor(p) \/ (Taken(p, "admin") /\ Drop(p) /\ UNCHANGED <<dialog, answers, hot, shown>>)

--------------------------------------------------------------------------------
(* The rest of the world *)

\* /cancel, the cancel buttons, expire_stale and the state clearer of a block.
Wipe == dialog # NoDialog /\ Clear /\ UNCHANGED <<busy, press, hot, shown, given>>

\* The sessions, the rate limits and the handlers in flight are gone.
RestartBot ==
    /\ Clear /\ busy' = Nothing /\ press' = [p \in Presses |-> NoPress] /\ hot' = {}
    /\ UNCHANGED <<shown, given>>

\* 20 seconds pass, or RateLimiter._trim drops the entry.
Cool ==
    \E a \in hot :
        /\ hot' = hot \ {a}
        /\ press' = [p \in Presses |-> IF Free(p) THEN press[p] ELSE [press[p] EXCEPT !.slow = TRUE]]
        /\ UNCHANGED <<dialog, answers, busy, shown, given>>

Answer ==
    \/ ChooseType \/ GiveNote \/ ChooseOption \/ AskForText \/ GiveOption \/ GiveExpiry
    \/ ChooseUser \/ ShowTransports \/ ChooseTypeFor \/ GiveNoteFor \/ ChooseOptionFor \/ AskForTextFor
    \/ GiveOptionFor \/ GiveExpiryFor \/ AskNote \/ EditNote \/ AskFingerprint \/ Announce \/ GiveMessage \/ AskTime

DlgNext ==
    \/ Answer \/ GoOn \/ Wipe \/ RestartBot \/ Cool
    \/ \E p \in Presses :
        \/ Press(p) \/ ConfirmNote(p) \/ SelectFingerprint(p) \/ SendAnnouncement(p) \/ ScheduleAnnouncement(p)
        \/ Take(p) \/ ConfirmKey(p) \/ ConfirmKeyFor(p)

DlgSpec == DlgInit /\ [][DlgNext]_dlgVars

--------------------------------------------------------------------------------
(* Properties *)

DlgTypeOK ==
    /\ \A f \in Fields : answers[f] \in Choices[f] \union {Nothing}
    /\ \A p \in Presses : press[p].at \in {"free", "sent", "taken"} /\ press[p].slow \in BOOLEAN
    /\ hot \subseteq {"create", "announce"} /\ given \in 0..MaxAnswers

(* Whatever was begun, left, wiped or pressed twice before: what is created,   *)
(* changed or sent on a press in a confirming dialog is what the last          *)
(* confirmation asked for, and nothing is done on it a second time.  The rate  *)
(* limit stands between two presses of one confirmation of a key, so a press  *)
(* that takes longer than it is left out, and so is a confirmation for        *)
(* another user whose answers were wiped (ChosenUser).                        *)
DoneAsShown(p) ==
    LET kind == press[p].kind IN
    /\ NoteChanged(p) \/ FingerprintChanged(p) \/ AnnouncementSent(p) \/ AnnouncementScheduled(p) =>
        shown = Says(kind, answers)
    /\ (KeyMade(p) \/ KeyMadeFor(p)) /\ press[p].from = Confirming(kind) =>
        \/ press[p].slow
        \/ kind = "admin" /\ press[p].data.owner = Nothing
        \/ shown = Says(kind, press[p].data)

(* bot/handlers/keys.py, admin.py: every press that acts does what its         *)
(* confirmation said (DoneAsShown), in whatever order presses and wipes come. *)
ActsAreAsShown == [][\A p \in Presses : DoneAsShown(p)]_dlgVars

(* bot/handlers/admin.py admin_issue_confirm, "Create the key for the chosen   *)
(* user": no key is created for another user unless a user was chosen.       *)
ChosenUser == [][\A p \in Presses : KeyMadeFor(p) => press[p].data.owner # Nothing]_dlgVars
=============================================================================
