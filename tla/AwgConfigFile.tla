--------------------------- MODULE AwgConfigFile ---------------------------
(***************************************************************************)
(* The text of the AmneziaWG config file: adapters/awg_config.py, which    *)
(* edits a file that an administrator edits as well.  In AwgKeys the file  *)
(* is a set of peers; here it is a sequence of lines, with the markers by  *)
(* which the bot knows its own blocks, and an edit is what happens between *)
(* two awaits of it.                                                       *)
(*                                                                         *)
(* An edit compares the file with its first look at it before it replaces  *)
(* it.  The administrator takes no lock.  He saves the running config,     *)
(* which drops all comments, and writes or takes out whole peers; he is    *)
(* not assumed to take a peer out and leave its markers.                   *)
(*                                                                         *)
(* Left out: the parameters of a section but for the identity of its peer, *)
(* blank lines, owners and labels of markers, a file that cannot be read;  *)
(* addresses, the interface, a helper that outlives its call (AwgKeys).    *)
(***************************************************************************)
EXTENDS Naturals, SequencesExt

CONSTANTS
  FileKeys,      \* keys whose peers the bot writes
  FileForeign,   \* peers that the administrator writes
  Nobody,        \* no peer
  MaxHandEdits   \* bound on the administrator's changes

ASSUME FileAssumption == Nobody \notin FileKeys \cup FileForeign /\ MaxHandEdits \in Nat

VARIABLES
  file,       \* the lines of the config file
  edit,       \* the add_peer or remove_peer under way, under the lock of the file
  changed,    \* the file was written by someone else since the edit looked at it first
  overlooked, \* history: and that was after the edit compared it for the last time
  handEdits

fileVars == <<file, edit, changed, overlooked, handEdits>>

Line(kind, peer) == [is |-> kind, of |-> peer]
Header       == Line("interface", Nobody)
PeerHead     == Line("peer", Nobody)
StartMark(k) == Line("start", k)
EndMark(k)   == Line("end", k)

\* _peer_block, and what an administrator writes
Block(k)      == <<StartMark(k), PeerHead, Line("options", k), EndMark(k)>>
PlainBlock(p) == <<PeerHead, Line("options", p)>>

NoEdit == [op |-> "none", of |-> Nobody, at |-> "free", text |-> <<>>, backup |-> <<>>, mode |-> "none"]

------------------------------------------------------------------------------
(* Reading the file.                                                         *)

IsHead(line) == line.is \in {"interface", "peer"}
Heads(text) == {i \in DOMAIN text : IsHead(text[i])}
PeerHeads(text) == {i \in Heads(text) : text[i].is = "peer"}

\* _parse_sections: a section goes on to the next head
SectionEnd(text, i) == Min({j - 1 : j \in {h \in Heads(text) : h > i}} \cup {Len(text)})
Section(text, i) == i..SectionEnd(text, i)
Options(text, i) == {j \in Section(text, i) : text[j].is = "options"}

\* it refuses options before the first section and a repeated key
Parses(text) ==
  /\ \E i \in Heads(text) : text[i] = Header
  /\ \A j \in DOMAIN text : text[j].is = "options" => \E i \in Heads(text) : i < j
  /\ \A i \in PeerHeads(text) : Cardinality(Options(text, i)) <= 1

\* the PublicKey of the section that begins at i
Identity(text, i) == IF Options(text, i) = {} THEN Nobody ELSE text[Max(Options(text, i))].of
PeersOf(text) == {Identity(text, i) : i \in PeerHeads(text)}

\* _find_peer by public key
FindPeer(text, p) == {i \in PeerHeads(text) : Identity(text, i) = p}

\* _managed_block_exists, and the two ends that _remove_managed_block looks for
Starts(text, k) == {i \in DOMAIN text : text[i] = StartMark(k)}
Ends(text, k) == {j \in DOMAIN text : text[j] = EndMark(k) /\ j > Min(Starts(text, k))}
HasBlock(text, k) == Starts(text, k) # {}

\* _parse_peer_blocks: the marker read before the section at i.  The lines up to
\* the next head are read as part of a peer, and no marker is looked for in them.
Mark(text, i) ==
  LET above == {h \in Heads(text) : h < i}
      markers == {j \in 1..(i - 1) : text[j].is = "start" /\ \A h \in above : h < j}
  IN IF (above # {} /\ text[Max(above)] = PeerHead) \/ markers = {} THEN Nobody
     ELSE text[Max(markers)].of

\* _remove_or_degrade_awg_config_orphans, of a peer with no row
OrphanVerdict(text, i) == IF Mark(text, i) # Nobody THEN "remove" ELSE "degrade"

------------------------------------------------------------------------------
(* Changing the text.                                                        *)

\* the lines that stay, in their order: the n-th is the one with n of them up to it
Without(text, lines) ==
  LET kept == DOMAIN text \ lines
      Rank(i) == Cardinality({j \in kept : j <= i})
  IN [n \in 1..Cardinality(kept) |-> text[CHOOSE i \in kept : Rank(i) = n]]

\* _remove_managed_block: from the first start marker to the end marker after it
WithoutBlock(text, k) == Without(text, Min(Starts(text, k))..Min(Ends(text, k)))

\* _remove_peer_section_by_identity: the section, up to the next head
WithoutPeer(text, p) == Without(text, UNION {Section(text, i) : i \in FindPeer(text, p)})

\* mutant: a peer without markers is not looked for
WithoutMarked(text, k) == IF HasBlock(text, k) THEN WithoutBlock(text, k) ELSE text

\* remove_peer: by the markers, or else by the public key
Removed(text, k) == IF HasBlock(text, k) THEN WithoutBlock(text, k) ELSE WithoutPeer(text, k)

\* the interface, and peers of the administrator in any order
FileInit ==
  /\ \E n \in 0..Cardinality(FileForeign) : \E p \in Injection(1..n, FileForeign) :
       file = [i \in 1..(2 * n + 1) |->
                 IF i = 1 THEN Header
                 ELSE IF i % 2 = 0 THEN PeerHead ELSE Line("options", p[(i - 1) \div 2])]
  /\ edit = NoEdit /\ changed = FALSE /\ overlooked = FALSE /\ handEdits = 0

------------------------------------------------------------------------------
(* An edit, by the adapter itself ("direct") or through the root helper.     *)

EditFrame == UNCHANGED <<changed, overlooked, handEdits>>
Goto(point) == edit' = [edit EXCEPT !.at = point]

\* the lock of the file, _snapshot_config and, in direct mode, create_backup
BeginEdit(op, k, mode) ==
  /\ edit = NoEdit
  /\ edit' = [op |-> op, of |-> k, at |-> "begun", text |-> <<>>, backup |-> file, mode |-> mode]
  /\ changed' = FALSE /\ overlooked' = FALSE /\ UNCHANGED <<file, handEdits>>

\* an exception before the file was replaced: nothing to restore
EditRaises ==
  /\ edit.at \in {"begun", "candidate", "compared"}
  /\ edit' = NoEdit
  /\ UNCHANGED file /\ EditFrame

\* the text is read and compared with the snapshot: add_peer makes its candidate.
\* A block that is there is left as it is, a peer without one is an error.
ReadForAdd ==
  /\ edit.at = "begun" /\ edit.op = "add" /\ ~changed
  /\ \/ /\ HasBlock(file, edit.of)
        /\ edit' = IF edit.mode = "helper" THEN [edit EXCEPT !.at = "compared", !.text = file]
                   ELSE [edit EXCEPT !.at = "unwritten"]
     \/ /\ ~HasBlock(file, edit.of) /\ FindPeer(file, edit.of) = {}
        /\ edit' = [edit EXCEPT !.at = "candidate", !.text = file \o Block(edit.of)]
  /\ UNCHANGED file /\ EditFrame

\* remove_peer; in direct mode a text that is as it was is not written
ReadForRemove ==
  /\ edit.at = "begun" /\ edit.op = "remove" /\ ~changed
  /\ HasBlock(file, edit.of) => Ends(file, edit.of) # {}
  /\ LET text == Removed(file, edit.of) IN
       edit' = IF text = file /\ edit.mode = "direct" THEN [edit EXCEPT !.at = "unwritten"]
               ELSE [edit EXCEPT !.at = "candidate", !.text = text]
  /\ UNCHANGED file /\ EditFrame

\* mutant: the file is not compared after the check of the candidate
CompareNothing ==
  /\ edit.at = "candidate" /\ Parses(edit.text)
  /\ Goto("compared")
  /\ UNCHANGED file /\ EditFrame

\* the candidate was checked by awg-quick strip; _assert_config_unchanged again
Compare ==
  /\ edit.at = "candidate" /\ Parses(edit.text)
  /\ ~changed
  /\ Goto("compared")
  /\ UNCHANGED file /\ EditFrame

\* atomic_write_text
WriteFile ==
  /\ edit.mode = "direct" /\ edit.at = "compared"
  /\ file' = edit.text /\ Goto("written")
  /\ EditFrame

\* vpnbot-awg-apply checks the candidate and takes a backup of its own
HelperBacksUp ==
  /\ edit.mode = "helper" /\ edit.at = "compared"
  /\ edit' = [edit EXCEPT !.at = "staged", !.backup = file]
  /\ UNCHANGED file /\ EditFrame

HelperInstalls ==
  /\ edit.at = "staged"
  /\ file' = edit.text /\ Goto("written")
  /\ EditFrame

\* the interface has followed, and remove_peer does not find the peer in the file it
\* wrote itself: the call is answered
EditEnds ==
  /\ edit.at \in {"written", "unwritten"}
  /\ edit.op = "remove" /\ edit.mode = "direct" => edit.of \notin PeersOf(file)
  /\ edit' = NoEdit
  /\ UNCHANGED file /\ EditFrame

\* it has not, and the backup is restored, unless that fails too; a file that was
\* not written is not restored
EditRollsBack ==
  /\ edit.at \in {"staged", "written", "unwritten"}
  /\ file' \in (IF edit.at = "unwritten" THEN {file} ELSE {edit.backup, file})
  /\ edit' = NoEdit
  /\ EditFrame

EditStep ==
  \/ \E op \in {"add", "remove"}, k \in FileKeys, mode \in {"direct", "helper"} : BeginEdit(op, k, mode)
  \/ ReadForAdd \/ ReadForRemove \/ Compare \/ WriteFile \/ HelperBacksUp \/ HelperInstalls
  \/ EditEnds \/ EditRaises \/ EditRollsBack

------------------------------------------------------------------------------
(* The administrator.                                                        *)

ByHand(text) ==
  /\ handEdits < MaxHandEdits /\ text # file
  /\ file' = text /\ handEdits' = handEdits + 1
  /\ changed' = TRUE
  /\ overlooked' = (overlooked \/ edit.at \in {"compared", "staged", "written", "unwritten"})
  /\ UNCHANGED edit

\* awg-quick save writes what the interface has, without comments
HandSaves == ByHand(Without(file, {i \in DOMAIN file : file[i].is \in {"start", "end"}}))

\* a peer is written between two others, or last
HandAdds(p) ==
  /\ p \notin PeersOf(file)
  /\ \E i \in 2..(Len(file) + 1) :
       /\ i <= Len(file) => \/ file[i].is = "start"
                            \/ file[i] = PeerHead /\ file[i - 1].is # "start"
       /\ ByHand(SubSeq(file, 1, i - 1) \o PlainBlock(p) \o SubSeq(file, i, Len(file)))

\* a peer is taken out with its markers
HandRemoves(p) ==
  /\ p \in PeersOf(file)
  /\ ByHand(Without(file, FindPeer(file, p) \cup {i \in DOMAIN file : file[i].of = p}))

HandStep ==
  \/ HandSaves
  \/ \E p \in FileForeign : HandAdds(p)
  \/ \E p \in FileForeign \cup FileKeys : HandRemoves(p)

FileNext == EditStep \/ HandStep
FileSpec == FileInit /\ [][FileNext]_fileVars

------------------------------------------------------------------------------
(* Properties.                                                               *)

\* Every variable keeps its type, and the file can be read.
FileTypeOK ==
  /\ Parses(file) /\ \A i \in DOMAIN file : file[i].of \in FileKeys \cup FileForeign \cup {Nobody}
  /\ edit.at \in {"free", "begun", "candidate", "compared", "staged", "written", "unwritten"}
  /\ edit.of \in FileKeys \cup {Nobody}
  /\ changed \in BOOLEAN /\ overlooked \in BOOLEAN /\ handEdits \in 0..MaxHandEdits

\* What an edit leaves behind when it is answered, when it raised, and before.
AsAsked(peers) == IF edit.op = "add" THEN peers \cup {edit.of} ELSE peers \ {edit.of}

ExactStep ==
  /\ file' # file /\ handEdits' = handEdits =>
       \/ overlooked
       \/ edit.at \in {"compared", "staged"} /\ PeersOf(file') = AsAsked(PeersOf(file))
       \/ edit.at = "written" /\ PeersOf(file') \ {edit.of} = PeersOf(file) \ {edit.of}
  /\ EditEnds => overlooked \/ PeersOf(file) = AsAsked(PeersOf(file))

\* adapters/awg_config.py add_peer and remove_peer: whatever markers the file has
\* lost and whatever the administrator does meanwhile, an edit changes the one peer
\* it is for and loses nothing that he has written, and the change is in the file
\* when it is answered.  What he writes after the last comparison is lost: in
\* direct mode within an instant, through the helper for as long as it works.
EditsAreExact == [][ExactStep]_fileVars

\* tests/test_package4_drift_reconciliation.py test_awg_bot_managed_orphan_removed...:
\* a peer whose row is gone and which stands in a block of the bot is removed by the
\* startup, which is degraded only by peers the bot has not made.
InBlock(text, i) == i > 1 /\ text[i - 1] = StartMark(Identity(text, i))
ManagedOrphansAreRemoved ==
  \A i \in PeerHeads(file) : InBlock(file, i) => OrphanVerdict(file, i) = "remove"
=============================================================================
