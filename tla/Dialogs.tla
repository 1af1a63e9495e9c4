------------------------------- MODULE Dialogs -------------------------------
(***************************************************************************)
(* Editing an entry: the entry dialog of one page (internal/web:           *)
(* handlers_entry.go, view/entrydialog, the message slot of view/layout)   *)
(* over the tables of Tracking.                                            *)
(*                                                                         *)
(* A press sends a request and leaves the page free for the next one.  The *)
(* handler reads and writes through Tracking, one statement at a time, and *)
(* answers with a sequence of patches; the patches of one answer arrive in *)
(* order, those of two in any order.  The page behind an open dialog is    *)
(* inert.  Lists and totals are Live's and History's; a refusal shown in   *)
(* the dialog changes nothing kept here, and ends its request at once. *)
(***************************************************************************)
EXTENDS Tracking

CONSTANTS
  Requests,   \* callers that are requests of this page; the others are other tabs
  Shared,     \* the entries that other tabs delete and restore
  User,       \* whose page it is
  First, Second  \* the names of the two entries there are

ASSUME DialogAssumption ==
  /\ Requests \subseteq Callers /\ User \in Users /\ Shared \subseteq 1 .. 2
  /\ {First, Second, Blank} \subseteq Texts
  /\ \E n \in Names : n # Blank /\ n \notin TooLong

VARIABLES
  slot,     \* the page's dialog slot
  field,    \* the signal the dialog's input is bound to
  typed,    \* the input has been typed in since the dialog came
  deleting, \* the open dialog's own delete while it is under way, or None
  flash,    \* the entry whose Undo the message slot offers; 0 for none
  req,      \* the page's requests
  \* History: the entry the last press deletes, with no other request under way;
  \* whether two openings were under way at once; the entries that another tab
  \* changed since this page deleted them, or that it was undoing just then.
  offered, crossed, contested
pageVars == <<slot, field, typed, deleting, flash>>
history == <<offered, crossed, contested>>
dialogVars == <<vars, pageVars, req, history>>

\* The name is the one read for the dialog; it travels beside it, as a signal.
\* A dialog that Escape closed is still in the page, and takes no more presses.
NoDialog == [id |-> 0, name |-> Blank]
Slots == [id : Nat, name : Texts]

Signal(text) == [patch |-> "signal", text |-> text]
Dialog(i, text) == [patch |-> "dialog", id |-> i, text |-> text]
Gone == [patch |-> "no dialog"]
\* The message slot: a message or none, or a confirmation with Undo for entry i.
Flash == [patch |-> "flash", undo |-> 0]
Confirmation(i) == [patch |-> "flash", undo |-> i]
Patches == [patch : {"signal"}, text : Texts] \cup [patch : {"dialog"}, id : Nat, text : Texts]
             \cup {Gone} \cup [patch : {"flash"}, undo : Nat]

Ops == {"open", "close", "rename", "delete", "restore"}
Request == [op : Ops, id : Nat, text : Texts, out : Seq(Patches),
            stage : {"sent", "store", "answered"}]

\* NULL is neither a request nor a statement that waits for the store.
ASSUME NullAssumption ==
  /\ None \notin Request
  /\ None \notin [op : {"rename"}, user : Users, id : Nat, task : Texts]
  /\ None \notin [op : {"delete", "restore"}, user : Users, id : Nat]

DialogInit ==
  /\ companies = <<[user |-> User, name |-> CHOOSE n \in Names : n # Blank /\ n \notin TooLong]>>
  /\ now \in Times
  /\ entries = [i \in 1 .. 2 |->
       [user |-> User, company |-> 1, task |-> IF i = 1 THEN First ELSE Second, started |-> now,
        stopped |-> None, manual |-> FALSE, deleted |-> FALSE]]
  /\ call = [c \in Callers |-> None]
  /\ slot = NoDialog /\ field = Blank /\ typed = FALSE /\ deleting = None /\ flash = 0
  /\ req = [r \in Requests |-> None]
  /\ offered = 0 /\ crossed = FALSE /\ contested = {}

(***************************************************************************)
(* The person at the page.                                                 *)
(***************************************************************************)
UnderWay(r) == req[r] # None
Showing == slot # NoDialog
Opening == \E r \in Requests : UnderWay(r) /\ req[r].op = "open"
Quiet == \A r \in Requests : ~UnderWay(r)
Doing(op, i) == \E r \in Requests : UnderWay(r) /\ req[r].op = op /\ req[r].id = i

Press(r, op, id, text) ==
  /\ ~UnderWay(r)
  /\ req' = [req EXCEPT ![r] = [op |-> op, id |-> id, text |-> text, stage |-> "sent", out |-> <<>>]]
  /\ offered' = IF op = "delete" /\ Quiet THEN id ELSE 0
  /\ crossed' = IF op = "open" THEN Opening ELSE crossed
  /\ contested' = IF op = "restore" /\ Doing("delete", id) THEN contested \cup {id} ELSE contested
  /\ UNCHANGED <<vars, field, flash>>

\* An Edit button, of an entry the page lists or still lists.
PressEdit(r, i) == ~Showing /\ Press(r, "open", i, Blank) /\ UNCHANGED <<slot, typed, deleting>>

\* The Undo button of the message slot.
PressUndo(r) == ~Showing /\ flash # 0 /\ Press(r, "restore", flash, Blank) /\ UNCHANGED <<slot, typed, deleting>>

\* Save, or Enter in the input.
PressSave(r) == Showing /\ Press(r, "rename", slot.id, field) /\ UNCHANGED <<slot, typed, deleting>>

\* Delete, disabled while this dialog's own delete is under way; one from a
\* dialog that was here before may be.
PressDelete(r) ==
  /\ Showing /\ deleting = None
  /\ Press(r, "delete", slot.id, Blank)
  /\ deleting' = r
  /\ UNCHANGED <<slot, typed>>

\* Cancel, or a press on the backdrop, leaves it to the server to take the dialog
\* away; Escape has the browser close it, and then asks the same.  Its entry is
\* only for the focus.
PressCancel(r) == Showing /\ Press(r, "close", 0, Blank) /\ UNCHANGED <<slot, typed, deleting>>
PressEscape(r) == /\ Showing /\ Press(r, "close", 0, Blank)
                  /\ slot' = NoDialog /\ typed' = FALSE /\ deleting' = None

Type(text) == /\ Showing
              /\ field' = text /\ typed' = TRUE
              /\ UNCHANGED <<vars, slot, deleting, flash, req, history>>

(***************************************************************************)
(* The handlers.                                                           *)
(***************************************************************************)
At(r, op, stage) == UnderWay(r) /\ req[r].op = op /\ req[r].stage = stage
Answer(r, out) ==
  req' = [req EXCEPT ![r] = IF out = <<>> THEN None
                            ELSE [@ EXCEPT !.stage = "answered", !.text = Blank, !.out = out]]
ToStore(r) == req' = [req EXCEPT ![r].stage = "store", ![r].text = Blank]

\* Repo.Entry: the user's, and not deleted.
OwnEntry(i) == i \in DOMAIN entries /\ entries[i].user = User /\ Live(i)

\* Mutant: the dialog goes before the name it opens with.
OpenedDialogFirst(i) == <<Dialog(i, entries[i].task), Signal(entries[i].task)>>

\* The name goes as a signal, before the dialog bound to it.
Opened(i) == <<Signal(entries[i].task), Dialog(i, entries[i].task)>>

GetEntryDialog(r) ==
  /\ At(r, "open", "sent")
  /\ Answer(r, IF OwnEntry(req[r].id) THEN Opened(req[r].id) ELSE <<Gone, Flash>>)
  /\ UNCHANGED <<vars, pageVars, history>>

GetCloseEntryDialog(r) ==
  /\ At(r, "close", "sent")
  /\ Answer(r, <<Gone>>)
  /\ UNCHANGED <<vars, pageVars, history>>

\* Mutant: a name too long is refused, and then saved all the same.
PostEntryTaskOnward(r) ==
  /\ At(r, "rename", "sent")
  /\ \/ Rename(r, User, req[r].id, req[r].text) /\ ToStore(r)
     \/ Collapse[req[r].text] \in TooLong /\ ToStore(r) /\ UNCHANGED vars
  /\ UNCHANGED <<pageVars, history>>

\* PostEntryTask up to the statement: a name too long is refused in the dialog.
PostEntryTask(r) ==
  /\ At(r, "rename", "sent")
  /\ \/ Rename(r, User, req[r].id, req[r].text) /\ ToStore(r)
     \/ Collapse[req[r].text] \in TooLong /\ Answer(r, <<>>) /\ UNCHANGED vars
  /\ UNCHANGED <<pageVars, history>>

\* A delete refused in the dialog: its button can be pressed again.
RefuseDelete(r) ==
  /\ Answer(r, <<>>)
  /\ offered' = 0
  /\ deleting' = IF deleting = r THEN None ELSE deleting

\* PostEntryDelete reads the entry first, for the words of its confirmation.
PostEntryDelete(r) ==
  /\ At(r, "delete", "sent")
  /\ IF OwnEntry(req[r].id) THEN Delete(r, User, req[r].id) /\ ToStore(r) /\ UNCHANGED <<offered, deleting>>
     ELSE RefuseDelete(r) /\ UNCHANGED vars
  /\ UNCHANGED <<slot, field, typed, flash, crossed, contested>>

PostEntryRestore(r) ==
  /\ At(r, "restore", "sent")
  /\ Restore(r, User, req[r].id) /\ ToStore(r)
  /\ UNCHANGED <<pageVars, history>>

\* patchAfterEntryChange clears the message slot with the lists it brings, or
\* fills it with the news that it could not bring them.
Refreshed == <<Flash>>

\* The statement ran: a row it did not find is refused where it was asked for.
Renamed(r) ==
  /\ At(r, "rename", "store") /\ RenameEntry(r)
  /\ Answer(r, IF CanRename(r) THEN Append(Refreshed, Gone) ELSE <<>>)
  /\ UNCHANGED <<pageVars, history>>

\* Mutant: the confirmation goes before the refreshed lists, which clear it.
DeletedAnswerEarly(i) == <<Gone, Confirmation(i)>> \o Refreshed

\* The dialog goes, the lists come, and the confirmation offers Undo.
DeletedAnswer(i) == <<Gone>> \o Refreshed \o <<Confirmation(i)>>

\* An entry deleted here is contested no more, unless an Undo of it is under way.
Settled(r) ==
  IF ~CanDelete(r) THEN contested
  ELSE IF Doing("restore", req[r].id) THEN contested \cup {req[r].id} ELSE contested \ {req[r].id}

Deleted(r) ==
  /\ At(r, "delete", "store") /\ DeleteEntry(r)
  /\ IF CanDelete(r) THEN Answer(r, DeletedAnswer(req[r].id)) /\ UNCHANGED <<offered, deleting>>
     ELSE RefuseDelete(r)
  /\ contested' = Settled(r)
  /\ UNCHANGED <<slot, field, typed, flash, crossed>>

\* Mutant: what was brought back can be brought back again.
RestoredWithUndo(r) ==
  /\ At(r, "restore", "store") /\ RestoreEntry(r)
  /\ Answer(r, IF CanRestore(r) THEN Append(Refreshed, Confirmation(req[r].id)) ELSE <<Flash>>)
  /\ UNCHANGED <<pageVars, history>>

Restored(r) ==
  /\ At(r, "restore", "store") /\ RestoreEntry(r)
  /\ Answer(r, IF CanRestore(r) THEN Append(Refreshed, Flash) ELSE <<Flash>>)
  /\ UNCHANGED <<pageVars, history>>

\* The next patch of an answer reaches the page.
Patch(p) ==
  /\ slot' = CASE p.patch = "dialog" -> [id |-> p.id, name |-> p.text]
               [] p.patch = "no dialog" -> NoDialog
               [] OTHER -> slot
  /\ IF p.patch \in {"dialog", "no dialog"} THEN typed' = FALSE /\ deleting' = None
     ELSE UNCHANGED <<typed, deleting>>
  /\ field' = IF p.patch = "signal" THEN p.text ELSE field
  /\ flash' = IF p.patch = "flash" THEN p.undo ELSE flash

\* A request once the first patch of its answer has come.
After(q) == IF Len(q.out) = 1 THEN None ELSE [q EXCEPT !.out = Tail(@)]

Receive(r) ==
  /\ UnderWay(r) /\ req[r].stage = "answered"
  /\ Patch(Head(req[r].out))
  /\ req' = [req EXCEPT ![r] = After(req[r])]
  /\ UNCHANGED <<vars, history>>

\* Other tabs of the user delete and restore.
OtherTab(c) ==
  /\ \/ /\ \E i \in Shared : Delete(c, User, i) \/ Restore(c, User, i)
        /\ contested' = contested
     \/ Statement(c) /\ contested' = contested \cup {call[c].id}
  /\ UNCHANGED <<pageVars, req, offered, crossed>>

Handler(r) == \/ GetEntryDialog(r) \/ GetCloseEntryDialog(r) \/ PostEntryTask(r) \/ PostEntryDelete(r)
              \/ PostEntryRestore(r) \/ Renamed(r) \/ Deleted(r) \/ Restored(r)

DialogNext ==
  \/ \E r \in Requests :
       \/ Handler(r) \/ Receive(r)
       \/ \E i \in DOMAIN entries : PressEdit(r, i)
       \/ PressUndo(r) \/ PressSave(r) \/ PressDelete(r) \/ PressCancel(r) \/ PressEscape(r)
  \/ \E text \in Tasks : Type(text)
  \/ \E c \in Callers \ Requests : OtherTab(c)

DialogSpec == DialogInit /\ [][DialogNext]_dialogVars

-----------------------------------------------------------------------------
(***************************************************************************)
(* Properties.                                                             *)
(***************************************************************************)
\* A request waits for the store exactly while its statement is there.
DialogTypeOK ==
  /\ TypeOK
  /\ slot \in Slots /\ field \in Texts /\ typed \in BOOLEAN
  /\ deleting \in Requests \cup {None} /\ flash \in Nat
  /\ req \in [Requests -> Request \cup {None}]
  /\ offered \in Nat /\ crossed \in BOOLEAN /\ contested \subseteq Nat
  /\ \A r \in Requests :
       /\ UnderWay(r) /\ req[r].stage = "store" <=> ~Idle(r)
       /\ ~Idle(r) => call[r].op = req[r].op /\ call[r].id = req[r].id

\* What EntryDialog says of itself: an open dialog nobody has typed in shows the
\* name that was read for its entry.
DialogShowsItsName == Showing /\ ~typed => field = slot.name

\* What holds of that: unless two openings were under way at once.  Answers of
\* saves, deletes and closes of other dialogs may be.
DialogIsItsOwn == ~crossed => DialogShowsItsName

\* A page at rest whose last press deleted an entry offers Undo for that entry,
\* when nothing else was under way: no part of the answer takes it down.
UndoIsOffered == Quiet /\ offered # 0 => flash = offered

\* A page at rest offers Undo only for an entry that is deleted, however its
\* presses overlapped: unless another tab changed it since, or an Undo of it was
\* under way while it was being deleted.
UndoIsDue == Quiet /\ flash # 0 => ~Live(flash) \/ flash \in contested
=============================================================================
