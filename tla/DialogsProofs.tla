---------------------------- MODULE DialogsProofs ----------------------------
(***************************************************************************)
(* Theorems about Dialogs, for any requests, tabs and texts.               *)
(***************************************************************************)
EXTENDS Dialogs, TLAPS, SequenceTheorems

(***************************************************************************)
(* The inductive invariant.                                                *)
(***************************************************************************)
\* The statements that wait are those of this page and of the other tabs: none
\* of them adds a row.
Edits == {"rename", "delete", "restore"}
OnlyEdits == \A c \in Callers : ~Idle(c) => call[c].op \in Edits

\* What may be left to come of the answer to a request.
OpenAnswer(out) ==
  \/ \E i \in Nat, t \in Texts : out = <<Signal(t), Dialog(i, t)>> \/ out = <<Dialog(i, t)>>
  \/ out = <<Gone, Flash>> \/ out = <<Flash>>
AnswerFits(q) ==
  /\ q.op = "open" => OpenAnswer(q.out)
  /\ q.op = "close" => q.out = <<Gone>>
  /\ q.op = "rename" => q.out = <<Flash, Gone>> \/ q.out = <<Gone>>
  /\ q.op = "delete" => \/ q.out = <<Gone, Flash, Confirmation(q.id)>>
                        \/ q.out = <<Flash, Confirmation(q.id)>>
                        \/ q.out = <<Confirmation(q.id)>>
  /\ q.op = "restore" => q.out = <<Flash, Flash>> \/ q.out = <<Flash>>

Answered(r) == UnderWay(r) /\ req[r].stage = "answered"
AnswersFit == \A r \in Requests : Answered(r) => AnswerFits(req[r])

\* An opening that no other was beside has no dialog before its own; once its
\* signal has come, the field holds the name its dialog comes with.
Opens(r) == UnderWay(r) /\ req[r].op = "open"
Signalled(q, text) ==
  q.stage = "answered" /\ Len(q.out) = 1 /\ Head(q.out).patch = "dialog" => text = Head(q.out).text
OneOpening ==
  ~crossed => \A r \in Requests : Opens(r) =>
                /\ ~Showing
                /\ \A q \in Requests : Opens(q) => q = r
                /\ Signalled(req[r], field)

\* While the last press is a delete that nothing was beside, its request is the
\* only one, until Undo is there.
Offering(r) ==
  /\ UnderWay(r) /\ req[r].op = "delete" /\ req[r].id = offered
  /\ \A q \in Requests : UnderWay(q) => q = r
OfferStands == offered # 0 => (Quiet /\ flash = offered) \/ \E r \in Requests : Offering(r)

\* An entry that is not contested is not restored here while the confirmation of
\* its delete is still to come; and if it is not deleted, no confirmation is to
\* come, and one that is there is about to be cleared by the answer of its Undo.
Told(op, i) == \E r \in Requests : Answered(r) /\ req[r].op = op /\ req[r].id = i
UndoFits(i) ==
  i \notin contested => /\ ~(Told("delete", i) /\ Doing("restore", i))
                        /\ Live(i) => ~Told("delete", i) /\ (flash = i => Told("restore", i))
UndoKnown == /\ flash # 0 => flash \in DOMAIN entries
             /\ \A r \in Requests : Answered(r) /\ req[r].op = "delete" => req[r].id \in DOMAIN entries
UndoStands == UndoKnown /\ \A i \in DOMAIN entries : UndoFits(i)

IInv == /\ DialogTypeOK /\ OnlyEdits /\ AnswersFit
        /\ OneOpening /\ DialogIsItsOwn /\ OfferStands /\ UndoStands

(***************************************************************************)
(* Answers.                                                                *)
(***************************************************************************)
LEMMA Singles ==
  ASSUME NEW S, NEW a \in S
  PROVE  <<a>> \in Seq(S) /\ Len(<<a>>) = 1 /\ Head(<<a>>) = a
  OBVIOUS

LEMMA Pairs ==
  ASSUME NEW S, NEW a \in S, NEW b \in S
  PROVE  /\ <<a, b>> \in Seq(S) /\ Len(<<a, b>>) = 2 /\ <<a, b>> # <<>>
         /\ Head(<<a, b>>) = a /\ Tail(<<a, b>>) = <<b>>
  OBVIOUS

LEMMA Triples ==
  ASSUME NEW S, NEW a \in S, NEW b \in S, NEW c \in S
  PROVE  /\ <<a, b, c>> \in Seq(S) /\ Len(<<a, b, c>>) = 3
         /\ Head(<<a, b, c>>) = a /\ Tail(<<a, b, c>>) = <<b, c>>
  OBVIOUS

LEMMA Appended ==
  ASSUME NEW S, NEW a \in S, NEW b \in S
  PROVE  Append(<<a>>, b) = <<a, b>>
<1>1. <<a>> \in Seq(S) /\ <<a, b>> \in Seq(S) /\ Len(<<a>>) = 1 /\ Len(<<a, b>>) = 2
  OBVIOUS
<1>2. Append(<<a>>, b) \in Seq(S) /\ Len(Append(<<a>>, b)) = 2
  BY <1>1, AppendProperties
<1>3. Append(<<a>>, b)[1] = a /\ Append(<<a>>, b)[2] = b
  BY <1>1, AppendProperties
<1>4. \A i \in 1 .. Len(Append(<<a>>, b)) : Append(<<a>>, b)[i] = <<a, b>>[i]
  BY <1>2, <1>3
<1> QED
  BY <1>1, <1>2, <1>4, SeqEqual

LEMMA PatchTypes ==
  /\ Gone \in Patches /\ Flash \in Patches
  /\ \A i \in Nat : Confirmation(i) \in Patches
  /\ \A t \in Texts : Signal(t) \in Patches
  /\ \A i \in Nat, t \in Texts : Dialog(i, t) \in Patches
  BY DEF Patches, Gone, Flash, Confirmation, Signal, Dialog

LEMMA Joined ==
  ASSUME NEW S, NEW a \in S, NEW b \in S, NEW c \in S
  PROVE  <<a>> \o <<b>> \o <<c>> = <<a, b, c>>
<1>1. <<a>> \o <<b>> = <<a, b>>
  <2>1. <<a>> \in Seq(S) /\ <<b>> \in Seq(S) /\ <<a, b>> \in Seq(S) /\ Len(<<a, b>>) = 2
    OBVIOUS
  <2>2. <<a>> \o <<b>> \in Seq(S) /\ Len(<<a>> \o <<b>>) = 2
    BY <2>1, ConcatProperties
  <2>3. (<<a>> \o <<b>>)[1] = a /\ (<<a>> \o <<b>>)[2] = b
    BY <2>1, ConcatProperties
  <2>4. \A i \in 1 .. Len(<<a>> \o <<b>>) : (<<a>> \o <<b>>)[i] = <<a, b>>[i]
    BY <2>2, <2>3
  <2> QED
    BY <2>1, <2>2, <2>4, SeqEqual
<1>2. <<a, b>> \o <<c>> = <<a, b, c>>
  <2>1. <<a, b>> \in Seq(S) /\ <<c>> \in Seq(S) /\ <<a, b, c>> \in Seq(S) /\ Len(<<a, b, c>>) = 3
    OBVIOUS
  <2>2. <<a, b>> \o <<c>> \in Seq(S) /\ Len(<<a, b>> \o <<c>>) = 3
    BY <2>1, ConcatProperties
  <2>3. (<<a, b>> \o <<c>>)[1] = a /\ (<<a, b>> \o <<c>>)[2] = b /\ (<<a, b>> \o <<c>>)[3] = c
    BY <2>1, ConcatProperties
  <2>4. \A i \in 1 .. Len(<<a, b>> \o <<c>>) : (<<a, b>> \o <<c>>)[i] = <<a, b, c>>[i]
    BY <2>2, <2>3
  <2> QED
    BY <2>1, <2>2, <2>4, SeqEqual
<1> QED
  BY <1>1, <1>2

\* The answers the handlers make, as tuples.
LEMMA WholeAnswers ==
  /\ \A i \in Nat : DeletedAnswer(i) = <<Gone, Flash, Confirmation(i)>>
  /\ Append(Refreshed, Gone) = <<Flash, Gone>>
  /\ Append(Refreshed, Flash) = <<Flash, Flash>>
<1>1. \A i \in Nat : DeletedAnswer(i) = <<Gone, Flash, Confirmation(i)>>
  BY PatchTypes, Joined DEF DeletedAnswer, Refreshed
<1>2. Append(Refreshed, Gone) = <<Flash, Gone>> /\ Append(Refreshed, Flash) = <<Flash, Flash>>
  BY PatchTypes, Appended DEF Refreshed
<1> QED
  BY <1>1, <1>2

LEMMA AfterFields ==
  ASSUME NEW q \in Request, Len(q.out) # 1
  PROVE  /\ q.op \in Ops /\ q.id \in Nat /\ q.out \in Seq(Patches)
         /\ After(q).op = q.op /\ After(q).id = q.id
         /\ After(q).stage = q.stage /\ After(q).out = Tail(q.out)
         /\ Tail(q.out) \in Seq(Patches) => After(q) \in Request
  BY DEF Request, After

\* What the first patch of an answer can be, and what is left after it.
PatchFits(q, p) ==
  /\ p \in Patches
  /\ p.patch \in {"signal", "dialog"} => q.op = "open"
  /\ p.patch = "flash" /\ p.undo # 0 => q.op = "delete" /\ p.undo = q.id
  /\ q.op = "restore" => p = Flash
LastFits(q, p) ==
  /\ PatchFits(q, p)
  /\ p.patch # "signal"
  /\ q.op = "delete" => p = Confirmation(q.id)
NextFits(q, p, n) ==
  /\ PatchFits(q, p)
  /\ p.patch # "dialog"
  /\ n.patch = "dialog" => p.patch = "signal" /\ p.text = n.text

\* The two shapes of an answer still to come: its last patch, or one before others.
LEMMA LastPatch ==
  ASSUME NEW q \in Request, NEW p \in Patches, q.out = <<p>>, LastFits(q, p)
  PROVE  Len(q.out) = 1 /\ LastFits(q, Head(q.out))
  BY Singles

Leaves(q, rest) ==
  \A r \in Request : r.op = q.op /\ r.id = q.id /\ r.out = rest => AnswerFits(r)

LEMMA PatchBefore ==
  ASSUME NEW q \in Request, NEW rest \in Seq(Patches), NEW n, Tail(q.out) = rest, Head(rest) = n,
         Len(q.out) \in Nat \ {0, 1}, NextFits(q, Head(q.out), n),
         Leaves(q, rest)
  PROVE  /\ Len(q.out) \in Nat \ {0, 1}
         /\ NextFits(q, Head(q.out), Head(Tail(q.out)))
         /\ After(q) \in Request /\ AnswerFits(After(q))
  BY AfterFields DEF Leaves

NextPatchFits(q) ==
  \/ Len(q.out) = 1 /\ LastFits(q, Head(q.out))
  \/ /\ Len(q.out) \in Nat \ {0, 1}
     /\ NextFits(q, Head(q.out), Head(Tail(q.out)))
     /\ After(q) \in Request /\ AnswerFits(After(q))

LEMMA NextPatch ==
  ASSUME NEW q \in Request, AnswerFits(q)
  PROVE  NextPatchFits(q)
<1>1. ASSUME NEW p \in Patches, q.out = <<p>>, LastFits(q, p) PROVE NextPatchFits(q)
  BY <1>1, LastPatch DEF NextPatchFits
<1>2. ASSUME NEW p \in Patches, NEW n \in Patches, q.out = <<p, n>>, NextFits(q, p, n), Leaves(q, <<n>>)
      PROVE  NextPatchFits(q)
  <2>1. /\ <<n>> \in Seq(Patches) /\ Head(<<n>>) = n
        /\ Tail(q.out) = <<n>> /\ Head(q.out) = p /\ Len(q.out) = 2
    BY <1>2, Singles, Pairs
  <2> QED
    <3>1. NextFits(q, Head(q.out), n) /\ Len(q.out) \in Nat \ {0, 1}
      BY <1>2, <2>1
    <3>2. /\ NextFits(q, Head(q.out), Head(Tail(q.out)))
          /\ After(q) \in Request /\ AnswerFits(After(q))
      BY <1>2, <2>1, <3>1, PatchBefore
    <3> QED
      BY <3>1, <3>2 DEF NextPatchFits
<1>3. ASSUME NEW p \in Patches, NEW n \in Patches, NEW z \in Patches, q.out = <<p, n, z>>,
             NextFits(q, p, n), Leaves(q, <<n, z>>)
      PROVE  NextPatchFits(q)
  <2>1. /\ <<n, z>> \in Seq(Patches) /\ Head(<<n, z>>) = n
        /\ Tail(q.out) = <<n, z>> /\ Head(q.out) = p /\ Len(q.out) = 3
    BY <1>3, Pairs, Triples
  <2> QED
    <3>1. NextFits(q, Head(q.out), n) /\ Len(q.out) \in Nat \ {0, 1}
      BY <1>3, <2>1
    <3>2. /\ NextFits(q, Head(q.out), Head(Tail(q.out)))
          /\ After(q) \in Request /\ AnswerFits(After(q))
      BY <1>3, <2>1, <3>1, PatchBefore
    <3> QED
      BY <3>1, <3>2 DEF NextPatchFits
<1>4. q.op \in Ops /\ q.id \in Nat
  BY DEF Request
<1> USE PatchTypes
<1>5. CASE q.op = "open"
  <2>1. CASE q.out = <<Gone, Flash>>
    BY <1>2, <1>5, <2>1 DEF NextFits, PatchFits, Leaves, AnswerFits, OpenAnswer, Gone, Flash
  <2>2. CASE q.out = <<Flash>>
    BY <1>1, <1>5, <2>2 DEF LastFits, PatchFits, Flash
  <2>3. ASSUME NEW i \in Nat, NEW t \in Texts, q.out = <<Signal(t), Dialog(i, t)>>
        PROVE  NextPatchFits(q)
    <3>1. NextFits(q, Signal(t), Dialog(i, t))
      BY <1>5 DEF NextFits, PatchFits, Signal, Dialog
    <3> QED
      BY <1>2, <1>5, <2>3, <3>1 DEF Leaves, AnswerFits, OpenAnswer
  <2>4. ASSUME NEW i \in Nat, NEW t \in Texts, q.out = <<Dialog(i, t)>>
        PROVE  NextPatchFits(q)
    BY <1>1, <1>5, <2>4 DEF LastFits, PatchFits, Dialog
  <2> QED
    BY <1>5, <2>1, <2>2, <2>3, <2>4 DEF AnswerFits, OpenAnswer
<1>6. CASE q.op = "close"
  BY <1>1, <1>6 DEF AnswerFits, LastFits, PatchFits, Gone
<1>7. CASE q.op = "rename"
  <2>1. CASE q.out = <<Gone>>
    BY <1>1, <1>7, <2>1 DEF LastFits, PatchFits, Gone
  <2>2. CASE q.out = <<Flash, Gone>>
    BY <1>2, <1>7, <2>2 DEF AnswerFits, Leaves, NextFits, PatchFits, Gone, Flash
  <2> QED
    BY <1>7, <2>1, <2>2 DEF AnswerFits
<1>8. CASE q.op = "delete"
  <2>1. CASE q.out = <<Gone, Flash, Confirmation(q.id)>>
    <3>1. NextFits(q, Gone, Flash)
      BY <1>8 DEF NextFits, PatchFits, Gone, Flash
    <3>2. Leaves(q, <<Flash, Confirmation(q.id)>>)
      BY <1>8 DEF AnswerFits, Leaves
    <3> QED
      BY <1>3, <1>4, <2>1, <3>1, <3>2
  <2>2. CASE q.out = <<Flash, Confirmation(q.id)>>
    BY <1>2, <1>4, <1>8, <2>2 DEF AnswerFits, Leaves, NextFits, PatchFits, Flash, Confirmation
  <2>3. CASE q.out = <<Confirmation(q.id)>>
    BY <1>1, <1>4, <1>8, <2>3 DEF LastFits, PatchFits, Confirmation
  <2> QED
    BY <1>8, <2>1, <2>2, <2>3 DEF AnswerFits
<1>9. CASE q.op = "restore"
  <2>1. CASE q.out = <<Flash>>
    BY <1>1, <1>9, <2>1 DEF LastFits, PatchFits, Flash
  <2>2. CASE q.out = <<Flash, Flash>>
    BY <1>2, <1>9, <2>2 DEF AnswerFits, Leaves, NextFits, PatchFits, Flash
  <2> QED
    BY <1>9, <2>1, <2>2 DEF AnswerFits
<1> QED
  BY <1>4, <1>5, <1>6, <1>7, <1>8, <1>9 DEF Ops

(***************************************************************************)
(* The person at the page.                                                 *)
(***************************************************************************)
\* A request that moves leaves the others.
LEMMA Moved ==
  ASSUME DialogTypeOK, NEW r \in Requests, NEW q \in Request \cup {None}, req' = [req EXCEPT ![r] = q]
  PROVE  /\ req' \in [Requests -> Request \cup {None}]
         /\ \A s \in Requests : req'[s] = IF s = r THEN q ELSE req[s]
<1>1. req \in [Requests -> Request \cup {None}]
  BY DEF DialogTypeOK
<1> QED
  BY <1>1

Pressed(op, id, text) == [op |-> op, id |-> id, text |-> text, stage |-> "sent", out |-> <<>>]

LEMMA PressedType ==
  ASSUME NEW op \in Ops, NEW id \in Nat, NEW text \in Texts
  PROVE  /\ Pressed(op, id, text) \in Request /\ Pressed(op, id, text) # None
         /\ Pressed(op, id, text).op = op /\ Pressed(op, id, text).id = id
         /\ Pressed(op, id, text).stage = "sent"
<1>1. <<>> \in Seq(Patches)
  OBVIOUS
<1>2. Pressed(op, id, text) \in Request
  BY <1>1 DEF Request, Pressed
<1> QED
  BY <1>2, NullAssumption DEF Pressed

LEMMA NoDialogType == NoDialog \in Slots
<1>1. Blank \in Texts
  BY DialogAssumption
<1> QED
  BY <1>1 DEF NoDialog, Slots

LEMMA PressKeeps ==
  ASSUME IInv, NEW r \in Requests, NEW op \in Ops, NEW id \in Nat, NEW text \in Texts,
         Press(r, op, id, text), op = "open" => ~Showing,
         (slot' = slot /\ typed' = typed) \/ (slot' = NoDialog /\ typed' = FALSE),
         deleting' \in Requests \cup {None}
  PROVE  IInv'
<1>0. /\ DialogTypeOK /\ OnlyEdits /\ AnswersFit
      /\ OneOpening /\ DialogIsItsOwn /\ OfferStands /\ UndoStands
  BY DEF IInv
<1>1. PICK q \in Request : /\ q = Pressed(op, id, text) /\ q # None
                           /\ q.op = op /\ q.id = id /\ q.stage = "sent"
  BY PressedType
<1>2. /\ req[r] = None /\ req' = [req EXCEPT ![r] = q]
      /\ UNCHANGED <<companies, entries, now, call, field, flash>>
  BY <1>1 DEF Press, vars, Pressed, UnderWay
<1>3. /\ req' \in [Requests -> Request \cup {None}]
      /\ \A s \in Requests : req'[s] = IF s = r THEN q ELSE req[s]
  BY <1>0, <1>1, <1>2, Moved
<1>4. DialogTypeOK'
  <2>1. TypeOK' /\ field' \in Texts /\ flash' \in Nat
    BY <1>0, <1>2 DEF DialogTypeOK, TypeOK
  <2>2. slot' \in Slots /\ typed' \in BOOLEAN
    BY <1>0, NoDialogType DEF DialogTypeOK, Press
  <2>3. offered' \in Nat /\ crossed' \in BOOLEAN /\ contested' \subseteq Nat
    BY <1>0 DEF DialogTypeOK, Press, Opening
  <2>4. \A s \in Requests : /\ (UnderWay(s) /\ req[s].stage = "store" <=> ~Idle(s))'
                           /\ (~Idle(s) => call[s].op = req[s].op /\ call[s].id = req[s].id)'
    BY <1>0, <1>1, <1>2, <1>3 DEF DialogTypeOK, Idle, UnderWay
  <2> QED
    BY <1>3, <2>1, <2>2, <2>3, <2>4 DEF DialogTypeOK
<1>5. OnlyEdits'
  BY <1>0, <1>2 DEF OnlyEdits, Idle
<1>6. AnswersFit'
  BY <1>0, <1>1, <1>3 DEF AnswersFit, Answered, UnderWay
<1>7. Showing' => Showing /\ slot' = slot /\ typed' = typed
  BY DEF Showing
<1>8. OneOpening'
  <2>1. CASE op = "open"
    <3>1. ~crossed' => \A s \in Requests : req[s] # None => req[s].op # "open"
      BY <2>1 DEF Press, Opening, UnderWay
    <3>2. \A s \in Requests : s # r => req'[s] = req[s]
      BY <1>3
    <3>3. ~crossed' => \A s \in Requests : Opens(s)' => s = r
      BY <3>1, <3>2 DEF Opens, UnderWay
    <3>4. req'[r].stage = "sent" /\ ~Showing'
      BY <1>1, <1>3, <1>7, <2>1
    <3> QED
      BY <3>3, <3>4 DEF OneOpening, Signalled
  <2>2. CASE op # "open"
    <3>1. crossed' = crossed
      BY <2>2 DEF Press
    <3>2. \A s \in Requests : Opens(s)' => Opens(s) /\ req'[s] = req[s]
      BY <1>1, <1>3, <2>2 DEF Opens, UnderWay
    <3> QED
      BY <1>0, <1>2, <1>7, <3>1, <3>2 DEF OneOpening, Signalled
  <2> QED
    BY <2>1, <2>2
<1>9. DialogIsItsOwn'
  BY <1>0, <1>2, <1>7 DEF DialogIsItsOwn, DialogShowsItsName, Press
<1>10. OfferStands'
  <2>1. CASE op = "delete" /\ Quiet
    <3>1. offered' = id
      BY <2>1 DEF Press
    <3>2. \A s \in Requests : UnderWay(s)' => s = r
      BY <1>3, <2>1 DEF Quiet, UnderWay
    <3>3. Offering(r)'
      BY <1>1, <1>3, <2>1, <3>1, <3>2 DEF Offering, UnderWay
    <3> QED
      BY <3>3 DEF OfferStands
  <2>2. CASE ~(op = "delete" /\ Quiet)
    BY <2>2 DEF OfferStands, Press
  <2> QED
    BY <2>1, <2>2
<1>11. UndoStands'
  <2>1. \A s \in Requests : (Answered(s)' => Answered(s) /\ req'[s] = req[s])
                            /\ (Answered(s) => Answered(s)' /\ req'[s] = req[s])
    BY <1>1, <1>2, <1>3 DEF Answered, UnderWay
  <2>2. \A o, i : (Told(o, i)' => Told(o, i)) /\ (Told(o, i) => Told(o, i)')
    BY <2>1 DEF Told
  <2>3. ASSUME NEW i \in DOMAIN entries PROVE UndoFits(i)'
    <3>1. CASE i \in contested'
      BY <3>1 DEF UndoFits
    <3>2. CASE i \notin contested'
      <4>1. i \notin contested
        BY <3>2 DEF Press
      <4>2. Doing("restore", i)' => Doing("restore", i) \/ (op = "restore" /\ id = i)
        BY <1>1, <1>3 DEF Doing, UnderWay
      <4>3. op = "restore" /\ id = i => ~Told("delete", i)
        BY <3>2 DEF Press, Doing, Told, Answered
      <4> QED
        BY <1>0, <1>2, <2>2, <4>1, <4>2, <4>3 DEF UndoFits, UndoStands, Live
    <3> QED
      BY <3>1, <3>2
  <2> QED
    BY <1>0, <1>2, <2>1, <2>3 DEF UndoStands, UndoKnown
<1> QED
  BY <1>4, <1>5, <1>6, <1>8, <1>9, <1>10, <1>11 DEF IInv

LEMMA TypeKeeps ==
  ASSUME IInv, NEW text \in Tasks, Type(text)
  PROVE  IInv'
<1>0. /\ DialogTypeOK /\ OnlyEdits /\ AnswersFit /\ Showing
      /\ OneOpening /\ DialogIsItsOwn /\ OfferStands /\ UndoStands
  BY DEF IInv, Type
<1>1. /\ UNCHANGED <<companies, entries, now, call, slot, deleting, flash, req, offered, crossed, contested>>
      /\ field' = text /\ typed' = TRUE
  BY DEF Type, vars, history
<1>2. DialogTypeOK'
  BY <1>0, <1>1 DEF DialogTypeOK, TypeOK, UnderWay, Idle, Texts
<1>3. OnlyEdits' /\ AnswersFit'
  BY <1>0, <1>1 DEF OnlyEdits, AnswersFit, Answered, UnderWay, Idle
<1>4. OneOpening' /\ DialogIsItsOwn'
  BY <1>0, <1>1 DEF OneOpening, DialogIsItsOwn, DialogShowsItsName, Opens, UnderWay, Showing
<1>5. OfferStands' /\ UndoStands'
  BY <1>0, <1>1 DEF OfferStands, Offering, Quiet, UndoStands, UndoKnown, UndoFits, Told, Answered, Doing,
              UnderWay, Live
<1> QED
  BY <1>2, <1>3, <1>4, <1>5 DEF IInv

(***************************************************************************)
(* The handlers, up to the statement.                                      *)
(***************************************************************************)
\* Request r, sent, is now q: answered, over, or on its way to the store.
Same(a, b) == b.op = a.op /\ b.id = a.id
StatementOf(stmt, q) ==
  /\ stmt \in Call /\ stmt # None /\ stmt.op \in Edits
  /\ stmt.op = q.op /\ stmt.id = q.id
\* The page as it was, but that its dialog's delete may have ended.
PageStands == UNCHANGED <<slot, field, typed, flash>> /\ deleting' \in {None, deleting}
Handled(r, q) ==
  /\ req[r] # None /\ req[r].stage = "sent"
  /\ q \in Request \cup {None} /\ req' = [req EXCEPT ![r] = q]
  /\ q # None => Same(req[r], q)
  /\ PageStands /\ UNCHANGED <<companies, entries, now, crossed, contested>>
  /\ \/ /\ q = None \/ (q.stage = "answered" /\ q.op \in {"open", "close"})
        /\ q # None => AnswerFits(q) /\ Signalled(q, field)
        /\ call' = call
     \/ /\ q # None /\ q.stage = "store"
        /\ \E stmt : StatementOf(stmt, q) /\ call' = [call EXCEPT ![r] = stmt]
  /\ \/ offered' = 0
     \/ offered' = offered /\ (q = None => req[r].op # "delete")

LEMMA HandledKeeps ==
  ASSUME IInv, NEW r \in Requests, NEW q, Handled(r, q)
  PROVE  IInv'
<1>0. /\ DialogTypeOK /\ OnlyEdits /\ AnswersFit
      /\ OneOpening /\ DialogIsItsOwn /\ OfferStands /\ UndoStands
  BY DEF IInv
<1>1. /\ req[r] # None /\ req[r].stage = "sent"
      /\ q # None => q.op = req[r].op /\ q.id = req[r].id
      /\ UNCHANGED <<companies, entries, now, slot, field, typed, flash, crossed, contested>>
      /\ deleting' \in {None, deleting}
  BY DEF Handled, Same, PageStands
<1>2. /\ req' \in [Requests -> Request \cup {None}]
      /\ \A s \in Requests : req'[s] = IF s = r THEN q ELSE req[s]
  BY <1>0, Moved DEF Handled
<1>3. offered' \in {0, offered}
  BY DEF Handled
<1> DEFINE Called ==
      /\ call' \in [Callers -> Call]
      /\ \A s \in Callers : s # r => call'[s] = call[s]
      /\ call'[r] # None => q # None /\ q.stage = "store" /\ call'[r].op = q.op /\ call'[r].id = q.id
                            /\ call'[r].op \in Edits
      /\ call'[r] = None => q = None \/ q.stage # "store"
<1>4. Called
  <2>1. call \in [Callers -> Call] /\ r \in Callers /\ call[r] = None
    BY <1>0, <1>1, DialogAssumption DEF DialogTypeOK, TypeOK, UnderWay, Idle
  <2>2. CASE call' = call
    BY <2>1, <2>2 DEF Handled, StatementOf
  <2>3. ASSUME NEW stmt, StatementOf(stmt, q), call' = [call EXCEPT ![r] = stmt],
               q # None, q.stage = "store"
        PROVE  Called
    BY <2>1, <2>3 DEF StatementOf
  <2> QED
    BY <2>2, <2>3 DEF Handled
<1>5. DialogTypeOK'
  <2>1. TypeOK'
    BY <1>0, <1>1, <1>4 DEF DialogTypeOK, TypeOK
  <2>2. \A s \in Requests : /\ (UnderWay(s) /\ req[s].stage = "store" <=> ~Idle(s))'
                           /\ (~Idle(s) => call[s].op = req[s].op /\ call[s].id = req[s].id)'
    BY <1>0, <1>2, <1>4, DialogAssumption DEF DialogTypeOK, UnderWay, Idle
  <2> QED
    BY <1>0, <1>1, <1>2, <1>3, <2>1, <2>2 DEF DialogTypeOK
<1>6. OnlyEdits'
  BY <1>0, <1>4 DEF OnlyEdits, Idle
<1>7. AnswersFit'
  <2>1. q # None /\ q.stage = "answered" => AnswerFits(q)
    BY DEF Handled
  <2> QED
    BY <1>0, <1>2, <2>1 DEF AnswersFit, Answered, UnderWay
<1>8. OneOpening'
  <2>1. \A s \in Requests : Opens(s)' => Opens(s) /\ (s # r => req'[s] = req[s])
    BY <1>1, <1>2 DEF Opens, UnderWay
  <2>2. q # None => Signalled(q, field)
    BY DEF Handled, Signalled
  <2>3. \A s \in Requests : Opens(s)' => Signalled(req'[s], field) \/ req'[s] = req[s]
    BY <1>2, <2>2 DEF Opens, UnderWay
  <2> QED
    BY <1>0, <1>1, <2>1, <2>3 DEF OneOpening, Showing, Signalled
<1>9. DialogIsItsOwn'
  BY <1>0, <1>1 DEF DialogIsItsOwn, DialogShowsItsName, Showing
<1>10. OfferStands'
  <2>1. CASE offered' # 0
    <3>1. offered # 0 /\ offered' = offered /\ (q = None => req[r].op # "delete")
      BY <2>1 DEF Handled
    <3>2. PICK s \in Requests : Offering(s)
      BY <1>0, <1>1, <3>1 DEF OfferStands, Quiet, UnderWay
    <3>3. s = r /\ q # None
      BY <1>1, <3>1, <3>2 DEF Offering, UnderWay
    <3>4. Offering(r)'
      BY <1>1, <1>2, <3>1, <3>2, <3>3 DEF Offering, UnderWay
    <3> QED
      BY <3>4 DEF OfferStands
  <2>2. CASE offered' = 0
    BY <2>2 DEF OfferStands
  <2> QED
    BY <2>1, <2>2
<1>11. UndoStands'
  <2>1. \A o \in {"delete", "restore"} : \A s \in Requests :
          /\ Answered(s)' /\ req'[s].op = o => Answered(s) /\ req'[s] = req[s]
          /\ Answered(s) => Answered(s)' /\ req'[s] = req[s]
    BY <1>1, <1>2 DEF Answered, UnderWay, Handled
  <2>2. \A o \in {"delete", "restore"} : \A i : (Told(o, i)' => Told(o, i)) /\ (Told(o, i) => Told(o, i)')
    BY <2>1 DEF Told
  <2>3. \A i : Doing("restore", i)' => Doing("restore", i)
    BY <1>1, <1>2 DEF Doing, UnderWay
  <2>4. \A i \in DOMAIN entries : UndoFits(i)'
    BY <1>0, <1>1, <2>2, <2>3 DEF UndoFits, UndoStands, Live
  <2> QED
    BY <1>0, <1>1, <2>1, <2>4 DEF UndoStands, UndoKnown
<1> QED
  BY <1>5, <1>6, <1>7, <1>8, <1>9, <1>10, <1>11 DEF IInv

\* The request an answer leaves, and the one that goes to the store.
LEMMA AnsweredType ==
  ASSUME NEW r, req[r] \in Request, NEW out \in Seq(Patches), Answer(r, out),
         out = <<>> \/ \A q \in Request : Same(req[r], q) /\ q.out = out => AnswerFits(q)
  PROVE  \E q \in Request \cup {None} :
           /\ req' = [req EXCEPT ![r] = q]
           /\ q = None <=> out = <<>>
           /\ q # None => Same(req[r], q) /\ q.stage = "answered" /\ q.out = out /\ AnswerFits(q)
<1>1. CASE out = <<>>
  BY <1>1 DEF Answer
<1>2. CASE out # <<>>
  <2> DEFINE q == [req[r] EXCEPT !.stage = "answered", !.text = Blank, !.out = out]
  <2>1. Blank \in Texts
    BY DialogAssumption
  <2>2. q \in Request /\ Same(req[r], q) /\ q.stage = "answered" /\ q.out = out
    BY <2>1 DEF Request, Same
  <2>3. req' = [req EXCEPT ![r] = q]
    BY <1>2 DEF Answer
  <2>4. q # None /\ AnswerFits(q)
    BY <1>2, <2>2, NullAssumption
  <2> HIDE DEF q
  <2> QED
    BY <1>2, <2>2, <2>3, <2>4
<1> QED
  BY <1>1, <1>2

LEMMA StoredType ==
  ASSUME DialogTypeOK, NEW r \in Requests, req[r] \in Request, ToStore(r)
  PROVE  \E q \in Request :
           req' = [req EXCEPT ![r] = q] /\ q # None /\ Same(req[r], q) /\ q.stage = "store"
<1> DEFINE q == [req[r] EXCEPT !.stage = "store", !.text = Blank]
<1>1. Blank \in Texts
  BY DialogAssumption
<1>2. q \in Request /\ Same(req[r], q) /\ q.stage = "store"
  BY <1>1 DEF Request, Same
<1>3. req' = [req EXCEPT ![r] = q]
  BY DEF ToStore, DialogTypeOK
<1>4. q # None
  BY <1>2, NullAssumption
<1> HIDE DEF q
<1> QED
  BY <1>2, <1>3, <1>4

\* A press at an open dialog, or at an Undo, on its way to the store.
LEMMA IssuedKeeps ==
  ASSUME IInv, NEW r \in Requests, At(r, req[r].op, "sent"), ToStore(r), NEW stmt,
         StatementOf(stmt, req[r]), Issue(r, stmt),
         UNCHANGED <<pageVars, crossed, contested, offered>>
  PROVE  IInv'
<1>1. DialogTypeOK /\ req[r] \in Request /\ req[r] # None /\ req[r].stage = "sent"
  BY DEF IInv, DialogTypeOK, At, UnderWay
<1>2. PICK q \in Request :
        req' = [req EXCEPT ![r] = q] /\ q # None /\ Same(req[r], q) /\ q.stage = "store"
  BY <1>1, StoredType
<1>3. StatementOf(stmt, q)
  BY <1>2 DEF StatementOf, Same
<1>4. Handled(r, q)
  BY <1>1, <1>2, <1>3 DEF Handled, PageStands, pageVars, Issue
<1> QED
  BY <1>4, HandledKeeps

LEMMA HandlerKeeps ==
  ASSUME IInv, NEW r \in Requests,
         \/ GetEntryDialog(r) \/ GetCloseEntryDialog(r)
         \/ PostEntryTask(r) \/ PostEntryDelete(r) \/ PostEntryRestore(r)
  PROVE  IInv'
<1>0. DialogTypeOK /\ (req[r] # None => req[r] \in Request)
  BY DEF IInv, DialogTypeOK
<1>1. CASE GetEntryDialog(r)
  <2>1. req[r] # None /\ req[r].op = "open" /\ req[r].stage = "sent" /\ req[r].id \in Nat
    BY <1>0, <1>1 DEF GetEntryDialog, At, UnderWay, Request
  <2>2. PICK out : out = IF OwnEntry(req[r].id) THEN Opened(req[r].id) ELSE <<Gone, Flash>>
    OBVIOUS
  <2>3. out \in Seq(Patches) /\ out # <<>> /\ Len(out) = 2 /\ OpenAnswer(out)
    <3>1. CASE out = <<Gone, Flash>>
      <4>1. <<Gone, Flash>> \in Seq(Patches) /\ Len(<<Gone, Flash>>) = 2
        BY Pairs, PatchTypes
      <4> QED
        BY <3>1, <4>1 DEF OpenAnswer
    <3>2. ASSUME NEW t \in Texts, out = <<Signal(t), Dialog(req[r].id, t)>>
          PROVE  <2>3
      <4> DEFINE two == <<Signal(t), Dialog(req[r].id, t)>>
      <4>1. two \in Seq(Patches) /\ Len(two) = 2 /\ two # <<>>
        BY <2>1, Pairs, PatchTypes
      <4>2. OpenAnswer(two)
        BY <2>1 DEF OpenAnswer
      <4> HIDE DEF two
      <4>3. out = two
        BY <3>2 DEF two
      <4> QED
        BY <4>1, <4>2, <4>3
    <3>3. ASSUME OwnEntry(req[r].id)
          PROVE  entries[req[r].id].task \in Texts
      <4>1. req[r].id \in DOMAIN entries /\ entries \in Seq(Entry)
        BY <1>0, <3>3 DEF DialogTypeOK, TypeOK, OwnEntry
      <4>2. entries[req[r].id] \in Entry
        BY <4>1
      <4> QED
        BY <4>2 DEF Entry
    <3> QED
      BY <2>2, <3>1, <3>2, <3>3 DEF Opened
  <2>a. \A q \in Request : Same(req[r], q) /\ q.out = out => AnswerFits(q)
    BY <2>1, <2>3 DEF Same, AnswerFits
  <2>4. Answer(r, out)
    BY <1>1, <2>2 DEF GetEntryDialog
  <2>5. PICK q \in Request \cup {None} :
           /\ req' = [req EXCEPT ![r] = q]
           /\ q # None /\ Same(req[r], q) /\ q.stage = "answered" /\ q.out = out /\ AnswerFits(q)
    BY <1>0, <2>1, <2>3, <2>4, <2>a, AnsweredType
  <2>6. Handled(r, q)
    BY <1>1, <2>1, <2>3, <2>5 DEF GetEntryDialog, Handled, PageStands, pageVars, Same, Signalled, vars, history
  <2> QED
    BY <2>6, HandledKeeps
<1>2. CASE GetCloseEntryDialog(r)
  <2>1. req[r] # None /\ req[r].op = "close" /\ req[r].stage = "sent"
    BY <1>2 DEF GetCloseEntryDialog, At, UnderWay
  <2>a. PICK out : out = <<Gone>>
    OBVIOUS
  <2>b. out \in Seq(Patches) /\ Len(out) = 1 /\ Head(out) = Gone
    BY <2>a, Singles, PatchTypes
  <2>2. out # <<>> /\ Answer(r, out)
    BY <1>2, <2>a, <2>b DEF GetCloseEntryDialog
  <2>c. \A q \in Request : Same(req[r], q) /\ q.out = out => AnswerFits(q)
    BY <2>1, <2>a DEF Same, AnswerFits
  <2>d. req[r] \in Request /\ out \in Seq(Patches) /\ out # <<>>
    BY <1>0, <2>1, <2>b, <2>2
  <2>3. PICK q \in Request \cup {None} :
           /\ req' = [req EXCEPT ![r] = q]
           /\ q # None /\ Same(req[r], q) /\ q.stage = "answered" /\ q.out = out /\ AnswerFits(q)
    BY <2>2, <2>c, <2>d, AnsweredType
  <2>e. Signalled(q, field)
    <3>1. Head(q.out) = Gone
      BY <2>b, <2>3
    <3>2. Gone.patch # "dialog"
      BY DEF Gone
    <3> QED
      BY <3>1, <3>2 DEF Signalled
  <2>4. Handled(r, q)
    BY <1>2, <2>1, <2>3, <2>e DEF GetCloseEntryDialog, Handled, PageStands, pageVars, Same, vars, history
  <2> QED
    BY <2>4, HandledKeeps
<1>3. ASSUME Answer(r, <<>>), At(r, req[r].op, "sent"), PageStands, UNCHANGED <<vars, crossed, contested>>,
             offered' = 0 \/ (offered' = offered /\ req[r].op # "delete")
      PROVE  IInv'
  <2>1. req[r] # None /\ req[r].stage = "sent" /\ req' = [req EXCEPT ![r] = None]
    BY <1>3 DEF At, UnderWay, Answer
  <2>2. Handled(r, None)
    BY <1>3, <2>1 DEF Handled, vars
  <2> QED
    BY <2>2, HandledKeeps
<1>4. CASE PostEntryTask(r)
  <2>1. At(r, req[r].op, "sent") /\ req[r].op = "rename" /\ req[r] \in Request
    BY <1>0, <1>4 DEF PostEntryTask, At, UnderWay
  <2>2. CASE Rename(r, User, req[r].id, req[r].text) /\ ToStore(r)
    <3> DEFINE stmt == [op |-> "rename", user |-> User, id |-> req[r].id, task |-> Collapse[req[r].text]]
    <3>1. stmt \in [op : {"rename"}, user : Users, id : Nat, task : Texts]
      BY <2>1, TextAssumption, DialogAssumption DEF Request
    <3>2. StatementOf(stmt, req[r])
      BY <2>1, <3>1, NullAssumption DEF StatementOf, Call, Edits
    <3>3. Issue(r, stmt)
      BY <2>2 DEF Rename
    <3> HIDE DEF stmt
    <3> QED
      BY <1>4, <2>1, <2>2, <3>2, <3>3, IssuedKeeps DEF PostEntryTask, history
  <2>3. CASE Answer(r, <<>>) /\ UNCHANGED vars
    BY <1>3, <1>4, <2>1, <2>3 DEF PostEntryTask, PageStands, pageVars, history
  <2> QED
    BY <1>4, <2>2, <2>3 DEF PostEntryTask
<1>5. ASSUME NEW op \in {"delete", "restore"}, At(r, op, "sent"), ToStore(r),
             Issue(r, [op |-> op, user |-> User, id |-> req[r].id]),
             UNCHANGED <<pageVars, crossed, contested, offered>>
      PROVE  IInv'
  <2>1. At(r, req[r].op, "sent") /\ req[r].op = op /\ req[r] \in Request
    BY <1>0, <1>5 DEF At, UnderWay
  <2> DEFINE stmt == [op |-> op, user |-> User, id |-> req[r].id]
  <2>2. stmt \in [op : {"delete", "restore"}, user : Users, id : Nat]
    BY <2>1, DialogAssumption DEF Request
  <2>3. StatementOf(stmt, req[r])
    BY <2>1, <2>2, NullAssumption DEF StatementOf, Call, Edits
  <2>4. Issue(r, stmt)
    BY <1>5
  <2> HIDE DEF stmt
  <2> QED
    BY <1>5, <2>1, <2>3, <2>4, IssuedKeeps
<1>6. CASE PostEntryDelete(r)
  <2>1. At(r, "delete", "sent") /\ At(r, req[r].op, "sent")
    BY <1>6 DEF PostEntryDelete, At
  <2>2. CASE OwnEntry(req[r].id)
    BY <1>5, <1>6, <2>1, <2>2 DEF PostEntryDelete, Delete, pageVars
  <2>3. CASE ~OwnEntry(req[r].id)
    BY <1>3, <1>6, <2>1, <2>3 DEF PostEntryDelete, RefuseDelete, PageStands
  <2> QED
    BY <2>2, <2>3
<1>7. CASE PostEntryRestore(r)
  BY <1>5, <1>7 DEF PostEntryRestore, Restore, history
<1> QED
  BY <1>1, <1>2, <1>4, <1>6, <1>7

(***************************************************************************)
(* The statements, and their answers.                                      *)
(***************************************************************************)
Edited(c) ==
  /\ companies' = companies /\ now' = now
  /\ call[c] # None /\ call' = [call EXCEPT ![c] = None]
  /\ entries' \in Seq(Entry) /\ DOMAIN entries' = DOMAIN entries
  /\ \A i \in DOMAIN entries : i # call[c].id => entries'[i] = entries[i]

LEMMA RowsType ==
  ASSUME DialogTypeOK, NEW i \in DOMAIN entries
  PROVE  entries[i] \in Entry /\ i \in Nat
  BY DEF DialogTypeOK, TypeOK

\* A change of one row, if there is one to change.
LEMMA ChangedEntry ==
  ASSUME DialogTypeOK, NEW c \in Callers, call[c] # None, NEW matches \in BOOLEAN, NEW row,
         ChangeEntry(c, matches, row), matches => call[c].id \in DOMAIN entries /\ row \in Entry
  PROVE  /\ Edited(c)
         /\ matches => entries'[call[c].id] = row
         /\ ~matches => entries' = entries
<1>1. entries \in Seq(Entry)
  BY DEF DialogTypeOK, TypeOK
<1>2. CASE matches
  <2>1. entries' = [entries EXCEPT ![call[c].id] = row]
    BY <1>2 DEF ChangeEntry
  <2>2. /\ entries' \in Seq(Entry) /\ DOMAIN entries' = DOMAIN entries
        /\ \A i \in DOMAIN entries : entries'[i] = IF i = call[c].id THEN row ELSE entries[i]
    BY <1>1, <1>2, <2>1
  <2> QED
    BY <1>2, <2>2 DEF Edited, ChangeEntry, Done
<1>3. CASE ~matches
  BY <1>1, <1>3 DEF Edited, ChangeEntry, Done
<1> QED
  BY <1>2, <1>3

LEMMA RenameEffect ==
  ASSUME DialogTypeOK, NEW c \in Callers, RenameEntry(c)
  PROVE  /\ Edited(c)
         /\ \A i \in DOMAIN entries : entries'[i].deleted = entries[i].deleted
<1> DEFINE row == [entries[call[c].id] EXCEPT !.task = call[c].task]
<1>1. call[c] # None /\ ChangeEntry(c, CanRename(c), row)
  BY DEF RenameEntry, Waiting, Idle
<1>2. call[c].task \in Texts
  BY DEF DialogTypeOK, TypeOK, Call, RenameEntry, Waiting, Idle
<1>3. CanRename(c) => call[c].id \in DOMAIN entries /\ row \in Entry
                      /\ row.deleted = entries[call[c].id].deleted
  BY <1>2, RowsType DEF CanRename, Mine, Entry
<1> HIDE DEF row
<1>4. PICK b \in BOOLEAN : b <=> CanRename(c)
  OBVIOUS
<1>5. ChangeEntry(c, b, row)
  BY <1>1, <1>4 DEF ChangeEntry
<1>6. /\ Edited(c)
      /\ b => entries'[call[c].id] = row
      /\ ~b => entries' = entries
  BY <1>1, <1>3, <1>4, <1>5, ChangedEntry
<1> QED
  BY <1>3, <1>4, <1>6 DEF Edited

LEMMA DeleteEffect ==
  ASSUME DialogTypeOK, NEW c \in Callers, DeleteEntry(c)
  PROVE  /\ Edited(c)
         /\ CanDelete(c) => call[c].id \in DOMAIN entries /\ entries'[call[c].id].deleted
         /\ ~CanDelete(c) => entries' = entries
<1> DEFINE row == [entries[call[c].id] EXCEPT !.deleted = TRUE]
<1>1. call[c] # None /\ ChangeEntry(c, CanDelete(c), row)
  BY DEF DeleteEntry, Waiting, Idle
<1>2. CanDelete(c) => call[c].id \in DOMAIN entries /\ row \in Entry /\ row.deleted
  BY RowsType DEF CanDelete, Mine, Entry
<1> HIDE DEF row
<1>3. PICK b \in BOOLEAN : b <=> CanDelete(c)
  OBVIOUS
<1>4. ChangeEntry(c, b, row)
  BY <1>1, <1>3 DEF ChangeEntry
<1>5. /\ Edited(c)
      /\ b => entries'[call[c].id] = row
      /\ ~b => entries' = entries
  BY <1>1, <1>2, <1>3, <1>4, ChangedEntry
<1> QED
  BY <1>2, <1>3, <1>5

LEMMA RestoreEffect ==
  ASSUME DialogTypeOK, NEW c \in Callers, RestoreEntry(c)
  PROVE  Edited(c)
<1> DEFINE row == [entries[call[c].id] EXCEPT !.deleted = FALSE]
<1>1. call[c] # None /\ ChangeEntry(c, CanRestore(c), row)
  BY DEF RestoreEntry, Waiting, Idle
<1>2. CanRestore(c) => call[c].id \in DOMAIN entries /\ row \in Entry
  BY RowsType DEF CanRestore, Mine, Entry
<1> HIDE DEF row
<1>3. PICK b \in BOOLEAN : b <=> CanRestore(c)
  OBVIOUS
<1>4. ChangeEntry(c, b, row)
  BY <1>1, <1>3 DEF ChangeEntry
<1> QED
  BY <1>1, <1>2, <1>3, <1>4, ChangedEntry

\* Request r, whose statement has run, is now q: answered or over.
Stored(r, q) ==
  /\ Edited(r)
  /\ req[r] # None /\ req[r].stage = "store"
  /\ q \in Request \cup {None} /\ req' = [req EXCEPT ![r] = q]
  /\ q # None => Same(req[r], q) /\ q.stage = "answered" /\ AnswerFits(q)
  /\ PageStands /\ crossed' = crossed /\ contested' \subseteq Nat
  /\ offered' = 0 \/ (offered' = offered /\ (q = None => req[r].op # "delete"))

LEMMA StoredKeeps ==
  ASSUME IInv, NEW r \in Requests, NEW q, Stored(r, q), UndoStands'
  PROVE  IInv'
<1>0. /\ DialogTypeOK /\ OnlyEdits /\ AnswersFit
      /\ OneOpening /\ DialogIsItsOwn /\ OfferStands
  BY DEF IInv
<1>1. /\ req[r] # None /\ req[r].stage = "store"
      /\ q # None => q.op = req[r].op /\ q.id = req[r].id /\ q.stage = "answered"
      /\ UNCHANGED <<companies, now, slot, field, typed, flash, crossed>>
      /\ deleting' \in {None, deleting}
      /\ contested' \subseteq Nat /\ offered' \in {0, offered}
  BY DEF Stored, Same, PageStands, Edited
<1>2. /\ req' \in [Requests -> Request \cup {None}]
      /\ \A s \in Requests : req'[s] = IF s = r THEN q ELSE req[s]
  BY <1>0, Moved DEF Stored
<1>3. req[r].op \in Edits /\ r \in Callers
  BY <1>0, <1>1, DialogAssumption DEF DialogTypeOK, OnlyEdits, UnderWay, Idle
<1>4. /\ call' \in [Callers -> Call] /\ call'[r] = None
      /\ \A s \in Callers : s # r => call'[s] = call[s]
  BY <1>0, <1>3 DEF DialogTypeOK, TypeOK, Stored, Edited, Call
<1>5. DialogTypeOK'
  <2>1. TypeOK'
    BY <1>0, <1>1, <1>4 DEF DialogTypeOK, TypeOK, Stored, Edited
  <2>2. \A s \in Requests : /\ (UnderWay(s) /\ req[s].stage = "store" <=> ~Idle(s))'
                           /\ (~Idle(s) => call[s].op = req[s].op /\ call[s].id = req[s].id)'
    BY <1>0, <1>1, <1>2, <1>4, DialogAssumption DEF DialogTypeOK, UnderWay, Idle
  <2> QED
    BY <1>0, <1>1, <1>2, <2>1, <2>2 DEF DialogTypeOK
<1>6. OnlyEdits'
  BY <1>0, <1>4 DEF OnlyEdits, Idle
<1>7. AnswersFit'
  <2>1. q # None => AnswerFits(q)
    BY DEF Stored
  <2> QED
    BY <1>0, <1>2, <2>1 DEF AnswersFit, Answered, UnderWay
<1>8. OneOpening'
  <2>1. \A s \in Requests : Opens(s)' => Opens(s) /\ req'[s] = req[s]
    BY <1>1, <1>2, <1>3 DEF Opens, UnderWay, Edits
  <2> QED
    BY <1>0, <1>1, <2>1 DEF OneOpening, Showing, Signalled
<1>9. DialogIsItsOwn'
  BY <1>0, <1>1 DEF DialogIsItsOwn, DialogShowsItsName, Showing
<1>10. OfferStands'
  <2>1. CASE offered' # 0
    <3>1. offered # 0 /\ offered' = offered /\ (q = None => req[r].op # "delete")
      BY <2>1 DEF Stored
    <3>2. PICK s \in Requests : Offering(s)
      BY <1>0, <1>1, <3>1 DEF OfferStands, Quiet, UnderWay
    <3>3. s = r /\ q # None
      BY <1>1, <3>1, <3>2 DEF Offering, UnderWay
    <3>4. Offering(r)'
      BY <1>1, <1>2, <3>1, <3>2, <3>3 DEF Offering, UnderWay
    <3> QED
      BY <3>4 DEF OfferStands
  <2>2. CASE offered' = 0
    BY <2>2 DEF OfferStands
  <2> QED
    BY <2>1, <2>2
<1> QED
  BY <1>5, <1>6, <1>7, <1>8, <1>9, <1>10 DEF IInv

\* What r's new request, told of by the end of its statement, means for Undo.
LEMMA StoredTells ==
  ASSUME IInv, NEW r \in Requests, NEW q, Stored(r, q)
  PROVE  /\ \A o, i : Told(o, i)' => Told(o, i) \/ (q # None /\ req[r].op = o /\ req[r].id = i)
         /\ \A o, i : Told(o, i) => Told(o, i)'
         /\ \A i : Doing("restore", i)' => Doing("restore", i)
         /\ \A i : q # None /\ req[r].op = "restore" /\ req[r].id = i => Told("restore", i)'
         /\ \A s \in Requests : Answered(s)' => \/ Answered(s) /\ req'[s] = req[s]
                                                \/ s = r /\ req'[s].op = req[r].op
                                                         /\ req'[s].id = req[r].id
         /\ flash' = flash /\ DOMAIN entries' = DOMAIN entries
<1>0. DialogTypeOK
  BY DEF IInv
<1>1. /\ req[r] # None /\ req[r].stage = "store" /\ req[r] \in Request /\ req[r].id \in Nat
      /\ q # None => q.op = req[r].op /\ q.id = req[r].id /\ q.stage = "answered"
      /\ flash' = flash /\ DOMAIN entries' = DOMAIN entries
  BY <1>0 DEF Stored, Same, PageStands, Edited, DialogTypeOK, Request
<1>2. \A s \in Requests : req'[s] = IF s = r THEN q ELSE req[s]
  BY <1>0, Moved DEF Stored
<1>3. \A s \in Requests : Answered(s)' => (Answered(s) /\ req'[s] = req[s]) \/ (s = r /\ q # None)
  BY <1>2 DEF Answered, UnderWay
<1>4. \A s \in Requests : Answered(s) => Answered(s)' /\ req'[s] = req[s]
  BY <1>1, <1>2 DEF Answered, UnderWay
<1>5. \A o, i : Told(o, i)' => Told(o, i) \/ (q # None /\ req[r].op = o /\ req[r].id = i)
  BY <1>1, <1>2, <1>3 DEF Told
<1>6. \A o, i : Told(o, i) => Told(o, i)'
  BY <1>4 DEF Told
<1>7. \A i : Doing("restore", i)' => Doing("restore", i)
  BY <1>1, <1>2 DEF Doing, UnderWay
<1>8. \A i : q # None /\ req[r].op = "restore" /\ req[r].id = i => Told("restore", i)'
  BY <1>1, <1>2 DEF Told, Answered, UnderWay
<1>9. \A s \in Requests : Answered(s)' => \/ Answered(s) /\ req'[s] = req[s]
                                          \/ s = r /\ req'[s].op = req[r].op /\ req'[s].id = req[r].id
  BY <1>1, <1>2, <1>3
<1> QED
  BY <1>1, <1>5, <1>6, <1>7, <1>8, <1>9

LEMMA RenamedKeeps == ASSUME IInv, NEW r \in Requests, Renamed(r) PROVE IInv'
<1>0. DialogTypeOK /\ UndoStands /\ r \in Callers
  BY DialogAssumption DEF IInv
<1>1. At(r, "rename", "store") /\ RenameEntry(r) /\ UNCHANGED <<pageVars, history>>
  BY DEF Renamed
<1>2. req[r] \in Request /\ req[r] # None /\ req[r].stage = "store" /\ req[r].op = "rename"
  BY <1>0, <1>1 DEF DialogTypeOK, At, UnderWay
<1>3. Edited(r) /\ \A i \in DOMAIN entries : entries'[i].deleted = entries[i].deleted
  BY <1>0, <1>1, RenameEffect
<1>4. PICK out : out = IF CanRename(r) THEN Append(Refreshed, Gone) ELSE <<>>
  OBVIOUS
<1>5. out = <<>> \/ out = <<Flash, Gone>>
  BY <1>4, WholeAnswers
<1>a. <<>> \in Seq(Patches) /\ <<Flash, Gone>> \in Seq(Patches)
  BY Pairs, PatchTypes
<1>6. out \in Seq(Patches) /\ Answer(r, out)
  BY <1>4, <1>5, <1>a DEF Renamed
<1>7. \A q \in Request : out # <<>> /\ Same(req[r], q) /\ q.out = out => AnswerFits(q)
  BY <1>2, <1>5 DEF AnswerFits, Same
<1>8. PICK q \in Request \cup {None} :
           /\ req' = [req EXCEPT ![r] = q]
           /\ q = None <=> out = <<>>
           /\ q # None => Same(req[r], q) /\ q.stage = "answered" /\ q.out = out /\ AnswerFits(q)
  BY <1>2, <1>6, <1>7, AnsweredType
<1>9. Stored(r, q)
  BY <1>0, <1>1, <1>2, <1>3, <1>8 DEF Stored, PageStands, pageVars, history, DialogTypeOK
<1>10. UndoStands'
  <2>1. contested' = contested
    BY <1>1 DEF history
  <2>2. \A i \in DOMAIN entries : UndoFits(i)'
    BY <1>0, <1>2, <1>3, <1>9, <2>1, StoredTells DEF UndoFits, UndoStands, Live
  <2> QED
    BY <1>0, <1>2, <1>9, <2>2, StoredTells DEF UndoStands, UndoKnown
<1> QED
  BY <1>9, <1>10, StoredKeeps

LEMMA DeletedKeeps == ASSUME IInv, NEW r \in Requests, Deleted(r) PROVE IInv'
<1>0. DialogTypeOK /\ UndoStands /\ r \in Callers
  BY DialogAssumption DEF IInv
<1>1. /\ At(r, "delete", "store") /\ DeleteEntry(r) /\ PageStands /\ crossed' = crossed
      /\ offered' = IF CanDelete(r) THEN offered ELSE 0
  BY DEF Deleted, RefuseDelete, PageStands
<1>2. req[r] \in Request /\ req[r] # None /\ req[r].stage = "store" /\ req[r].op = "delete"
  BY <1>0, <1>1 DEF DialogTypeOK, At, UnderWay
<1>3. PICK d \in Nat : d = req[r].id /\ d = call[r].id
  BY <1>0, <1>2 DEF DialogTypeOK, UnderWay, Request
<1>4. /\ Edited(r)
      /\ CanDelete(r) => d \in DOMAIN entries /\ entries'[d].deleted
      /\ ~CanDelete(r) => entries' = entries
  BY <1>0, <1>1, <1>3, DeleteEffect
<1>5. PICK out : out = IF CanDelete(r) THEN DeletedAnswer(req[r].id) ELSE <<>>
  OBVIOUS
<1>6. out = IF CanDelete(r) THEN <<Gone, Flash, Confirmation(d)>> ELSE <<>>
  BY <1>3, <1>5, WholeAnswers
<1>a. <<>> \in Seq(Patches) /\ <<Gone, Flash, Confirmation(d)>> \in Seq(Patches)
      /\ <<Gone, Flash, Confirmation(d)>> # <<>>
  BY Triples, PatchTypes
<1>7. out \in Seq(Patches) /\ Answer(r, out)
  BY <1>5, <1>6, <1>a DEF Deleted, RefuseDelete
<1>8. \A q \in Request : out # <<>> /\ Same(req[r], q) /\ q.out = out => AnswerFits(q)
  BY <1>2, <1>3, <1>6 DEF AnswerFits, Same
<1>9. PICK q \in Request \cup {None} :
           /\ req' = [req EXCEPT ![r] = q]
           /\ q = None <=> out = <<>>
           /\ q # None => Same(req[r], q) /\ q.stage = "answered" /\ q.out = out /\ AnswerFits(q)
  BY <1>2, <1>7, <1>8, AnsweredType
<1>10. /\ CanDelete(r) <=> q # None
       /\ contested' = Settled(r) /\ contested' \subseteq contested \cup {d}
       /\ contested \subseteq contested' \cup {d}
       /\ ~CanDelete(r) => contested' = contested
       /\ CanDelete(r) /\ Doing("restore", d) => d \in contested'
  BY <1>3, <1>6, <1>a, <1>9 DEF Deleted, Settled
<1>11. Stored(r, q)
  BY <1>0, <1>1, <1>2, <1>3, <1>4, <1>9, <1>10 DEF Stored, DialogTypeOK
<1>12. /\ \A o, i : Told(o, i)' => Told(o, i) \/ (q # None /\ o = "delete" /\ i = d)
       /\ \A o, i : Told(o, i) => Told(o, i)'
       /\ \A i : Doing("restore", i)' => Doing("restore", i)
       /\ flash' = flash /\ DOMAIN entries' = DOMAIN entries
  <2>1. \A o, i : Told(o, i)' => Told(o, i) \/ (q # None /\ req[r].op = o /\ req[r].id = i)
    BY <1>11, StoredTells
  <2>2. \A o, i : Told(o, i)' => Told(o, i) \/ (q # None /\ o = "delete" /\ i = d)
    BY <1>2, <1>3, <2>1
  <2> QED
    BY <1>11, <2>2, StoredTells
<1>13. ASSUME NEW i \in DOMAIN entries PROVE UndoFits(i)'
  <2>1. CASE i # d
    <3>1. entries'[i] = entries[i] /\ (i \in contested' <=> i \in contested)
      BY <1>3, <1>4, <1>10, <2>1 DEF Edited
    <3> QED
      BY <1>0, <1>12, <2>1, <3>1 DEF UndoFits, UndoStands, Live
  <2>2. CASE i = d /\ CanDelete(r)
    BY <1>4, <1>10, <1>12, <2>2 DEF UndoFits, Live
  <2>3. CASE ~CanDelete(r)
    BY <1>0, <1>4, <1>10, <1>12, <2>3 DEF UndoFits, UndoStands, Live
  <2> QED
    BY <2>1, <2>2, <2>3
<1>14. UndoStands'
  <2>1. \A s \in Requests : Answered(s)' /\ req'[s].op = "delete" => req'[s].id \in DOMAIN entries
    <3>1. ASSUME NEW s \in Requests, Answered(s)', req'[s].op = "delete"
          PROVE  req'[s].id \in DOMAIN entries
      <4>1. CASE Answered(s) /\ req'[s] = req[s]
        BY <1>0, <3>1, <4>1 DEF UndoStands, UndoKnown
      <4>2. CASE s = r /\ req'[s].id = req[r].id
        <5>1. q # None
          BY <1>9, <3>1, <4>2, Moved, <1>0 DEF Answered, UnderWay
        <5> QED
          BY <1>3, <1>4, <1>10, <4>2, <5>1
      <4> QED
        BY <1>11, <3>1, <4>1, <4>2, StoredTells
    <3> QED
      BY <3>1
  <2> QED
    BY <1>0, <1>12, <1>13, <2>1 DEF UndoStands, UndoKnown
<1> QED
  BY <1>11, <1>14, StoredKeeps

LEMMA RestoredKeeps == ASSUME IInv, NEW r \in Requests, Restored(r) PROVE IInv'
<1>0. DialogTypeOK /\ UndoStands /\ r \in Callers
  BY DialogAssumption DEF IInv
<1>1. At(r, "restore", "store") /\ RestoreEntry(r) /\ UNCHANGED <<pageVars, history>>
  BY DEF Restored
<1>2. req[r] \in Request /\ req[r] # None /\ req[r].stage = "store" /\ req[r].op = "restore"
  BY <1>0, <1>1 DEF DialogTypeOK, At, UnderWay
<1>3. PICK d \in Nat : d = req[r].id /\ d = call[r].id
  BY <1>0, <1>2 DEF DialogTypeOK, UnderWay, Request
<1>4. Edited(r)
  BY <1>0, <1>1, RestoreEffect
<1>5. PICK out : out = IF CanRestore(r) THEN Append(Refreshed, Flash) ELSE <<Flash>>
  OBVIOUS
<1>6. out = <<Flash>> \/ out = <<Flash, Flash>>
  BY <1>5, WholeAnswers
<1>a. /\ <<Flash>> \in Seq(Patches) /\ <<Flash, Flash>> \in Seq(Patches)
      /\ <<Flash>> # <<>> /\ <<Flash, Flash>> # <<>>
  BY Singles, Pairs, PatchTypes
<1>7. out \in Seq(Patches) /\ Answer(r, out) /\ out # <<>>
  BY <1>5, <1>6, <1>a DEF Restored
<1>8. \A q \in Request : Same(req[r], q) /\ q.out = out => AnswerFits(q)
  BY <1>2, <1>6 DEF AnswerFits, Same
<1>9. PICK q \in Request \cup {None} :
           /\ req' = [req EXCEPT ![r] = q]
           /\ q # None /\ Same(req[r], q) /\ q.stage = "answered" /\ q.out = out /\ AnswerFits(q)
  BY <1>2, <1>7, <1>8, AnsweredType
<1>10. Stored(r, q)
  BY <1>0, <1>1, <1>2, <1>4, <1>9 DEF Stored, PageStands, pageVars, history, DialogTypeOK
<1>11. /\ \A i : Told("delete", i)' => Told("delete", i)
       /\ \A o, i : Told(o, i) => Told(o, i)'
       /\ Told("restore", d)'
       /\ \A i : Doing("restore", i)' => Doing("restore", i)
       /\ flash' = flash /\ DOMAIN entries' = DOMAIN entries
       /\ contested' = contested
  <2>1. \A o, i : Told(o, i)' => Told(o, i) \/ (q # None /\ req[r].op = o /\ req[r].id = i)
    BY <1>10, StoredTells
  <2>2. \A i : Told("delete", i)' => Told("delete", i)
    BY <1>2, <2>1
  <2>3. \A i : q # None /\ req[r].op = "restore" /\ req[r].id = i => Told("restore", i)'
    BY <1>10, StoredTells
  <2>4. Told("restore", d)'
    BY <1>2, <1>3, <1>9, <2>3
  <2> QED
    BY <1>1, <1>10, <2>2, <2>4, StoredTells DEF history
<1>12. Doing("restore", d)
  BY <1>2, <1>3 DEF Doing, UnderWay
<1>13. ASSUME NEW i \in DOMAIN entries PROVE UndoFits(i)'
  <2>1. CASE i # d
    <3>1. entries'[i] = entries[i]
      BY <1>3, <1>4, <2>1 DEF Edited
    <3> QED
      BY <1>0, <1>11, <3>1 DEF UndoFits, UndoStands, Live
  <2>2. CASE i = d
    BY <1>0, <1>11, <1>12, <2>2 DEF UndoFits, UndoStands
  <2> QED
    BY <2>1, <2>2
<1>14. UndoStands'
  <2>1. \A s \in Requests : Answered(s)' /\ req'[s].op = "delete" => Answered(s) /\ req'[s] = req[s]
    BY <1>2, <1>10, StoredTells
  <2> QED
    BY <1>0, <1>11, <1>13, <2>1 DEF UndoStands, UndoKnown
<1> QED
  BY <1>10, <1>14, StoredKeeps

(***************************************************************************)
(* The patches of an answer reach the page.                                *)
(***************************************************************************)
LEMMA PatchKinds ==
  ASSUME NEW p \in Patches
  PROVE  \/ p.patch = "signal" /\ p.text \in Texts
         \/ p.patch = "dialog" /\ p.id \in Nat /\ p.text \in Texts
         \/ p.patch = "no dialog"
         \/ p.patch = "flash" /\ p.undo \in Nat
<1>1. CASE p \in [patch : {"signal"}, text : Texts]
  BY <1>1
<1>2. CASE p \in [patch : {"dialog"}, id : Nat, text : Texts]
  BY <1>2
<1>3. CASE p = Gone
  BY <1>3 DEF Gone
<1>4. CASE p \in [patch : {"flash"}, undo : Nat]
  BY <1>4
<1> QED
  BY <1>1, <1>2, <1>3, <1>4 DEF Patches

LEMMA PatchEffect ==
  ASSUME DialogTypeOK, NEW p \in Patches, Patch(p)
  PROVE  /\ slot' \in Slots /\ typed' \in BOOLEAN /\ field' \in Texts /\ flash' \in Nat
         /\ deleting' \in {deleting, None}
         /\ p.patch = "dialog" => slot'.name = p.text
         /\ p.patch # "dialog" => slot' \in {slot, NoDialog}
         /\ p.patch = "no dialog" => slot' = NoDialog
         /\ p.patch \notin {"dialog", "no dialog"} => slot' = slot /\ typed' = typed
         /\ p.patch = "signal" => field' = p.text
         /\ p.patch # "signal" => field' = field
         /\ p.patch = "flash" => flash' = p.undo
         /\ p.patch # "flash" => flash' = flash
<1>1. slot \in Slots /\ typed \in BOOLEAN /\ field \in Texts /\ flash \in Nat
  BY DEF DialogTypeOK
<1>2. CASE p.patch = "dialog"
  <2>1. p.id \in Nat /\ p.text \in Texts
    BY <1>2, PatchKinds
  <2>2. /\ slot' = [id |-> p.id, name |-> p.text] /\ field' = field /\ flash' = flash
        /\ typed' = FALSE /\ deleting' = None
    BY <1>1, <1>2 DEF Patch
  <2> QED
    BY <1>1, <1>2, <2>1, <2>2 DEF Slots
<1>3. CASE p.patch = "no dialog"
  BY <1>1, <1>3, NoDialogType DEF Patch
<1>4. CASE p.patch = "signal"
  <2>1. p.text \in Texts
    BY <1>4, PatchKinds
  <2> QED
    BY <1>1, <1>4, <2>1 DEF Patch
<1>5. CASE p.patch = "flash"
  <2>1. p.undo \in Nat
    BY <1>5, PatchKinds
  <2> QED
    BY <1>1, <1>5, <2>1 DEF Patch
<1> QED
  BY <1>2, <1>3, <1>4, <1>5, PatchKinds

LEMMA ReceiveKeeps == ASSUME IInv, NEW r \in Requests, Receive(r) PROVE IInv'
<1>0. /\ DialogTypeOK /\ OnlyEdits /\ AnswersFit
      /\ OneOpening /\ DialogIsItsOwn /\ OfferStands /\ UndoStands
  BY DEF IInv
<1>1. /\ Answered(r) /\ req[r] # None /\ req[r] \in Request /\ req[r].stage = "answered"
      /\ UNCHANGED <<companies, entries, now, call, offered, crossed, contested>>
  BY <1>0 DEF DialogTypeOK, Receive, Answered, UnderWay, vars, history
<1>2. PICK p : p = Head(req[r].out)
  OBVIOUS
<1>3. PICK q \in Request \cup {None} : q = After(req[r])
  <2>1. Len(req[r].out) = 1 \/ After(req[r]) \in Request
    BY <1>0, <1>1, NextPatch DEF AnswersFit, NextPatchFits
  <2> QED
    BY <2>1 DEF After
<1>4. /\ PatchFits(req[r], p)
      /\ q = None => LastFits(req[r], p) /\ Len(req[r].out) = 1
      /\ q # None => /\ NextFits(req[r], p, Head(q.out)) /\ AnswerFits(q)
                     /\ q.op = req[r].op /\ q.id = req[r].id /\ q.stage = "answered"
  <2>1. NextPatchFits(req[r])
    BY <1>0, <1>1, NextPatch DEF AnswersFit
  <2>2. CASE Len(req[r].out) = 1
    <3>1. q = None /\ LastFits(req[r], p)
      BY <1>2, <1>3, <2>1, <2>2 DEF NextPatchFits, After
    <3> QED
      BY <2>2, <3>1 DEF LastFits
  <2>3. CASE Len(req[r].out) # 1
    <3>1. q = After(req[r]) /\ q # None /\ AnswerFits(q) /\ NextFits(req[r], p, Head(Tail(req[r].out)))
      BY <1>2, <1>3, <2>1, <2>3, NullAssumption DEF NextPatchFits
    <3>2. q.op = req[r].op /\ q.id = req[r].id /\ q.stage = "answered" /\ q.out = Tail(req[r].out)
      BY <1>1, <2>3, <3>1, AfterFields
    <3> QED
      BY <3>1, <3>2 DEF NextFits
  <2> QED
    BY <2>2, <2>3
<1>5. req' = [req EXCEPT ![r] = q]
  BY <1>3 DEF Receive
<1>6. /\ req' \in [Requests -> Request \cup {None}]
      /\ \A s \in Requests : req'[s] = IF s = r THEN q ELSE req[s]
  BY <1>0, <1>5, Moved
<1>7. p \in Patches /\ Patch(p)
  BY <1>2, <1>4 DEF Receive, PatchFits
<1>8. /\ slot' \in Slots /\ typed' \in BOOLEAN /\ field' \in Texts /\ flash' \in Nat
      /\ deleting' \in {deleting, None}
      /\ p.patch = "dialog" => slot'.name = p.text
      /\ p.patch # "dialog" => slot' \in {slot, NoDialog}
      /\ p.patch = "no dialog" => slot' = NoDialog
      /\ p.patch \notin {"dialog", "no dialog"} => slot' = slot /\ typed' = typed
      /\ p.patch = "signal" => field' = p.text
      /\ p.patch # "signal" => field' = field
      /\ p.patch = "flash" => flash' = p.undo
      /\ p.patch # "flash" => flash' = flash
  BY <1>0, <1>7, PatchEffect
<1>9. DialogTypeOK'
  <2>1. TypeOK'
    BY <1>0, <1>1 DEF DialogTypeOK, TypeOK
  <2>2. call'[r] = None
    BY <1>0, <1>1 DEF DialogTypeOK, UnderWay, Idle
  <2>3. \A s \in Requests : /\ (UnderWay(s) /\ req[s].stage = "store" <=> ~Idle(s))'
                           /\ (~Idle(s) => call[s].op = req[s].op /\ call[s].id = req[s].id)'
    BY <1>0, <1>1, <1>4, <1>6, <2>2 DEF DialogTypeOK, UnderWay, Idle
  <2> QED
    BY <1>0, <1>1, <1>6, <1>8, <2>1, <2>3 DEF DialogTypeOK
<1>10. OnlyEdits'
  BY <1>0, <1>1 DEF OnlyEdits, Idle
<1>11. AnswersFit'
  BY <1>0, <1>4, <1>6 DEF AnswersFit, Answered, UnderWay
<1>12. OneOpening'
  <2>1. SUFFICES ASSUME ~crossed', NEW s \in Requests, Opens(s)'
                 PROVE  /\ ~Showing'
                        /\ \A z \in Requests : Opens(z)' => z = s
                        /\ Signalled(req'[s], field')
    BY DEF OneOpening
  <2>2. \A z \in Requests : Opens(z)' => Opens(z)
    BY <1>1, <1>4, <1>6 DEF Opens, UnderWay
  <2>3. ~Showing /\ (\A z \in Requests : Opens(z) => z = s) /\ Signalled(req[s], field)
    BY <1>0, <1>1, <2>1, <2>2 DEF OneOpening
  <2>4. CASE s # r
    <3>1. req[r].op # "open"
      BY <1>1, <2>3, <2>4 DEF Opens, UnderWay
    <3>2. p.patch \notin {"signal", "dialog"}
      BY <1>4, <3>1 DEF PatchFits
    <3> QED
      BY <1>6, <1>8, <2>2, <2>3, <2>4, <3>2 DEF Showing, Signalled
  <2>5. CASE s = r
    <3>1. q # None /\ req'[s] = q
      BY <1>6, <2>1, <2>5 DEF Opens, UnderWay
    <3>2. /\ p.patch # "dialog"
          /\ Head(q.out).patch = "dialog" => p.patch = "signal" /\ p.text = Head(q.out).text
      BY <1>4, <3>1 DEF NextFits
    <3> QED
      BY <1>8, <2>2, <2>3, <3>1, <3>2 DEF Showing, Signalled
  <2> QED
    BY <2>4, <2>5
<1>13. DialogIsItsOwn'
  <2>1. SUFFICES ASSUME ~crossed', Showing', ~typed' PROVE field' = slot'.name
    BY DEF DialogIsItsOwn, DialogShowsItsName
  <2>2. p.patch \in {"signal", "dialog"} => ~Showing /\ Signalled(req[r], field)
    BY <1>0, <1>1, <1>4, <2>1 DEF OneOpening, Opens, UnderWay, PatchFits
  <2>3. CASE p.patch = "dialog"
    <3>1. q = None
      BY <1>4, <2>3 DEF NextFits
    <3> QED
      BY <1>1, <1>2, <1>4, <1>8, <2>2, <2>3, <3>1 DEF Signalled
  <2>4. CASE p.patch = "signal"
    BY <1>8, <2>1, <2>2, <2>4 DEF Showing
  <2>5. CASE p.patch = "no dialog"
    BY <1>8, <2>1, <2>5 DEF Showing
  <2>6. CASE p.patch \notin {"signal", "dialog", "no dialog"}
    <3>1. slot' = slot /\ typed' = typed /\ field' = field
      BY <1>8, <2>6
    <3>2. ~typed
      BY <2>1, <3>1
    <3> QED
      BY <1>0, <1>1, <2>1, <3>1, <3>2 DEF DialogIsItsOwn, DialogShowsItsName, Showing
  <2> QED
    BY <2>3, <2>4, <2>5, <2>6
<1>14. OfferStands'
  <2>1. SUFFICES ASSUME offered' # 0 PROVE (Quiet' /\ flash' = offered') \/ Offering(r)'
    BY DEF OfferStands
  <2>2. PICK s \in Requests : Offering(s)
    BY <1>0, <1>1, <2>1 DEF OfferStands, Quiet, UnderWay
  <2>3. s = r
    BY <1>1, <2>2 DEF Offering, UnderWay
  <2>4. \A z \in Requests : z # r => req'[z] = None
    BY <1>6, <2>2, <2>3 DEF Offering, UnderWay
  <2>5. CASE q = None
    <3>1. p = Confirmation(offered)
      BY <1>4, <2>2, <2>3, <2>5 DEF LastFits, Offering
    <3>2. p.patch = "flash" /\ p.undo = offered
      BY <3>1 DEF Confirmation
    <3>3. Quiet'
      BY <1>6, <2>4, <2>5 DEF Quiet, UnderWay
    <3> QED
      BY <1>1, <1>8, <3>2, <3>3
  <2>6. CASE q # None
    BY <1>1, <1>4, <1>6, <2>2, <2>3, <2>4, <2>6 DEF Offering, UnderWay
  <2> QED
    BY <2>5, <2>6
<1>15. UndoStands'
  <2>1. \A s \in Requests : Answered(s)' => Answered(s) /\ req'[s].op = req[s].op /\ req'[s].id = req[s].id
    BY <1>1, <1>4, <1>6 DEF Answered, UnderWay
  <2>2. \A o, i : Told(o, i)' => Told(o, i)
    BY <2>1 DEF Told
  <2>3. \A i : Doing("restore", i)' => Doing("restore", i)
    BY <1>1, <1>4, <1>6 DEF Doing, UnderWay
  <2>4. \A i : Told("restore", i) => Told("restore", i)' \/ p = Flash
    BY <1>4, <1>6 DEF Told, Answered, UnderWay, PatchFits
  <2>5. flash' # flash => flash' = 0 \/ (flash' = req[r].id /\ req[r].op = "delete")
    BY <1>4, <1>8 DEF PatchFits
  <2>6. p = Flash => flash' = 0
    BY <1>8 DEF Flash
  <2>7. UndoKnown'
    <3>1. flash' # 0 => flash' \in DOMAIN entries
      BY <1>0, <1>1, <2>5 DEF UndoStands, UndoKnown
    <3>2. \A s \in Requests : Answered(s)' /\ req'[s].op = "delete" => req'[s].id \in DOMAIN entries
      BY <1>0, <2>1 DEF UndoStands, UndoKnown
    <3> QED
      BY <1>1, <3>1, <3>2 DEF UndoKnown
  <2>8. ASSUME NEW i \in DOMAIN entries PROVE UndoFits(i)'
    <3>1. UndoFits(i) /\ i # 0
      BY <1>0, <2>8 DEF UndoStands, DialogTypeOK, TypeOK
    <3>2. flash' = i /\ flash # i => Told("delete", i)
      BY <1>1, <2>5, <3>1 DEF Told
    <3>3. flash' = i => p # Flash
      BY <2>6, <3>1
    <3> QED
      BY <1>1, <2>2, <2>3, <2>4, <3>1, <3>2, <3>3 DEF UndoFits, Live
  <2> QED
    BY <1>1, <2>7, <2>8 DEF UndoStands
<1> QED
  BY <1>9, <1>10, <1>11, <1>12, <1>13, <1>14, <1>15 DEF IInv

(***************************************************************************)
(* Other tabs, and the whole.                                              *)
(***************************************************************************)
LEMMA OtherTabKeeps == ASSUME IInv, NEW c \in Callers \ Requests, OtherTab(c) PROVE IInv'
<1>0. /\ DialogTypeOK /\ OnlyEdits /\ AnswersFit
      /\ OneOpening /\ DialogIsItsOwn /\ OfferStands /\ UndoStands
  BY DEF IInv
<1>1. UNCHANGED <<slot, field, typed, deleting, flash, req, offered, crossed>>
  BY DEF OtherTab, pageVars
<1>2. AnswersFit' /\ OneOpening' /\ DialogIsItsOwn' /\ OfferStands'
  <2>1. AnswersFit' /\ OneOpening'
    BY <1>0, <1>1 DEF AnswersFit, Answered, UnderWay, OneOpening, Opens, Showing
  <2>2. DialogIsItsOwn'
    BY <1>0, <1>1 DEF DialogIsItsOwn, DialogShowsItsName, Showing
  <2>3. OfferStands'
    BY <1>0, <1>1 DEF OfferStands, Offering, Quiet, UnderWay
  <2> QED
    BY <2>1, <2>2, <2>3
<1>3. \A o, i : /\ Told(o, i)' => Told(o, i)
                /\ Told(o, i) => Told(o, i)'
                /\ Doing(o, i)' => Doing(o, i)
  BY <1>1 DEF Told, Answered, Doing, UnderWay
<1>4. \A s \in Requests : Answered(s)' => Answered(s)
  BY <1>1 DEF Answered, UnderWay
<1>5. ASSUME NEW stmt \in Call \cup {None}, stmt # None => stmt.op \in Edits,
             call' = [call EXCEPT ![c] = stmt]
      PROVE  /\ call' \in [Callers -> Call] /\ OnlyEdits'
             /\ \A s \in Requests : call'[s] = call[s]
  <2>1. call' \in [Callers -> Call] /\ \A s \in Callers : call'[s] = IF s = c THEN stmt ELSE call[s]
    BY <1>0, <1>5 DEF DialogTypeOK, TypeOK, Call
  <2> QED
    BY <1>0, <1>5, <2>1, DialogAssumption DEF OnlyEdits, Idle
<1>6. ASSUME \A s \in Requests : call'[s] = call[s], call' \in [Callers -> Call],
             companies' = companies, now' = now, entries' \in Seq(Entry), contested' \subseteq Nat
      PROVE  DialogTypeOK'
  BY <1>0, <1>1, <1>6 DEF DialogTypeOK, TypeOK, UnderWay, Idle
<1>7. ASSUME NEW op \in {"delete", "restore"}, NEW i \in Shared,
             Issue(c, [op |-> op, user |-> User, id |-> i]), contested' = contested
      PROVE  IInv'
  <2>1. PICK stmt : stmt = [op |-> op, user |-> User, id |-> i]
    OBVIOUS
  <2>2. stmt \in Call /\ stmt.op \in Edits
    BY <2>1, DialogAssumption DEF Call, Edits
  <2>3. /\ call' = [call EXCEPT ![c] = stmt]
        /\ companies' = companies /\ entries' = entries /\ now' = now
    BY <1>7, <2>1 DEF Issue
  <2>4. DialogTypeOK' /\ OnlyEdits'
    BY <1>0, <1>5, <1>6, <1>7, <2>2, <2>3 DEF DialogTypeOK, TypeOK
  <2>5. UndoStands'
    BY <1>0, <1>1, <1>3, <1>4, <1>7, <2>3 DEF UndoStands, UndoKnown, UndoFits, Live
  <2> QED
    BY <1>2, <2>4, <2>5 DEF IInv
<1>8. ASSUME Statement(c), contested' = contested \cup {call[c].id}
      PROVE  IInv'
  <2>1. RenameEntry(c) \/ DeleteEntry(c) \/ RestoreEntry(c)
    BY <1>0, <1>8 DEF Statement, OnlyEdits, Edits, CreateCompany, StartEntry, LogEntry, StopEntry, Waiting
  <2>2. Edited(c)
    BY <1>0, <2>1, RenameEffect, DeleteEffect, RestoreEffect
  <2>3. call[c].id \in Nat
    BY <1>0, <2>2 DEF DialogTypeOK, TypeOK, OnlyEdits, Edits, Call, Idle, Edited
  <2>4. DialogTypeOK' /\ OnlyEdits'
    BY <1>0, <1>5, <1>6, <1>8, <2>2, <2>3 DEF DialogTypeOK, Edited
  <2>5. ASSUME NEW i \in DOMAIN entries PROVE UndoFits(i)'
    BY <1>0, <1>1, <1>3, <1>8, <2>2, <2>5 DEF UndoStands, UndoFits, Live, Edited
  <2>6. UndoStands'
    BY <1>0, <1>1, <1>4, <2>2, <2>5 DEF UndoStands, UndoKnown, Edited
  <2> QED
    BY <1>2, <2>4, <2>6 DEF IInv
<1> QED
  BY <1>7, <1>8 DEF OtherTab, Delete, Restore

LEMMA IInvInit == DialogInit => IInv
<1> SUFFICES ASSUME DialogInit PROVE IInv
  OBVIOUS
<1>1. DialogTypeOK
  <2>1. PICK n : n = CHOOSE m \in Names : m # Blank /\ m \notin TooLong
    OBVIOUS
  <2>2. n \in Names
    BY <2>1, DialogAssumption
  <2>3. companies \in Seq(Company)
    <3>1. [user |-> User, name |-> n] \in Company
      BY <2>2, DialogAssumption DEF Company, Texts
    <3> QED
      BY <2>1, <3>1, Singles DEF DialogInit
  <2>4. entries \in Seq(Entry)
    <3> DEFINE row(i) == [user |-> User, company |-> 1, task |-> IF i = 1 THEN First ELSE Second,
                          started |-> now, stopped |-> None, manual |-> FALSE, deleted |-> FALSE]
    <3>1. now \in Int /\ First \in Texts /\ Second \in Texts
      BY TimeAssumption, DialogAssumption DEF DialogInit
    <3>2. \A i \in 1 .. 2 : row(i) \in Entry
      BY <3>1, DialogAssumption DEF Entry
    <3>3. entries = [i \in 1 .. 2 |-> row(i)]
      BY DEF DialogInit
    <3> HIDE DEF row
    <3>4. entries \in [1 .. 2 -> Entry]
      BY <3>2, <3>3
    <3> QED
      BY <3>4, SeqDef
  <2>5. call \in [Callers -> Call] /\ \A c \in Callers : call[c] = None
    BY DEF DialogInit, Call
  <2>6. TypeOK
    BY <2>3, <2>4, <2>5 DEF TypeOK, DialogInit
  <2>7. field \in Texts
    BY DialogAssumption DEF DialogInit
  <2> QED
    BY <2>5, <2>6, <2>7, NoDialogType, DialogAssumption DEF DialogInit, DialogTypeOK, UnderWay, Idle
<1>2. \A r \in Requests : ~UnderWay(r)
  BY DEF DialogInit, UnderWay
<1>3. OnlyEdits
  BY DEF DialogInit, OnlyEdits, Idle
<1>4. AnswersFit /\ OneOpening /\ OfferStands
  BY <1>2 DEF AnswersFit, Answered, OneOpening, Opens, OfferStands, DialogInit
<1>5. DialogIsItsOwn
  BY DEF DialogInit, DialogIsItsOwn, DialogShowsItsName, Showing
<1>6. UndoStands
  <2>1. \A i \in DOMAIN entries : i # 0
    BY <1>1 DEF DialogTypeOK, TypeOK
  <2> QED
    BY <1>2, <2>1 DEF DialogInit, UndoStands, UndoKnown, UndoFits, Told, Answered
<1> QED
  BY <1>1, <1>3, <1>4, <1>5, <1>6 DEF IInv

LEMMA PressesKeep ==
  ASSUME IInv, NEW r \in Requests,
         \/ \E i \in DOMAIN entries : PressEdit(r, i)
         \/ PressUndo(r) \/ PressSave(r) \/ PressDelete(r) \/ PressCancel(r) \/ PressEscape(r)
  PROVE  IInv'
<1>1. /\ \A i \in DOMAIN entries : i \in Nat
      /\ flash \in Nat /\ field \in Texts /\ deleting \in Requests \cup {None} /\ slot.id \in Nat /\ Blank \in Texts
      /\ Ops = {"open", "close", "rename", "delete", "restore"}
  BY DialogAssumption DEF IInv, DialogTypeOK, TypeOK, Slots, Ops
<1>2. ASSUME NEW i \in DOMAIN entries, PressEdit(r, i) PROVE IInv'
  BY <1>1, <1>2, PressKeeps DEF PressEdit
<1>3. CASE PressUndo(r)
  BY <1>1, <1>3, PressKeeps DEF PressUndo
<1>4. CASE PressSave(r)
  BY <1>1, <1>4, PressKeeps DEF PressSave
<1>5. CASE PressDelete(r)
  BY <1>1, <1>5, PressKeeps DEF PressDelete
<1>6. CASE PressCancel(r)
  BY <1>1, <1>6, PressKeeps DEF PressCancel
<1>7. CASE PressEscape(r)
  BY <1>1, <1>7, PressKeeps DEF PressEscape
<1> QED
  BY <1>2, <1>3, <1>4, <1>5, <1>6, <1>7

LEMMA IInvInductive == IInv /\ [DialogNext]_dialogVars => IInv'
<1> SUFFICES ASSUME IInv, [DialogNext]_dialogVars PROVE IInv'
  OBVIOUS
<1>1. ASSUME NEW r \in Requests, Handler(r) PROVE IInv'
  BY <1>1, HandlerKeeps, RenamedKeeps, DeletedKeeps, RestoredKeeps DEF Handler
<1>2. ASSUME NEW r \in Requests, Receive(r) PROVE IInv'
  BY <1>2, ReceiveKeeps
<1>3. ASSUME NEW r \in Requests,
             \/ \E i \in DOMAIN entries : PressEdit(r, i)
             \/ PressUndo(r) \/ PressSave(r) \/ PressDelete(r) \/ PressCancel(r) \/ PressEscape(r)
      PROVE  IInv'
  BY <1>3, PressesKeep
<1>4. ASSUME NEW text \in Tasks, Type(text) PROVE IInv'
  BY <1>4, TypeKeeps
<1>5. ASSUME NEW c \in Callers \ Requests, OtherTab(c) PROVE IInv'
  BY <1>5, OtherTabKeeps
<1>6. CASE UNCHANGED dialogVars
  BY <1>6 DEF dialogVars, vars, pageVars, history, IInv, DialogTypeOK, TypeOK, OnlyEdits, AnswersFit,
              OneOpening, DialogIsItsOwn, DialogShowsItsName, OfferStands, Offering, Quiet, UndoStands,
              UndoKnown, UndoFits, Told, Doing, Answered, Opens, UnderWay, Idle, Showing, Live
<1> QED
  BY <1>1, <1>2, <1>3, <1>4, <1>5, <1>6 DEF DialogNext

LEMMA Invariance == DialogSpec => []IInv
  BY IInvInit, IInvInductive, PTL DEF DialogSpec

\* Every request and statement has its type, and a request waits for the store
\* exactly while a statement of its own is there.
THEOREM DialogTypeCorrect == DialogSpec => []DialogTypeOK
<1>1. IInv => DialogTypeOK
  BY DEF IInv
<1> QED
  BY <1>1, Invariance, PTL

\* An open dialog that nobody has typed in shows the name read for its own entry
\* (EntryDialog), however the answers of other presses arrive, unless two
\* openings were under way at once.
THEOREM DialogsAreTheirOwn == DialogSpec => []DialogIsItsOwn
<1>1. IInv => DialogIsItsOwn
  BY DEF IInv
<1> QED
  BY <1>1, Invariance, PTL

\* When the answer to a delete that nothing was beside has come, Undo is there for
\* the entry it deleted (PostEntryDelete).
THEOREM UndosAreOffered == DialogSpec => []UndoIsOffered
<1>1. ASSUME IInv, Quiet, offered # 0 PROVE flash = offered
  BY <1>1 DEF IInv, OfferStands, Offering, Quiet
<1>2. IInv => UndoIsOffered
  BY <1>1 DEF UndoIsOffered
<1> QED
  BY <1>2, Invariance, PTL

\* A page at rest offers Undo only for an entry that is deleted, unless another
\* tab or an Undo under way contested it.
THEOREM UndosAreDue == DialogSpec => []UndoIsDue
<1>1. ASSUME IInv, Quiet, flash # 0 PROVE ~Live(flash) \/ flash \in contested
  BY <1>1 DEF IInv, UndoStands, UndoKnown, UndoFits, Told, Answered, Quiet
<1>2. IInv => UndoIsDue
  BY <1>1 DEF UndoIsDue
<1> QED
  BY <1>2, Invariance, PTL
=============================================================================
