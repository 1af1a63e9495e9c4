----------------------------- MODULE Timesheet ------------------------------
(***************************************************************************)
(* What tracking promises of entries, with no tables, callers or clock: an *)
(* entry is put on the sheet once, finished at most once, renamed while it *)
(* is there, and a removed one lies in the bin untouched until it is put   *)
(* back exactly as it was (service.go: Delete, Restore).                   *)
(***************************************************************************)
EXTENDS Integers

CONSTANT None
VARIABLES sheet, bin   \* entries by id: those a person sees, those deleted

With(f, i, e) == [k \in DOMAIN f \cup {i} |-> IF k = i THEN e ELSE f[k]]
Without(f, i) == [k \in DOMAIN f \ {i} |-> f[k]]

Init == DOMAIN sheet = {} /\ DOMAIN bin = {}

Put == \E i \in DOMAIN sheet' \ (DOMAIN sheet \cup DOMAIN bin) :
         sheet' = With(sheet, i, sheet'[i]) /\ bin' = bin

Finish == \E i \in DOMAIN sheet \cap DOMAIN sheet' :
            /\ sheet[i].stopped = None /\ sheet'[i].stopped # None
            /\ sheet'[i].stopped >= sheet[i].started
            /\ sheet' = With(sheet, i, [sheet[i] EXCEPT !.stopped = sheet'[i].stopped])
            /\ bin' = bin

Rename == \E i \in DOMAIN sheet \cap DOMAIN sheet' :
            /\ sheet' = With(sheet, i, [sheet[i] EXCEPT !.task = sheet'[i].task])
            /\ bin' = bin

Remove == \E i \in DOMAIN sheet : /\ sheet' = Without(sheet, i)
                                  /\ bin' = With(bin, i, sheet[i])

PutBack == \E i \in DOMAIN bin : /\ bin' = Without(bin, i)
                                 /\ sheet' = With(sheet, i, bin[i])

Next == Put \/ Finish \/ Rename \/ Remove \/ PutBack

Spec == Init /\ [][Next]_<<sheet, bin>>
=============================================================================
