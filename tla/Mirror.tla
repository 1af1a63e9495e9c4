------------------------------- MODULE Mirror -------------------------------
(***************************************************************************)
(* What live pages promise: each shows two lists, and a list only ever     *)
(* moves forward, to a version its user's data has already been at.        *)
(***************************************************************************)
EXTENDS Integers

CONSTANTS Users, Pages, Owner
VARIABLES
  source,  \* the version each user's data is at
  copy     \* the versions of the two lists each page has been brought

Init == /\ source = [u \in Users |-> 0]
        /\ copy = [p \in Pages |-> [companies |-> 0, timers |-> 0]]

Change(u) == source' = [source EXCEPT ![u] = @ + 1] /\ copy' = copy

CatchUp(p) ==
  /\ \E c \in copy[p].companies .. source[Owner[p]], t \in copy[p].timers .. source[Owner[p]] :
       copy' = [copy EXCEPT ![p] = [companies |-> c, timers |-> t]]
  /\ source' = source

Next == (\E u \in Users : Change(u)) \/ (\E p \in Pages : CatchUp(p))

Spec == Init /\ [][Next]_<<source, copy>>
=============================================================================
