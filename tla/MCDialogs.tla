------------------------------ MODULE MCDialogs ------------------------------
(* A small instance of Dialogs for TLC: two entries, one of them not named, and *)
(* a name too long.                                                          *)
EXTENDS Dialogs, TLC

MCTexts == {"call", "long"}
AsTyped == [t \in MCTexts \cup {"Acme", ""} |-> t]
Symmetry == Permutations(Requests)
=============================================================================
