----------------------------- MODULE MCHistory -----------------------------
(* Small instances of History for TLC. *)
EXTENDS History

OneName == {"Acme"}
OneTask == {"call"}
AsTyped == [t \in OneName \cup OneTask |-> t]
MCTimes == 0 .. 1
MCDurations == {2}
MCMidnights == {-1, 1, 2}
=============================================================================
