----------------------------- MODULE MCTracking -----------------------------
(* Small instances of Tracking for TLC. *)
EXTENDS Tracking, TLC

\* "Acme" typed with another case and with a stray space, a blank name, and one
\* too long.
MCNames == {"Acme", "acme", "Acme ", " ", "", "long"}
MCTasks == {"call", "", "long"}
MCCollapse == [t \in MCNames \cup MCTasks |->
                 IF t = "Acme " THEN "Acme" ELSE IF t = " " THEN "" ELSE t]
MCFold == [t \in MCNames \cup MCTasks |->
             IF t = "Acme" THEN "acme" ELSE IF t = "Acme " THEN "acme " ELSE t]

\* The longest length there is allowed, and one above it.
MCTimes == 0 .. 1
MCDurations == {0, 1, 2}

Symmetry == Permutations(Users) \cup Permutations(Callers)
=============================================================================
