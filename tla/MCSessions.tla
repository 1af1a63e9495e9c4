----------------------------- MODULE MCSessions -----------------------------
(* Small instances of Sessions for TLC. *)
EXTENDS Sessions

\* One address in two cases, and a text that is no address.
MCTyped == {"ada", "Ada", "?"}
MCLower == [t \in MCTyped |-> IF t = "Ada" THEN "ada" ELSE t]
=============================================================================
