------------------------------- MODULE MCUpsd -------------------------------
(* Small instances of Upsd for TLC. *)
EXTENDS Upsd, TLC
CONSTANTS c1, c2, c3, u1, u2

\* One primary, the others secondaries.
MCAccount == [c \in Client |-> IF c = c1 THEN "primary" ELSE "secondary"]

\* A full upsd.users file, and one that lost the primary's entry.
MCUserFiles == {{"primary", "secondary"}, {"secondary"}}
=============================================================================
