----------------------------- MODULE MCShutdown -----------------------------
(* Small instances of Shutdown for TLC. *)
EXTENDS Shutdown
CONSTANTS p, s1, s2

\* Every host gives its notifications one or two polling intervals.
MCFinalDelay == [h \in Host |-> IF h = Primary THEN 2 ELSE 1]
MCShortDelay == [h \in Host |-> 1]
=============================================================================
