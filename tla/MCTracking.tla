----------------------------- MODULE MCTracking -----------------------------
(* Small instances of Tracking. *)
EXTENDS Tracking, TLC

CONSTANTS c1, c2

TwoClients == {c1, c2}

Impatient == [kind |-> "SET", wants |-> TRUE, timeout |-> 1]
\* waits longer than upsd remembers;
Patient   == [kind |-> "INSTCMD", wants |-> TRUE, timeout |-> 3]
\* goes as soon as the request is accepted.
Careless  == [kind |-> "INSTCMD_WORDS", wants |-> FALSE, timeout |-> 1]

Pairs == {c1 :> Impatient @@ c2 :> Patient, c1 :> Impatient @@ c2 :> Careless,
          c1 :> Impatient @@ c2 :> Impatient}
=============================================================================
