----------------------------- MODULE MCUpssched -----------------------------
(* Small instances of Upssched: what each client may be told to do. *)
EXTENDS Upssched, TLC

CONSTANTS c1, c2, c3, d1, d2, t

Start(ofs) == [op |-> "START", name |-> t, ofs |-> ofs]
Share(ofs) == [op |-> "START_SHARED", name |-> t, ofs |-> ofs]
Other(op)  == [op |-> op, name |-> t]

\* Two runs of upssched, in every combination of interest.
TwoClients == {c1, c2}
TwoAgenda == (c1 :> {Start(1)})
             @@ (c2 :> {Share(0), Share(-1), Other("CANCEL"), Other("CANCEL_CMD"), Other("LIST")})

\* Two that start a timer, and one that cancels it.
ThreeClients == {c1, c2, c3}
ThreeAgenda == (c1 :> {Start(1)}) @@ (c2 :> {Share(1)}) @@ (c3 :> {Other("CANCEL")})

TwoDaemons == {d1, d2}
OneTimer == {t}
=============================================================================
