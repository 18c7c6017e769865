----------------------------- MODULE MCFailover -----------------------------
(* Small instances of Failover. *)
EXTENDS Failover

CONSTANTS u1, u2

TwoDrivers == <<u1, u2>>

Dump == {<<"DUMPDONE">>, <<"DATAOK">>}
Charge60 == <<"SETINFO", "battery.charge", 60>>
Lively == {<<"DATASTALE">>, <<"SETINFO", "ups.status", {"OL"}>>,
           <<"SETINFO", "battery.charge", 50>>, <<"DELINFO", "battery.charge">>}

\* The first driver is steady, the second the better one, and lively.
MCSays == (u1 :> (Dump \cup {Charge60})) @@ (u2 :> (Dump \cup Lively))

NoFilters == [have_any |-> {}, have_all |-> {}, nothave_any |-> {}, nothave_all |-> {}]
NotOnBattery == [NoFilters EXCEPT !.nothave_any = {"OB"}]

Defaults  == [fsdmode |-> 0, check_runtime |-> 1, strict_filtering |-> FALSE, status_filters |-> NoFilters]
Filtering == [fsdmode |-> 2, check_runtime |-> 1, strict_filtering |-> FALSE, status_filters |-> NotOnBattery]
Forcing   == [Defaults EXCEPT !.fsdmode = 2]

MCConfs == {Defaults, Filtering}
GraceConfs == {Forcing}
KeepingConfs == {Defaults}

\* The better driver is ignored for good.
IgnoreU2 == [ups |-> u2, what |-> "ignore", value |-> -1]
MCOrders == [c \in {Defaults, Filtering, Forcing} |-> IF c = Filtering THEN {IgnoreU2} ELSE {}]
=============================================================================
