------------------------------ MODULE MCUpsmon ------------------------------
(* Small instances of Upsmon for TLC. *)
EXTENDS Upsmon, TLC
CONSTANTS u1, u2

Says(ws) == [words |-> ws, eco |-> FALSE]

\* One UPS feeds this host, as its primary or as a secondary.
OnePrimary   == [pv |-> (u1 :> 1), primary |-> {u1}, minsupplies |-> 1]
OneSecondary == [pv |-> (u1 :> 1), primary |-> {}, minsupplies |-> 1]

\* A power value that cannot satisfy MINSUPPLIES.
Impossible   == [pv |-> (u1 :> 0), primary |-> {}, minsupplies |-> 1]

\* Two UPSes, one of which is enough.
Redundant    == [pv |-> (u1 :> 1 @@ u2 :> 1), primary |-> {u1}, minsupplies |-> 1]

MCOneConfs == {OnePrimary, OneSecondary, Impossible}
MCTwoConfs == {Redundant, OneSecondary}
MCPrimaryConfs == {OnePrimary}

\* The states of a UPS, with the dangerous ones of is_ups_critical().
MCAnswers == {Says(<<"OL">>), Says(<<"OB">>), Says(<<"OB", "LB">>), Says(<<"LB", "CHRG", "OB">>),
              Says(<<"CAL", "OB", "LB">>), Says(<<"OL", "BYPASS">>), Says(<<"OFF">>),
              Says(<<"ALARM", "OL", "OVER">>), Says(<<"FSD", "OB", "LB">>),
              [words |-> <<"OL", "TRIM">>, eco |-> TRUE]}
MCFewAnswers == {Says(<<"OL">>), Says(<<"OB">>), Says(<<"OB", "LB">>), Says(<<"OL", "BYPASS">>), Says(<<"FSD", "OL">>)}
MCAlarmAnswers == {Says(<<"OL">>), Says(<<"OL", "ALARM">>)}
=============================================================================
