--------------------------- MODULE MCUpsmonWhole ---------------------------
(* A small instance of UpsmonWhole for TLC. *)
EXTENDS UpsmonWhole, TLC
CONSTANT u1

Says(ws) == [words |-> ws, eco |-> FALSE]

\* One UPS, of which this host is the primary or a secondary, and a
\* configuration that is fatal when it is read.
OneUps(primary) == [pv |-> (u1 :> 1), primary |-> primary, minsupplies |-> 1]
Impossible == [pv |-> (u1 :> 0), primary |-> {}, minsupplies |-> 1]
MCConfs == {OneUps({u1}), OneUps({}), Impossible}

MCAnswers == {Says(<<"OL">>), Says(<<"OB", "LB">>), Says(<<"OL", "BYPASS">>), Says(<<"FSD", "OL">>)}
=============================================================================
