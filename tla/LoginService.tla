---------------------------- MODULE LoginService ----------------------------
(***************************************************************************)
(* What upsd promises to the hosts behind its UPSes, whatever happens to   *)
(* sockets, files and timers: a host is logged into at most one UPS, the   *)
(* count it answers for a UPS is the number of hosts logged into it, and a *)
(* forced shutdown stays in effect as long as the UPS is configured.       *)
(* Module Upsd implements this; module Shutdown builds on it.              *)
(***************************************************************************)
EXTENDS Naturals, FiniteSets

CONSTANTS Client, Ups

VARIABLES
    known,    \* the configured UPSes
    members,  \* members[u]: the clients logged into u
    count,    \* count[u]: the answer to GET NUMLOGINS u
    forced    \* the UPSes with a forced shutdown in effect

vars == <<known, members, count, forced>>

Init == /\ known \in SUBSET Ups
        /\ members = [u \in Ups |-> {}]
        /\ count = [u \in Ups |-> 0]
        /\ forced = {}

Counted == count' = [u \in Ups |-> Cardinality(members'[u])]

Login(c, u) == /\ u \in known
               /\ \A v \in Ups : c \notin members[v]
               /\ members' = [members EXCEPT ![u] = @ \cup {c}]
               /\ Counted
               /\ UNCHANGED <<known, forced>>

\* Logged out, hung up, idle for too long, or dropped to free a descriptor.
Leave(S) == /\ members' = [u \in Ups |-> members[u] \ S]
            /\ Counted
            /\ UNCHANGED <<known, forced>>

ForceShutdown(u) == /\ u \in known
                    /\ forced' = forced \cup {u}
                    /\ UNCHANGED <<known, members, count>>

\* The configuration changes, and S leaves meanwhile.
Redefine(new, S) == /\ known' = new
                    /\ members' = [u \in Ups |-> IF u \in known \cap new
                                                 THEN members[u] \ S ELSE {}]
                    /\ Counted
                    /\ forced' = forced \cap new

Next == \/ \E c \in Client, u \in Ups : Login(c, u)
        \/ \E S \in SUBSET Client : Leave(S)
        \/ \E u \in Ups : ForceShutdown(u)
        \/ \E new \in SUBSET Ups, S \in SUBSET Client : Redefine(new, S)

Spec == Init /\ [][Next]_vars
=============================================================================
