-------------------------- MODULE Shutdown_proofs --------------------------
(***************************************************************************)
(* Proofs about Shutdown for any number of hosts and any delays: under     *)
(* every fault the primary waits for the others while it can ask for their *)
(* logins, and, as long as the driver, upsd and the primary's connection   *)
(* do not fail, it goes last if its FINALDELAY is longer than the number   *)
(* of times a secondary can lose its link or be refused a login.           *)
(***************************************************************************)
EXTENDS Shutdown, FiniteSetTheorems, TLAPS

\* upsd's answer is exact, and whoever is logged in is connected.
Logins == /\ count[U] = Cardinality(members[U])
          /\ \A h \in members[U] : conn[h]

IInv == TypeOK /\ Logins

\* The faults the order of the shutdown survives.
Mild == Faults \subseteq {"link", "login"} /\ MaxFaults < FinalDelay[Primary]

\* FSD is the primary's doing: it is past setfsd() and keeps its connection.
PrimaryOn ==
    /\ available
    /\ U \in forced => mode[Primary] \notin {"monitor", "force"}
    /\ mode[Primary] \in {"sync", "final"} /\ U \in forced => conn[Primary]

\* A host that is connected, or had its turn, without being logged in met a fault.
OutsidersFailed ==
    \A h \in Host \ members[U] :
        conn[h] \/ (mode[h] = "monitor" /\ h \in acted) => faults >= 1

Turn(h) == IF h \in acted THEN 1 ELSE 0

\* A secondary that does not know of the FSD yet has been kept from its turn by
\* a fault in every interval since, but for the one in which FSD was set.
UnawareFailed ==
    \A h \in Secondaries : U \in forced /\ mode[h] = "monitor" =>
        /\ mode[Primary] = "sync"  => wait[Primary] + Turn(h) <= faults + 1
        /\ mode[Primary] = "final" => wait[Primary] + Turn(h) <= faults

OInv == PrimaryOn /\ OutsidersFailed /\ UnawareFailed /\ OrderlyShutdown

-----------------------------------------------------------------------------
(* upsd *)

\* The login service counts with its own copy of FiniteSets.
LEMMA SameCardinality == \A S : Service!Cardinality(S) = Cardinality(S)
BY DEF Service!Cardinality, Cardinality, Service!IsFiniteSet, IsFiniteSet

\* Any set of hosts has a size.
LEMMA HostsCounted ==
    ASSUME NEW S \in SUBSET Host
    PROVE  IsFiniteSet(S) /\ Cardinality(S) \in Nat
BY HostAssumption, FS_Subset, FS_CardinalityType

\* What a login and a logout do to the membership.
LEMMA LoginCounts ==
    ASSUME IInv, NEW h \in Host, Service!Login(h, U), conn' = [conn EXCEPT ![h] = TRUE]
    PROVE  /\ members' \in [{U} -> SUBSET Host] /\ count' \in [{U} -> Nat]
           /\ Logins' /\ known' = known /\ forced' = forced
           /\ members'[U] = members[U] \cup {h}
<1>1. members' = [members EXCEPT ![U] = @ \cup {h}] /\ known' = known /\ forced' = forced
  BY DEF Service!Login
<1>2. members' \in [{U} -> SUBSET Host] /\ members'[U] = members[U] \cup {h}
  BY <1>1 DEF IInv, TypeOK
<1>3. count' = [u \in {U} |-> Cardinality(members'[u])]
  BY SameCardinality DEF Service!Login, Service!Counted
<1>4. Cardinality(members'[U]) \in Nat
  BY <1>2, HostsCounted
<1>5. \A g \in Host : conn[g] => conn'[g]
  BY DEF IInv, TypeOK
<1>6. conn'[h]
  BY DEF IInv, TypeOK
<1>7. QED
  BY <1>1, <1>2, <1>3, <1>4, <1>5, <1>6 DEF IInv, TypeOK, Logins

LEMMA LeaveCounts ==
    ASSUME IInv, NEW h \in Host, Service!Leave({h}), conn' = [conn EXCEPT ![h] = FALSE]
    PROVE  /\ members' \in [{U} -> SUBSET Host] /\ count' \in [{U} -> Nat]
           /\ Logins' /\ known' = known /\ forced' = forced
           /\ members'[U] = members[U] \ {h}
<1>1. members' = [u \in {U} |-> members[u] \ {h}] /\ known' = known /\ forced' = forced
  BY DEF Service!Leave
<1>2. members' \in [{U} -> SUBSET Host] /\ members'[U] = members[U] \ {h}
  BY <1>1 DEF IInv, TypeOK
<1>3. count' = [u \in {U} |-> Cardinality(members'[u])]
  BY SameCardinality DEF Service!Leave, Service!Counted
<1>4. Cardinality(members'[U]) \in Nat
  BY <1>2, HostsCounted
<1>5. \A g \in Host \ {h} : conn'[g] = conn[g]
  BY DEF IInv, TypeOK
<1>6. QED
  BY <1>1, <1>2, <1>3, <1>4, <1>5 DEF IInv, TypeOK, Logins

\* The flags a host may have read.
LEMMA PolledFlags ==
    ASSUME TypeOK, NEW h \in Host
    PROVE  /\ Status \subseteq {"OL", "OB", "LB", "FSD"}
           /\ seen[h] \cup {"LB"} \subseteq {"OL", "OB", "LB", "FSD"}
BY DEF TypeOK, Status, Powers

LEMMA OlderType ==
    ASSUME NEW f \in [Host -> Nat], NEW cap
    PROVE  /\ Older(f, cap) \in [Host -> Nat]
           /\ \A h \in Host : Older(f, cap)[h] \in {f[h], f[h] + 1}
BY DEF Older

LEMMA OlderCapped ==
    ASSUME NEW cap \in Nat, NEW f \in [Host -> 0..cap]
    PROVE  Older(f, cap) \in [Host -> 0..cap]
BY DEF Older

-----------------------------------------------------------------------------
(* Every fault *)

LEMMA InitIInv == Init => IInv
<1> SUFFICES ASSUME Init PROVE IInv
  OBVIOUS
<1>1. conn \in [Host -> BOOLEAN] /\ available \in BOOLEAN
  BY Zenon DEF Init
<1>2. members = [u \in {U} |-> {}] /\ count = [u \in {U} |-> 0] /\ known = {U} /\ forced = {}
  BY DEF Init, Service!Init
<1>3. TypeOK
  BY <1>1, <1>2, DelayAssumption, FaultAssumption DEF Init, TypeOK, Powers, Active
<1>4. Logins
  BY <1>2, FS_EmptySet DEF Logins
<1>5. QED
  BY <1>3, <1>4 DEF IInv

LEMMA StepIInv == IInv /\ [Next]_vars => IInv'
<1> SUFFICES ASSUME IInv, [Next]_vars PROVE IInv'
  OBVIOUS
<1> USE DEF IInv
<1>1. ASSUME NEW h \in Host, Connect(h) PROVE IInv'
  <2>1. conn' \in [Host -> BOOLEAN]
    BY <1>1, Zenon DEF Connect, TypeOK
  <2>2. QED
    BY <1>1, <2>1, LoginCounts DEF Connect, TypeOK
<1>2. ASSUME NEW h \in Host, Poll(h) PROVE IInv'
  <2>1. UNCHANGED <<server, available, power, conn, faults>> /\ acted' = acted \cup {h} /\ wait' = [wait EXCEPT ![h] = 0]
    BY <1>2 DEF Poll, EndTurn
  <2>2. PICK s \in SUBSET {"OL", "OB", "LB", "FSD"} : seen' = [seen EXCEPT ![h] = s]
    BY <1>2, PolledFlags DEF Poll
  <2>3. silence' \in [Host -> 0..DeadTime + 1]
    BY <1>2, DelayAssumption DEF Poll, TypeOK
  <2>4. crit' \in [Host -> 0..HostSync + 1]
    BY <1>2, DelayAssumption DEF Poll, TypeOK
  <2>5. \/ mode' = mode
        \/ mode' = [mode EXCEPT ![h] = Forced(h)]
    BY <1>2 DEF Poll, TypeOK
  <2>6. /\ mode' \in [Host -> Active \cup {"halting", "halted"}]
        /\ \A g \in Host : mode'[g] \in {"force", "sync"} => g = Primary
    BY <2>5 DEF TypeOK, Forced, Active
  <2>7. TypeOK'
    BY <2>1, <2>2, <2>3, <2>4, <2>6 DEF TypeOK, server
  <2>8. QED
    BY <2>1, <2>7 DEF Logins, server
<1>3. ASSUME NEW h \in Host, UserFsd(h) PROVE IInv'
  <2>1. /\ mode' \in [Host -> Active \cup {"halting", "halted"}]
        /\ \A g \in Host : mode'[g] \in {"force", "sync"} => g = Primary
    BY <1>3 DEF UserFsd, TypeOK, Forced, Active
  <2>2. QED
    BY <1>3, <2>1 DEF UserFsd, TypeOK, Logins, server
<1>4. CASE setfsd
  <2>1. UNCHANGED <<known, members, count>> /\ forced' \subseteq {U}
    BY <1>4 DEF setfsd, Service!ForceShutdown, server, TypeOK
  <2>2. mode' \in [Host -> Active \cup {"halting", "halted"}]
    BY <1>4 DEF setfsd, TypeOK, Active
  <2>3. QED
    BY <1>4, <2>1, <2>2, HostAssumption DEF setfsd, TypeOK, Logins
<1>5. CASE sync_secondaries
  <2>1. \/ UNCHANGED <<mode, wait>>
        \/ mode' = [mode EXCEPT ![Primary] = "final"] /\ wait' = [wait EXCEPT ![Primary] = 0]
    BY <1>5 DEF sync_secondaries
  <2>2. /\ mode' \in [Host -> Active \cup {"halting", "halted"}] /\ wait' \in [Host -> Nat]
        /\ \A g \in Host : mode'[g] \in {"force", "sync"} => g = Primary
    BY <2>1 DEF TypeOK, Active
  <2>3. QED
    BY <1>5, <2>2, HostAssumption DEF sync_secondaries, EndTurn, TypeOK, Logins, server
<1>6. ASSUME NEW h \in Host, FinalWait(h) PROVE IInv'
  BY <1>6 DEF FinalWait, EndTurn, TypeOK, Logins, server, hostVars
<1>7. ASSUME NEW h \in Host, NEW m \in {"halting", "halted"}, mode' = [mode EXCEPT ![h] = m],
             \/ UNCHANGED <<server, conn>>
             \/ conn' = [conn EXCEPT ![h] = FALSE] /\ Service!Leave({h}),
             acted' \subseteq Host, UNCHANGED <<available, power, seen, silence, crit, wait, faults>>
      PROVE  IInv'
  <2>1. /\ mode' \in [Host -> Active \cup {"halting", "halted"}]
        /\ \A g \in Host : mode'[g] \in {"force", "sync"} => g = Primary
    BY <1>7 DEF TypeOK
  <2>2. conn' \in [Host -> BOOLEAN]
    BY <1>7, Zenon DEF TypeOK
  <2>3. /\ members' \in [{U} -> SUBSET Host] /\ count' \in [{U} -> Nat]
        /\ Logins' /\ known' = known /\ forced' = forced
    BY <1>7, LeaveCounts DEF server, TypeOK, Logins
  <2>4. QED
    BY <1>7, <2>1, <2>2, <2>3 DEF TypeOK
<1>8. ASSUME NEW h \in Host, doshutdown(h) PROVE IInv'
  BY <1>7, <1>8 DEF doshutdown, EndTurn, TypeOK
<1>9. ASSUME NEW h \in Host, Exit(h) PROVE IInv'
  BY <1>7, <1>9 DEF Exit, TypeOK
<1>10. ASSUME NEW h \in Host, LinkLost(h) PROVE IInv'
  <2>1. conn' \in [Host -> BOOLEAN]
    BY <1>10, Zenon DEF LinkLost, TypeOK
  <2>2. faults' \in 0..MaxFaults
    BY <1>10, FaultAssumption DEF LinkLost, Fault, TypeOK
  <2>3. QED
    BY <1>10, <2>1, <2>2, LeaveCounts DEF LinkLost, TypeOK
<1>11. ASSUME NEW h \in Host, LoginRefused(h) PROVE IInv'
  <2>1. conn' \in [Host -> BOOLEAN]
    BY <1>11, Zenon DEF LoginRefused, TypeOK
  <2>2. faults' \in 0..MaxFaults
    BY <1>11, FaultAssumption DEF LoginRefused, Fault, TypeOK
  <2>3. \A g \in Host : conn[g] => conn'[g]
    BY <1>11 DEF LoginRefused, TypeOK
  <2>4. QED
    BY <1>11, <2>1, <2>2, <2>3 DEF LoginRefused, EndTurn, TypeOK, Logins, server
<1>12. CASE PowerChange
  BY <1>12 DEF PowerChange, TypeOK, Logins, server, hostVars
<1>13. CASE Stale \/ Recover
  <2>1. available' \in BOOLEAN
    BY <1>13, Zenon DEF Stale, Recover
  <2>2. faults' \in 0..MaxFaults
    BY <1>13, FaultAssumption DEF Stale, Recover, Fault, TypeOK
  <2>3. QED
    BY <1>13, <2>1, <2>2 DEF Stale, Recover, TypeOK, Logins, server, hostVars
<1>14. CASE Restart
  <2>1. conn' \in [Host -> BOOLEAN]
    BY <1>14, Zenon DEF Restart
  <2>2. faults' \in 0..MaxFaults
    BY <1>14, FaultAssumption DEF Restart, Fault, TypeOK
  <2>3. QED
    BY <1>14, <2>1, <2>2, FS_EmptySet DEF Restart, TypeOK, Logins
<1>15. CASE Tick
  <2>1. silence' \in [Host -> 0..DeadTime + 1]
    BY <1>15, DelayAssumption, OlderCapped DEF Tick, TypeOK
  <2>2. crit' \in [Host -> 0..HostSync + 1]
    BY <1>15, DelayAssumption, OlderCapped DEF Tick, TypeOK
  <2>3. wait' \in [Host -> Nat]
    BY <1>15, OlderType DEF Tick, TypeOK
  <2>4. QED
    BY <1>15, <2>1, <2>2, <2>3 DEF Tick, TypeOK, Logins, server
<1>16. CASE UNCHANGED vars
  BY <1>16 DEF vars, server, hostVars, TypeOK, Logins
<1>17. QED
  BY <1>1, <1>2, <1>3, <1>4, <1>5, <1>6, <1>8, <1>9, <1>10, <1>11, <1>12, <1>13, <1>14, <1>15, <1>16
  DEF Next, HostStep

\* At most one login, the primary's own, leaves nobody else.
LEMMA AloneAtOne ==
    ASSUME IInv, Primary \in members[U], count[U] <= 1
    PROVE  members[U] = {Primary}
<1>1. members[U] \in SUBSET Host /\ {Primary} \in SUBSET members[U]
  BY DEF IInv, TypeOK
<1>2. IsFiniteSet(members[U]) /\ Cardinality(members[U]) \in Nat /\ Cardinality(members[U]) <= 1
  BY <1>1, HostsCounted DEF IInv, Logins
<1>3. Cardinality({Primary}) = 1 /\ Cardinality({Primary}) <= Cardinality(members[U])
  BY <1>1, <1>2, FS_Singleton, FS_Subset
<1>4. QED
  BY <1>1, <1>2, <1>3, FS_Subset

\* Only sync_secondaries() takes the primary from waiting to doshutdown().
LEMMA LeavesSync ==
    ASSUME IInv, [Next]_vars, mode[Primary] = "sync", mode'[Primary] = "final"
    PROVE  sync_secondaries /\ SyncDone
<1> USE HostAssumption DEF IInv, TypeOK
<1>1. ASSUME NEW h \in Host, Poll(h) \/ UserFsd(h) \/ doshutdown(h) \/ Exit(h) PROVE FALSE
  <2>1. CASE h = Primary
    BY <1>1, <2>1 DEF Poll, UserFsd, doshutdown, Exit, HasTurn
  <2>2. CASE h # Primary
    BY <1>1, <2>2 DEF Poll, UserFsd, doshutdown, Exit
  <2>3. QED
    BY <2>1, <2>2
<1>2. ~setfsd
  BY DEF setfsd
<1>3. CASE sync_secondaries
  BY <1>3 DEF sync_secondaries
<1>4. CASE UNCHANGED mode
  BY <1>4
<1>5. QED
  BY <1>1, <1>2, <1>3, <1>4
  DEF Next, HostStep, Connect, FinalWait, LinkLost, LoginRefused, PowerChange, Stale, Recover, Restart, Tick,
      hostVars, vars

\* Under every fault, and for any number of hosts: the primary that is logged
\* in and gets an answer leaves sync_secondaries() only when it is alone or
\* HOSTSYNC is over (clients/upsmon.c sync_secondaries).
THEOREM PrimaryWaits == Spec => WaitsWhileItCanAsk
<1>1. IInv /\ [Next]_vars =>
        [/\ mode[Primary] = "sync" /\ mode'[Primary] = "final"
         /\ Primary \in members[U] /\ available
         => members[U] = {Primary} \/ wait[Primary] > HostSync]_vars
  BY LeavesSync, AloneAtOne DEF SyncDone, IInv, Logins
<1>2. QED
  BY <1>1, InitIInv, StepIInv, PTL DEF Spec, WaitsWhileItCanAsk

-----------------------------------------------------------------------------
(* Faults of the secondaries only *)

\* Whoever is logged in beside the primary, when upsd counts at most one login,
\* is there instead of the primary.
LEMMA InsteadOfPrimary ==
    ASSUME IInv, NEW h \in members[U], h # Primary, count[U] <= 1
    PROVE  Primary \notin members[U]
BY AloneAtOne

LEMMA InitOInv == Init => OInv
<1> SUFFICES ASSUME Init PROVE OInv
  OBVIOUS
<1>1. forced = {} /\ available /\ acted = {} /\ \A h \in Host : ~conn[h]
  BY DEF Init, Service!Init
<1>2. QED
  BY <1>1 DEF OInv, PrimaryOn, OutsidersFailed, UnawareFailed, OrderlyShutdown

\* A secondary that polls sees FSD.
LEMMA PollSeesFsd ==
    ASSUME available, U \in forced, TypeOK, NEW h \in Host, Poll(h)
    PROVE  mode'[h] # "monitor"
<1>1. "FSD" \in Status
  BY DEF Status
<1>2. mode' = [mode EXCEPT ![h] = Forced(h)]
  BY <1>1 DEF Poll, Critical
<1>3. QED
  BY <1>2 DEF TypeOK, Forced

LEMMA StepOInv == ASSUME Mild, IInv, IInv', OInv, [Next]_vars PROVE OInv'
<1> USE HostAssumption
<1> USE DEF OInv
<1>0. /\ faults \in Nat /\ faults <= MaxFaults /\ MaxFaults \in Nat
      /\ \A h \in Host : wait[h] \in Nat /\ wait'[h] \in Nat
      /\ FinalDelay[Primary] \in Nat /\ HostSync \in Nat
      /\ \A h \in Secondaries : h \in Host /\ h # Primary
      /\ members[U] \subseteq Host
      /\ {"primary_link", "stale", "restart"} \cap Faults = {}
  BY FaultAssumption, DelayAssumption DEF IInv, TypeOK, Secondaries, Mild
<1>1. ASSUME NEW h \in Host, Connect(h) PROVE OInv'
  <2>1. /\ members'[U] = members[U] \cup {h} /\ forced' = forced
        /\ UNCHANGED <<available, mode, wait, acted, faults>>
        /\ mode[h] = "monitor"
    BY <1>1, LoginCounts DEF Connect, HasTurn
  <2>2. conn'[h] /\ \A g \in Host \ {h} : conn'[g] = conn[g]
    BY <1>1 DEF Connect, IInv, TypeOK
  <2>3. QED
    BY <2>1, <2>2 DEF PrimaryOn, OutsidersFailed, UnawareFailed, OrderlyShutdown, Turn, Down
<1>2. ASSUME NEW h \in Host, Poll(h) PROVE OInv'
  <2>1. /\ UNCHANGED <<known, members, count, forced, available, conn, faults>>
        /\ acted' = acted \cup {h} /\ conn[h] /\ mode[h] = "monitor"
    BY <1>2 DEF Poll, HasTurn, EndTurn, server
  <2>2. \A g \in Host \ {h} : mode'[g] = mode[g] /\ wait'[g] = wait[g]
    BY <1>2 DEF Poll, IInv, TypeOK
  <2>3. mode'[h] \in {"monitor", "force", "final"}
    BY <1>2, <2>1 DEF Poll, Forced, IInv, TypeOK
  <2>4. U \in forced => mode'[h] # "monitor" /\ h # Primary
    BY <1>2, <2>1, PollSeesFsd DEF PrimaryOn, IInv
  <2>5. PrimaryOn'
    BY <2>1, <2>2, <2>4 DEF PrimaryOn
  <2>6. OutsidersFailed'
    BY <2>1, <2>2 DEF OutsidersFailed
  <2>7. UnawareFailed'
    BY <1>0, <2>1, <2>2, <2>4 DEF UnawareFailed, Turn
  <2>8. OrderlyShutdown'
    BY <1>0, <2>1, <2>2, <2>4 DEF OrderlyShutdown, Down
  <2>9. QED
    BY <2>5, <2>6, <2>7, <2>8
<1>3. ASSUME NEW h \in Host, UserFsd(h) PROVE OInv'
  <2>1. /\ UNCHANGED <<known, members, count, forced, available, conn, acted, faults>>
        /\ mode[h] = "monitor"
    BY <1>3 DEF UserFsd, HasTurn, server
  <2>2. \A g \in Host \ {h} : mode'[g] = mode[g] /\ wait'[g] = wait[g]
    BY <1>3 DEF UserFsd, IInv, TypeOK
  <2>3. mode'[h] \in {"force", "final"}
    BY <1>3, <2>1 DEF UserFsd, Forced, IInv, TypeOK
  <2>4. U \in forced => h # Primary
    BY <2>1 DEF PrimaryOn
  <2>5. PrimaryOn' /\ OutsidersFailed' /\ UnawareFailed'
    BY <1>0, <2>1, <2>2, <2>3, <2>4 DEF PrimaryOn, OutsidersFailed, UnawareFailed, Turn
  <2>6. OrderlyShutdown'
    BY <1>0, <2>1, <2>2, <2>3, <2>4 DEF OrderlyShutdown, Down
  <2>7. QED
    BY <2>5, <2>6
<1>4. CASE setfsd
  <2>1. /\ UNCHANGED <<members, available, conn, faults>> /\ acted' = acted \ {Primary}
        /\ forced' = forced \/ conn[Primary]
    BY <1>4 DEF setfsd, Service!ForceShutdown, server
  <2>2. /\ \A g \in Host \ {Primary} : mode'[g] = mode[g]
        /\ mode[Primary] = "force" /\ mode'[Primary] = "sync" /\ wait'[Primary] = 0
    BY <1>4 DEF setfsd, IInv, TypeOK
  <2>3. PrimaryOn'
    BY <2>1, <2>2 DEF PrimaryOn
  <2>4. OutsidersFailed' /\ UnawareFailed' /\ OrderlyShutdown'
    BY <1>0, <2>1, <2>2 DEF OutsidersFailed, UnawareFailed, OrderlyShutdown, Turn, Down
  <2>5. QED
    BY <2>3, <2>4
<1>5. CASE sync_secondaries
  <2>1. /\ UNCHANGED <<members, forced, available, conn, faults>> /\ acted' = acted \cup {Primary}
        /\ mode[Primary] = "sync"
    BY <1>5 DEF sync_secondaries, HasTurn, EndTurn, server
  <2>2. \/ UNCHANGED <<mode, wait>>
        \/ /\ SyncDone /\ mode'[Primary] = "final" /\ wait'[Primary] = 0
           /\ \A g \in Host \ {Primary} : mode'[g] = mode[g]
    BY <1>5 DEF sync_secondaries, IInv, TypeOK
  <2>3. PrimaryOn' /\ OutsidersFailed' /\ OrderlyShutdown'
    BY <1>0, <2>1, <2>2 DEF PrimaryOn, OutsidersFailed, OrderlyShutdown, Down
  <2>4. ASSUME NEW h \in Secondaries, U \in forced, mode[h] = "monitor", SyncDone
        PROVE  Turn(h) <= faults
    <3>1. CASE h \notin acted
      BY <1>0, <3>1 DEF Turn
    <3>2. CASE h \in acted /\ faults >= 1
      BY <1>0, <3>2 DEF Turn
    <3>3. CASE wait[Primary] > HostSync
      BY <1>0, <2>1, <2>4, <3>3 DEF UnawareFailed, Turn
    <3>4. CASE h \in acted /\ h \in members[U] /\ count[U] <= 1
      <4>1. Primary \notin members[U] /\ conn[Primary]
        BY <1>0, <2>1, <2>4, <3>4, InsteadOfPrimary DEF PrimaryOn
      <4>2. QED
        BY <3>2, <3>4, <4>1 DEF OutsidersFailed
    <3>5. CASE h \in acted /\ h \notin members[U]
      BY <1>0, <2>4, <3>2, <3>5 DEF OutsidersFailed
    <3>6. QED
      BY <2>1, <2>4, <3>1, <3>3, <3>4, <3>5 DEF SyncDone, PrimaryOn
  <2>5. \A h \in Secondaries : Turn(h)' = Turn(h)
    BY <1>0, <2>1 DEF Turn
  <2>6. UnawareFailed'
    BY <1>0, <2>1, <2>2, <2>4, <2>5 DEF UnawareFailed, Turn
  <2>7. QED
    BY <2>3, <2>6
<1>6. ASSUME NEW h \in Host, FinalWait(h) PROVE OInv'
  BY <1>0, <1>6 DEF FinalWait, HasTurn, EndTurn, server, hostVars,
     PrimaryOn, OutsidersFailed, UnawareFailed, OrderlyShutdown, Turn, Down
<1>7. ASSUME NEW h \in Host, doshutdown(h) \/ Exit(h) PROVE OInv'
  <2>1. /\ UNCHANGED <<available, forced, wait, faults>>
        /\ acted' \subseteq acted \cup {h} /\ acted \subseteq acted'
        /\ mode[h] \in {"final", "halting"} /\ mode'[h] \in {"halting", "halted"}
        /\ \A g \in Host \ {h} : mode'[g] = mode[g]
    BY <1>7 DEF doshutdown, Exit, HasTurn, EndTurn, server, Service!Leave, IInv, TypeOK
  <2>2. /\ \A g \in Host \ {h} : conn'[g] = conn[g]
        /\ members'[U] \cup {h} = members[U] \cup {h}
        /\ (members' = members /\ conn' = conn) \/ ~conn'[h]
    <3>1. CASE UNCHANGED <<server, conn>>
      BY <3>1 DEF server
    <3>2. CASE conn' = [conn EXCEPT ![h] = FALSE] /\ Service!Leave({h})
      <4>1. members'[U] = members[U] \ {h}
        BY <3>2, LeaveCounts
      <4>2. ~conn'[h] /\ \A g \in Host \ {h} : conn'[g] = conn[g]
        BY <3>2 DEF IInv, TypeOK
      <4>3. QED
        BY <4>1, <4>2
    <3>3. QED
      BY <1>7, <3>1, <3>2 DEF doshutdown, Exit
  <2>3. PrimaryOn'
    BY <2>1, <2>2 DEF PrimaryOn
  <2>4. OutsidersFailed'
    BY <2>1, <2>2 DEF OutsidersFailed
  <2>5. UnawareFailed'
    BY <1>0, <2>1 DEF UnawareFailed, Turn
  <2>6. OrderlyShutdown'
    <3>1. CASE h = Primary /\ mode[h] = "final"
      <4>1. doshutdown(h)
        BY <1>7, <3>1 DEF Exit
      <4>2. wait[Primary] >= FinalDelay[Primary]
        BY <3>1, <4>1 DEF doshutdown
      <4>3. ASSUME NEW g \in Secondaries, U \in forced, mode[g] = "monitor" PROVE FALSE
        <5>1. wait[Primary] + Turn(g) <= faults /\ Turn(g) \in Nat
          BY <3>1, <4>3 DEF UnawareFailed, Turn
        <5>2. QED
          BY <1>0, <4>2, <5>1 DEF Mild
      <4>4. QED
        BY <1>0, <2>1, <3>1, <4>3 DEF OrderlyShutdown
    <3>2. CASE h # Primary \/ mode[h] = "halting"
      BY <1>0, <2>1, <3>2 DEF OrderlyShutdown, Down
    <3>3. QED
      BY <2>1, <3>1, <3>2
  <2>7. QED
    BY <2>3, <2>4, <2>5, <2>6
<1>8. ASSUME NEW h \in Host, LinkLost(h) PROVE OInv'
  <2>1. h # Primary /\ faults' = faults + 1 /\ UNCHANGED <<available, mode, wait, acted, forced>>
    BY <1>0, <1>8, LeaveCounts DEF LinkLost, Fault
  <2>2. \A g \in Host \ {h} : conn'[g] = conn[g]
    BY <1>8 DEF LinkLost, IInv, TypeOK
  <2>3. QED
    BY <1>0, <2>1, <2>2 DEF PrimaryOn, OutsidersFailed, UnawareFailed, OrderlyShutdown, Turn, Down
<1>9. ASSUME NEW h \in Host, LoginRefused(h) PROVE OInv'
  <2>1. /\ faults' = faults + 1 /\ acted' = acted \cup {h} /\ h \notin acted /\ mode[h] = "monitor"
        /\ UNCHANGED <<members, forced, available, mode, wait>>
    BY <1>9 DEF LoginRefused, Fault, HasTurn, EndTurn, server
  <2>2. \A g \in Host \ {h} : conn'[g] = conn[g]
    BY <1>9 DEF LoginRefused, IInv, TypeOK
  <2>3. \A g \in Host : Turn(g) \in 0..1 /\ Turn(g)' \in Nat /\ Turn(g)' <= Turn(g) + 1
    BY <2>1 DEF Turn
  <2>4. UnawareFailed'
    BY <1>0, <2>1, <2>3 DEF UnawareFailed
  <2>5. PrimaryOn'
    BY <2>1, <2>2 DEF PrimaryOn
  <2>6. QED
    BY <1>0, <2>1, <2>4, <2>5 DEF OutsidersFailed, OrderlyShutdown, Down
<1>10. CASE PowerChange
  BY <1>10 DEF PowerChange, server, hostVars, PrimaryOn, OutsidersFailed, UnawareFailed, OrderlyShutdown, Turn, Down
<1>11. CASE Stale \/ Recover \/ Restart
  BY <1>0, <1>11 DEF Stale, Recover, Restart, Fault, PrimaryOn
<1>12. CASE Tick
  <2>1. UNCHANGED <<members, forced, available, mode, conn, faults>> /\ acted' = {}
    BY <1>12 DEF Tick, server
  <2>2. wait'[Primary] \in {wait[Primary], wait[Primary] + 1}
    BY <1>12, OlderType DEF Tick, IInv, TypeOK
  <2>3. \A h \in Host : mode[h] = "monitor" => h \in acted
    BY <1>12 DEF Tick, Active
  <2>4. UnawareFailed'
    BY <1>0, <2>1, <2>2, <2>3 DEF UnawareFailed, Turn
  <2>5. QED
    BY <2>1, <2>4 DEF PrimaryOn, OutsidersFailed, OrderlyShutdown, Down
<1>13. CASE UNCHANGED vars
  BY <1>13 DEF vars, server, hostVars, PrimaryOn, OutsidersFailed, UnawareFailed, OrderlyShutdown, Turn, Down
<1>14. QED
  BY <1>1, <1>2, <1>3, <1>4, <1>5, <1>6, <1>7, <1>8, <1>9, <1>10, <1>11, <1>12, <1>13 DEF Next, HostStep

\* The primary goes last, for any number of hosts and any HOSTSYNC: as long as
\* the driver, upsd and the primary's own connection hold, and its FINALDELAY
\* is longer, in polling intervals, than the number of lost links and refused
\* logins, every secondary knows of the shutdown when the primary calls
\* SHUTDOWNCMD (clients/upsmon.c forceshutdown, sync_secondaries, doshutdown).
THEOREM PrimaryGoesLast ==
    ASSUME Mild
    PROVE  Spec => []OrderlyShutdown
<1>1. Init => IInv /\ OInv
  BY InitIInv, InitOInv
<1>2. (IInv /\ OInv) /\ [Next]_vars => (IInv /\ OInv)'
  BY StepIInv, StepOInv
<1>3. OInv => OrderlyShutdown
  BY DEF OInv
<1>4. QED
  BY <1>1, <1>2, <1>3, PTL DEF Spec
=============================================================================
