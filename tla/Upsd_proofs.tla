----------------------------- MODULE Upsd_proofs -----------------------------
(***************************************************************************)
(* Proofs about Upsd for any clients, UPSes and limits: the counter that   *)
(* GET NUMLOGINS reports is exact, FSD is latched, no login outlives its   *)
(* client or its UPS, and upsd implements the abstract login service.      *)
(***************************************************************************)
EXTENDS Upsd, FiniteSetTheorems, TLAPS

\* Counters of UPSes that are not configured are at rest.
RestZero == \A u \in Ups \ upses : numlogins[u] = 0

\* Nobody is logged into a UPS that is not configured.
Configured == \A c \in Client : loginups[c] \in upses \cup {NoUps}

\* The counting invariant: inductive because declogins() subtracts exactly the
\* members that leave, and because delete_ups() kicks before it forgets a UPS,
\* so that a UPS created later starts with nobody logged in.
IInv == TypeOK /\ LoginsMatch /\ Configured /\ RestZero

\* The clients logged into one UPS are finitely many, and taking S out of them
\* takes as many off the count as S has members among them.
LEMMA LeaveCount ==
    ASSUME NEW u, NEW S
    PROVE  /\ IsFiniteSet(LoggedInto(u))
           /\ Cardinality(LoggedInto(u)) \in Nat
           /\ Cardinality(LoggedInto(u) \ S)
                = Cardinality(LoggedInto(u)) - Cardinality(S \cap LoggedInto(u))
           /\ Cardinality(LoggedInto(u) \ S) \in Nat
<1>1. IsFiniteSet(LoggedInto(u))
  BY ClientAssumption, FS_Subset DEF LoggedInto
<1>2. S \cap LoggedInto(u) = LoggedInto(u) \cap S
  OBVIOUS
<1>3. QED
  BY <1>1, <1>2, FS_Difference, FS_CardinalityType

\* client_disconnect() keeps the count exact.
LEMMA DisconnectCount ==
    ASSUME IInv, NEW S \in SUBSET Client, client_disconnect(S), upses' = upses
    PROVE  /\ LoginsMatch' /\ Configured' /\ RestZero'
           /\ place' \in [Client -> Int]
           /\ numlogins' \in [Ups -> Nat]
           /\ loginups' \in [Client -> Ups \cup {NoUps}]
           /\ auth' \in [Client -> SUBSET Credentials]
           /\ age' \in [Client -> 0..Expired]
<1> USE DEF IInv, TypeOK
<1>1. \A u \in Ups : LoggedInto(u)' = LoggedInto(u) \ S
  BY UpsAssumption DEF client_disconnect, Unlink, LoggedInto
<1>2. ASSUME NEW u \in upses
      PROVE  /\ numlogins'[u] = Cardinality(LoggedInto(u)')
             /\ numlogins'[u] \in Nat
  BY <1>1, LeaveCount DEF client_disconnect, LoginsMatch
<1>3. \A u \in Ups \ upses : numlogins'[u] = 0
  BY DEF client_disconnect, RestZero
<1>4. QED
  <2>1. \A c \in Client : Cardinality({d \in S \cap Online : place[d] < place[c]}) \in Nat
    BY ClientAssumption, FS_Subset, FS_CardinalityType DEF Online
  <2>2. place' \in [Client -> Int]
    BY <2>1 DEF client_disconnect, Unlink
  <2>3. numlogins' \in [Ups -> Nat]
    BY <1>2, <1>3 DEF client_disconnect
  <2>4. /\ loginups' \in [Client -> Ups \cup {NoUps}]
        /\ auth' \in [Client -> SUBSET Credentials]
        /\ age' \in [Client -> 0..Expired]
    BY IdleAssumption DEF client_disconnect, Unlink, Expired
  <2>5. QED
    BY <1>2, <1>3, <2>2, <2>3, <2>4
    DEF LoginsMatch, RestZero, Configured, client_disconnect, Unlink

\* conf_reload() keeps the count exact: whoever was on a deleted UPS is kicked.
LEMMA ReloadCount ==
    ASSUME IInv,
           NEW newups \in SUBSET Ups, NEW moved, NEW linked,
           NEW oldest \in SUBSET Client, NEW newusers, NEW newmax,
           conf_reload(newups, moved, linked, oldest, newusers, newmax)
    PROVE  /\ LoginsMatch' /\ Configured' /\ RestZero'
           /\ place' \in [Client -> Int]
           /\ numlogins' \in [Ups -> Nat]
           /\ loginups' \in [Client -> Ups \cup {NoUps}]
           /\ auth' \in [Client -> SUBSET Credentials]
           /\ age' \in [Client -> 0..Expired]
           /\ upses' = newups
           /\ fsd' \in [Ups -> BOOLEAN]
           /\ connected' \in [Ups -> BOOLEAN]
<1> USE DEF IInv, TypeOK
<1> DEFINE kicked == oldest \cup {c \in Client : loginups[c] \in upses \ newups}
<1>0. /\ kicked \in SUBSET Client
      /\ Unlink(kicked)
      /\ upses' = newups
      /\ numlogins' = [u \in Ups |->
               IF u \in upses \cap newups
               THEN numlogins[u] - Cardinality(oldest \cap LoggedInto(u))
               ELSE 0]
  BY DEF conf_reload
<1>1. /\ fsd' \in [Ups -> BOOLEAN]
      /\ connected' \in [Ups -> BOOLEAN]
  BY Zenon DEF conf_reload
<1>2. \A u \in upses \cap newups : LoggedInto(u)' = LoggedInto(u) \ oldest
  BY <1>0, UpsAssumption DEF Unlink, LoggedInto
<1>3. ASSUME NEW u \in upses \cap newups
      PROVE  /\ numlogins'[u] = Cardinality(LoggedInto(u)')
             /\ numlogins'[u] \in Nat
  BY <1>0, <1>2, LeaveCount DEF LoginsMatch
<1>4. ASSUME NEW u \in newups \ upses
      PROVE  numlogins'[u] = Cardinality(LoggedInto(u)')
  <2>1. LoggedInto(u)' = {}
    BY <1>0, UpsAssumption DEF Unlink, LoggedInto, Configured
  <2>2. QED
    BY <1>0, <2>1, FS_EmptySet
<1>5. Configured'
  BY <1>0, UpsAssumption DEF Unlink, Configured
<1>6. RestZero'
  BY <1>0 DEF RestZero
<1>7. numlogins' \in [Ups -> Nat]
  BY <1>0, <1>3
<1>8. place' \in [Client -> Int]
  <2>1. \A c \in Client : Cardinality({d \in kicked \cap Online : place[d] < place[c]}) \in Nat
    BY ClientAssumption, FS_Subset, FS_CardinalityType DEF Online
  <2>2. QED
    BY <1>0, <2>1 DEF Unlink
<1>9. /\ loginups' \in [Client -> Ups \cup {NoUps}]
      /\ auth' \in [Client -> SUBSET Credentials]
      /\ age' \in [Client -> 0..Expired]
  BY <1>0, IdleAssumption DEF Unlink, Expired
<1>10. LoginsMatch'
  BY <1>0, <1>3, <1>4 DEF LoginsMatch
<1>11. QED
  BY <1>0, <1>1, <1>5, <1>6, <1>7, <1>8, <1>9, <1>10

\* The invariant does not look at more than these variables.
LEMMA SameCounts ==
    ASSUME IInv, UNCHANGED <<loginups, numlogins, upses>>
    PROVE  LoginsMatch' /\ Configured' /\ RestZero'
BY DEF IInv, LoginsMatch, Configured, RestZero, LoggedInto

LEMMA InitIInv == Init => IInv
<1> SUFFICES ASSUME Init PROVE IInv
  OBVIOUS
<1>1. TypeOK
  <2>1. fsd \in [Ups -> BOOLEAN] /\ connected \in [Ups -> BOOLEAN]
    BY Zenon DEF Init
  <2>2. reload_flag \in BOOLEAN
    BY Zenon DEF Init
  <2>3. QED
    BY <2>1, <2>2, IdleAssumption DEF Init, TypeOK, Expired, Credentials
<1>2. \A u \in Ups : LoggedInto(u) = {}
  BY UpsAssumption DEF Init, LoggedInto
<1>3. LoginsMatch /\ Configured /\ RestZero
  BY <1>2, FS_EmptySet DEF Init, LoginsMatch, Configured, RestZero
<1>4. QED
  BY <1>1, <1>3 DEF IInv

LEMMA StepIInv == IInv /\ [Next]_vars => IInv'
<1> SUFFICES ASSUME IInv, [Next]_vars PROVE IInv'
  OBVIOUS
<1> USE DEF IInv, Expired
<1>1. CASE NoReload
  BY <1>1, SameCounts DEF NoReload, TypeOK, sessVars, upsVars
<1>2. CASE ReloadRefused
  <2>1. PICK S \in SUBSET Online : client_disconnect(S)
    BY <1>2 DEF ReloadRefused
  <2>2. S \in SUBSET Client
    BY DEF Online
  <2>3. QED
    BY <1>2, <2>1, <2>2, DisconnectCount DEF ReloadRefused, TypeOK
<1>3. CASE Reload
  <2>1. PICK newups \in SUBSET Ups, moved \in SUBSET Ups, linked \in SUBSET Ups,
             oldest \in SUBSET Online, newusers \in UserFiles, newmax \in MaxConns :
                conf_reload(newups, moved, linked, oldest, newusers, newmax)
    BY <1>3 DEF Reload
  <2>2. oldest \in SUBSET Client
    BY DEF Online
  <2>3. users' \in UserFiles /\ maxconn' \in MaxConns
    BY <2>1 DEF conf_reload
  <2>4. QED
    BY <1>3, <2>1, <2>2, <2>3, ReloadCount DEF Reload, TypeOK
<1>4. CASE ScanDrivers
  <2>1. connected' \in [Ups -> BOOLEAN]
    BY <1>4, Zenon DEF ScanDrivers
  <2>2. QED
    BY <1>4, <2>1, SameCounts DEF ScanDrivers, TypeOK, sessVars
<1>5. CASE ShedIdle
  <2>1. {c \in Online : age[c] > IdleLimit} \in SUBSET Client
    BY DEF Online
  <2>2. QED
    BY <1>5, <2>1, DisconnectCount DEF ShedIdle, TypeOK
<1>6. CASE Poll
  <2>1. ready' \in SUBSET (Client \cup Ups \cup {Listener})
    BY <1>6 DEF Poll, PolledDrivers, PolledClients, Drivers, Online, TypeOK
  <2>2. QED
    BY <1>6, <2>1, SameCounts DEF Poll, TypeOK, sessVars, upsVars
<1>7. ASSUME NEW c \in Client, client_connect(c) PROVE IInv'
  BY <1>7, SameCounts, IdleAssumption DEF client_connect, TypeOK, upsVars
<1>8. ASSUME NEW c \in Client, Hangup(c) PROVE IInv'
  BY <1>8, DisconnectCount DEF Hangup, TypeOK
<1>9. ASSUME NEW c \in Client, NEW w \in Credentials, GiveCredential(c, w) PROVE IInv'
  BY <1>9, SameCounts, IdleAssumption DEF GiveCredential, Reads, Answered, TypeOK
<1>10. ASSUME NEW c \in Client, NEW u \in Ups, net_login(c, u) PROVE IInv'
  <2>1. CASE UNCHANGED <<loginups, numlogins>>
    BY <1>10, <2>1, SameCounts, IdleAssumption DEF net_login, Reads, Answered, TypeOK
  <2>2. CASE /\ u \in upses /\ loginups[c] = NoUps
             /\ loginups' = [loginups EXCEPT ![c] = u]
             /\ numlogins' = [numlogins EXCEPT ![u] = @ + 1]
    <3>1. TypeOK'
      BY <1>10, <2>2, IdleAssumption DEF net_login, Reads, Answered, TypeOK
    <3>2. upses' = upses
      BY <1>10 DEF net_login, Reads
    <3>3. LoggedInto(u)' = LoggedInto(u) \cup {c} /\ c \notin LoggedInto(u)
      BY <2>2, UpsAssumption DEF LoggedInto, TypeOK
    <3>4. \A v \in Ups \ {u} : LoggedInto(v)' = LoggedInto(v)
      BY <2>2, UpsAssumption DEF LoggedInto, TypeOK
    <3>5. Cardinality(LoggedInto(u)') = Cardinality(LoggedInto(u)) + 1
      BY <3>3, LeaveCount, FS_AddElement
    <3>6. LoginsMatch'
      BY <2>2, <3>2, <3>4, <3>5 DEF LoginsMatch, TypeOK
    <3>7. Configured' /\ RestZero'
      BY <2>2, <3>2 DEF Configured, RestZero, TypeOK
    <3>8. QED
      BY <3>1, <3>6, <3>7
  <2>3. QED
    BY <1>10, <2>1, <2>2 DEF net_login
<1>11. ASSUME NEW c \in Client, net_logout(c) PROVE IInv'
  BY <1>11, SameCounts, IdleAssumption DEF net_logout, Reads, TypeOK
<1>12. ASSUME NEW c \in Client, NEW u \in Ups, net_fsd(c, u) PROVE IInv'
  <2>1. fsd' \in [Ups -> BOOLEAN]
    BY <1>12, Zenon DEF net_fsd, TypeOK
  <2>2. QED
    BY <1>12, <2>1, SameCounts, IdleAssumption DEF net_fsd, Reads, Answered, TypeOK
<1>13. ASSUME NEW c \in Client, OtherCommand(c) PROVE IInv'
  <2>1. connected' \in [Ups -> BOOLEAN]
    BY <1>13, Zenon DEF OtherCommand, TypeOK
  <2>2. QED
    BY <1>13, <2>1, SameCounts, IdleAssumption DEF OtherCommand, Reads, Answered, TypeOK
<1>14. ASSUME NEW u \in Ups, DriverEvent(u) PROVE IInv'
  <2>1. connected' \in [Ups -> BOOLEAN]
    BY <1>14, Zenon DEF DriverEvent, TypeOK
  <2>2. QED
    BY <1>14, <2>1, SameCounts DEF DriverEvent, TypeOK, sessVars
<1>15. CASE AcceptFails
  BY <1>15, SameCounts DEF AcceptFails, TypeOK, sessVars, upsVars
<1>16. CASE EndOfPass
  BY <1>16, SameCounts DEF EndOfPass, TypeOK, sessVars, upsVars
<1>17. CASE SIGHUP
  BY <1>17, SameCounts DEF SIGHUP, TypeOK, sessVars, upsVars
<1>18. CASE Tick
  BY <1>18, SameCounts, IdleAssumption DEF Tick, TypeOK, upsVars, loopVars
<1>19. CASE UNCHANGED vars
  BY <1>19, SameCounts DEF vars, TypeOK, sessVars, upsVars, loopVars
<1>20. QED
  BY <1>1, <1>2, <1>3, <1>4, <1>5, <1>6, <1>7, <1>8, <1>9, <1>10, <1>11, <1>12,
     <1>13, <1>14, <1>15, <1>16, <1>17, <1>18, <1>19 DEF Next, Mainloop, Serve

\* The counter upsd reports is always the number of clients logged in, for any
\* number of clients and UPSes (server/upsd.c declogins, netuser.c net_login).
THEOREM LoginsCounted == Spec => [](TypeOK /\ LoginsMatch)
<1>1. IInv => TypeOK /\ LoginsMatch
  BY DEF IInv
<1>2. QED
  BY InitIInv, StepIInv, <1>1, PTL DEF Spec

-----------------------------------------------------------------------------
\* A reload keeps fsd of the UPSes that stay, and no other action clears it.
LEMMA StepFsd ==
    ASSUME IInv, [Next]_vars, NEW u \in upses \cap upses', fsd[u]
    PROVE  fsd'[u]
<1> USE DEF IInv, TypeOK
<1>1. CASE Reload
  BY <1>1, Zenon DEF Reload, conf_reload
<1>2. ASSUME NEW c \in Client, NEW v \in Ups, net_fsd(c, v) PROVE fsd'[u]
  BY <1>2, Zenon DEF net_fsd
<1>3. CASE UNCHANGED fsd
  BY <1>3
<1>4. QED
  BY <1>1, <1>2, <1>3
  DEF Next, Mainloop, Serve, NoReload, ReloadRefused, ScanDrivers, ShedIdle, Poll,
      client_connect, Hangup, GiveCredential, net_login, net_logout, OtherCommand,
      DriverEvent, AcceptFails, EndOfPass, SIGHUP, Tick, vars, sessVars, upsVars, loopVars

\* FSD is latched for as long as the UPS stays configured (netmisc.c net_fsd,
\* conf.c ups_update): the hosts behind it can rely on seeing it.
THEOREM FsdStays == Spec => FsdLatched
<1>1. IInv /\ [Next]_vars => [\A u \in upses \cap upses' : fsd[u] => fsd'[u]]_vars
  BY StepFsd
<1>2. QED
  BY <1>1, InitIInv, StepIInv, PTL DEF Spec, FsdLatched

-----------------------------------------------------------------------------
\* The list firstclient is a list: no two clients have the same place in it.
Listed ==
    /\ place \in [Client -> Nat]
    /\ \A c, d \in Online : place[c] = place[d] => c = d

\* Only clients of the list are served, and only between poll() and the end of
\* the pass: nobody is disconnected while his descriptor waits to be served,
\* except by being served.
ServesOnline ==
    /\ ready \cap Client \subseteq Online
    /\ phase # "serve" => ready = {}

\* NoGhostLogin is not inductive: that the clients behind a freed entry stay in
\* the list depends on the list's places, and that a client still has its
\* entry when its LOGIN is executed depends on whom the pass serves.
GInv == IInv /\ Listed /\ ServesOnline /\ NoGhostLogin

\* Between two places of the list there are no more clients than places.
LEMMA ClientsBetween ==
    ASSUME Listed, NEW D \in SUBSET Online, NEW a \in Nat, NEW b \in Nat,
           \A d \in D : a < place[d] /\ place[d] < b
    PROVE  /\ IsFiniteSet(D) /\ Cardinality(D) \in Nat
           /\ a < b => Cardinality(D) < b - a
<1> DEFINE f == [d \in D |-> place[d]]
<1>1. IsFiniteSet(D) /\ Cardinality(D) \in Nat
  BY ClientAssumption, FS_Subset, FS_CardinalityType DEF Online
<1>2. f \in Injection(D, (a + 1)..(b - 1))
  <2>1. \A d \in D : place[d] \in (a + 1)..(b - 1)
    BY DEF Listed, Online
  <2>2. \A d, e \in D : f[d] = f[e] => d = e
    BY DEF Listed
  <2>3. QED
    BY <2>1, <2>2 DEF Injection, IsInjective
<1>3. /\ IsFiniteSet((a + 1)..(b - 1))
      /\ Cardinality((a + 1)..(b - 1)) = IF a + 1 > b - 1 THEN 0 ELSE (b - 1) - (a + 1) + 1
  BY FS_Interval
<1>4. Cardinality(D) <= Cardinality((a + 1)..(b - 1))
  BY <1>2, <1>3, FS_Injection
<1>5. QED
  BY <1>1, <1>3, <1>4

\* Freeing entries takes exactly them off the list, and it stays a list.
LEMMA UnlinkListed ==
    ASSUME Listed, NEW S \in SUBSET Client, Unlink(S)
    PROVE  Listed' /\ Online' = Online \ S
<1> DEFINE Before(c) == {d \in S \cap Online : place[d] < place[c]}
<1>1. \A c \in Client : place'[c] = IF c \in S THEN 0 ELSE place[c] - Cardinality(Before(c))
  BY DEF Unlink
<1>2. ASSUME NEW c \in Online
      PROVE  Cardinality(Before(c)) \in Nat /\ Cardinality(Before(c)) < place[c]
  <2>1. place[c] \in Nat /\ 0 < place[c]
    BY DEF Listed, Online
  <2>2. \A d \in Before(c) : 0 < place[d] /\ place[d] < place[c]
    BY DEF Online
  <2>3. QED
    BY <2>1, <2>2, ClientsBetween
<1>3. ASSUME NEW c \in Client \ Online PROVE Cardinality(Before(c)) = 0 /\ place[c] = 0
  <2>1. place[c] = 0
    BY DEF Listed, Online
  <2>2. Before(c) = {}
    BY <2>1 DEF Listed, Online
  <2>3. QED
    BY <2>1, <2>2, FS_EmptySet
<1>4. \A c \in Client : place'[c] \in Nat /\ (place'[c] > 0 <=> c \in Online \ S)
  <2> HIDE DEF Before
  <2>1. ASSUME NEW c \in Online
        PROVE  place'[c] \in Nat /\ (place'[c] > 0 <=> c \notin S)
    <3>1. c \in Client /\ place[c] \in Nat
      BY DEF Listed, Online
    <3>2. QED
      BY <1>1, <1>2, <3>1
  <2>2. ASSUME NEW c \in Client \ Online PROVE place'[c] = 0
    BY <1>1, <1>3
  <2>3. QED
    BY <2>1, <2>2
<1>5. Online' = Online \ S
  BY <1>4 DEF Online
<1>6. ASSUME NEW c \in Online \ S, NEW e \in Online \ S, place[c] < place[e]
      PROVE  place'[c] < place'[e]
  <2> DEFINE D == Before(e) \ Before(c)
  <2>1. place[c] \in Nat /\ place[e] \in Nat
    BY DEF Listed, Online
  <2>2. \A d \in D : place[c] < place[d] /\ place[d] < place[e]
    BY <2>1 DEF Listed, Online
  <2>3. Cardinality(D) \in Nat /\ Cardinality(D) < place[e] - place[c]
    BY <1>6, <2>1, <2>2, ClientsBetween
  <2>4. IsFiniteSet(Before(e)) /\ Before(e) \cap Before(c) = Before(c)
    BY <1>6, <2>1, ClientAssumption, FS_Subset DEF Listed, Online
  <2>5. Cardinality(D) = Cardinality(Before(e)) - Cardinality(Before(c))
    BY <2>4, FS_Difference
  <2>6. c \in Client /\ e \in Client
    BY DEF Online
  <2>7. place'[c] = place[c] - Cardinality(Before(c)) /\ place'[e] = place[e] - Cardinality(Before(e))
    BY <1>1, <2>6
  <2>8. QED
    BY <1>2, <2>1, <2>3, <2>5, <2>7
<1>7. ASSUME NEW c \in Online', NEW e \in Online', place'[c] = place'[e] PROVE c = e
  <2>1. /\ c \in Online \ S /\ e \in Online \ S
        /\ place[c] \in Nat /\ place[e] \in Nat /\ place'[c] \in Nat
    BY <1>4, <1>5 DEF Listed, Online
  <2>2. ~(place[c] < place[e]) /\ ~(place[e] < place[c])
    BY <1>6, <1>7, <2>1
  <2>3. QED
    BY <2>1, <2>2 DEF Listed
<1>8. place' \in [Client -> Nat]
  BY <1>4 DEF Unlink
<1>9. QED
  BY <1>5, <1>7, <1>8 DEF Listed

\* Whoever is disconnected loses login and entry together.
LEMMA UnlinkGhost ==
    ASSUME GInv, NEW S \in SUBSET Client, Unlink(S),
           \A c \in Client \ S : loginups[c] # NoUps => loginups[c] \in upses'
    PROVE  NoGhostLogin'
<1>1. Online' = Online \ S
  BY UnlinkListed DEF GInv
<1>2. \A c \in Client : IF c \in S THEN loginups'[c] = NoUps
                        ELSE loginups'[c] = loginups[c] /\ auth'[c] = auth[c]
  BY DEF Unlink
<1>3. QED
  BY <1>1, <1>2 DEF GInv, NoGhostLogin, Authenticated

\* Steps that leave the sessions and the list of UPSes alone, and serve on.
LEMMA SameSessions ==
    ASSUME GInv, UNCHANGED <<place, auth, loginups, upses>>
    PROVE  /\ Listed' /\ NoGhostLogin'
           /\ Online' = Online
BY DEF GInv, Listed, NoGhostLogin, Online, Authenticated

LEMMA StepGInv == GInv /\ IInv' /\ [Next]_vars => GInv'
<1> SUFFICES ASSUME GInv, IInv', [Next]_vars PROVE Listed' /\ ServesOnline' /\ NoGhostLogin'
  BY DEF GInv
<1>1. ASSUME NEW S \in SUBSET Online, client_disconnect(S), UNCHANGED <<upses, ready>>,
             phase # "serve"
      PROVE  Listed' /\ ServesOnline' /\ NoGhostLogin'
  <2>1. S \in SUBSET Client /\ Unlink(S)
    BY <1>1 DEF client_disconnect, Online
  <2>2. NoGhostLogin'
    BY <1>1, <2>1, UnlinkGhost DEF GInv, NoGhostLogin
  <2>3. QED
    BY <1>1, <2>1, <2>2, UnlinkListed DEF GInv, ServesOnline
<1>2. CASE ReloadRefused
  BY <1>1, <1>2 DEF ReloadRefused
<1>3. CASE Reload
  <2>1. PICK newups \in SUBSET Ups, moved \in SUBSET Ups, linked \in SUBSET Ups,
             oldest \in SUBSET Online, newusers \in UserFiles, newmax \in MaxConns :
                conf_reload(newups, moved, linked, oldest, newusers, newmax)
    BY <1>3 DEF Reload
  <2> DEFINE kicked == oldest \cup {c \in Client : loginups[c] \in upses \ newups}
  <2>2. kicked \in SUBSET Client /\ Unlink(kicked) /\ upses' = newups
    BY <2>1 DEF conf_reload, Online
  <2>3. \A c \in Client \ kicked : loginups[c] # NoUps => loginups[c] \in upses'
    BY <2>2 DEF GInv, NoGhostLogin
  <2>4. NoGhostLogin'
    BY <2>2, <2>3, UnlinkGhost
  <2>5. QED
    BY <1>3, <2>2, <2>4, UnlinkListed DEF GInv, ServesOnline, Reload
<1>4. CASE ShedIdle
  <2>1. {c \in Online : age[c] > IdleLimit} \in SUBSET Online
    OBVIOUS
  <2>2. QED
    BY <1>1, <1>4, <2>1 DEF ShedIdle
<1>5. CASE Poll
  <2>1. ready' \cap Client \subseteq Online
    BY <1>5, ClientAssumption, UpsAssumption
    DEF Poll, PolledDrivers, PolledClients, Drivers, GInv, IInv, TypeOK
  <2>2. QED
    BY <1>5, <2>1, SameSessions DEF Poll, ServesOnline, sessVars, upsVars
<1>6. ASSUME NEW c \in Client, client_connect(c) PROVE Listed' /\ ServesOnline' /\ NoGhostLogin'
  <2>1. \A d \in Client : place'[d] = IF d = c THEN 1 ELSE IF d \in Online THEN place[d] + 1 ELSE 0
    BY <1>6 DEF client_connect
  <2>2. Online' = Online \cup {c}
    BY <2>1 DEF Online, GInv, Listed
  <2>3. Listed'
    BY <1>6, <2>1, <2>2 DEF client_connect, GInv, Listed, Online
  <2>4. QED
    BY <1>6, <2>2, <2>3 DEF client_connect, upsVars, GInv, ServesOnline, NoGhostLogin, Authenticated
<1>7. ASSUME NEW c \in Client, Hangup(c) PROVE Listed' /\ ServesOnline' /\ NoGhostLogin'
  <2>1. {c} \in SUBSET Client /\ Unlink({c}) /\ upses' = upses
    BY <1>7 DEF Hangup, client_disconnect
  <2>2. NoGhostLogin'
    BY <2>1, UnlinkGhost DEF GInv, NoGhostLogin
  <2>3. QED
    BY <1>7, <2>1, <2>2, UnlinkListed DEF Hangup, GInv, ServesOnline
<1>8. ASSUME NEW c \in Client, NEW w \in Credentials, GiveCredential(c, w)
      PROVE  Listed' /\ ServesOnline' /\ NoGhostLogin'
  <2>1. Online' = Online /\ Listed'
    BY <1>8 DEF GiveCredential, Reads, GInv, Listed, Online
  <2>2. \A d \in Client : Authenticated(d) => Authenticated(d)'
    BY <1>8 DEF GiveCredential, Authenticated, GInv, IInv, TypeOK
  <2>3. NoGhostLogin'
    BY <1>8, <2>1, <2>2 DEF GiveCredential, Reads, GInv, NoGhostLogin
  <2>4. QED
    BY <1>8, <2>1, <2>3 DEF GiveCredential, Reads, GInv, ServesOnline
<1>9. ASSUME NEW c \in Client, NEW u \in Ups, net_login(c, u)
      PROVE  Listed' /\ ServesOnline' /\ NoGhostLogin'
  <2>1. Online' = Online /\ Listed' /\ ServesOnline'
    BY <1>9 DEF net_login, Reads, GInv, Listed, ServesOnline, Online
  <2>2. \/ loginups' = loginups
        \/ Authenticated(c) /\ u \in upses /\ loginups' = [loginups EXCEPT ![c] = u]
    BY <1>9 DEF net_login
  <2>3. c \in Online /\ upses' = upses /\ auth' = auth
    BY <1>9 DEF net_login, Reads, GInv, ServesOnline
  <2>4. NoGhostLogin'
    BY <2>1, <2>2, <2>3 DEF GInv, IInv, TypeOK, NoGhostLogin, Authenticated
  <2>5. QED
    BY <2>1, <2>4
<1>10. CASE NoReload \/ ScanDrivers \/ AcceptFails \/ EndOfPass \/ SIGHUP \/ Tick \/ UNCHANGED vars
  <2>1. UNCHANGED <<place, auth, loginups, upses>> /\ ready' \subseteq ready
    BY <1>10 DEF NoReload, ScanDrivers, AcceptFails, EndOfPass, SIGHUP, Tick,
       vars, sessVars, upsVars, loopVars
  <2>2. phase' # "serve" => ready' = {}
    BY <1>10 DEF NoReload, ScanDrivers, AcceptFails, EndOfPass, SIGHUP, Tick,
       vars, loopVars, GInv, ServesOnline
  <2>3. QED
    BY <2>1, <2>2, SameSessions DEF GInv, ServesOnline
<1>11. ASSUME NEW c \in Client, NEW u \in Ups, net_fsd(c, u)
       PROVE  Listed' /\ ServesOnline' /\ NoGhostLogin'
  <2>1. /\ UNCHANGED <<place, auth, loginups, upses>> /\ ready' \subseteq ready
        /\ phase' = "serve"
    BY <1>11 DEF net_fsd, Reads
  <2>2. QED
    BY <2>1, SameSessions DEF GInv, ServesOnline
<1>12. ASSUME NEW c \in Client, net_logout(c) \/ OtherCommand(c)
       PROVE  Listed' /\ ServesOnline' /\ NoGhostLogin'
  <2>1. /\ UNCHANGED <<place, auth, loginups, upses>> /\ ready' \subseteq ready
        /\ phase' = "serve"
    BY <1>12 DEF net_logout, OtherCommand, Reads
  <2>2. QED
    BY <2>1, SameSessions DEF GInv, ServesOnline
<1>13. ASSUME NEW u \in Ups, DriverEvent(u) PROVE Listed' /\ ServesOnline' /\ NoGhostLogin'
  <2>1. /\ UNCHANGED <<place, auth, loginups, upses>> /\ ready' \subseteq ready
        /\ phase' = "serve"
    BY <1>13 DEF DriverEvent, sessVars
  <2>2. QED
    BY <2>1, SameSessions DEF GInv, ServesOnline
<1>14. QED
  BY <1>2, <1>3, <1>4, <1>5, <1>6, <1>7, <1>8, <1>9, <1>10, <1>11, <1>12, <1>13
  DEF Next, Mainloop, Serve

\* No login outlives its connection or its UPS, for any clients, UPSes and
\* limits: whoever is counted is a connected, authenticated client of a
\* configured UPS (server/upsd.c client_disconnect, kick_login_clients,
\* server/conf.c delete_ups), so declogins() always finds the entry.
THEOREM LoginsAreLive == Spec => []NoGhostLogin
<1>1. Init => GInv
  <2> SUFFICES ASSUME Init PROVE Listed /\ ServesOnline /\ NoGhostLogin
    BY InitIInv DEF GInv
  <2>1. Online = {}
    BY DEF Init, Online
  <2>2. QED
    BY <2>1 DEF Init, Listed, ServesOnline, NoGhostLogin
<1>2. GInv => IInv /\ NoGhostLogin
  BY DEF GInv
<1>3. QED
  BY <1>1, <1>2, StepIInv, StepGInv, PTL DEF Spec

-----------------------------------------------------------------------------
\* The refinement mapping, as it is instantiated in Upsd.
members == [u \in Ups |-> IF u \in upses THEN LoggedInto(u) ELSE {}]
count   == [u \in Ups |-> IF u \in upses THEN numlogins[u] ELSE 0]
forced  == {u \in upses : fsd[u]}

\* Under the counting invariant the mapped count is the mapped membership's size.
LEMMA MappedCount == IInv => count = [u \in Ups |-> Cardinality(members[u])]
BY FS_EmptySet DEF IInv, LoginsMatch, count, members

\* The abstract module counts with its own copy of FiniteSets.
LEMMA SameCardinality == \A S : Service!Cardinality(S) = Cardinality(S)
BY DEF Service!Cardinality, Cardinality, Service!IsFiniteSet, IsFiniteSet

\* A step that neither the membership, the UPS list nor fsd notices is a stutter.
LEMMA Invisible ==
    ASSUME UNCHANGED <<loginups, numlogins, upses, fsd>>
    PROVE  UNCHANGED Service!vars
BY DEF Service!vars, LoggedInto

\* Losing the clients S is a Leave of the login service.
LEMMA DisconnectLeaves ==
    ASSUME IInv, IInv', NEW S \in SUBSET Client, client_disconnect(S),
           upses' = upses, fsd' = fsd
    PROVE  Service!Next
<1>1. \A u \in Ups : LoggedInto(u)' = LoggedInto(u) \ S
  BY UpsAssumption DEF client_disconnect, Unlink, LoggedInto, IInv, TypeOK
<1>2. members' = [u \in Ups |-> members[u] \ S]
  BY <1>1 DEF members
<1>3. count' = [u \in Ups |-> Cardinality(members'[u])]
  BY MappedCount DEF count, members, IInv, LoginsMatch, LoggedInto, TypeOK, RestZero, Configured
<1>4. Service!Leave(S)
  BY <1>2, <1>3, SameCardinality DEF Service!Leave, Service!Counted, members, count
<1>5. QED
  BY <1>4 DEF Service!Next

\* A reload is a Redefine of the login service, during which oldest leave.
LEMMA ReloadRedefines ==
    ASSUME IInv, IInv',
           NEW newups \in SUBSET Ups, NEW moved, NEW linked,
           NEW oldest \in SUBSET Client, NEW newusers, NEW newmax,
           conf_reload(newups, moved, linked, oldest, newusers, newmax)
    PROVE  Service!Next
<1>1. upses' = newups
  BY DEF conf_reload
<1>2. \A u \in upses \cap newups : LoggedInto(u)' = LoggedInto(u) \ oldest
  BY UpsAssumption DEF conf_reload, Unlink, LoggedInto, IInv, TypeOK
<1>3. \A u \in newups \ upses : LoggedInto(u)' = {}
  BY UpsAssumption DEF conf_reload, Unlink, LoggedInto, IInv, TypeOK, Configured
<1>4. members' = [u \in Ups |-> IF u \in upses \cap newups THEN members[u] \ oldest ELSE {}]
  BY <1>1, <1>2, <1>3 DEF members
<1>5. count' = [u \in Ups |-> Cardinality(members'[u])]
  BY FS_EmptySet DEF count, members, IInv, LoginsMatch, LoggedInto
<1>6. forced' = forced \cap newups
  BY <1>1 DEF forced, conf_reload, IInv, TypeOK
<1>7. Service!Redefine(newups, oldest)
  BY <1>1, <1>4, <1>5, <1>6, SameCardinality
  DEF Service!Redefine, Service!Counted, members, count, forced
<1>8. QED
  BY <1>7 DEF Service!Next

LEMMA StepService == IInv /\ IInv' /\ [Next]_vars => [Service!Next]_(Service!vars)
<1> SUFFICES ASSUME IInv, IInv', [Next]_vars PROVE Service!Next \/ UNCHANGED Service!vars
  OBVIOUS
<1>1. CASE ReloadRefused
  <2>1. PICK S \in SUBSET Online : client_disconnect(S)
    BY <1>1 DEF ReloadRefused
  <2>2. S \in SUBSET Client
    BY DEF Online
  <2>3. QED
    BY <1>1, <2>1, <2>2, DisconnectLeaves DEF ReloadRefused
<1>2. CASE Reload
  <2>1. PICK newups \in SUBSET Ups, moved \in SUBSET Ups, linked \in SUBSET Ups,
             oldest \in SUBSET Online, newusers \in UserFiles, newmax \in MaxConns :
                conf_reload(newups, moved, linked, oldest, newusers, newmax)
    BY <1>2 DEF Reload
  <2>2. oldest \in SUBSET Client
    BY DEF Online
  <2>3. QED
    BY <2>1, <2>2, ReloadRedefines
<1>3. CASE ShedIdle
  <2>1. {c \in Online : age[c] > IdleLimit} \in SUBSET Client
    BY DEF Online
  <2>2. QED
    BY <1>3, <2>1, DisconnectLeaves DEF ShedIdle
<1>4. ASSUME NEW c \in Client, Hangup(c) PROVE Service!Next
  BY <1>4, DisconnectLeaves DEF Hangup
<1>5. ASSUME NEW c \in Client, NEW u \in Ups, net_login(c, u)
      PROVE  Service!Next \/ UNCHANGED Service!vars
  <2>1. fsd' = fsd /\ upses' = upses
    BY <1>5 DEF net_login, Reads
  <2>2. CASE UNCHANGED <<loginups, numlogins>>
    BY <2>1, <2>2, Invisible
  <2>3. CASE /\ u \in upses /\ loginups[c] = NoUps
             /\ loginups' = [loginups EXCEPT ![c] = u]
    <3>1. \A v \in Ups : LoggedInto(v)' = IF v = u THEN LoggedInto(v) \cup {c} ELSE LoggedInto(v)
      BY <2>3, UpsAssumption DEF LoggedInto, IInv, TypeOK
    <3>2. members' = [members EXCEPT ![u] = @ \cup {c}]
      BY <2>1, <2>3, <3>1 DEF members
    <3>3. \A v \in Ups : c \notin members[v]
      BY <2>3, UpsAssumption DEF members, LoggedInto
    <3>4. count' = [v \in Ups |-> Cardinality(members'[v])]
      BY FS_EmptySet DEF count, members, IInv, LoginsMatch, LoggedInto
    <3>5. Service!Login(c, u)
      BY <2>1, <2>3, <3>2, <3>3, <3>4, SameCardinality
      DEF Service!Login, Service!Counted, members, count
    <3>6. QED
      BY <3>5 DEF Service!Next
  <2>4. QED
    BY <1>5, <2>2, <2>3 DEF net_login
<1>6. ASSUME NEW c \in Client, NEW u \in Ups, net_fsd(c, u)
      PROVE  Service!Next \/ UNCHANGED Service!vars
  <2>1. UNCHANGED <<loginups, numlogins, upses>>
    BY <1>6 DEF net_fsd, Reads
  <2>2. CASE fsd' = fsd
    BY <2>1, <2>2, Invisible
  <2>3. CASE u \in upses /\ forced' = forced \cup {u}
    <3>1. Service!ForceShutdown(u)
      BY <2>1, <2>3 DEF Service!ForceShutdown, forced, LoggedInto
    <3>2. QED
      BY <3>1 DEF Service!Next
  <2>4. QED
    <3>1. \/ fsd' = fsd
          \/ u \in upses /\ fsd' = [fsd EXCEPT ![u] = TRUE]
      BY <1>6, Zenon DEF net_fsd, IInv, TypeOK
    <3>2. ASSUME u \in upses, fsd' = [fsd EXCEPT ![u] = TRUE] PROVE forced' = forced \cup {u}
      BY <2>1, <3>2 DEF forced, IInv, TypeOK
    <3>3. QED
      BY <2>2, <2>3, <3>1, <3>2
<1>7. CASE UNCHANGED <<loginups, numlogins, upses, fsd>>
  BY <1>7, Invisible
<1>8. QED
  BY <1>1, <1>2, <1>3, <1>4, <1>5, <1>6, <1>7
  DEF Next, Mainloop, Serve, NoReload, ScanDrivers, Poll,
      client_connect, GiveCredential, net_logout, OtherCommand, Reads,
      DriverEvent, AcceptFails, EndOfPass, SIGHUP, Tick, vars, sessVars, upsVars, loopVars

\* upsd implements the login service: whatever happens to sockets, files and
\* timers, hosts see one membership per UPS, its exact count and a latched FSD.
THEOREM UpsdImplementsLoginService == Spec => ImplementsLoginService
<1>1. Init => Service!Init
  <2> SUFFICES ASSUME Init PROVE Service!Init
    OBVIOUS
  <2>1. \A u \in Ups : LoggedInto(u) = {}
    BY UpsAssumption DEF Init, LoggedInto
  <2>2. QED
    BY <2>1 DEF Init, Service!Init
<1>2. QED
  BY <1>1, InitIInv, StepIInv, StepService, PTL
  DEF Spec, ImplementsLoginService, Service!Spec
=============================================================================
