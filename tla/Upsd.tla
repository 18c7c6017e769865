-------------------------------- MODULE Upsd --------------------------------
(***************************************************************************)
(* The client sessions of upsd, NUT's data server (server/upsd.c,          *)
(* server/netuser.c, server/netmisc.c, server/netget.c, server/conf.c).    *)
(*                                                                         *)
(* upsd is one thread: each pass of mainloop() honours a pending SIGHUP,   *)
(* looks after the driver sockets, sheds idle clients, fills the poll()    *)
(* array up to MAXCONN entries and then serves the descriptors that are    *)
(* ready.  The variable phase is the place in that pass.  What matters to  *)
(* the hosts behind a UPS is kept exactly: who is logged into which UPS,   *)
(* the counter numlogins that GET NUMLOGINS answers with, and the latched  *)
(* forced-shutdown flag fsd.                                               *)
(*                                                                         *)
(* Time since client->last_heard is kept as an age that stops growing just *)
(* above the idle limit (60 seconds in the code), which is all mainloop()  *)
(* can see of it; "last_heard = 0" is that largest age.                    *)
(***************************************************************************)
EXTENDS Integers, FiniteSets

CONSTANTS
    Client,     \* identities of client connections (nut_ctype_t)
    Ups,        \* names that may appear in ups.conf
    NoUps,      \* client->loginups == NULL
    Listener,   \* the listening socket
    Account,    \* Account[c]: "primary" or "secondary", the upsd.users entry c knows
    UserFiles,  \* contents upsd.users may have: sets of upsmon types it lists
    MaxConns,   \* values upsd.conf may give to MAXCONN
    IdleLimit   \* seconds of silence a client is allowed

ASSUME ClientAssumption   == IsFiniteSet(Client) /\ Listener \notin Client \cup Ups
ASSUME UpsAssumption      == IsFiniteSet(Ups) /\ NoUps \notin Ups /\ Client \cap Ups = {}
ASSUME AccountAssumption  == Account \in [Client -> {"primary", "secondary"}]
ASSUME UserFilesAssumption == UserFiles \subseteq SUBSET {"primary", "secondary"}
ASSUME MaxConnsAssumption == MaxConns \subseteq Nat \ {0}
ASSUME IdleAssumption     == IdleLimit \in Nat

VARIABLES
    place,       \* place[c]: position in the list firstclient, 0 when not in it
    auth,        \* which of USERNAME and PASSWORD each client has given
    loginups,    \* client->loginups
    age,         \* seconds since client->last_heard, capped
    users,       \* the entries of upsd.users in force
    upses,       \* the list firstups
    numlogins,   \* ups->numlogins
    fsd,         \* ups->fsd
    connected,   \* VALID_FD(ups->sock_fd)
    maxconn,     \* MAXCONN in force
    reload_flag, \* SIGHUP arrived
    phase,       \* place in mainloop()
    ready        \* polled descriptors with events still to be served

sessVars == <<place, auth, loginups, age>>
upsVars  == <<upses, numlogins, fsd, connected>>
loopVars == <<reload_flag, phase, ready>>
vars == <<sessVars, users, upsVars, maxconn, loopVars>>

-----------------------------------------------------------------------------
Expired == IdleLimit + 1
Online == {c \in Client : place[c] > 0}
Credentials == {"USERNAME", "PASSWORD"}

\* upsmon types of upsd.users: primary has login, master and fsd.
Granted == [primary |-> {"LOGIN", "MASTER", "FSD"}, secondary |-> {"LOGIN"}]

\* check_command(): FLAG_USER commands need both credentials first.
Authenticated(c) == auth[c] = Credentials

user_checkaction(c, action) == /\ Account[c] \in users
                               /\ action \in Granted[Account[c]]

\* Clients logged into u.
LoggedInto(u) == {c \in Client : loginups[c] = u}

-----------------------------------------------------------------------------
Init ==
    /\ place = [c \in Client |-> 0]
    /\ auth = [c \in Client |-> {}]
    /\ loginups = [c \in Client |-> NoUps]
    /\ age = [c \in Client |-> 0]
    /\ users \in UserFiles
    /\ upses \in SUBSET Ups
    /\ numlogins = [u \in Ups |-> 0]
    /\ fsd = [u \in Ups |-> FALSE]
    /\ connected = [u \in Ups |-> FALSE]
    /\ maxconn \in MaxConns
    /\ reload_flag = FALSE
    /\ phase = "reload"
    /\ ready = {}

\* Unlinking and freeing the members of S: those behind them move up.
Unlink(S) ==
    /\ place' = [c \in Client |-> IF c \in S THEN 0
                    ELSE place[c] - Cardinality({d \in S \cap Online : place[d] < place[c]})]
    /\ loginups' = [c \in Client |-> IF c \in S THEN NoUps ELSE loginups[c]]
    /\ auth' = [c \in Client |-> IF c \in S THEN {} ELSE auth[c]]
    /\ age' = [c \in Client |-> IF c \in S THEN 0 ELSE age[c]]

\* Mutant: declogins() is forgotten.
DisconnectKeepingCount(S) == Unlink(S) /\ UNCHANGED numlogins

\* client_disconnect() of every member of S: declogins() for those that were
\* logged in (a UPS that is no longer listed is left alone), unlink, free.
client_disconnect(S) ==
    /\ Unlink(S)
    /\ numlogins' = [u \in Ups |-> IF u \in upses
                                   THEN numlogins[u] - Cardinality(S \cap LoggedInto(u))
                                   ELSE numlogins[u]]

-----------------------------------------------------------------------------
(* Start of a pass: SIGHUP *)

\* The k clients that close_oldest_client() picks one after the other when
\* opening a configuration file fails with EMFILE.
OldestClients(S) ==
    \A c \in S, d \in Online \ S : age[c] >= age[d]

\* mainloop() with no reload pending.
NoReload ==
    /\ phase = "reload" /\ ~reload_flag
    /\ phase' = "drivers"
    /\ UNCHANGED <<sessVars, users, upsVars, maxconn, reload_flag, ready>>

\* conf_reload() gives up: upsd.conf cannot be opened, possibly after the
\* retries that each sacrificed a client.
ReloadRefused ==
    /\ phase = "reload" /\ reload_flag
    /\ \E S \in SUBSET Online : OldestClients(S) /\ client_disconnect(S)
    /\ phase' = "drivers"
    /\ reload_flag' = FALSE
    /\ UNCHANGED <<users, upses, fsd, connected, maxconn, ready>>

\* Mutant: delete_ups() does not kick the clients of the UPS it frees.
ReloadWithoutKick(newups, moved, linked, oldest, newusers, newmax) ==
    /\ client_disconnect(oldest)
    /\ upses' = newups
    /\ fsd' = [u \in Ups |-> u \in upses \cap newups /\ fsd[u]]
    /\ connected' = [u \in Ups |-> u \in linked \/ connected[u]]
    /\ users' = newusers
    /\ maxconn' = newmax

\* Mutant: every entry is created anew, so FSD is forgotten.
ReloadForgettingFsd(newups, moved, linked, oldest, newusers, newmax) ==
    /\ client_disconnect(oldest \cup {c \in Client : loginups[c] \in upses \ newups})
    /\ upses' = newups
    /\ fsd' = [u \in Ups |-> FALSE]
    /\ connected' = [u \in Ups |-> u \in linked]
    /\ users' = newusers
    /\ maxconn' = newmax

\* conf_reload(): newups is what ups.conf lists now, moved are the entries
\* whose driver changed, linked the created ones whose driver answered.
\* delete_ups() kicks whoever is logged into a deleted UPS; a UPS that stays
\* keeps its logins and its fsd flag; a created one starts from zero.
conf_reload(newups, moved, linked, oldest, newusers, newmax) ==
    LET created == newups \ upses
        kicked  == oldest \cup {c \in Client : loginups[c] \in upses \ newups}
    IN  /\ Unlink(kicked)
        /\ numlogins' = [u \in Ups |->
               IF u \in upses \cap newups
               THEN numlogins[u] - Cardinality(oldest \cap LoggedInto(u))
               ELSE 0]
        /\ upses' = newups
        /\ fsd' = [u \in Ups |-> u \in upses \cap newups /\ fsd[u]]
        /\ connected' = [u \in Ups |-> \/ u \in created \cap linked
                                       \/ u \in (upses \cap newups) \ moved /\ connected[u]]
        /\ users' = newusers
        /\ maxconn' = newmax

Reload ==
    /\ phase = "reload" /\ reload_flag
    /\ \E newups, moved, linked \in SUBSET Ups, oldest \in SUBSET Online :
        /\ moved \subseteq upses \cap newups
        /\ linked \subseteq newups \ upses
        /\ OldestClients(oldest)
        /\ \E newusers \in UserFiles, newmax \in MaxConns :
              conf_reload(newups, moved, linked, oldest, newusers, newmax)
    /\ phase' = "drivers"
    /\ reload_flag' = FALSE
    /\ UNCHANGED ready

-----------------------------------------------------------------------------
(* The scan that fills the poll() array *)

\* Reconnect to drivers whose socket is gone; the PING of sstate_dead() may
\* find another one broken.  Staleness is the business of module DriverLink.
ScanDrivers ==
    /\ phase = "drivers"
    /\ \E linked \in SUBSET upses :
        connected' = [u \in Ups |-> u \in linked \/ (u \notin upses /\ connected[u])]
    /\ phase' = "clients"
    /\ UNCHANGED <<sessVars, users, upses, numlogins, fsd, maxconn, reload_flag, ready>>

\* Descriptors are taken in the order drivers, clients (newest first), listener
\* until maxconn of them are in the array; the others are ignored this time.
Drivers == {u \in upses : connected[u]}
SlotsLeft == maxconn - Cardinality(Drivers)
PolledDrivers == IF SlotsLeft >= 0 THEN {Drivers}
                 ELSE {D \in SUBSET Drivers : Cardinality(D) = maxconn}
PolledClients == {c \in Online : place[c] <= SlotsLeft}
ListenerPolled == Cardinality(Online) < SlotsLeft

\* Mutant: only clients that hold no login are shed.
ShedIdleGuests ==
    /\ phase = "clients"
    /\ client_disconnect({c \in Online : age[c] > IdleLimit /\ loginups[c] = NoUps})
    /\ phase' = "poll"
    /\ UNCHANGED <<users, upses, fsd, connected, maxconn, reload_flag, ready>>

\* Clients silent for longer than the limit are shed before the array is filled.
ShedIdle ==
    /\ phase = "clients"
    /\ client_disconnect({c \in Online : age[c] > IdleLimit})
    /\ phase' = "poll"
    /\ UNCHANGED <<users, upses, fsd, connected, maxconn, reload_flag, ready>>

\* poll() returns with some of the descriptors of the array ready.
Poll ==
    /\ phase = "poll"
    /\ \E D \in PolledDrivers :
        ready' \in SUBSET (D \cup PolledClients \cup (IF ListenerPolled THEN {Listener} ELSE {}))
    /\ phase' = "serve"
    /\ UNCHANGED <<sessVars, users, upsVars, maxconn, reload_flag>>

-----------------------------------------------------------------------------
(* Serving the descriptors poll() returned *)

\* client_connect()
client_connect(c) ==
    /\ phase = "serve" /\ Listener \in ready
    /\ ready \cap Client = {}      \* the listeners come last in the array
    /\ c \notin Online
    /\ place' = [d \in Client |-> IF d = c THEN 1
                                 ELSE IF d \in Online THEN place[d] + 1 ELSE 0]
    /\ age' = [age EXCEPT ![c] = 0]
    /\ ready' = ready \ {Listener}
    /\ UNCHANGED <<auth, loginups, users, upsVars, maxconn, reload_flag, phase>>

\* accept() failed: the peer was faster to leave.
AcceptFails ==
    /\ phase = "serve" /\ Listener \in ready
    /\ ready \cap Client = {}
    /\ ready' = ready \ {Listener}
    /\ UNCHANGED <<sessVars, users, upsVars, maxconn, reload_flag, phase>>

\* POLLHUP, or read() returning nothing or an error.
Hangup(c) ==
    /\ phase = "serve" /\ c \in ready
    /\ client_disconnect({c})
    /\ ready' = ready \ {c}
    /\ UNCHANGED <<users, upses, fsd, connected, maxconn, reload_flag, phase>>

\* client_readline(): a complete line restarts the idle clock and is executed.
\* Several lines may have arrived in one read, so c may stay ready.  If the
\* answer cannot be written, sendback() sets last_heard to 0, and so does LOGOUT.
Reads(c) ==
    /\ phase = "serve" /\ c \in ready
    /\ ready' \in {ready, ready \ {c}}
    /\ UNCHANGED <<place, users, upses, maxconn, reload_flag, phase>>

Answered(c) == \E a \in {0, Expired} : age' = [age EXCEPT ![c] = a]

\* USERNAME and PASSWORD, each once.
GiveCredential(c, what) ==
    /\ Reads(c) /\ Answered(c)
    /\ auth' = [auth EXCEPT ![c] = @ \cup {what}]
    /\ UNCHANGED <<loginups, numlogins, fsd, connected>>

net_login(c, u) ==
    /\ Reads(c) /\ Answered(c)
    /\ IF /\ Authenticated(c)
          /\ loginups[c] = NoUps
          /\ u \in upses
          /\ user_checkaction(c, "LOGIN")
       THEN /\ loginups' = [loginups EXCEPT ![c] = u]
            /\ numlogins' = [numlogins EXCEPT ![u] = @ + 1]
       ELSE UNCHANGED <<loginups, numlogins>>
    /\ UNCHANGED <<auth, fsd, connected>>

net_logout(c) ==
    /\ Reads(c)
    /\ age' = [age EXCEPT ![c] = Expired]
    /\ UNCHANGED <<auth, loginups, numlogins, fsd, connected>>

net_fsd(c, u) ==
    /\ Reads(c) /\ Answered(c)
    /\ fsd' = [fsd EXCEPT ![u] = @ \/ /\ Authenticated(c)
                                      /\ u \in upses
                                      /\ user_checkaction(c, "FSD")]
    /\ UNCHANGED <<auth, loginups, numlogins, connected>>

\* Commands that change no session state: PRIMARY, GET, LIST, VER, ...
\* SET and INSTCMD write to a driver and drop its socket if that fails.
OtherCommand(c) ==
    /\ Reads(c) /\ Answered(c)
    /\ \/ UNCHANGED connected
       \/ \E u \in upses : connected[u] /\ connected' = [connected EXCEPT ![u] = FALSE]
    /\ UNCHANGED <<auth, loginups, numlogins, fsd>>

\* A driver's lines are read (module DriverLink) or its socket is found broken.
DriverEvent(u) ==
    /\ phase = "serve" /\ u \in ready
    /\ ready' = ready \ {u}
    /\ \E ok \in BOOLEAN : connected' = [connected EXCEPT ![u] = @ /\ ok]
    /\ UNCHANGED <<sessVars, users, upses, numlogins, fsd, maxconn, reload_flag, phase>>

\* Nothing is left to serve: mainloop() returns and main() calls it again.
EndOfPass ==
    /\ phase = "serve" /\ ready = {}
    /\ phase' = "reload"
    /\ UNCHANGED <<sessVars, users, upsVars, maxconn, reload_flag, ready>>

-----------------------------------------------------------------------------
(* The environment *)

SIGHUP ==
    /\ ~reload_flag
    /\ reload_flag' = TRUE
    /\ UNCHANGED <<sessVars, users, upsVars, maxconn, phase, ready>>

\* A second passes.
Tick ==
    /\ age' = [c \in Client |-> IF c \in Online /\ age[c] < Expired THEN age[c] + 1 ELSE age[c]]
    /\ UNCHANGED <<place, auth, loginups, users, upsVars, maxconn, loopVars>>

Serve ==
    \/ \E c \in Client : \/ client_connect(c)
                         \/ Hangup(c)
                         \/ \E w \in Credentials : GiveCredential(c, w)
                         \/ \E u \in Ups : net_login(c, u)
                         \/ net_logout(c)
                         \/ \E u \in Ups : net_fsd(c, u)
                         \/ OtherCommand(c)
    \/ \E u \in Ups : DriverEvent(u)
    \/ AcceptFails
    \/ EndOfPass

Mainloop == NoReload \/ ReloadRefused \/ Reload \/ ScanDrivers \/ ShedIdle \/ Poll \/ Serve

Next == Mainloop \/ SIGHUP \/ Tick

Spec == Init /\ [][Next]_vars

\* mainloop() is called for ever and every call returns: a read() brings at
\* most one buffer of lines, so the descriptors of a pass are all served.
Progress == Mainloop /\ <<phase, ready>>' # <<phase, ready>>
FairSpec == Spec /\ WF_vars(Progress) /\ WF_vars(Tick)

-----------------------------------------------------------------------------
(* Properties *)

\* Every variable keeps to its domain; in particular no numlogins is negative.
TypeOK ==
    /\ place \in [Client -> Int]
    /\ auth \in [Client -> SUBSET Credentials]
    /\ loginups \in [Client -> Ups \cup {NoUps}]
    /\ age \in [Client -> 0..Expired]
    /\ users \in UserFiles
    /\ upses \in SUBSET Ups
    /\ numlogins \in [Ups -> Nat]
    /\ fsd \in [Ups -> BOOLEAN]
    /\ connected \in [Ups -> BOOLEAN]
    /\ maxconn \in MaxConns
    /\ reload_flag \in BOOLEAN
    /\ phase \in {"reload", "drivers", "clients", "poll", "serve"}
    /\ ready \in SUBSET (Client \cup Ups \cup {Listener})

\* GET NUMLOGINS tells the truth: the counter of each configured UPS is the
\* number of clients logged into it, through every way of losing a client
\* (client_disconnect, kick_login_clients, close_oldest_client, idle shedding)
\* and every reload.  In particular the "Programming error" branch of
\* declogins(), a negative count, is never taken.
LoginsMatch ==
    \A u \in upses : numlogins[u] = Cardinality(LoggedInto(u))

\* No login outlives its connection or its UPS: a client that holds a login is
\* in the list, authenticated, and the UPS is configured (delete_ups() kicks
\* before it frees the entry, so declogins() always finds the name).
NoGhostLogin ==
    \A c \in Client : loginups[c] # NoUps =>
        c \in Online /\ loginups[c] \in upses /\ Authenticated(c)

\* Once set, FSD stays set for as long as the UPS stays configured; no reload,
\* logout or driver reconnection takes it back (net_fsd, ups_update).
FsdLatched ==
    [][\A u \in upses \cap upses' : fsd[u] => fsd'[u]]_vars

\* A host that falls silent does not hold its login for ever: whoever is never
\* heard again leaves the list (mainloop's idle limit).
SilentClientsLeave ==
    \A c \in Client : <>[](c \notin ready) => []<>(c \notin Online)

\* docs/man/upsd.conf.txt on MAXCONN: running out of connections affects new
\* clients only, so every client already connected is polled in every pass.
ConnectedClientsArePolled ==
    phase = "poll" => PolledClients = Online

-----------------------------------------------------------------------------
(* Refinement *)

\* upsd implements the login service.
Service == INSTANCE LoginService WITH
    known   <- upses,
    members <- [u \in Ups |-> IF u \in upses THEN LoggedInto(u) ELSE {}],
    count   <- [u \in Ups |-> IF u \in upses THEN numlogins[u] ELSE 0],
    forced  <- {u \in upses : fsd[u]}

\* Every step of upsd is a step of the login service or invisible to it.
ImplementsLoginService == Service!Spec
=============================================================================
