------------------------------ MODULE Shutdown ------------------------------
(***************************************************************************)
(* The forced shutdown of the hosts behind one UPS: the upsmon of the      *)
(* primary and those of the secondaries (clients/upsmon.c), talking to one *)
(* upsd, which is module LoginService here (module Upsd implements it).    *)
(*                                                                         *)
(* The primary sets FSD, waits until the secondaries are logged out or     *)
(* HOSTSYNC is over, lets FINALDELAY pass and calls SHUTDOWNCMD.  A        *)
(* secondary that reads FSD, or reads OB LB for longer than HOSTSYNC, lets *)
(* its own FINALDELAY pass, calls SHUTDOWNCMD and exits, which logs it out.*)
(*                                                                         *)
(* The unit of time is one polling interval: between two ticks every host  *)
(* takes its turn once, in any order.  What upsmon makes of status lines   *)
(* is module Upsmon; a host is reduced here to the last status it read.    *)
(***************************************************************************)
EXTENDS Integers, FiniteSets

CONSTANTS
    Host, Primary, \* the hosts, and the one that is primary for the UPS
    U,             \* the UPS
    HostSync,      \* HOSTSYNC of every host
    FinalDelay,    \* FINALDELAY of each host
    DeadTime,      \* DEADTIME of every host
    Lingers,       \* the hosts with SHUTDOWNEXIT other than 0
    Faults,        \* which kinds of faults may happen
    MaxFaults      \* how many of them

ASSUME HostAssumption == IsFiniteSet(Host) /\ Primary \in Host /\ Lingers \subseteq Host
ASSUME DelayAssumption == HostSync \in Nat /\ DeadTime \in Nat /\ FinalDelay \in [Host -> Nat]
ASSUME FaultAssumption ==
    MaxFaults \in Nat /\ Faults \subseteq {"link", "primary_link", "login", "stale", "restart"}

VARIABLES
    known, members, count, forced,  \* upsd: see LoginService
    available,  \* ups_available(): the driver is connected and its data fresh
    power,      \* what the UPS reports: a set of status words
    mode,       \* mode[h]: where the upsmon of h is
    conn,       \* conn[h]: h has a connection to upsd
    seen,       \* seen[h]: the status flags of h
    silence,    \* silence[h]: time since the last answer
    crit,       \* crit[h]: time since lastnoncrit
    wait,       \* wait[h]: time since h entered sync_secondaries() or doshutdown()
    acted,      \* the hosts that took their turn since the last tick
    faults      \* faults so far

Service == INSTANCE LoginService WITH Client <- Host, Ups <- {U}

server == <<known, members, count, forced>>
hostVars == <<mode, conn, seen, silence, crit, wait>>
vars == <<server, available, power, hostVars, acted, faults>>

Powers == {{"OL"}, {"OB"}, {"OB", "LB"}}
Active == {"monitor", "force", "sync", "final"}
Longest == CHOOSE n \in {HostSync} \cup {FinalDelay[h] : h \in Host} :
               \A m \in {HostSync} \cup {FinalDelay[h] : h \in Host} : m <= n

Init ==
    /\ Service!Init /\ known = {U}
    /\ available = TRUE
    /\ power = {"OL"}
    /\ mode = [h \in Host |-> "monitor"]
    /\ conn = [h \in Host |-> FALSE]
    /\ seen = [h \in Host |-> {}]
    /\ silence = [h \in Host |-> DeadTime + 1]
    /\ crit = [h \in Host |-> HostSync + 1]
    /\ wait = [h \in Host |-> 0]
    /\ acted = {}
    /\ faults = 0

-----------------------------------------------------------------------------
(* A host that monitors *)

HasTurn(h, m) == mode[h] = m /\ h \notin acted
EndTurn(h) == acted' = acted \cup {h}

\* pollups() -> try_connect(): connect and LOGIN.
Connect(h) ==
    /\ HasTurn(h, "monitor") /\ ~conn[h]
    /\ conn' = [conn EXCEPT ![h] = TRUE]
    /\ Service!Login(h, U)
    /\ UNCHANGED <<available, power, mode, seen, silence, crit, wait, acted, faults>>

\* The status upsd answers with: FSD comes first while ups->fsd is set.
Status == power \cup (IF U \in forced THEN {"FSD"} ELSE {})

Low(s) == {"OB", "LB"} \subseteq s

\* Mutant: FSD is ignored.
CriticalOnLowBattery(h, s, age) == Low(s) /\ (h = Primary \/ age > HostSync)

\* Mutant: a secondary does not give up on the primary.
CriticalOnFsd(h, s, age) == "FSD" \in s \/ (Low(s) /\ h = Primary)

\* recalc() and is_ups_critical(), reduced to these status words.
Critical(h, s, age) == "FSD" \in s \/ (Low(s) /\ (h = Primary \/ age > HostSync))

\* forceshutdown(): a secondary goes to doshutdown() directly.
Forced(h) == IF h = Primary THEN "force" ELSE "final"

\* pollups() and recalc() over a connection that exists; without an answer the
\* flags stay, and OB becomes OB LB after DEADTIME.
Poll(h) ==
    LET s == IF available THEN Status
             ELSE seen[h] \cup (IF "OB" \in seen[h] /\ silence[h] > DeadTime
                                THEN {"LB"} ELSE {})
        c == IF available /\ ~Low(s) THEN 0 ELSE crit[h]
    IN  /\ HasTurn(h, "monitor") /\ conn[h]
        /\ seen' = [seen EXCEPT ![h] = s]
        /\ silence' = [silence EXCEPT ![h] = IF available THEN 0 ELSE @]
        /\ crit' = [crit EXCEPT ![h] = c]
        /\ mode' = [mode EXCEPT ![h] = IF Critical(h, s, c) THEN Forced(h) ELSE @]
        /\ wait' = [wait EXCEPT ![h] = 0]
        /\ EndTurn(h)
        /\ UNCHANGED <<server, available, power, conn, faults>>

\* upsmon -c fsd
UserFsd(h) ==
    /\ HasTurn(h, "monitor")
    /\ mode' = [mode EXCEPT ![h] = Forced(h)]
    /\ wait' = [wait EXCEPT ![h] = 0]
    /\ UNCHANGED <<server, available, power, conn, seen, silence, crit, acted, faults>>

-----------------------------------------------------------------------------
(* The primary forces the shutdown *)

\* setfsd(): it asks upsd once; without a connection it only logs.
setfsd ==
    /\ mode[Primary] = "force"
    /\ IF conn[Primary] THEN Service!ForceShutdown(U) ELSE UNCHANGED server
    /\ mode' = [mode EXCEPT ![Primary] = "sync"]
    /\ wait' = [wait EXCEPT ![Primary] = 0]
    /\ acted' = acted \ {Primary}
    /\ UNCHANGED <<available, power, conn, seen, silence, crit, faults>>

\* Mutant: a primary and one secondary pass for one login.
SyncDoneAtTwo == conn[Primary] /\ available => count[U] <= 2

\* Mutant: HOSTSYNC is not looked at.
SyncDoneWhenAlone == conn[Primary] /\ available => count[U] <= 1

\* sync_secondaries(): no UPS reports more than one login, or HOSTSYNC is over.
\* A query that fails leaves maxlogins at 0.
SyncDone ==
    \/ (conn[Primary] /\ available => count[U] <= 1)
    \/ wait[Primary] > HostSync

sync_secondaries ==
    /\ HasTurn(Primary, "sync")
    /\ IF SyncDone
       THEN /\ mode' = [mode EXCEPT ![Primary] = "final"]
            /\ wait' = [wait EXCEPT ![Primary] = 0]
       ELSE UNCHANGED <<mode, wait>>
    /\ EndTurn(Primary)
    /\ UNCHANGED <<server, available, power, conn, seen, silence, crit, faults>>

-----------------------------------------------------------------------------
(* doshutdown() *)

\* FINALDELAY is not over yet.
FinalWait(h) ==
    /\ HasTurn(h, "final") /\ wait[h] < FinalDelay[h]
    /\ EndTurn(h)
    /\ UNCHANGED <<server, available, power, hostVars, faults>>

\* SHUTDOWNCMD is called; upsmon exits, unless SHUTDOWNEXIT makes it linger.
doshutdown(h) ==
    /\ HasTurn(h, "final") /\ wait[h] >= FinalDelay[h]
    /\ IF h \in Lingers
       THEN mode' = [mode EXCEPT ![h] = "halting"] /\ UNCHANGED <<server, conn>>
       ELSE /\ mode' = [mode EXCEPT ![h] = "halted"]
            /\ conn' = [conn EXCEPT ![h] = FALSE]
            /\ Service!Leave({h})
    /\ EndTurn(h)
    /\ UNCHANGED <<available, power, seen, silence, crit, wait, faults>>

\* The lingering upsmon ends: SHUTDOWNEXIT or the operating system's SIGTERM.
Exit(h) ==
    /\ mode[h] = "halting"
    /\ mode' = [mode EXCEPT ![h] = "halted"]
    /\ conn' = [conn EXCEPT ![h] = FALSE]
    /\ Service!Leave({h})
    /\ UNCHANGED <<available, power, seen, silence, crit, wait, acted, faults>>

-----------------------------------------------------------------------------
(* The environment *)

\* The supply fails, the battery runs low, the supply returns.
PowerChange ==
    /\ power' \in Powers \ {power}
    /\ UNCHANGED <<server, available, hostVars, acted, faults>>

Fault(kind) == kind \in Faults /\ faults < MaxFaults /\ faults' = faults + 1

\* A connection breaks; upsd sees the hang-up.
LinkLost(h) ==
    /\ Fault(IF h = Primary THEN "primary_link" ELSE "link")
    /\ conn[h]
    /\ conn' = [conn EXCEPT ![h] = FALSE]
    /\ Service!Leave({h})
    /\ UNCHANGED <<available, power, mode, seen, silence, crit, wait, acted>>

\* The connection is made but LOGIN is refused: ST_CLICONNECTED stays set, so
\* it is not tried again on this connection, and the host is not polled now.
LoginRefused(h) ==
    /\ Fault("login")
    /\ HasTurn(h, "monitor") /\ ~conn[h]
    /\ conn' = [conn EXCEPT ![h] = TRUE]
    /\ EndTurn(h)
    /\ UNCHANGED <<server, available, power, mode, seen, silence, crit, wait>>

\* The driver goes stale or away, and comes back.
Stale ==
    /\ Fault("stale") /\ available
    /\ available' = FALSE
    /\ UNCHANGED <<server, power, hostVars, acted>>

Recover ==
    /\ ~available
    /\ available' = TRUE
    /\ UNCHANGED <<server, power, hostVars, acted, faults>>

\* upsd restarts: logins, connections and the FSD flag are gone.
Restart ==
    /\ Fault("restart")
    /\ members' = [u \in {U} |-> {}]
    /\ count' = [u \in {U} |-> 0]
    /\ forced' = {}
    /\ conn' = [h \in Host |-> FALSE]
    /\ UNCHANGED <<known, available, power, mode, seen, silence, crit, wait, acted>>

\* A polling interval passes once everyone had his turn.
Older(f, cap) == [h \in Host |-> IF f[h] < cap THEN f[h] + 1 ELSE f[h]]

Tick ==
    /\ \A h \in Host : mode[h] \in Active => h \in acted
    /\ acted' = {}
    /\ silence' = Older(silence, DeadTime + 1)
    /\ crit' = Older(crit, HostSync + 1)
    /\ wait' = Older(wait, Longest + 1)
    /\ UNCHANGED <<server, available, power, mode, conn, seen, faults>>

HostStep == \/ \E h \in Host : Connect(h) \/ Poll(h) \/ FinalWait(h) \/ doshutdown(h)
            \/ setfsd \/ sync_secondaries

Next == \/ HostStep
        \/ \E h \in Host : UserFsd(h) \/ Exit(h) \/ LinkLost(h) \/ LoginRefused(h)
        \/ PowerChange \/ Stale \/ Recover \/ Restart \/ Tick

Spec == Init /\ [][Next]_vars

\* Every upsmon runs its loop, drivers are restarted, time passes.  Nothing
\* makes a lingering upsmon exit.
FairSpec == Spec /\ WF_vars(HostStep) /\ WF_vars(Tick) /\ WF_vars(Recover)

-----------------------------------------------------------------------------
(* Properties *)

\* Every variable keeps to its domain, and only the primary is ever in setfsd()
\* or sync_secondaries().
TypeOK ==
    /\ known = {U} /\ members \in [{U} -> SUBSET Host] /\ count \in [{U} -> Nat]
    /\ forced \subseteq {U} /\ available \in BOOLEAN /\ power \in Powers
    /\ mode \in [Host -> Active \cup {"halting", "halted"}]
    /\ \A h \in Host : mode[h] \in {"force", "sync"} => h = Primary
    /\ conn \in [Host -> BOOLEAN]
    /\ seen \in [Host -> SUBSET {"OL", "OB", "LB", "FSD"}]
    /\ silence \in [Host -> 0..DeadTime + 1]
    /\ crit \in [Host -> 0..HostSync + 1]
    /\ wait \in [Host -> Nat]
    /\ acted \subseteq Host /\ faults \in 0..MaxFaults

Secondaries == Host \ {Primary}
Down(h) == mode[h] \in {"halting", "halted"}

\* The primary goes last: once upsd took its FSD, no secondary is unaware of the
\* shutdown when the primary calls SHUTDOWNCMD, after which the UPS is turned
\* off, even if connections broke, and were made again, at any time before.
OrderlyShutdown ==
    Down(Primary) /\ U \in forced => \A h \in Secondaries : mode[h] # "monitor"

\* What sync_secondaries() keeps of that promise under every fault: while the
\* primary is logged in and its query is answered, it waits for the others.
WaitsWhileItCanAsk ==
    [][/\ mode[Primary] = "sync" /\ mode'[Primary] = "final"
       /\ Primary \in members[U] /\ available
       => members[U] = {Primary} \/ wait[Primary] > HostSync]_vars

\* clients/upsmon.c:1325: sync_secondaries() waits "until all secondaries log
\* out from it on the shared upsd server or the HOSTSYNC timeout expires".
WaitsForSecondaries ==
    [][mode[Primary] = "sync" /\ mode'[Primary] = "final" =>
         members[U] \subseteq {Primary} \/ wait[Primary] > HostSync]_vars

\* No host is held up: whatever fails and whoever lingers, a host that has
\* decided to shut down calls SHUTDOWNCMD.
NobodyHeldUp ==
    \A h \in Host : mode[h] # "monitor" ~> Down(h)

\* FSD brings all hosts down: also those that never see the battery low, and
\* those that were cut off from upsd or from the driver for a while.
FsdBringsAllDown ==
    \A h \in Host : <>[](U \in forced) => <>Down(h)

\* A battery that stays low brings all hosts down, even if upsd forgot the FSD
\* or the primary never set it.
LowBatteryBringsAllDown ==
    \A h \in Host : <>[]Low(power) => <>Down(h)
=============================================================================
