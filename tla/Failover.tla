------------------------------ MODULE Failover ------------------------------
(***************************************************************************)
(* The failover driver (drivers/failover.c): a driver without a device,    *)
(* which follows several other drivers through their sockets, elects one   *)
(* of them as primary and publishes that one's data as its own.            *)
(*                                                                         *)
(* upsdrv_updateinfo() is taken apart where the outside world has a say:   *)
(* for each driver of the list in turn a connection is checked, or made,   *)
(* and read, line by line; then a primary is elected and exported in one   *)
(* step.  Time passes between two of these turns, a unit each time; all    *)
(* the timeouts are in these units.                                        *)
(*                                                                         *)
(* A command of a driver and a variable are handled alike: both are a key  *)
(* here.  Ranges, enumerations and flags of a variable go with its value.  *)
(* PING only makes a driver answer, which it may do without.  The flag      *)
(* ignorelb, with which status_commit() makes up LB, is not set.           *)
(***************************************************************************)
EXTENDS Integers, FiniteSets, SequencesExt

CONSTANTS
    ups_list,        \* the drivers, in the order of the argument port
    Says,            \* the lines each driver may send
    Orders,          \* administrative commands given with each setting: [ups, what, value]
    Confs,           \* settings: [fsdmode, check_runtime, strict_filtering, status_filters]
    None,
    arg_init_timeout, arg_dead_timeout, arg_noprimary_timeout,
    arg_maxconnfails, arg_coolofftimeout, AlarmPropagTime

Ups == {ups_list[i] : i \in DOMAIN ups_list}

\* The keys with a meaning to failover, and one of all the others.
Key == {"ups.status", "ups.alarm", "battery.charge", "battery.runtime", "battery.runtime.low", "other"}
PlainKey == Key \ {"ups.status", "ups.alarm"}

ASSUME ListAssumption ==
    ups_list \in Seq(Ups) /\ IsInjective(ups_list) /\ None \notin Ups \cup {"NO_SUITABLE_PRIMARIES"}
ASSUME SaysAssumption ==
    \A u \in Ups : \A l \in Says[u] :
        \/ l \in {<<"DUMPDONE">>, <<"DATAOK">>, <<"DATASTALE">>}
        \/ l[1] = "DELINFO" /\ l[2] \in Key
        \/ l[1] = "SETINFO" /\ l[2] \in Key /\ l[3] # None
ASSUME OrdersAssumption ==
    \A c \in Confs : \A o \in Orders[c] : o.ups \in Ups /\ o.what \in {"ignore", "primary"} /\ o.value \in Int
ASSUME ConfAssumption ==
    \A c \in Confs : /\ c.fsdmode \in 0..2 /\ c.check_runtime \in 0..3 /\ c.strict_filtering \in BOOLEAN
                     /\ DOMAIN c.status_filters = {"have_any", "have_all", "nothave_any", "nothave_all"}
ASSUME TimeAssumption ==
    {arg_init_timeout, arg_dead_timeout, arg_noprimary_timeout, arg_maxconnfails,
     arg_coolofftimeout, AlarmPropagTime} \subseteq Nat

VARIABLES
    pc,          \* [at: "rest", "check", "read" or "elect", i: place in the list]
    arg,         \* the settings in force
    \* per driver
    flags,       \* subset of ALIVE, DUMPED, DATA_OK, ONLINE
    var_list,    \* what it said: a value, or None, for each key
    needs_export, force_dstate_export,
    status,      \* its status, or None
    runtime,     \* [rt, low], -1 if not known
    heard,       \* time since last_heard_time, 0 if it is not connected
    failure_count, failed,          \* and time since last_failure_time
    force_ignore, ignored_for,      \* and time since force_ignore_time
    force_primary, forced_for,      \* and time since force_primary_time
    \* the election
    ups_alive_count, ups_online_count,
    primary_ups,
    init_time_elapsed, running_for, \* and time since drv_startup_time, while it matters
    primaries_gone, gone_for,       \* and time since primaries_gone_time; -1 if that is 0
    \* what is published
    dstate,      \* [info: a value or None for each key, status_buf, alarm_buf]
    stale,
    charge_was,  \* previous_battery_charge_value, -1 if there was none
    \* history
    lacking,     \* turns in a row that found no candidate
    leftover,    \* keys published of a primary that was connected to anew
    \* the world
    calm         \* no driver or device fails any more

copyVars  == <<flags, var_list, needs_export, force_dstate_export, status, runtime, heard, ups_alive_count, ups_online_count>>
failVars  == <<failure_count, failed>>
orderVars == <<force_ignore, ignored_for, force_primary, forced_for>>
goneVars  == <<primary_ups, init_time_elapsed, running_for, primaries_gone, gone_for, lacking>>
pubVars   == <<dstate, stale, charge_was, leftover>>
vars == <<pc, arg, copyVars, failVars, orderVars, goneVars, pubVars, calm>>

-----------------------------------------------------------------------------
(* What is published: dstate.c *)

\* status_commit() takes a battery.charge that has changed for a battery that
\* is charging or discharging, whatever the device says of that.
Charge(d) == d.info["battery.charge"]
Trend(charge) ==
    IF charge = None \/ charge_was < 0 THEN {}
    ELSE IF charge \notin 0..99 \/ charge = charge_was THEN {}
    ELSE IF charge > charge_was THEN {"CHRG"} ELSE {"DISCHRG"}

\* ALARM in status_buf stands for alarm_legacy_status.
status_commit(d, charge) ==
    LET buf == d.status_buf \cup Trend(charge)
    IN  [d EXCEPT !.status_buf = buf,
                  !.info["ups.status"] = buf \cup (IF d.alarm_buf # None THEN {"ALARM"} ELSE {})]

alarm_commit(d) == [d EXCEPT !.info["ups.alarm"] = d.alarm_buf]

ups_clean_dstate(d, u) ==
    LET bare == [info |-> [k \in Key |-> IF var_list[u][k] # None THEN None ELSE d.info[k]],
                 status_buf |-> {}, alarm_buf |-> None]
    IN  status_commit(alarm_commit(bare), Charge(bare))

\* ups_export_dstate(): what changed, or everything.  status_buf and alarm_buf
\* begin anew then, and are committed at the end.  Otherwise they are committed
\* as they are met in the list, after battery.charge or not.
ups_export_dstate(d, u, force, after) ==
    LET todo == {k \in Key : var_list[u][k] # None /\ (force \/ k \in needs_export[u])}
        said == [info |-> [k \in Key |-> IF k \in todo THEN var_list[u][k] ELSE d.info[k]],
                 status_buf |-> IF "ups.status" \in todo THEN var_list[u]["ups.status"]
                                ELSE IF force THEN {} ELSE d.status_buf,
                 alarm_buf |-> IF "ups.alarm" \in todo THEN var_list[u]["ups.alarm"]
                               ELSE IF force THEN None ELSE d.alarm_buf]
        charge == IF force \/ after THEN Charge(said) ELSE Charge(d)
    IN  IF force \/ todo \cap {"ups.status", "ups.alarm"} # {}
        THEN status_commit(alarm_commit(said), charge) ELSE said

\* ups_del_var(): the primary's variable goes from dstate at once.
Withdraw(d, k) ==
    LET quiet == [d EXCEPT !.alarm_buf = None]
        bare == CASE k = "ups.alarm"  -> status_commit(alarm_commit(quiet), Charge(d))
                  [] k = "ups.status" -> [d EXCEPT !.status_buf = {}]
                  [] OTHER -> d
    IN  [bare EXCEPT !.info[k] = None]

NoData    == [k \in Key |-> None]
NoRuntime == [rt |-> -1, low |-> -1]

\* upsdrv_initinfo(): a first attempt at each driver, then status WAIT.
Init ==
    /\ pc = [at |-> "rest", i |-> 1]
    /\ arg \in Confs
    /\ flags \in [Ups -> {{}, {"ALIVE"}}]
    /\ var_list = [u \in Ups |-> NoData] /\ needs_export = [u \in Ups |-> {}]
    /\ force_dstate_export = [u \in Ups |-> "ALIVE" \in flags[u]]
    /\ status = [u \in Ups |-> None]
    /\ runtime = [u \in Ups |-> IF "ALIVE" \in flags[u] THEN NoRuntime ELSE [rt |-> 0, low |-> 0]]
    /\ heard = [u \in Ups |-> 0]
    /\ failure_count = [u \in Ups |-> IF "ALIVE" \in flags[u] THEN 0 ELSE 1]
    /\ failed = [u \in Ups |-> 0]
    /\ force_ignore = [u \in Ups |-> 0] /\ ignored_for = [u \in Ups |-> 0]
    /\ force_primary = [u \in Ups |-> 0] /\ forced_for = [u \in Ups |-> 0]
    /\ ups_alive_count = Cardinality({u \in Ups : "ALIVE" \in flags[u]}) /\ ups_online_count = 0
    /\ primary_ups = None /\ init_time_elapsed = FALSE /\ running_for = 0
    /\ primaries_gone = FALSE /\ gone_for = -1 /\ lacking = 0
    /\ charge_was = -1 /\ leftover = {}
    /\ dstate = status_commit([info |-> NoData, status_buf |-> {"WAIT"}, alarm_buf |-> None], None)
    /\ stale = FALSE /\ calm = FALSE

-----------------------------------------------------------------------------
(* handle_connections() *)

At(place) == pc.at = place
Here == ups_list[pc.i]
Onward == pc' = IF pc.i < Len(ups_list) THEN [at |-> "check", i |-> pc.i + 1]
                ELSE [at |-> "elect", i |-> 1]

\* The orders of instcmd() that have not run out yet.
Ordered(force) == [u \in Ups |-> IF force[u] > 0 THEN force[u] ELSE -1]

\* A turn begins with main() noting the charge; ages are capped where they make
\* no more difference.
Turn ==
    /\ At("rest")
    /\ pc' = [at |-> IF ups_list = <<>> THEN "elect" ELSE "check", i |-> 1]
    /\ heard' = [u \in Ups |-> IF heard[u] > arg_dead_timeout \/ "ALIVE" \notin flags[u] THEN heard[u] ELSE heard[u] + 1]
    /\ failed' = [u \in Ups |-> IF failed[u] > arg_coolofftimeout \/ failure_count[u] <= arg_maxconnfails THEN failed[u] ELSE failed[u] + 1]
    /\ ignored_for' = [u \in Ups |-> IF ignored_for[u] > Ordered(force_ignore)[u] THEN ignored_for[u] ELSE ignored_for[u] + 1]
    /\ forced_for' = [u \in Ups |-> IF forced_for[u] > Ordered(force_primary)[u] THEN forced_for[u] ELSE forced_for[u] + 1]
    /\ running_for' = IF init_time_elapsed THEN running_for ELSE running_for + 1
    /\ gone_for' = IF gone_for \in {-1, arg_noprimary_timeout + AlarmPropagTime + 1} THEN gone_for ELSE gone_for + 1
    /\ charge_was' = IF Charge(dstate) # None /\ Charge(dstate) \in Nat THEN Charge(dstate) ELSE charge_was
    /\ UNCHANGED <<arg, calm, flags, var_list, needs_export, force_dstate_export, status, runtime,
                   ups_alive_count, ups_online_count, failure_count, force_ignore, force_primary,
                   primary_ups, init_time_elapsed, primaries_gone, lacking, dstate, stale, leftover>>

CoolingOff(u) == failure_count[u] > arg_maxconnfails /\ failed[u] <= arg_coolofftimeout

\* Mutant: the time of the last failure is the time of the last look at it.
SkipAndWaitAgain ==
    /\ At("check") /\ "ALIVE" \notin flags[Here] /\ CoolingOff(Here)
    /\ failed' = [failed EXCEPT ![Here] = 0]
    /\ Onward
    /\ UNCHANGED <<arg, calm, copyVars, failure_count, orderVars, goneVars, pubVars>>

Skip ==
    /\ At("check") /\ "ALIVE" \notin flags[Here] /\ CoolingOff(Here)
    /\ Onward
    /\ UNCHANGED <<arg, calm, copyVars, failVars, orderVars, goneVars, pubVars>>

\* ups_connect(): a connection, on which DUMPALL is sent.  What was known of the
\* driver is forgotten, even if it is the primary and published.
Connect ==
    /\ At("check") /\ "ALIVE" \notin flags[Here] /\ ~CoolingOff(Here)
    /\ flags' = [flags EXCEPT ![Here] = @ \cup {"ALIVE"}]
    /\ ups_alive_count' = ups_alive_count + 1
    /\ var_list' = [var_list EXCEPT ![Here] = NoData]
    /\ needs_export' = [needs_export EXCEPT ![Here] = {}]
    /\ force_dstate_export' = [force_dstate_export EXCEPT ![Here] = TRUE]
    /\ status' = [status EXCEPT ![Here] = None]
    /\ runtime' = [runtime EXCEPT ![Here] = NoRuntime]
    /\ heard' = [heard EXCEPT ![Here] = 0]
    /\ failure_count' = [failure_count EXCEPT ![Here] = 0]
    /\ failed' = [failed EXCEPT ![Here] = 0]
    /\ leftover' = IF primary_ups = Here THEN leftover \cup {k \in PlainKey : var_list[Here][k] # None}
                   ELSE leftover
    /\ pc' = [pc EXCEPT !.at = "read"]
    /\ UNCHANGED <<arg, calm, ups_online_count, orderVars, goneVars, dstate, stale, charge_was>>

\* ups_connect() fails, at once or when DUMPALL is sent.
ConnectFails ==
    /\ ~calm
    /\ At("check") /\ "ALIVE" \notin flags[Here] /\ ~CoolingOff(Here)
    /\ failure_count' = [failure_count EXCEPT ![Here] = IF @ > arg_maxconnfails THEN @ ELSE @ + 1]
    /\ failed' = [failed EXCEPT ![Here] = 0]
    /\ Onward
    /\ UNCHANGED <<arg, calm, copyVars, orderVars, goneVars, pubVars>>

\* Mutant: a driver that is online as it is lost stays in the count.
DisconnectUncounted ==
    /\ flags' = [flags EXCEPT ![Here] = {}]
    /\ heard' = [heard EXCEPT ![Here] = 0]
    /\ ups_alive_count' = ups_alive_count - 1
    /\ UNCHANGED ups_online_count

\* ups_disconnect() and ups_is_dead().
ups_disconnect ==
    /\ flags' = [flags EXCEPT ![Here] = {}]
    /\ heard' = [heard EXCEPT ![Here] = 0]
    /\ ups_alive_count' = ups_alive_count - 1
    /\ ups_online_count' = IF "ONLINE" \in flags[Here] THEN ups_online_count - 1 ELSE ups_online_count

\* is_ups_alive(): not a line for too long.
Dead ==
    /\ At("check") /\ "ALIVE" \in flags[Here] /\ heard[Here] > arg_dead_timeout
    /\ ups_disconnect
    /\ Onward
    /\ UNCHANGED <<arg, calm, var_list, needs_export, force_dstate_export, status, runtime, failVars, orderVars, goneVars, pubVars>>

Alive ==
    /\ At("check") /\ "ALIVE" \in flags[Here] /\ heard[Here] <= arg_dead_timeout
    /\ pc' = [pc EXCEPT !.at = "read"]
    /\ UNCHANGED <<arg, calm, copyVars, failVars, orderVars, goneVars, pubVars>>

\* What a driver in good order has yet to send: DUMPALL is answered by all the
\* variables, DATAOK and DUMPDONE; and DATASTALE is followed by DATAOK.
Owes(u) == ~({"DUMPED", "DATA_OK"} \subseteq flags[u])

\* ups_read_data() finds an error.
ReadFails ==
    /\ At("read") /\ ~calm
    /\ ups_disconnect
    /\ Onward
    /\ UNCHANGED <<arg, calm, var_list, needs_export, force_dstate_export, status, runtime, failVars, orderVars, goneVars, pubVars>>

\* Nothing comes within CONN_READ_TIMEOUT, be the driver hung or merely have
\* nothing to tell.  Not a line was read in this turn then.
ReadTimesOut ==
    /\ At("read") /\ heard[Here] > 0
    /\ calm => ~Owes(Here)
    /\ ups_disconnect
    /\ Onward
    /\ UNCHANGED <<arg, calm, var_list, needs_export, force_dstate_export, status, runtime, failVars, orderVars, goneVars, pubVars>>

\* It has gone through the buffer it read: at end of file, nothing.  A driver in
\* good order that owes something has sent some of it.
ReadEnds ==
    /\ At("read")
    /\ calm /\ Owes(Here) => heard[Here] = 0
    /\ Onward
    /\ UNCHANGED <<arg, calm, copyVars, failVars, orderVars, goneVars, pubVars>>

-----------------------------------------------------------------------------
(* ups_parse_protocol() *)

Heard == heard' = [heard EXCEPT ![Here] = 0]

Flag(line) ==
    /\ line[1] \in {"DUMPDONE", "DATAOK", "DATASTALE"}
    /\ flags' = [flags EXCEPT ![Here] = CASE line[1] = "DUMPDONE" -> @ \cup {"DUMPED"}
                                          [] line[1] = "DATAOK" -> @ \cup {"DATA_OK"}
                                          [] OTHER -> @ \ {"DATA_OK"}]
    /\ UNCHANGED <<var_list, needs_export, status, runtime, ups_online_count, dstate>>

DelInfo(line) ==
    /\ line[1] = "DELINFO"
    /\ var_list' = [var_list EXCEPT ![Here][line[2]] = None]
    /\ needs_export' = [needs_export EXCEPT ![Here] = @ \ {line[2]}]
    /\ dstate' = IF primary_ups = Here /\ var_list[Here][line[2]] # None THEN Withdraw(dstate, line[2]) ELSE dstate
    /\ UNCHANGED <<flags, status, runtime, ups_online_count>>

SetInfo(line) ==
    /\ line[1] = "SETINFO"
    /\ var_list' = [var_list EXCEPT ![Here][line[2]] = line[3]]
    /\ needs_export' = [needs_export EXCEPT ![Here] =
                           IF var_list[Here][line[2]] = line[3] THEN @ ELSE @ \cup {line[2]}]
    /\ runtime' = CASE line[2] = "battery.runtime" -> [runtime EXCEPT ![Here].rt = line[3]]
                    [] line[2] = "battery.runtime.low" -> [runtime EXCEPT ![Here].low = line[3]]
                    [] OTHER -> runtime
    /\ status' = IF line[2] = "ups.status" THEN [status EXCEPT ![Here] = line[3]] ELSE status
    /\ LET was == "ONLINE" \in flags[Here]
           is  == IF line[2] = "ups.status" THEN "OL" \in line[3] ELSE was
       IN  /\ flags' = [flags EXCEPT ![Here] = (@ \ {"ONLINE"}) \cup (IF is THEN {"ONLINE"} ELSE {})]
           /\ ups_online_count' = ups_online_count + (IF is /\ ~was THEN 1 ELSE IF was /\ ~is THEN -1 ELSE 0)
    /\ UNCHANGED dstate

Line(line) ==
    /\ At("read")
    /\ calm => /\ line[1] # "DATASTALE"
               /\ line[1] = "DUMPDONE" => "DATA_OK" \in flags[Here]
    /\ Flag(line) \/ DelInfo(line) \/ SetInfo(line)
    /\ Heard
    /\ UNCHANGED <<pc, arg, calm, force_dstate_export, ups_alive_count, failVars, orderVars, goneVars,
                   stale, charge_was, leftover>>

-----------------------------------------------------------------------------
(* instcmd(): force.ignore and force.primary, between two turns *)

instcmd(o) ==
    /\ At("rest")
    /\ IF o.what = "ignore"
       THEN /\ force_ignore' = [force_ignore EXCEPT ![o.ups] = o.value]
            /\ ignored_for' = [ignored_for EXCEPT ![o.ups] = 0]
            /\ UNCHANGED <<force_primary, forced_for>>
       ELSE /\ force_primary' = [force_primary EXCEPT ![o.ups] = o.value]
            /\ forced_for' = [forced_for EXCEPT ![o.ups] = 0]
            /\ UNCHANGED <<force_ignore, ignored_for>>
    /\ UNCHANGED <<pc, arg, calm, copyVars, failVars, goneVars, pubVars>>

-----------------------------------------------------------------------------
(* get_primary_candidate() *)

\* An override that ran out is over for good.
Lapsed(force, age) == [u \in Ups |-> IF force[u] > 0 /\ age[u] > force[u] THEN 0 ELSE force[u]]
Ignored(u) == Lapsed(force_ignore, ignored_for)[u] # 0
Forced(u)  == Lapsed(force_primary, forced_for)[u] # 0

ups_passes_status_filters(u) ==
    LET f == arg.status_filters
        said == status[u]
    IN  /\ said \notin {None, {}}
        /\ f.have_any \cup f.have_all \cup f.nothave_any \cup f.nothave_all # {}
        /\ f.nothave_any \cap said = {}
        /\ f.have_all \subseteq said
        /\ f.nothave_all # {} => ~(f.nothave_all \subseteq said)
        /\ f.have_any # {} => f.have_any \cap said # {}

\* Mutant: a driver on battery is as good as one on line power.
PriorityByData(u) ==
    IF ~({"ALIVE", "DUMPED"} \subseteq flags[u]) \/ Ignored(u) THEN -1
    ELSE IF Forced(u) THEN 0
    ELSE IF ups_passes_status_filters(u) THEN 1
    ELSE IF arg.strict_filtering THEN -1
    ELSE IF "DATA_OK" \in flags[u] THEN 2 ELSE 4

Priority(u) ==
    IF ~({"ALIVE", "DUMPED"} \subseteq flags[u]) \/ Ignored(u) THEN -1
    ELSE IF Forced(u) THEN 0
    ELSE IF ups_passes_status_filters(u) THEN 1
    ELSE IF arg.strict_filtering THEN -1
    ELSE IF {"DATA_OK", "ONLINE"} \subseteq flags[u] THEN 2
    ELSE IF "DATA_OK" \in flags[u] THEN 3 ELSE 4

has_better_runtime(r, best) ==
    CASE arg.check_runtime = 0 -> FALSE
      [] arg.check_runtime = 1 -> r.rt > best.rt
      [] arg.check_runtime = 2 -> r.low > best.low
      [] arg.check_runtime = 3 -> r.rt > best.rt /\ r.low > best.low

Better(best, u) ==
    IF \/ Priority(u) < 0
       \/ best # None /\ Priority(u) > Priority(best)
       \/ /\ best # None /\ Priority(u) = Priority(best)
          /\ ~(Priority(u) >= 3 /\ has_better_runtime(runtime[u], runtime[best]))
    THEN best ELSE u

\* The loop: the choice after the first i drivers of the list.
best_choice[i \in 0..Len(ups_list)] ==
    IF i = 0 THEN None ELSE Better(best_choice[i - 1], ups_list[i])

get_primary_candidate == best_choice[Len(ups_list)]

-----------------------------------------------------------------------------
(* The rest of upsdrv_updateinfo() *)

\* What each election does to the overrides; the turn is over.
ElectionEnds ==
    /\ At("elect")
    /\ pc' = [at |-> "rest", i |-> 1]
    /\ force_ignore' = Lapsed(force_ignore, ignored_for)
    /\ force_primary' = Lapsed(force_primary, forced_for)
    /\ ignored_for' = [u \in Ups |-> IF force_ignore'[u] = 0 THEN 0 ELSE ignored_for[u]]
    /\ forced_for' = [u \in Ups |-> IF force_primary'[u] = 0 THEN 0 ELSE forced_for[u]]
    /\ UNCHANGED <<arg, calm, flags, var_list, status, runtime, heard, ups_alive_count, ups_online_count,
                   failVars>>

InitTime == ~init_time_elapsed /\ get_primary_candidate = None /\ running_for <= arg_init_timeout

\* handle_init_time(): drivers are given time to start.
StillWaiting ==
    /\ ElectionEnds /\ InitTime
    /\ stale' = FALSE
    /\ UNCHANGED <<needs_export, force_dstate_export, primary_ups, init_time_elapsed, running_for, primaries_gone, gone_for, lacking, dstate, charge_was, leftover>>

Cap(n) == IF n > arg_noprimary_timeout + 1 THEN n ELSE n + 1

\* Mutant: the clock starts as the primary is demoted.
GoneSinceDemotion == IF gone_for = -1 /\ primary_ups # None THEN 0 ELSE gone_for

\* primaries_gone_time is set by the first turn without a candidate.
GoneSince == IF gone_for = -1 THEN 0 ELSE gone_for

\* handle_no_primaries()
NoPrimaries ==
    /\ ElectionEnds /\ get_primary_candidate = None /\ ~InitTime
    /\ init_time_elapsed' = TRUE /\ running_for' = 0
    /\ lacking' = Cap(lacking)
    /\ gone_for' = GoneSince
    /\ LET demoted == primary_ups # None /\ arg.fsdmode > 0
           clean   == IF demoted THEN ups_clean_dstate(dstate, primary_ups) ELSE dstate
           alarmed == [clean EXCEPT !.alarm_buf = "NO_SUITABLE_PRIMARIES"]
           given_up == gone_for' > arg_noprimary_timeout
       IN  /\ primary_ups' = IF demoted THEN None ELSE primary_ups
           /\ primaries_gone' = (primaries_gone \/ given_up)
           /\ dstate' = CASE ~given_up \/ arg.fsdmode = 0 -> clean
                          [] given_up /\ arg.fsdmode = 1 -> status_commit(alarm_commit(alarmed), Charge(clean))
                          [] given_up /\ arg.fsdmode = 2 ->
                                status_commit(alarm_commit([alarmed EXCEPT !.status_buf = @ \cup {"FSD"}]), Charge(clean))
           /\ stale' = CASE ~given_up \/ arg.fsdmode = 2 -> FALSE
                         [] given_up /\ arg.fsdmode = 0 -> TRUE
                         [] given_up /\ arg.fsdmode = 1 -> gone_for' >= arg_noprimary_timeout + AlarmPropagTime
    /\ UNCHANGED <<needs_export, force_dstate_export, charge_was, leftover>>

\* Mutant: the old primary is not demoted, as it is dead anyway.
DemotesLiving(c) == primary_ups \notin {None, c} /\ "ALIVE" \in flags[primary_ups]

\* ups_promote_primary() cleans up after another primary first.
Demotes(c) == primary_ups \notin {None, c}

\* There is a candidate: it is promoted, or its news exported.  The time the
\* primaries are gone since is only forgotten if they were given up.
Elected ==
    /\ ElectionEnds /\ get_primary_candidate # None
    /\ init_time_elapsed' = TRUE /\ running_for' = 0
    /\ lacking' = 0
    /\ LET c == get_primary_candidate
           again == primaries_gone /\ c = primary_ups
           clean == CASE Demotes(c) -> ups_clean_dstate(dstate, primary_ups)
                      [] again -> ups_clean_dstate(dstate, c)
                      [] OTHER -> dstate
       IN  /\ primary_ups' = c
           /\ \E after \in BOOLEAN :
                 dstate' = ups_export_dstate(clean, c, force_dstate_export[c] \/ again \/ primary_ups # c, after)
           /\ leftover' = {k \in leftover : /\ var_list[c][k] = None
                                            /\ primary_ups # None => var_list[primary_ups][k] = None}
           /\ needs_export' = [needs_export EXCEPT ![c] = {}]
           /\ force_dstate_export' = [force_dstate_export EXCEPT ![c] = FALSE]
           /\ stale' = ("DATA_OK" \notin flags[c])
    /\ primaries_gone' = FALSE
    /\ gone_for' = IF primaries_gone THEN -1 ELSE gone_for
    /\ UNCHANGED charge_was

\* From some time on all drivers run, answer on their connections (one that ended
\* earlier was given up: Dead) and have their devices.
CalmDown ==
    /\ At("rest") /\ ~calm
    /\ calm' = TRUE
    /\ UNCHANGED <<pc, arg, copyVars, failVars, orderVars, goneVars, pubVars>>

-----------------------------------------------------------------------------
Next ==
    \/ Turn \/ Skip \/ Connect \/ ConnectFails \/ Dead \/ Alive \/ ReadFails \/ ReadTimesOut \/ ReadEnds
    \/ StillWaiting \/ NoPrimaries \/ Elected
    \/ At("read") /\ \E line \in Says[Here] : Line(line)
    \/ \E o \in Orders[arg] : instcmd(o)
    \/ CalmDown

Spec == Init /\ [][Next]_vars

\* main() calls upsdrv_updateinfo() for ever, and reads come to an end: a step
\* onward is possible at any time, so this is weak fairness of these steps.  A
\* driver in good order goes on with what it owes: a dump is finite.
OweNext(u) == IF "DATA_OK" \in flags[u] THEN <<"DUMPDONE">> ELSE <<"DATAOK">>
Answers(u) == /\ calm /\ At("read") /\ Here = u /\ Owes(u)
              /\ OweNext(u) \in Says[u] /\ Line(OweNext(u))
FairSpec == Spec /\ []<><<pc' # pc>>_vars /\ \A u \in Ups : SF_vars(Answers(u))

-----------------------------------------------------------------------------
(* Properties *)

\* The domains of the variables.
PlaceOK ==
    /\ pc \in [at : {"rest", "check", "read", "elect"}, i : Nat]
    /\ At("check") \/ At("read") => pc.i \in 1..Len(ups_list)
    /\ arg \in Confs
FlagsOK ==
    /\ flags \in [Ups -> SUBSET {"ALIVE", "DUMPED", "DATA_OK", "ONLINE"}]
    /\ \A u \in Ups : flags[u] # {} => "ALIVE" \in flags[u]
    /\ At("read") => "ALIVE" \in flags[Here]
CopiesOK ==
    /\ var_list = [u \in Ups |-> [k \in Key |-> var_list[u][k]]]
    /\ needs_export \in [Ups -> SUBSET Key] /\ force_dstate_export \in [Ups -> BOOLEAN]
TimesOK ==
    /\ heard \in [Ups -> 0..arg_dead_timeout + 1]
    /\ failure_count \in [Ups -> 0..arg_maxconnfails + 1]
    /\ failed \in [Ups -> 0..arg_coolofftimeout + 1]
    /\ gone_for \in -1..(arg_noprimary_timeout + AlarmPropagTime + 1)
    /\ lacking \in 0..(arg_noprimary_timeout + 2)
ElectionOK ==
    /\ primary_ups \in Ups \cup {None}
    /\ stale \in BOOLEAN /\ primaries_gone \in BOOLEAN
    /\ init_time_elapsed \in BOOLEAN /\ calm \in BOOLEAN
    /\ charge_was \in Nat \cup {-1} /\ leftover \subseteq PlainKey

\* Every variable keeps to its domain, and a driver that is not connected has
\* no flag left.
TypeOK == PlaceOK /\ FlagsOK /\ CopiesOK /\ TimesOK /\ ElectionOK

\* driver.stats.alive_drivers and online_drivers are right, though drivers are
\* counted as they come, change, and are lost in any state.
CountsAreRight ==
    /\ ups_alive_count = Cardinality({u \in Ups : "ALIVE" \in flags[u]})
    /\ ups_online_count = Cardinality({u \in Ups : "ONLINE" \in flags[u]})

\* docs/man/failover.txt: failover "presents its commands, variables and status
\* to the outside world as if it were directly talking to that UPS".  After a
\* turn that found a primary what is published is what the primary said,
\* whichever was lost, deleted variables, or came back.  Two things come on top
\* of it.  A primary that is kept while it is lost (fsdmode 0 alone) and is
\* connected to anew leaves behind what its new run, or the next primary, does
\* not speak of; leftover holds exactly these keys.  And once a charge was
\* published status_commit() may add CHRG or DISCHRG, and no more.
Shown(k) == dstate.info[k]
Primary == At("rest") /\ primary_ups # None /\ lacking = 0
Said(k) == var_list[primary_ups][k]
MadeUp == Shown("ups.status") \ Said("ups.status")
PublishedIsPrimary ==
    /\ arg.fsdmode > 0 => leftover = {}
    /\ Primary =>
        /\ \A k \in Key \ {"ups.status"} : Shown(k) = Said(k) \/ (Said(k) = None /\ k \in leftover)
        /\ Said("ups.status") # None =>
              /\ Said("ups.status") \subseteq Shown("ups.status")
              /\ MadeUp \subseteq {"ALARM"} \cup (IF charge_was < 0 THEN {} ELSE {"CHRG", "DISCHRG"})
              /\ ("ALARM" \in Shown("ups.status")) <=> ("ALARM" \in Said("ups.status") \/ Said("ups.alarm") # None)

\* docs/man/failover.txt:43: in a transition failover "ensures that any data is
\* switched out instantly".  Nothing of another driver, or run, is left then.
NothingLeftOver == Primary => \A k \in Key \ {"ups.status"} : Shown(k) = Said(k)

\* docs/man/failover.txt:28 again, on the status: no word but the primary's.
StatusIsThePrimarys == Primary /\ Said("ups.status") # None => MadeUp \subseteq {"ALARM"}

\* docs/man/failover.txt on PRIORITIES: a driver with fresh data that is online
\* is passed over only for another such one, or one that an administrator
\* forced or the filters favour; and never for a driver that is ignored, or was
\* not yet heard to the end of its dump.
Eligible(u) == {"ALIVE", "DUMPED"} \subseteq flags[u] /\ ~Ignored(u)
Fresh(u) == {"DATA_OK", "ONLINE"} \subseteq flags[u]
FreshIsPreferred ==
    [][At("elect") /\ lacking' = 0 /\ primary_ups' # None =>
         /\ Eligible(primary_ups')
         /\ \A u \in Ups : Eligible(u) /\ Fresh(u) /\ ~arg.strict_filtering =>
               \/ Forced(primary_ups') \/ ups_passes_status_filters(primary_ups')
               \/ Fresh(primary_ups') /\ (Forced(u) => u = primary_ups')]_vars

\* docs/man/failover.txt on fsdmode: once no driver was fit to be primary for
\* longer than noprimarytime, the fallback is in force, however drivers came
\* and went before that: FSD is raised, or the alarm, or the data are stale.
FallbackIsEntered ==
    At("rest") /\ lacking > arg_noprimary_timeout + 1 =>
        CASE arg.fsdmode = 0 -> stale
          [] arg.fsdmode = 1 -> "ALARM" \in Shown("ups.status")
          [] arg.fsdmode = 2 -> {"ALARM", "FSD"} \subseteq Shown("ups.status")

\* docs/man/failover.txt:82 on noprimarytime: "Duration to wait without a
\* suitable primary UPS driver before entering the configured fallback mode".
GraceIsGiven == primaries_gone => lacking > arg_noprimary_timeout

\* Whatever failed before, and however often, the data of a driver are published
\* as fresh again and again once drivers can be reached: a pause after too many
\* failures ends, and so does an earlier fallback.  They need not remain, as a
\* driver with nothing to tell is disconnected when a read times out, to be
\* asked for all its data in a later turn.  Filters that are strict may leave
\* nobody to choose.
FreshShown == Primary /\ ~stale
ComesBack == calm /\ ~arg.strict_filtering ~> FreshShown

\* docs/man/failover.txt:75 on deadtime: "a grace period in seconds after which
\* a non-responsive UPS driver is considered dead. Defaults to 30 seconds".  So
\* a driver that is quiet for a turn should not be lost.
QuietIsNotDead ==
    [][\A u \in Ups : calm /\ At("read") /\ "ALIVE" \in flags[u] => "ALIVE" \in flags'[u]]_vars
=============================================================================
