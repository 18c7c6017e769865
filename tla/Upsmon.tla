------------------------------- MODULE Upsmon -------------------------------
(***************************************************************************)
(* upsmon (clients/upsmon.c): the monitor that decides when its host must  *)
(* be shut down.                                                           *)
(*                                                                         *)
(* Each cycle of the main loop handles a reload or an OS wake-up, polls    *)
(* every UPS of upsmon.conf (pollups), updates the flags of each from the  *)
(* words of its ups.status (parse_status), and adds up the power values of *)
(* those that are not critical (recalc).  What upsd answers is the         *)
(* environment's choice.  A flag ST_x is written as the status word that   *)
(* raises it: ST_ONLINE is "OL", ST_ONBATT "OB", ST_LOWBATT "LB".          *)
(*                                                                         *)
(* Times the code keeps as time_t are the seconds elapsed since then, each *)
(* capped just above the largest value the code can tell apart; Unset is   *)
(* the time_t 0 of the "since" fields.                                     *)
(***************************************************************************)
EXTENDS Integers, Sequences, FiniteSetsExt

CONSTANTS
    Ups,           \* names that may appear in MONITOR lines
    NoUps,         \* no UPS is being parsed
    Confs,         \* contents upsmon.conf may have: records [pv, primary, minsupplies]
    Answers,       \* what upsd may answer to a poll: records [words, eco]
    DeadTime,      \* DEADTIME
    HostSync,      \* HOSTSYNC
    OblbDuration,  \* OBLBDURATION, 0 when disabled
    OffDuration,   \* OFFDURATION, negative when disabled
    OverDuration,  \* OVERDURATION, negative when disabled
    AlarmCritical  \* ALARMCRITICAL

\* The power value of the UPSes in S under configuration c.
Power(c, S) == MapThenSumSet(LAMBDA u : c.pv[u], S)
Possible(c) == Power(c, DOMAIN c.pv) >= c.minsupplies

ASSUME ConfAssumption ==
    \A c \in Confs : /\ DOMAIN c.pv \subseteq Ups /\ c.primary \subseteq DOMAIN c.pv
                     /\ \A u \in DOMAIN c.pv : c.pv[u] \in Nat
                     /\ c.minsupplies \in Nat
ASSUME AnswerAssumption ==
    \A a \in Answers : a.words \in Seq(STRING) \ {<<>>} /\ a.eco \in BOOLEAN
ASSUME TimeAssumption ==
    /\ DeadTime \in Nat /\ HostSync \in Nat /\ OblbDuration \in Nat
    /\ OffDuration \in Int /\ OverDuration \in Int /\ AlarmCritical \in BOOLEAN
ASSUME UpsAssumption == IsFiniteSet(Ups) /\ NoUps \notin Ups

VARIABLES
    conf,         \* the configuration in force
    status,       \* ups->status
    comm,         \* ups->commstate: "new" (-1), "gone" (0) or "ok" (1)
    kept,         \* those of offstate, bypassstate, alarmstate, overstate that are 1
    fd,           \* ups->conn holds an open socket
    lastpoll, lastnoncrit, offsince, oblbsince, oversince,  \* as in utype_t
    sleepval,     \* "normal" (pollfreq), "alert" (pollfreqalert) or "gcd"
    pc,           \* place in the main loop
    todo,         \* UPSes not yet polled in this cycle
    cur, line, words, \* in parse_status(): the UPS, its status, the words left
    heard, fresh  \* history: last status parsed, and whether since the last wake-up

timeVars == <<lastpoll, lastnoncrit, offsince, oblbsince, oversince>>
upsVars  == <<status, comm, kept, fd, timeVars>>
parseVars == <<cur, line, words>>
history  == <<heard, fresh>>
vars == <<conf, upsVars, sleepval, pc, todo, parseVars, history>>

-----------------------------------------------------------------------------
Unset == -1
Session == {"LOGIN", "CLICONNECTED"}
Monitored == DOMAIN conf.pv
Mentioned(l) == {l[i] : i \in DOMAIN l}

\* parse_status() clears the flags of these words when the status lacks them.
Cleared == {"LB", "FSD", "CAL", "OFF", "BYPASS", "ALARM", "OVER", "TRIM", "BOOST"}

\* The mask of try_restore_pollfreq().
Danger == {"OB", "OFF", "BYPASS", "ALARM", "CAL", "OVER", "TRIM", "BOOST"}

\* flag_isset() asks for every bit of the mask, so this is what
\* try_restore_pollfreq() leaves in sleepval.
try_restore_pollfreq(s) == IF Danger \subseteq s THEN sleepval ELSE "normal"

\* The status of an entry as addups() creates it.
RoleFlag(c, u) == IF u \in c.primary THEN {"PRIMARY"} ELSE {}

Init ==
    /\ conf \in {c \in Confs : Possible(c)}
    /\ status = [u \in Ups |-> RoleFlag(conf, u)]
    /\ comm = [u \in Ups |-> "new"]
    /\ kept = [u \in Ups |-> {}]
    /\ fd = [u \in Ups |-> FALSE]
    /\ lastpoll = [u \in Ups |-> DeadTime + 1]
    /\ lastnoncrit = [u \in Ups |-> HostSync + 1]
    /\ offsince = [u \in Ups |-> Unset]
    /\ oblbsince = [u \in Ups |-> Unset]
    /\ oversince = [u \in Ups |-> Unset]
    /\ sleepval = "normal"
    /\ pc = "top"
    /\ todo = {}
    /\ cur = NoUps /\ line = <<>> /\ words = <<>>
    /\ heard = [u \in Ups |-> <<>>]
    /\ fresh = [u \in Ups |-> FALSE]

-----------------------------------------------------------------------------
(* Top of the loop *)

\* Nothing to reload, or upsmon.conf cannot be opened: on to the polling.
StartPolling ==
    /\ pc = "top"
    /\ pc' = "poll" /\ todo' = Monitored
    /\ UNCHANGED <<conf, upsVars, sleepval, parseVars, history>>

\* reload_conf() with the flags st and the times lp: entries that stay go
\* through redefine_ups() (those in changed have new credentials), the others
\* are deleted or created.  Too little total power is fatal.
reload_conf(st, lp, c, changed) ==
    LET stays   == Monitored \cap DOMAIN c.pv
        drops   == {u \in stays : \/ u \in changed /\ "LOGIN" \notin st[u]
                                  \/ u \in c.primary /\ "PRIMARY" \notin st[u]}
        keep(f, new) == [u \in Ups |-> IF u \in stays THEN f[u] ELSE new]
    IN  /\ conf' = c
        /\ status' = [u \in Ups |->
               IF u \in stays
               THEN (st[u] \ ((IF u \in drops THEN Session ELSE {}) \cup {"PRIMARY"}))
                        \cup RoleFlag(c, u)
               ELSE RoleFlag(c, u)]
        /\ comm' = [u \in Ups |-> IF u \in drops THEN "gone"
                                  ELSE IF u \in stays THEN comm[u] ELSE "new"]
        /\ fd' = [u \in Ups |-> u \in stays \ drops /\ fd[u]]
        /\ kept' = keep(kept, {})
        /\ lastpoll' = keep(lp, DeadTime + 1)
        /\ lastnoncrit' = keep(lastnoncrit, HostSync + 1)
        /\ offsince' = keep(offsince, Unset)
        /\ oblbsince' = keep(oblbsince, Unset)
        /\ oversince' = keep(oversince, Unset)
        /\ heard' = keep(heard, <<>>)
        /\ IF Possible(c) THEN pc' = "poll" /\ todo' = DOMAIN c.pv
                          ELSE pc' = "exit" /\ todo' = {}
        /\ UNCHANGED <<sleepval, parseVars>>

\* SIGHUP
Reload ==
    /\ pc = "top"
    /\ \E c \in Confs, changed \in SUBSET Monitored :
          reload_conf(status, lastpoll, c, changed)
    /\ fresh' = [u \in Ups |-> u \in Monitored' /\ fresh[u]]

\* The OS woke up, or the clock jumped: all flags are forgotten, then the
\* configuration is read again.
Wake ==
    /\ pc = "top"
    /\ \E c \in Confs, changed \in SUBSET Monitored :
          reload_conf([u \in Ups |-> {}], [u \in Ups |-> 0], c, changed)
    /\ fresh' = [u \in Ups |-> FALSE]

\* The same, but reload_conf() cannot open upsmon.conf.
WakeUnread ==
    /\ pc = "top"
    /\ status' = [u \in Ups |-> IF u \in Monitored THEN {} ELSE status[u]]
    /\ lastpoll' = [u \in Ups |-> IF u \in Monitored THEN 0 ELSE lastpoll[u]]
    /\ fresh' = [u \in Ups |-> FALSE]
    /\ pc' = "poll" /\ todo' = Monitored
    /\ UNCHANGED <<conf, comm, kept, fd, lastnoncrit, offsince, oblbsince, oversince,
                   sleepval, parseVars, heard>>

-----------------------------------------------------------------------------
(* pollups() *)

\* u is the next UPS to poll.
Polls(u) == pc = "poll" /\ u \in todo
Polled(u) == todo' = todo \ {u} /\ pc' = pc /\ UNCHANGED <<conf, sleepval, parseVars, history>>

\* try_connect() fails: ups_is_gone(), no socket.  (With CERTVERIFY but no
\* CERTPATH it also drops the connection, which leaves the same state.)
ConnectFails(u) ==
    /\ Polls(u) /\ "CLICONNECTED" \notin status[u]
    /\ comm' = [comm EXCEPT ![u] = "gone"]
    /\ fd' = [fd EXCEPT ![u] = FALSE]
    /\ Polled(u)
    /\ UNCHANGED <<status, kept, timeVars>>

\* Connected, but do_upsd_auth() fails before LOGIN is granted or, for a
\* primary, after it: the UPS is not polled this time.  The connection stays
\* unless the failure was the network's.
LoginFails(u) ==
    /\ Polls(u) /\ "CLICONNECTED" \notin status[u]
    /\ \E granted \in BOOLEAN :
        /\ granted => "PRIMARY" \in status[u]
        /\ status' = [status EXCEPT ![u] = @ \cup IF granted THEN Session ELSE {"CLICONNECTED"}]
    /\ \E open \in BOOLEAN : fd' = [fd EXCEPT ![u] = open]
    /\ Polled(u)
    /\ UNCHANGED <<comm, kept, timeVars>>

\* Before the query: connected already, or now, with try_connect() succeeding.
Connected(u) == IF "CLICONNECTED" \in status[u] THEN status[u] ELSE status[u] \cup Session

\* The query is refused (stale data, unknown UPS) or the status is empty.
PollRefused(u) ==
    /\ Polls(u) /\ ("CLICONNECTED" \in status[u] => fd[u])
    /\ status' = [status EXCEPT ![u] = Connected(u)]
    /\ comm' = [comm EXCEPT ![u] = "gone"]
    /\ fd' = [fd EXCEPT ![u] = TRUE]
    /\ Polled(u)
    /\ UNCHANGED <<kept, timeVars>>

\* The query fails and upsclient closed the socket: drop_connection().
PollLost(u) ==
    /\ Polls(u)
    /\ status' = [status EXCEPT ![u] = @ \ Session]
    /\ comm' = [comm EXCEPT ![u] = "gone"]
    /\ fd' = [fd EXCEPT ![u] = FALSE]
    /\ Polled(u)
    /\ UNCHANGED <<kept, timeVars>>

\* Mutant: ups_is_notoff() and the like clear the flag only.
KeptForGood(u, said) == kept[u]

\* ups_is_notoff(), ups_is_notbypass(), ups_is_notalarm(), ups_is_notover()
StillKept(u, said) == kept[u] \cap said

\* A status arrives: ups_is_alive(), and parse_status() clears the flags of
\* the words that are gone before it looks at the words that are there.  The
\* queries that follow the one for the status may still lose the socket.
PollAnswers(u, a) ==
    LET said == Mentioned(a.words)
        gone == {w \in Cleared \cap status[u] : w \notin said}
                    \cup {w \in {"ECO"} \cap status[u] : w \notin said /\ ~a.eco}
        left == (Connected(u) \ gone) \cup (IF a.eco THEN {"ECO"} ELSE {})
    IN  /\ Polls(u) /\ ("CLICONNECTED" \in status[u] => fd[u])
        /\ status' = [status EXCEPT ![u] = left]
        /\ comm' = [comm EXCEPT ![u] = "ok"]
        /\ kept' = [kept EXCEPT ![u] = StillKept(u, said)]
        /\ \E open \in BOOLEAN : fd' = [fd EXCEPT ![u] = open]
        /\ lastpoll' = [lastpoll EXCEPT ![u] = 0]
        /\ offsince' = [offsince EXCEPT ![u] = IF "OFF" \in said THEN @ ELSE Unset]
        /\ oversince' = [oversince EXCEPT ![u] = IF "OVER" \in said THEN @ ELSE Unset]
        /\ sleepval' = IF gone \subseteq {"LB", "FSD"} THEN sleepval
                       ELSE try_restore_pollfreq(left)
        /\ pc' = "parse" /\ cur' = u /\ line' = a.words /\ words' = a.words
        /\ UNCHANGED <<conf, lastnoncrit, oblbsince, todo, history>>

-----------------------------------------------------------------------------
(* parse_status(), one word at a time *)

\* The handler of each word: the flags afterwards.
Flagged(s, w) ==
    CASE w = "OL" -> (s \ {"OB"}) \cup {"OL"}
      [] w = "OB" -> (s \ {"OL"}) \cup {"OB"}
      [] w \in (Cleared \cup {"ECO"}) -> s \cup {w}
      [] OTHER -> s

\* The words whose first appearance bumps up the polling frequency.
Bumps == {"OB", "OFF", "BYPASS", "ALARM"} \cup (IF OverDuration >= 0 THEN {"OVER"} ELSE {})

\* The words that leave offstate, bypassstate, alarmstate or overstate at 1.
Keeps(s, w, off) ==
    \/ w \in {"BYPASS", "ALARM", "OVER"} /\ w \notin s
    \/ /\ w = "OFF"
       /\ IF w \in s THEN OffDuration > 0 /\ off > OffDuration ELSE OffDuration = 0

\* Mutant: the timer restarts whenever the UPS answers.
CrittimerOnAnswer(s, since) == 0

\* update_crittimer(): anything but OB+LB without CAL restarts the timer.
update_crittimer(s, since) ==
    IF {"OB", "LB"} \subseteq s /\ "CAL" \notin s THEN since ELSE 0

ParseWord ==
    LET u == cur
        w == Head(words)
        s == status[u]
        first == w \notin s
    IN  /\ pc = "parse" /\ words # <<>>
        /\ status' = [status EXCEPT ![u] = Flagged(s, w)]
        /\ kept' = [kept EXCEPT ![u] = IF Keeps(s, w, offsince[u]) THEN @ \cup {w} ELSE @]
        /\ offsince' = [offsince EXCEPT ![u] =
                            IF w = "OFF" /\ (first \/ @ = Unset) THEN 0 ELSE @]
        /\ oversince' = [oversince EXCEPT ![u] =
                            IF w = "OVER" /\ (first \/ @ = Unset) THEN 0 ELSE @]
        /\ lastnoncrit' = [lastnoncrit EXCEPT ![u] = update_crittimer(Flagged(s, w), @)]
        /\ sleepval' = IF w \in Bumps /\ first THEN "alert"
                       ELSE IF w = "OL" THEN try_restore_pollfreq(s) ELSE sleepval
        /\ words' = Tail(words)
        /\ UNCHANGED <<conf, comm, fd, lastpoll, oblbsince, pc, todo, cur, line, history>>

\* The last word is done.
ParseDone ==
    /\ pc = "parse" /\ words = <<>>
    /\ pc' = "poll" /\ todo' = todo \ {cur}
    /\ heard' = [heard EXCEPT ![cur] = line]
    /\ fresh' = [fresh EXCEPT ![cur] = TRUE]
    /\ cur' = NoUps /\ line' = <<>>
    /\ UNCHANGED <<conf, upsVars, sleepval, words>>

\* isPreparingForSleep(): the cycle is abandoned between two polls.
AbortPolling ==
    /\ pc = "poll" /\ todo # {}
    /\ pc' = "top" /\ todo' = {}
    /\ UNCHANGED <<conf, upsVars, sleepval, parseVars, history>>

AllPolled ==
    /\ pc = "poll" /\ todo = {}
    /\ pc' = "recalc"
    /\ UNCHANGED <<conf, upsVars, sleepval, todo, parseVars, history>>

-----------------------------------------------------------------------------
(* recalc() *)

\* "promote dead UPSes that were last known OB to OB+LB"
Promoted(u) == status[u] \cup (IF lastpoll[u] > DeadTime /\ "OB" \in status[u]
                               THEN {"LB"} ELSE {})

\* Mutant: only an ALARM is held against a UPS that is lost.
AssumedDeadOnAlarm(u) == "ALARM" \in kept[u] \cup status[u] /\ AlarmCritical

\* is_ups_critical() for a UPS that does not communicate.
AssumedDead(u) ==
    LET known == kept[u] \cup status[u]
    IN  \/ "OVER" \in known /\ OverDuration >= 0
           /\ (oversince[u] = Unset \/ oversince[u] >= OverDuration)
        \/ "ALARM" \in known /\ AlarmCritical
        \/ "CAL" \in status[u]
        \/ "BYPASS" \in known
        \/ "OFF" \in kept[u]
        \/ "OFF" \in status[u] /\ OffDuration >= 0

\* The conditions is_ups_critical() tests before it looks at OB and LB.
CriticalAtOnce(u) ==
    \/ "FSD" \in status[u]
    \/ comm[u] = "gone" /\ AssumedDead(u)
    \/ "OFF" \in status[u] /\ OffDuration >= 0 /\ "OFF" \in kept[u]

LowOnBattery(u) == {"OB", "LB"} \subseteq Promoted(u)

\* OBLBDURATION is off, or has elapsed.
OblbElapsed(u) ==
    OblbDuration = 0 \/ (oblbsince[u] # Unset /\ oblbsince[u] >= OblbDuration)

\* Mutant: a secondary waits for the primary's FSD for ever.
CriticalForPrimary(u) ==
    \/ CriticalAtOnce(u)
    \/ /\ LowOnBattery(u) /\ "CAL" \notin status[u]
       /\ OblbElapsed(u) /\ "PRIMARY" \in status[u]

is_ups_critical(u) ==
    \/ CriticalAtOnce(u)
    \/ /\ LowOnBattery(u)
       /\ "CAL" \notin status[u]
       /\ OblbElapsed(u)
       /\ "PRIMARY" \in status[u] \/ lastnoncrit[u] > HostSync

\* What is_ups_critical() does to oblbsince and, with it, to sleepval.
OblbEnds(u) == ~CriticalAtOnce(u) /\ ~LowOnBattery(u) /\ oblbsince[u] # Unset
OblbBegins(u) == /\ ~CriticalAtOnce(u) /\ LowOnBattery(u) /\ "CAL" \notin status[u]
                 /\ OblbDuration > 0 /\ oblbsince[u] = Unset
NewPace(u) == IF OblbBegins(u) THEN "gcd"
              ELSE IF "OB" \in status[u] THEN "alert" ELSE "normal"

Healthy == {u \in Monitored : ~is_ups_critical(u)}

\* Mutant: off by one.
TooFewAtLimit == Power(conf, Healthy) <= conf.minsupplies

TooFewSupplies == Power(conf, Healthy) < conf.minsupplies

Recalc ==
    /\ pc = "recalc"
    /\ status' = [u \in Ups |-> IF u \in Monitored THEN Promoted(u) ELSE status[u]]
    /\ oblbsince' = [u \in Ups |-> IF u \notin Monitored THEN oblbsince[u]
                                   ELSE IF OblbEnds(u) THEN Unset
                                   ELSE IF OblbBegins(u) THEN 0 ELSE oblbsince[u]]
    /\ LET paced == {u \in Monitored : OblbEnds(u) \/ OblbBegins(u)}
       IN  IF paced = {} THEN UNCHANGED sleepval
           ELSE \E last \in paced : sleepval' = NewPace(last)
    /\ pc' = IF TooFewSupplies THEN "shutdown" ELSE "sleep"
    /\ UNCHANGED <<conf, comm, kept, fd, lastpoll, lastnoncrit, offsince, oversince,
                   todo, parseVars, history>>

\* sleep(sleepval) ends.
EndOfCycle ==
    /\ pc = "sleep"
    /\ pc' = "top"
    /\ UNCHANGED <<conf, upsVars, sleepval, todo, parseVars, history>>

\* forceshutdown() does not return (module Shutdown); fatalx() neither.
Terminated == pc \in {"shutdown", "exit"} /\ UNCHANGED vars

-----------------------------------------------------------------------------
(* Time *)

Positive(n) == IF n > 0 THEN n ELSE 0
Older(f, cap) == [u \in Ups |-> IF f[u] = Unset \/ f[u] >= cap THEN f[u] ELSE f[u] + 1]

\* A second passes: in a network call, in the OS's sleep or in sleep().
Tick ==
    /\ pc \in {"top", "poll", "sleep"}
    /\ lastpoll' = Older(lastpoll, DeadTime + 1)
    /\ lastnoncrit' = Older(lastnoncrit, HostSync + 1)
    /\ offsince' = Older(offsince, Positive(OffDuration) + 1)
    /\ oblbsince' = Older(oblbsince, OblbDuration)
    /\ oversince' = Older(oversince, Positive(OverDuration))
    /\ UNCHANGED <<conf, status, comm, kept, fd, sleepval, pc, todo, parseVars, history>>

PollStep == \E u \in Ups : \/ ConnectFails(u)
                           \/ LoginFails(u)
                           \/ PollRefused(u)
                           \/ PollLost(u)
                           \/ \E a \in Answers : PollAnswers(u, a)

Loop == \/ StartPolling \/ Reload \/ Wake \/ WakeUnread
        \/ PollStep \/ ParseWord \/ ParseDone \/ AbortPolling \/ AllPolled
        \/ Recalc \/ EndOfCycle

Next == Loop \/ Tick \/ Terminated

Spec == Init /\ [][Next]_vars

\* Every blocking call of the loop has a time limit, so the loop goes on, and
\* it sleeps for at least a second in every cycle, so time does.
FairSpec == Spec /\ WF_vars(Loop) /\ SF_vars(Tick)

-----------------------------------------------------------------------------
(* Properties *)

Flags == Cleared \cup Session \cup {"OL", "OB", "ECO", "PRIMARY"}

\* The domains of the variables.
EntryOK ==
    /\ conf \in Confs
    /\ status \in [Ups -> SUBSET Flags]
    /\ comm \in [Ups -> {"new", "gone", "ok"}]
    /\ kept \in [Ups -> SUBSET {"OFF", "BYPASS", "ALARM", "OVER"}]
    /\ fd \in [Ups -> BOOLEAN]
TimersOK ==
    /\ lastpoll \in [Ups -> 0..DeadTime + 1]
    /\ lastnoncrit \in [Ups -> 0..HostSync + 1]
    /\ offsince \in [Ups -> Unset..Positive(OffDuration) + 1]
    /\ oblbsince \in [Ups -> Unset..OblbDuration]
    /\ oversince \in [Ups -> Unset..Positive(OverDuration)]
PlaceOK ==
    /\ sleepval \in {"normal", "alert", "gcd"}
    /\ pc \in {"top", "poll", "parse", "recalc", "sleep", "shutdown", "exit"}
    /\ todo \subseteq Monitored
    /\ IF pc = "parse" THEN cur \in todo /\ \E a \in Answers : a.words = line
                       ELSE cur = NoUps /\ line = <<>> /\ words = <<>>
HeardOK ==
    /\ heard \in [Ups -> {<<>>} \cup {a.words : a \in Answers}]
    /\ fresh \in [Ups -> BOOLEAN]
    /\ \A u \in Ups : fresh[u] => u \in Monitored

\* Flags are raised by known words only, timers stay in range, and a status is
\* parsed (parse_status()) only for a UPS that is being polled.
TypeOK == EntryOK /\ TimersOK /\ PlaceOK /\ HeardOK

Alarming == {"OB", "FSD", "CAL", "OFF", "BYPASS", "ALARM", "OVER"}
Fine(l) == l = <<>> \/ ("OL" \in Mentioned(l) /\ Mentioned(l) \cap Alarming = {})

\* No needless shutdown: when upsmon decides to shut down, the UPSes whose last
\* status was a plain OL, and those never heard, no longer provide MINSUPPLIES.
\* Whatever was reported before that OL, however polls, losses of the
\* connection, reloads and wake-ups followed each other, it does not count.
ShutdownJustified ==
    pc = "shutdown" =>
        Power(conf, {u \in Monitored : Fine(heard[u])}) < conf.minsupplies

LowLine(l) == {"OB", "LB"} \subseteq Mentioned(l) /\ Mentioned(l) \cap {"OL", "CAL"} = {}

\* What the last status of u, the silence since then and the role of this host
\* oblige upsmon to act on.
Doomed(u) ==
    /\ fresh[u]
    /\ LET said == Mentioned(heard[u]) IN
       \/ "FSD" \in said
       \/ comm[u] = "gone" /\ \/ said \cap {"BYPASS", "CAL"} # {}
                              \/ "ALARM" \in said /\ AlarmCritical
                              \/ "OFF" \in said /\ OffDuration >= 0
       \/ /\ OblbDuration = 0
          /\ "OB" \in said /\ said \cap {"OL", "CAL"} = {}
          /\ "LB" \in said \/ lastpoll[u] > DeadTime
          /\ "PRIMARY" \in status[u] \/ lastnoncrit[u] > HostSync

\* No missed shutdown: recalc() does not let the host go to sleep when too few
\* UPSes are left that are neither under FSD, nor lost in a dangerous state,
\* nor low on battery, nor silent on battery for longer than DEADTIME.
NoSleepInPeril ==
    [][pc = "recalc" /\ pc' = "sleep" =>
         Power(conf, {u \in Monitored : ~Doomed(u)}) >= conf.minsupplies]_vars

\* A secondary's patience is not renewed: while status after status says OB LB
\* without CAL, no word of it restarts the HOSTSYNC timer lastnoncrit, although
\* update_crittimer() runs after every single word.
CritTimerAges ==
    [][\A u \in Ups :
         /\ LowLine(heard[u]) /\ fresh[u] /\ fresh'[u]
         /\ (cur = u => LowLine(line))
         => lastnoncrit'[u] >= lastnoncrit[u]]_vars

Peril(u) ==
    /\ u \in Monitored /\ fresh[u]
    /\ "OB" \in Mentioned(heard[u]) /\ "OL" \notin Mentioned(heard[u])
    /\ comm[u] = "gone" \/ LowLine(heard[u])

\* Peril ends in a shutdown: a host whose only UPS stays low on battery, or is
\* lost while on battery and not heard again, is shut down in the end, be it
\* primary or secondary and whatever OBLBDURATION says.
PerilEndsInShutdown ==
    \A u \in Ups : <>[]Peril(u) /\ []<>(pc = "recalc") => <>(pc \in {"shutdown", "exit"})

\* clients/upsmon.c:238 on try_restore_pollfreq(): the relaxed polling frequency
\* is for when no UPS is in a state "prone to UPS disappearance".
RelaxedOnlyWhenSafe ==
    pc = "sleep" /\ sleepval = "normal" =>
        \A u \in Monitored : status[u] \cap {"OB", "OFF", "BYPASS", "ALARM"} = {}

\* docs/man/upsmon.txt on the modes: a host configured as primary for a UPS
\* keeps that role, so that it will set FSD and wait for the secondaries.
PrimaryKeepsItsRole ==
    pc = "recalc" => \A u \in conf.primary : "PRIMARY" \in status[u]

\* clients/upsclient.c on upscli_tryconnect(): the UPSCONN_t it clears was
\* closed by upscli_disconnect() before.
ReconnectsAfterDisconnect ==
    \A u \in Ups : Polls(u) /\ "CLICONNECTED" \notin status[u] => ~fd[u]
=============================================================================
