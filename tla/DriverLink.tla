----------------------------- MODULE DriverLink -----------------------------
(***************************************************************************)
(* The link between one driver and upsd: a driver keeps a tree of          *)
(* variables (drivers/dstate.c), upsd keeps a copy of it                   *)
(* (server/sstate.c), and a local stream socket carries the changes.       *)
(*                                                                         *)
(* upsd opens the socket, asks for everything (DUMPALL) and then applies   *)
(* the lines the driver broadcasts.  It declares the copy stale when the   *)
(* driver says so, when it has been silent for too long, or when the       *)
(* socket is gone.  The driver writes into a socket of limited room: when  *)
(* it is full an asynchronous driver drops the connection, a synchronous   *)
(* one waits.  Both sides may fail at any point of this.                   *)
(*                                                                         *)
(* Ages in seconds stop growing just above the largest value the code      *)
(* tells apart.  An old connection that upsd has closed is not modelled    *)
(* any further: whatever the driver writes into it is lost.                *)
(***************************************************************************)
EXTENDS Integers, Sequences, SequencesExt

CONSTANTS
    Var,        \* names of variables
    Status,     \* ups.status, the one upsd itself writes
    Value,      \* what a driver may store
    None,       \* the variable is not in the tree
    Wait,       \* "WAIT", what upsd stores while it awaits the dump
    MaxAge,     \* MAXAGE in seconds
    WireRoom,   \* lines the socket buffer holds towards upsd
    AskRoom,    \* requests the socket buffer holds towards the driver
    Modes,      \* driver setting "synchronous": subset of {"auto", "yes", "no"}
    Prompt,     \* subset of {TRUE, FALSE}: the drivers considered, see prompt
    MaxChanges, \* bound: changes a driver makes to its tree and its staleness
    MaxFailures \* bound: crashes of the driver and broken sockets

ASSUME VarAssumption   == /\ IsFiniteSet(Var) /\ Status \in Var
                          /\ None \notin Value \cup {Wait} /\ Wait \notin Value
ASSUME AgeAssumption   == MaxAge \in Nat
ASSUME RoomAssumption  == WireRoom \in Nat \ {0} /\ AskRoom \in Nat \ {0}
ASSUME ModesAssumption == Modes \subseteq {"auto", "yes", "no"}
ASSUME PromptAssumption == Prompt \subseteq BOOLEAN
ASSUME BoundAssumption == MaxChanges \in Nat /\ MaxFailures \in Nat

VARIABLES
    \* the driver
    up,        \* the process exists and listens
    prompt,    \* it reacts within a second while it is up; otherwise it may hang
    tree,      \* dtree_root
    dstale,    \* stale
    sync,      \* do_synchronous
    out,       \* lines the handler at work still has to write
    \* the connection
    conn,      \* "none", "backlog", "async", "sync" or "closed" by the driver
    wire,      \* lines on their way to upsd
    asked,     \* requests on their way to the driver
    \* upsd
    sock_fd,   \* VALID_FD(ups->sock_fd)
    info,      \* ups->inforoot
    dumpdone,  \* ups->dumpdone
    data_ok,   \* ups->data_ok
    stale,     \* ups->stale
    heard,     \* seconds since ups->last_heard
    pinged,    \* seconds since ups->last_ping
    phase,     \* "scan", "poll" or "serve" in mainloop()
    \* bounds
    changes, failures

driverVars == <<up, prompt, tree, dstale, sync, out>>
linkVars   == <<conn, wire, asked>>
upsdVars   == <<sock_fd, info, dumpdone, data_ok, stale, heard, pinged, phase>>
vars == <<driverVars, linkVars, upsdVars, changes, failures>>

-----------------------------------------------------------------------------
Tree == [Var -> Value \cup {None, Wait}]
Empty == [v \in Var |-> None]
Accepted == conn \in {"async", "sync"}
Elapsed == 0..(MaxAge + 2)      \* beyond MaxAge + 1 the driver is dead
PingDue == MaxAge \div 3

SETINFO(v, x) == [kind |-> "SETINFO", var |-> v, val |-> x]
DELINFO(v)    == [kind |-> "DELINFO", var |-> v]
Plain(word)   == [kind |-> word]

Line == [kind : {"SETINFO"}, var : Var, val : Value]
        \cup [kind : {"DELINFO"}, var : Var]
        \cup [kind : {"DATAOK", "DATASTALE", "DUMPDONE", "PONG"}]

\* state_setinfo() and state_delinfo() on upsd's copy.
Touches(line, v) == line.kind \in {"SETINFO", "DELINFO"} /\ line.var = v
Written(line) == IF line.kind = "SETINFO" THEN line.val ELSE None
Applied(copy, line) == [v \in Var |-> IF Touches(line, v) THEN Written(line) ELSE copy[v]]

Init ==
    /\ up \in BOOLEAN /\ prompt \in Prompt
    /\ tree = Empty /\ dstale = TRUE /\ sync \in Modes /\ out = <<>>
    /\ conn = "none" /\ wire = <<>> /\ asked = <<>>
    /\ sock_fd = FALSE /\ info = Empty
    /\ dumpdone = FALSE /\ data_ok = FALSE /\ stale = TRUE
    /\ heard = 0 /\ pinged = PingDue + 1
    /\ phase = "scan"
    /\ changes = 0 /\ failures = 0

-----------------------------------------------------------------------------
(* The driver: one thread, busy while out holds lines *)

Idle == up /\ out = <<>>

\* send_to_all(): only connections that were accepted hear of it.
send_to_all(line) == out' = IF Accepted THEN <<line>> ELSE <<>>

\* Changing the tree: state_setinfo() reports a change only if there is one.
dstate_setinfo(v, x) ==
    /\ Idle /\ changes < MaxChanges
    /\ tree[v] # x
    /\ tree' = [tree EXCEPT ![v] = x]
    /\ send_to_all(SETINFO(v, x))
    /\ changes' = changes + 1
    /\ UNCHANGED <<up, prompt, dstale, sync, linkVars, upsdVars, failures>>

dstate_delinfo(v) ==
    /\ Idle /\ changes < MaxChanges
    /\ tree[v] # None
    /\ tree' = [tree EXCEPT ![v] = None]
    /\ send_to_all(DELINFO(v))
    /\ changes' = changes + 1
    /\ UNCHANGED <<up, prompt, dstale, sync, linkVars, upsdVars, failures>>

dstate_dataok ==
    /\ Idle /\ changes < MaxChanges
    /\ dstale
    /\ dstale' = FALSE
    /\ send_to_all(Plain("DATAOK"))
    /\ changes' = changes + 1
    /\ UNCHANGED <<up, prompt, tree, sync, linkVars, upsdVars, failures>>

dstate_datastale ==
    /\ Idle /\ changes < MaxChanges
    /\ ~dstale
    /\ dstale' = TRUE
    /\ send_to_all(Plain("DATASTALE"))
    /\ changes' = changes + 1
    /\ UNCHANGED <<up, prompt, tree, sync, linkVars, upsdVars, failures>>

\* Mutant: no socket waits, whatever the setting.
ConnectNonBlocking ==
    /\ Idle /\ conn = "backlog"
    /\ conn' = "async"
    /\ UNCHANGED <<driverVars, wire, asked, upsdVars, changes, failures>>

\* accept(); the mode of the socket is chosen now.
sock_connect ==
    /\ Idle /\ conn = "backlog"
    /\ conn' = IF sync = "yes" THEN "sync" ELSE "async"
    /\ UNCHANGED <<driverVars, wire, asked, upsdVars, changes, failures>>

\* st_tree_dump_conn(): one line per variable, in the order of the tree.
TreeLines == LET order == SetToSeq({v \in Var : tree[v] # None})
             IN  [i \in DOMAIN order |-> SETINFO(order[i], tree[order[i]])]

\* sock_arg() on DUMPALL.
DumpAll ==
    (IF dstale THEN <<Plain("DATASTALE")>> ELSE <<>>)
    \o TreeLines
    \o (IF dstale THEN <<>> ELSE <<Plain("DATAOK")>>)
    \o <<Plain("DUMPDONE")>>

\* sock_read() and sock_arg(): the next request is answered.
sock_arg ==
    /\ Idle /\ Accepted /\ asked # <<>>
    /\ asked' = Tail(asked)
    /\ \/ /\ Head(asked) = "DUMPALL"
          /\ out' = DumpAll
       \/ /\ Head(asked) = "PING"
          /\ out' = <<Plain("PONG")>>
    /\ UNCHANGED <<up, prompt, tree, dstale, sync, conn, wire, upsdVars, changes, failures>>

\* write() of the next line.
Write ==
    /\ up /\ out # <<>> /\ Accepted /\ Len(wire) < WireRoom
    /\ wire' = Append(wire, Head(out))
    /\ out' = Tail(out)
    /\ UNCHANGED <<up, prompt, tree, dstale, sync, conn, asked, upsdVars, changes, failures>>

\* The buffer is full: a non-blocking write() fails, or writes a part of the
\* line, and sock_disconnect().  "auto" is meant to become "yes" here if errno
\* is EAGAIN; but by then the warning was logged, and vupslog() sets errno to 0.
WriteFails ==
    /\ up /\ out # <<>> /\ conn = "async" /\ Len(wire) = WireRoom
    /\ conn' = "closed"
    /\ out' = <<>>
    /\ UNCHANGED <<up, prompt, tree, dstale, sync, wire, asked, upsdVars, changes, failures>>

\* Writing to, or reading from, a connection upsd has closed.
WriteLost ==
    /\ up /\ out # <<>> /\ ~Accepted
    /\ out' = <<>>
    /\ UNCHANGED <<up, prompt, tree, dstale, sync, linkVars, upsdVars, changes, failures>>

\* The process ends, wherever it was; its sockets are closed.
Crash ==
    /\ up /\ failures < MaxFailures
    /\ up' = FALSE
    /\ out' = <<>>
    /\ conn' = IF conn = "none" THEN "none" ELSE "closed"
    /\ failures' = failures + 1
    /\ UNCHANGED <<prompt, tree, dstale, sync, wire, asked, upsdVars, changes>>

\* A new process starts with an empty tree and stale data.
Start ==
    /\ ~up
    /\ up' = TRUE
    /\ tree' = Empty /\ dstale' = TRUE /\ sync' \in Modes /\ out' = <<>>
    /\ UNCHANGED <<prompt, linkVars, upsdVars, changes, failures>>

Driver ==
    \/ \E v \in Var, x \in Value : dstate_setinfo(v, x)
    \/ \E v \in Var : dstate_delinfo(v)
    \/ dstate_dataok \/ dstate_datastale
    \/ sock_connect \/ sock_arg \/ Write \/ WriteFails \/ WriteLost
    \/ Start

-----------------------------------------------------------------------------
(* upsd *)

\* Mutant: what was known of the UPS survives the connection.
DisconnectKeepingInfo ==
    /\ sock_fd' = FALSE
    /\ info' = info
    /\ conn' = "none" /\ wire' = <<>> /\ asked' = <<>>

\* sstate_disconnect(): the copy is freed with the socket.
sstate_disconnect ==
    /\ sock_fd' = FALSE
    /\ info' = Empty
    /\ conn' = "none" /\ wire' = <<>> /\ asked' = <<>>

\* Mutant: dumpdone of the last connection survives.
ConnectKeepingDumpdone ==
    /\ sock_fd' = TRUE
    /\ conn' = "backlog" /\ wire' = <<>> /\ asked' = <<"DUMPALL">>
    /\ stale' = FALSE /\ heard' = 0
    /\ info' = [info EXCEPT ![Status] = Wait]
    /\ UNCHANGED <<dumpdone, pinged>>

\* sstate_connect(), then the verdict on the new connection: connect()
\* succeeds as soon as the driver listens, whether it accepts or not.
sstate_connect ==
    /\ sock_fd' = TRUE
    /\ conn' = "backlog" /\ wire' = <<>> /\ asked' = <<"DUMPALL">>
    /\ dumpdone' = FALSE /\ stale' = FALSE /\ heard' = 0
    /\ info' = [info EXCEPT ![Status] = Wait]
    /\ UNCHANGED pinged

\* Mutant: a silent driver that last said DATAOK is believed for ever.
DeadWhenTold == dumpdone /\ ~data_ok

\* sstate_dead(): silence for longer than MAXAGE and the second of grace, or
\* the driver's own word once the dump is done.
sstate_dead ==
    \/ heard > MaxAge + 1
    \/ heard <= MaxAge /\ dumpdone /\ ~data_ok

WantsPing == heard > PingDue /\ pinged > PingDue

\* mainloop() looks at the driver: the socket is gone and cannot be reopened;
CannotConnect ==
    /\ phase = "scan" /\ ~sock_fd /\ ~up
    /\ phase' = "poll"
    /\ UNCHANGED <<driverVars, linkVars, sock_fd, info, dumpdone, data_ok, stale, heard, pinged,
                   changes, failures>>

\* it is reopened, and what the connection says is as fresh as can be;
Connects ==
    /\ phase = "scan" /\ ~sock_fd /\ up
    /\ sstate_connect
    /\ phase' = "poll"
    /\ UNCHANGED <<driverVars, data_ok, changes, failures>>

\* it is there, and prodded if it has been silent for a third of MAXAGE;
Judges ==
    /\ phase = "scan" /\ sock_fd
    /\ WantsPing => conn # "closed" /\ Len(asked) < AskRoom
    /\ asked' = IF WantsPing THEN Append(asked, "PING") ELSE asked
    /\ pinged' = IF WantsPing THEN 0 ELSE pinged
    /\ stale' = sstate_dead
    /\ phase' = "poll"
    /\ UNCHANGED <<driverVars, conn, wire, sock_fd, info, dumpdone, data_ok, heard, changes, failures>>

\* the PING cannot be written: the socket is closed, the verdict is passed.
PingFails ==
    /\ phase = "scan" /\ sock_fd
    /\ WantsPing /\ (conn = "closed" \/ Len(asked) = AskRoom)
    /\ sstate_disconnect
    /\ stale' = sstate_dead
    /\ phase' = "poll"
    /\ UNCHANGED <<driverVars, dumpdone, data_ok, heard, pinged, changes, failures>>

\* sstate_readline() and parse_args(): one more line of the buffer.  Every
\* line a driver sends restarts the clock.
sstate_readline ==
    /\ phase \in {"poll", "serve"} /\ sock_fd /\ wire # <<>>
    /\ LET line == Head(wire)
       IN  /\ info' = Applied(info, line)
           /\ dumpdone' = (dumpdone \/ line.kind = "DUMPDONE")
           /\ data_ok' = IF line.kind \in {"DATAOK", "DATASTALE"}
                         THEN line.kind = "DATAOK" ELSE data_ok
    /\ wire' = Tail(wire)
    /\ heard' = 0
    /\ phase' \in {"serve", "scan"}
    /\ UNCHANGED <<driverVars, conn, asked, sock_fd, stale, pinged, changes, failures>>

\* POLLHUP: the rest of the buffer is not read.
Hangup ==
    /\ phase = "poll" /\ sock_fd /\ conn = "closed"
    /\ sstate_disconnect
    /\ phase' = "scan"
    /\ UNCHANGED <<driverVars, dumpdone, data_ok, stale, heard, pinged, changes, failures>>

\* poll() timed out, or only clients had something to say.
NothingRead ==
    /\ phase \in {"poll", "serve"}
    /\ phase' = "scan"
    /\ UNCHANGED <<driverVars, linkVars, sock_fd, info, dumpdone, data_ok, stale, heard, pinged,
                   changes, failures>>

\* read() fails, or a client's SET or INSTCMD cannot be written.
SocketBreaks ==
    /\ phase \in {"poll", "serve"} /\ sock_fd /\ failures < MaxFailures
    /\ sstate_disconnect
    /\ failures' = failures + 1
    /\ UNCHANGED <<driverVars, dumpdone, data_ok, stale, heard, pinged, phase, changes>>

Server == CannotConnect \/ Connects \/ Judges \/ PingFails
          \/ sstate_readline \/ Hangup \/ NothingRead

\* A second passes while upsd sleeps in poll().
Quiet == conn # "backlog" /\ wire \o out \o asked = <<>>
Tick ==
    /\ phase = "poll"
    /\ prompt /\ up => Quiet
    /\ heard' = IF heard + 1 \in Elapsed THEN heard + 1 ELSE heard
    /\ pinged' = IF pinged > PingDue THEN pinged ELSE pinged + 1
    /\ UNCHANGED <<driverVars, linkVars, sock_fd, info, dumpdone, data_ok, stale, phase,
                   changes, failures>>

Next == Driver \/ Crash \/ Server \/ SocketBreaks \/ Tick

Spec == Init /\ [][Next]_vars

\* upsd's loop goes on, reading what poll() reports, and so does time; a prompt
\* driver that is up answers.
Answers == sock_connect \/ sock_arg \/ Write \/ WriteFails \/ WriteLost
Reads == sstate_readline \/ Hangup
FairSpec == Spec /\ WF_vars(Server) /\ SF_vars(Reads) /\ SF_vars(Tick)
                 /\ WF_vars(prompt /\ Answers)

-----------------------------------------------------------------------------
(* Properties *)

\* ups_available(): clients are given the copy.
Available == sock_fd /\ ~stale

\* The domains of the variables.
DriverOK ==
    /\ up \in BOOLEAN /\ prompt \in BOOLEAN /\ dstale \in BOOLEAN
    /\ tree \in [Var -> Value \cup {None}]
    /\ sync \in {"auto", "yes", "no"} /\ out \in Seq(Line)
LinkOK ==
    /\ conn \in {"none", "backlog", "async", "sync", "closed"}
    /\ wire \in Seq(Line) /\ Len(wire) <= WireRoom
    /\ asked \in Seq({"DUMPALL", "PING"}) /\ Len(asked) <= AskRoom
UpsdOK ==
    /\ sock_fd \in BOOLEAN /\ info \in Tree
    /\ dumpdone \in BOOLEAN /\ data_ok \in BOOLEAN /\ stale \in BOOLEAN
    /\ phase \in {"scan", "poll", "serve"}
ClocksOK ==
    /\ heard \in Elapsed /\ pinged \in 0..(PingDue + 1)
    /\ changes \in 0..MaxChanges /\ failures \in 0..MaxFailures

\* Every variable keeps to its domain, and no buffer holds more than its room.
TypeOK == DriverOK /\ LinkOK /\ UpsdOK /\ ClocksOK

\* What the copy will be once all that is under way has arrived: the last line
\* about a variable decides.
UnderWay == wire \o out
LinesAbout(v) == {i \in DOMAIN UnderWay : Touches(UnderWay[i], v)}
Arriving == [v \in Var |-> IF LinesAbout(v) = {} THEN info[v]
                           ELSE Written(UnderWay[Max(LinesAbout(v))])]
IsCopy(copy) == \A v \in Var : \/ copy[v] = tree[v]
                               \/ v = Status /\ tree[v] = None /\ copy[v] = Wait
DumpUnderWay == \E i \in DOMAIN asked : asked[i] = "DUMPALL"

\* The copy never loses a change: once the driver has answered DUMPALL, the
\* lines under way turn upsd's tree into the driver's, whatever was broadcast
\* before, during and after the dump, and nothing of an earlier connection or
\* an earlier driver process is left in it.  (ups.status may still be the WAIT
\* of sstate_connect() if the driver has none.)
CopyFollowsDriver ==
    Accepted /\ ~DumpUnderWay => IsCopy(Arriving)

\* Whether the data is usable is what the driver says on this connection, not
\* what was said on an earlier one: data_ok is not reset by sstate_connect(),
\* but it does not count before DUMPDONE and was set again by then.
VerdictIsCurrent ==
    Accepted /\ dumpdone /\ wire = <<>> /\ out = <<>> => data_ok = ~dstale

\* docs/sock-protocol.txt on DATASTALE: "You must not rely on any status
\* information once this has been sent. [...] It is cleared by DATAOK."  So
\* mainloop() never hands out data a driver has declared stale.
StaleDataIsWithheld ==
    phase = "poll" /\ dumpdone /\ ~data_ok /\ heard > 0 => ~Available

\* A driver that is silent for good, hung or gone, is not believed for ever:
\* again and again clients are told that its data is stale, or that there is
\* no driver (sstate_dead()); the moment between two connections to a hung
\* driver, when the socket is missing as well, does not count.
SilenceIsNoticed ==
    <>[](wire = <<>>) => []<>(~Available /\ (sock_fd \/ ~up))

\* Data comes back: while a prompt driver is up and says its data is good,
\* clients are again and again given exactly the driver's data, however often
\* the buffer overflowed or the socket broke before, if its socket waits for
\* upsd (sock_connect()) or what it has to say fits into the buffer.
Served == Available /\ dumpdone /\ IsCopy(info)
DataComesBack ==
    <>[](prompt /\ up /\ ~dstale /\ (sync = "yes" \/ Len(DumpAll) <= WireRoom)) => []<>Served

\* docs/man/ups.conf.txt:168: drivers work "in asynchronous mode initially but
\* can fall back to synchronous mode if writes to server socket failed (i.e
\* synchronous=auto)".  So nothing should be too large for "auto".
AutoFallsBack ==
    <>[](prompt /\ up /\ ~dstale /\ sync = "auto") => []<>Served
=============================================================================
