------------------------------ MODULE Upssched ------------------------------
(***************************************************************************)
(* upssched (clients/upssched.c): upsmon runs it once per notification,    *)
(* without waiting for it, and each run sends START, START-SHARED, CANCEL  *)
(* or LIST-TIMERS to a timer daemon through the socket PIPEFN.  A run that *)
(* finds no daemon forks one, guarded by the file LOCKFN; a daemon whose   *)
(* queue stays empty removes PIPEFN and exits.                             *)
(*                                                                         *)
(* A client is one run with one AT line that matches; a daemon is one      *)
(* process forked by a client.  System calls on the two files are steps of *)
(* their own, since processes interleave there.  A timer is the seconds    *)
(* left of it, and a set of the clients that asked for it in place of      *)
(* their notification types, UPS names and messages.  The linked list of   *)
(* timers is a function from positions, which leave gaps where a timer was *)
(* taken out.  That a daemon reads the end of a client's connection and    *)
(* forgets it is not modelled.                                             *)
(***************************************************************************)
EXTENDS Integers, Sequences, FiniteSetsExt, Functions

CONSTANTS
    Client,     \* runs of upssched
    Daemon,     \* processes that can be forked
    Nobody,     \* no daemon
    Timer,      \* names of timers
    Agenda,     \* for each client, the commands its AT line may give it
    MaxTries,   \* MAX_TRIES
    EmptyWait,  \* EMPTY_WAIT
    MaxCrashes  \* bound: daemons that are killed

\* A command names a timer and, to start it, the seconds (negative ones are
\* bogus); CANCEL_CMD is a CANCEL with a command to run if there is no timer.
Command == [op : {"START", "START_SHARED"}, name : Timer, ofs : Int]
           \cup [op : {"CANCEL", "CANCEL_CMD", "LIST"}, name : Timer]

ASSUME AgendaAssumption == \A c \in Client : Agenda[c] \subseteq Command
ASSUME NobodyAssumption == Nobody \notin Daemon
ASSUME BoundAssumption  == MaxCrashes \in Nat
ASSUME LimitAssumption  == MaxTries \in Nat \ {0} /\ EmptyWait \in Nat \ {0}

VARIABLES
    \* files
    pipe,    \* the daemon whose socket PIPEFN is, or Nobody
    lock,    \* LOCKFN exists
    \* clients
    pc,      \* where in sendcmd() and check_parent()
    cmd,     \* what to send
    tries,   \* i in sendcmd()
    knocks,  \* tries in check_parent()
    peer,    \* the daemon connected to, or forked and waited for
    answer,  \* what the daemon wrote to this client: "none", or "OK"
    \* daemons
    dst,     \* stage of start_daemon()
    backlog, \* connections not accepted yet
    conns,   \* connhead
    ready,   \* connections select() reported, still to be read
    timers,  \* thead
    empty,   \* emptyctr
    \* history and bounds
    seen,    \* clients that had succeeded when this one began
    fired,   \* how often a timer of this client was executed
    ran,     \* the command given with CANCEL was executed
    alone,   \* no two daemons have been alive at once
    crashes

files      == <<pipe, lock>>
clientVars == <<pc, cmd, tries, knocks, peer>>
daemonVars == <<dst, backlog, conns, ready, timers, empty>>
history    == <<seen, fired, ran, alone, crashes>>
vars == <<files, clientVars, answer, daemonVars, history>>

-----------------------------------------------------------------------------
Starting  == {"forked", "binding", "bound"}
Listening == {"listening", "select", "serve"}
Alive     == Starting \cup Listening
Ended     == {"done", "failed"}
IsStart(k) == k.op \in {"START", "START_SHARED"}
IsCancel(c) == cmd[c].op \in {"CANCEL", "CANCEL_CMD"}

Init ==
    /\ pipe = Nobody /\ lock = FALSE
    /\ pc = [c \in Client |-> "idle"]
    /\ cmd \in {f \in [Client -> UNION {Agenda[c] : c \in Client}] :
                    \A c \in Client : f[c] \in Agenda[c]}
    /\ tries = [c \in Client |-> 0] /\ knocks = [c \in Client |-> 0]
    /\ peer = [c \in Client |-> Nobody]
    /\ answer = [c \in Client |-> "none"]
    /\ dst = [d \in Daemon |-> "unborn"]
    /\ backlog = [d \in Daemon |-> <<>>] /\ conns = [d \in Daemon |-> {}]
    /\ ready = [d \in Daemon |-> {}]
    /\ timers = [d \in Daemon |-> <<>>] /\ empty = [d \in Daemon |-> 0]
    /\ seen = [c \in Client |-> {}]
    /\ fired = [c \in Client |-> 0] /\ ran = [c \in Client |-> FALSE]
    /\ alone = TRUE /\ crashes = 0

-----------------------------------------------------------------------------
(* A client *)

\* upsmon's notify() forks; upssched reads its configuration and comes to an
\* AT line that applies, parse_at().
Begin(c) ==
    /\ pc[c] = "idle"
    /\ pc' = [pc EXCEPT ![c] = "connect"]
    /\ seen' = [seen EXCEPT ![c] = {x \in Client : pc[x] = "done"}]
    /\ UNCHANGED <<files, cmd, tries, knocks, peer, answer, daemonVars, fired, ran, alone, crashes>>

\* The for loop of sendcmd() goes round, or is over: fatalx().  A listing is
\* never tried again.
TryAgain(c, stage) ==
    /\ tries' = [tries EXCEPT ![c] = @ + 1]
    /\ knocks' = [knocks EXCEPT ![c] = 0]
    /\ pc' = [pc EXCEPT ![c] =
                IF tries[c] + 1 < MaxTries /\ cmd[c].op # "LIST" THEN stage ELSE "failed"]

\* try_connect() succeeds: PIPEFN is the socket of a daemon that listens.
Reachable == pipe # Nobody /\ dst[pipe] \in Listening
Connect(c) ==
    /\ pc[c] = "connect"
    /\ Reachable
    /\ peer' = [peer EXCEPT ![c] = pipe]
    /\ backlog' = [backlog EXCEPT ![pipe] = Append(@, c)]
    /\ pc' = [pc EXCEPT ![c] = "write"]
    /\ UNCHANGED <<files, cmd, tries, knocks, answer, dst, conns, ready, timers, empty, history>>

\* Mutant: a command to run instead of the timer is not looked at.
NothingToCancel(c) ==
    /\ pc[c] = "connect"
    /\ ~Reachable
    /\ pc' = [pc EXCEPT ![c] = CASE IsCancel(c) -> "done"
                                 [] cmd[c].op = "LIST" -> "failed"
                                 [] OTHER -> "lock"]
    /\ UNCHANGED <<files, cmd, tries, knocks, peer, answer, daemonVars, history>>

\* It fails: a plain CANCEL has nothing to do, a listing nothing to list, the
\* others go for the lock.
NoDaemon(c) ==
    /\ pc[c] = "connect"
    /\ ~Reachable
    /\ pc' = [pc EXCEPT ![c] = CASE cmd[c].op = "CANCEL" -> "done"
                                 [] cmd[c].op = "LIST" -> "failed"
                                 [] OTHER -> "lock"]
    /\ UNCHANGED <<files, cmd, tries, knocks, peer, answer, daemonVars, history>>

\* get_lock() creates LOCKFN, start_daemon() forks and the parent waits.
Unborn == {d \in Daemon : dst[d] = "unborn"}
GetLock(c) ==
    /\ pc[c] = "lock" /\ ~lock /\ Unborn # {}
    /\ lock' = TRUE
    /\ peer' = [peer EXCEPT ![c] = CHOOSE d \in Unborn : TRUE]
    /\ dst' = [dst EXCEPT ![peer'[c]] = "forked"]
    /\ alone' = (alone /\ \A e \in Daemon : dst[e] \notin Alive)
    /\ pc' = [pc EXCEPT ![c] = "wait"]
    /\ UNCHANGED <<pipe, cmd, tries, knocks, answer, backlog, conns, ready, timers, empty,
                   seen, fired, ran, crashes>>

\* fork() fails, and LOCKFN stays.
CannotFork(c) ==
    /\ pc[c] = "lock" /\ ~lock /\ Unborn = {}
    /\ lock' = TRUE
    /\ pc' = [pc EXCEPT ![c] = "failed"]
    /\ UNCHANGED <<pipe, cmd, tries, knocks, peer, answer, daemonVars, history>>

\* The file is there already;
LockTaken(c) ==
    /\ pc[c] = "lock" /\ lock
    /\ pc' = [pc EXCEPT ![c] = "unlink"]
    /\ UNCHANGED <<files, cmd, tries, knocks, peer, answer, daemonVars, history>>

\* it is removed, whoever made it, "in case we crashed before"; then a nap.
BreakLock(c) ==
    /\ pc[c] = "unlink"
    /\ lock' = FALSE
    /\ knocks' = [knocks EXCEPT ![c] = @ + 1]
    /\ pc' = [pc EXCEPT ![c] = IF knocks[c] + 1 < MaxTries THEN "nap" ELSE "failed"]
    /\ UNCHANGED <<pipe, cmd, tries, peer, answer, daemonVars, history>>

\* Mutant: the end of a child that cannot listen is not noticed.
ReleasedByListener(c) ==
    /\ pc[c] = "wait" /\ dst[peer[c]] \in Listening
    /\ TryAgain(c, "nap")
    /\ UNCHANGED <<files, cmd, peer, answer, daemonVars, history>>

\* us_serialize(SERIALIZE_WAIT): the child listens, or is gone.
Released(c) ==
    /\ pc[c] = "wait" /\ dst[peer[c]] \notin Starting
    /\ TryAgain(c, "nap")
    /\ UNCHANGED <<files, cmd, peer, answer, daemonVars, history>>

\* usleep() is over.
WakeUp(c) ==
    /\ pc[c] = "nap"
    /\ pc' = [pc EXCEPT ![c] = "connect"]
    /\ UNCHANGED <<files, cmd, tries, knocks, peer, answer, daemonVars, history>>

\* write() of the request.
Write(c) ==
    /\ pc[c] = "write" /\ dst[peer[c]] \in Alive
    /\ pc' = [pc EXCEPT ![c] = "await"]
    /\ UNCHANGED <<files, cmd, tries, knocks, peer, answer, daemonVars, history>>

\* Mutant: a hangup is taken for a failure although there is something to read.
HangupLoses(c) ==
    /\ pc[c] = "await" /\ dst[peer[c]] = "gone"
    /\ answer' = [answer EXCEPT ![c] = "none"]
    /\ TryAgain(c, "connect")
    /\ UNCHANGED <<files, cmd, peer, daemonVars, history>>

\* The daemon is gone already: SIGPIPE, which upssched does not catch, ends the
\* run before "write failed, trying again" is reached.
BrokenPipe(c) ==
    /\ pc[c] = "write" /\ dst[peer[c]] = "gone"
    /\ pc' = [pc EXCEPT ![c] = "failed"]
    /\ UNCHANGED <<files, cmd, tries, knocks, peer, answer, daemonVars, history>>

\* The daemon ends before it has answered.
ConnectionLost(c) ==
    /\ pc[c] = "await" /\ dst[peer[c]] = "gone" /\ answer[c] = "none"
    /\ TryAgain(c, "connect")
    /\ UNCHANGED <<files, cmd, peer, answer, daemonVars, history>>

\* The confirmation is read.
Confirmed(c) ==
    /\ pc[c] = "await" /\ answer[c] = "OK"
    /\ pc' = [pc EXCEPT ![c] = "done"]
    /\ UNCHANGED <<files, cmd, tries, knocks, peer, answer, daemonVars, history>>

Run(c) ==
    \/ Connect(c) \/ NoDaemon(c)
    \/ GetLock(c) \/ CannotFork(c) \/ LockTaken(c) \/ BreakLock(c) \/ Released(c) \/ WakeUp(c)
    \/ Write(c) \/ BrokenPipe(c) \/ ConnectionLost(c) \/ Confirmed(c)

-----------------------------------------------------------------------------
(* A daemon *)

\* open_sock() removes PIPEFN, whosever socket it is,
Unlink(d) ==
    /\ dst[d] = "forked"
    /\ pipe' = Nobody
    /\ dst' = [dst EXCEPT ![d] = "binding"]
    /\ UNCHANGED <<lock, clientVars, answer, backlog, conns, ready, timers, empty, history>>

\* makes its own, unless another daemon was quicker: fatal_with_errno();
Bind(d) ==
    /\ dst[d] = "binding"
    /\ pipe' = IF pipe = Nobody THEN d ELSE pipe
    /\ dst' = [dst EXCEPT ![d] = IF pipe = Nobody THEN "bound" ELSE "gone"]
    /\ UNCHANGED <<lock, clientVars, answer, backlog, conns, ready, timers, empty, history>>

\* chmod() of PIPEFN, fatal if it was removed meanwhile, listen(), and the
\* parent is released;
Listen(d) ==
    /\ dst[d] = "bound"
    /\ dst' = [dst EXCEPT ![d] = IF pipe = Nobody THEN "gone" ELSE "listening"]
    /\ UNCHANGED <<files, clientVars, answer, backlog, conns, ready, timers, empty, history>>

\* LOCKFN is removed.
Unlock(d) ==
    /\ dst[d] = "listening"
    /\ lock' = FALSE
    /\ dst' = [dst EXCEPT ![d] = "select"]
    /\ UNCHANGED <<pipe, clientVars, answer, backlog, conns, ready, timers, empty, history>>

\* select() returns: one connection is accepted, and those with a request,
\* the new one not yet among them, are to be read.
Select(d) ==
    /\ dst[d] = "select"
    /\ dst' = [dst EXCEPT ![d] = "serve"]
    /\ ready' = [ready EXCEPT ![d] =
                    {c \in conns[d] : peer[c] = d /\ pc[c] = "await" /\ answer[c] = "none"}]
    /\ backlog' = [backlog EXCEPT ![d] = IF @ = <<>> THEN @ ELSE Tail(@)]
    /\ conns' = [conns EXCEPT ![d] =
                    IF backlog[d] = <<>> THEN @ ELSE @ \cup {Head(backlog[d])}]
    /\ UNCHANGED <<files, clientVars, answer, timers, empty, history>>

\* A new timer of client c at the end of the list.
Added(queue, c) ==
    LET end == 1 + Max(DOMAIN queue \cup {0})
    IN  [i \in DOMAIN queue \cup {end} |->
            IF i = end THEN [name |-> cmd[c].name, left |-> cmd[c].ofs, by |-> {c}] ELSE queue[i]]

\* Mutant: a shared timer does not remember who joined it.
ShareForgets(queue, c) ==
    LET k == cmd[c]
    IN  IF k.ofs < 0 THEN queue
        ELSE IF k.op = "START_SHARED" /\ (\E i \in DOMAIN queue : queue[i].name = k.name)
             THEN queue
             ELSE Added(queue, c)

\* start_timer(): a shared timer joins the first one of that name and leaves
\* its time as it is; otherwise a new one is appended.
start_timer(queue, c) ==
    LET k == cmd[c]
        same == {i \in DOMAIN queue : queue[i].name = k.name}
    IN  IF k.ofs < 0 THEN queue
        ELSE IF k.op = "START_SHARED" /\ same # {}
        THEN [queue EXCEPT ![Min(same)].by = @ \cup {c}]
        ELSE Added(queue, c)

\* Mutant: the head of the list is not looked at.
CancelAfterHead(queue, name) ==
    Restrict(queue, {i \in DOMAIN queue : queue[i].name # name \/ i = Min(DOMAIN queue)})

\* cancel_timer(): all timers of the name.
cancel_timer(queue, name) == Restrict(queue, {i \in DOMAIN queue : queue[i].name # name})

\* sock_read() and sock_arg(): one request, and its answer.  A command given
\* with CANCEL runs if there was no timer to remove.
Serve(d, c) ==
    /\ dst[d] = "serve" /\ c \in ready[d]
    /\ ready' = [ready EXCEPT ![d] = @ \ {c}]
    /\ timers' = [timers EXCEPT ![d] =
                    CASE cmd[c].op = "LIST" -> @
                      [] IsCancel(c) -> cancel_timer(@, cmd[c].name)
                      [] OTHER -> start_timer(@, c)]
    /\ ran' = [ran EXCEPT ![c] = @ \/ /\ cmd[c].op = "CANCEL_CMD"
                                      /\ \A i \in DOMAIN timers[d] : timers[d][i].name # cmd[c].name]
    /\ answer' = [answer EXCEPT ![c] = "OK"]
    /\ UNCHANGED <<files, clientVars, dst, backlog, conns, empty, seen, fired, alone, crashes>>

\* Due timers are executed and removed; nothing else is in the queue's way.
Due(d) == {i \in DOMAIN timers[d] : timers[d][i].left = 0}

\* checktimers(): an empty queue is put up with EmptyWait times, then PIPEFN
\* is removed, whosever it is, and the daemon exits.
checktimers(d) ==
    /\ dst[d] = "serve" /\ ready[d] = {}
    /\ IF DOMAIN timers[d] = {}
       THEN /\ empty' = [empty EXCEPT ![d] = @ + 1]
            /\ IF empty[d] + 1 < EmptyWait
               THEN /\ dst' = [dst EXCEPT ![d] = "select"]
                    /\ UNCHANGED <<pipe, backlog, conns>>
               ELSE /\ dst' = [dst EXCEPT ![d] = "gone"]
                    /\ pipe' = Nobody
                    /\ backlog' = [backlog EXCEPT ![d] = <<>>]
                    /\ conns' = [conns EXCEPT ![d] = {}]
            /\ UNCHANGED <<timers, fired>>
       ELSE /\ empty' = [empty EXCEPT ![d] = 0]
            /\ fired' = [c \in Client |->
                            fired[c] + Cardinality({i \in Due(d) : c \in timers[d][i].by})]
            /\ timers' = [timers EXCEPT ![d] = Restrict(@, DOMAIN @ \ Due(d))]
            /\ dst' = [dst EXCEPT ![d] = "select"]
            /\ UNCHANGED <<pipe, backlog, conns>>
    /\ UNCHANGED <<lock, clientVars, answer, ready, seen, ran, alone, crashes>>

Work(d) ==
    \/ Unlink(d) \/ Bind(d) \/ Listen(d) \/ Unlock(d) \/ Select(d)
    \/ \E c \in Client : Serve(d, c)
    \/ checktimers(d)

\* A daemon is killed: its queue is lost, the files stay.
Crash(d) ==
    /\ dst[d] \in Alive /\ crashes < MaxCrashes
    /\ dst' = [dst EXCEPT ![d] = "gone"]
    /\ timers' = [timers EXCEPT ![d] = <<>>]
    /\ ready' = [ready EXCEPT ![d] = {}]
    /\ backlog' = [backlog EXCEPT ![d] = <<>>]
    /\ conns' = [conns EXCEPT ![d] = {}]
    /\ crashes' = crashes + 1
    /\ UNCHANGED <<files, clientVars, answer, empty, seen, fired, ran, alone>>

\* A second passes.
Tick ==
    /\ \E d \in Daemon : \E i \in DOMAIN timers[d] : timers[d][i].left > 0
    /\ timers' = [d \in Daemon |-> [i \in DOMAIN timers[d] |->
                    [timers[d][i] EXCEPT !.left = IF @ > 0 THEN @ - 1 ELSE 0]]]
    /\ UNCHANGED <<files, clientVars, answer, dst, backlog, conns, ready, empty, history>>

Next ==
    \/ \E c \in Client : Begin(c) \/ Run(c)
    \/ \E d \in Daemon : Work(d) \/ Crash(d)
    \/ Tick

Spec == Init /\ [][Next]_vars

\* Processes are scheduled and time goes on; nothing has to be notified.
FairSpec ==
    /\ Spec
    /\ \A c \in Client : WF_vars(Run(c))
    /\ \A d \in Daemon : WF_vars(Work(d))
    /\ WF_vars(Tick)

-----------------------------------------------------------------------------
(* Properties *)

\* The domains of the variables.
ClientsOK ==
    /\ pc \in [Client -> {"idle", "connect", "lock", "unlink", "nap", "wait", "write", "await"}
                          \cup Ended]
    /\ \A c \in Client : cmd[c] \in Agenda[c]
    /\ tries \in [Client -> 0..MaxTries] /\ knocks \in [Client -> 0..MaxTries]
    /\ peer \in [Client -> Daemon \cup {Nobody}]
    /\ answer \in [Client -> {"none", "OK"}]
DaemonsOK ==
    /\ pipe \in Daemon \cup {Nobody} /\ lock \in BOOLEAN
    /\ dst \in [Daemon -> {"unborn", "gone"} \cup Alive]
    /\ backlog \in [Daemon -> Seq(Client)]
    /\ conns \in [Daemon -> SUBSET Client] /\ ready \in [Daemon -> SUBSET Client]
    /\ empty \in [Daemon -> 0..EmptyWait]
TimersOK ==
    /\ DOMAIN timers = Daemon
    /\ \A d \in Daemon : \A i \in DOMAIN timers[d] :
          timers[d][i] \in [name : Timer, left : Nat, by : (SUBSET Client) \ {{}}]
HistoryOK ==
    /\ seen \in [Client -> SUBSET Client]
    /\ fired \in [Client -> Nat] /\ ran \in [Client -> BOOLEAN]
    /\ alone \in BOOLEAN /\ crashes \in 0..MaxCrashes

\* Every variable keeps to its domain; no loop of sendcmd(), check_parent() or
\* checktimers() goes beyond its limit.
TypeOK == ClientsOK /\ DaemonsOK /\ TimersOK /\ HistoryOK

\* The timer of client s fires in this step.
Fires(s) == fired'[s] > fired[s]

\* Client x has cancelled what client s had started before x was run.
CancelledBy(s, x) ==
    /\ IsCancel(x) /\ pc[x] = "done"
    /\ s \in seen[x] /\ IsStart(cmd[s]) /\ cmd[s].name = cmd[x].name

\* docs/man/upssched.conf.txt on LOCKFN: "upssched attempts to create this
\* file in order to avoid a race condition when two events are dispatched
\* from upsmon at nearly the same time."  So a timer that was cancelled after
\* it was started never fires, however the runs of upssched overlapped.
CancelIsFinal == [][\A s, x \in Client : Fires(s) => ~CancelledBy(s, x)]_vars

\* The same as long as there have not been two daemons at once: a CANCEL
\* that succeeds, also one that found no daemon to talk to, leaves nothing of
\* a timer started before, whatever daemons exited, failed to start or were
\* killed in between (check_parent(), cancel_timer()).
CancelIsFinalAlone ==
    [][alone' => \A s, x \in Client : Fires(s) => ~CancelledBy(s, x)]_vars

\* A request that is repeated because no confirmation came was not carried
\* out before: a timer fires once for each client, and not after a bogus
\* offset (sendcmd(): "read confirmation failed, trying again").
FiresOnce == \A c \in Client : fired[c] <= (IF IsStart(cmd[c]) /\ cmd[c].ofs >= 0 THEN 1 ELSE 0)

\* With one CANCEL in all, its command tells whether the timer has passed:
\* it runs if and only if the one timer that was started before has fired.
CommandTellsPassed ==
    \A x, s \in Client :
        /\ alone /\ crashes = 0
        /\ cmd[x].op = "CANCEL_CMD" /\ pc[x] = "done"
        /\ s \in seen[x] /\ IsStart(cmd[s]) /\ cmd[s].ofs >= 0 /\ cmd[s].name = cmd[x].name
        /\ \A c \in Client \ {s, x} : pc[c] = "idle" \/ cmd[c].op = "LIST"
        => (ran[x] <=> fired[s] = 1)

\* Every run of upssched comes to an end: it hangs neither on a daemon that
\* exits as it connects, nor on a lock that was left behind, nor on a child
\* that fails to start (sendcmd(), us_serialize()).
ClientsReturn ==
    \A c \in Client : pc[c] # "idle" ~> pc[c] \in Ended

\* A timer whose START was confirmed is not lost when the daemon exits at
\* about that time: it fires, or is cancelled (checktimers()).
StartedTimersEnd ==
    \A s \in Client :
        (pc[s] = "done" /\ IsStart(cmd[s]) /\ cmd[s].ofs >= 0) ~>
            \/ fired[s] = 1 \/ crashes > 0
            \/ \E x \in Client : IsCancel(x) /\ answer[x] = "OK" /\ cmd[x].name = cmd[s].name
=============================================================================
