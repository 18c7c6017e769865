-------------------------- MODULE Upssched_proofs --------------------------
(***************************************************************************)
(* Proofs about Upssched for any number of runs, daemons and timers, any   *)
(* commands and any limits: a timer fires once, a CANCEL is final as long  *)
(* as there were no two daemons at once, and its command tells whether the *)
(* timer has passed.                                                       *)
(***************************************************************************)
EXTENDS Upssched, FiniteSetTheorems, TLAPS

Holds(d, i, c) == i \in DOMAIN timers[d] /\ c \in timers[d][i].by
Held(c) == \E d \in Daemon : \E i \in DOMAIN timers[d] : c \in timers[d][i].by

\* A command that makes a timer.
Makes(c) == IsStart(cmd[c]) /\ cmd[c].ofs >= 0

\* Loops that have not ended are below their limits.
Limits ==
    /\ \A c \in Client : pc[c] \notin Ended => tries[c] < MaxTries /\ knocks[c] < MaxTries
    /\ \A d \in Daemon : dst[d] # "gone" => empty[d] < EmptyWait

\* A client in the hands of a daemon waits for the answer, and for no other.
Ready ==
    \A d \in Daemon : \A c \in ready[d] :
        dst[d] = "serve" /\ peer[c] = d /\ pc[c] = "await" /\ answer[c] = "none"

\* Who was answered is finished but for reading it; only a CANCEL that has
\* nobody to talk to is done without an answer.
Answers ==
    \A c \in Client :
        /\ answer[c] = "OK" => pc[c] \in {"await", "done"}
        /\ pc[c] = "done" => answer[c] = "OK" \/ cmd[c].op = "CANCEL"
        /\ ran[c] => answer[c] = "OK"

\* The list of a daemon: positions are numbers, a client is in one timer at
\* most, and only after its START was carried out.
Queue(d) ==
    /\ \E n \in Nat : DOMAIN timers[d] \subseteq 1..n
    /\ DOMAIN timers[d] # {} => dst[d] \in {"select", "serve"}
    /\ \A i \in DOMAIN timers[d] : \A c \in timers[d][i].by :
          /\ answer[c] = "OK" /\ Makes(c) /\ fired[c] = 0
          /\ timers[d][i].name = cmd[c].name

InOneTimer ==
    \A d, e \in Daemon : \A i \in DOMAIN timers[d], j \in DOMAIN timers[e] :
        timers[d][i].by \cap timers[e][j].by # {} => d = e /\ i = j

FiredRight ==
    \A c \in Client : fired[c] \in {0, 1} /\ (fired[c] = 1 => answer[c] = "OK" /\ Makes(c))

\* One daemon at a time, and PIPEFN is its socket.
Lonely ==
    alone => /\ \A d, e \in Daemon : dst[d] \in Alive /\ dst[e] \in Alive => d = e
             /\ \A d \in Daemon : dst[d] \in {"bound"} \cup Listening => pipe = d

SeenDone == \A x \in Client : \A s \in seen[x] : pc[s] = "done" /\ pc[x] # "idle"

\* x is to cancel what s has started before.
Cancels(x, s) == s \in seen[x] /\ IsCancel(x) /\ IsStart(cmd[s]) /\ cmd[s].name = cmd[x].name

CancelledForGood ==
    alone => \A x, s \in Client :
                Cancels(x, s) /\ (answer[x] = "OK" \/ pc[x] = "done") => ~Held(s)

\* Nothing that was started is lost.
NotLost ==
    crashes = 0 => \A s \in Client :
        answer[s] = "OK" /\ Makes(s) =>
            \/ fired[s] = 1 \/ Held(s)
            \/ \E y \in Client : IsCancel(y) /\ answer[y] = "OK" /\ cmd[y].name = cmd[s].name

Others(x, s) == \A c \in Client \ {s, x} : pc[c] = "idle" \/ cmd[c].op = "LIST"

Tells ==
    alone /\ crashes = 0 => \A x, s \in Client :
        /\ cmd[x].op = "CANCEL_CMD" /\ answer[x] = "OK"
        /\ Cancels(x, s) /\ cmd[s].ofs >= 0 /\ Others(x, s)
        => (ran[x] <=> fired[s] = 1)

IInv == /\ TypeOK /\ Limits /\ Ready /\ Answers
        /\ (\A d \in Daemon : Queue(d)) /\ InOneTimer /\ FiredRight
        /\ Lonely /\ SeenDone /\ CancelledForGood /\ NotLost /\ Tells

-----------------------------------------------------------------------------
(* Lists of timers *)

LEMMA LeastNumber ==
    ASSUME NEW T, T \subseteq Nat, T # {}
    PROVE  \E n \in T : \A m \in T : n <= m
<1>1. \E n \in T : \A m \in T : ~(<<m, n>> \in OpToRel(<, Nat))
  BY NatLessThanWellFounded, WFMin
<1>2. \A m, n \in T : ~(<<m, n>> \in OpToRel(<, Nat)) => n <= m
  BY DEF OpToRel
<1> QED  BY <1>1, <1>2

\* A position behind all others.
LEMMA EndIsNew ==
    ASSUME NEW S, NEW n \in Nat, S \subseteq 1..n
    PROVE  LET end == 1 + Max(S \cup {0})
           IN  end \in Nat \ {0} /\ end \notin S /\ \E m \in Nat : S \cup {end} \subseteq 1..m
<1> DEFINE T == {m \in Nat : S \subseteq 1..m}
<1>1. PICK m \in T : \A k \in T : m <= k
  <2>1. T \subseteq Nat /\ T # {}
    OBVIOUS
  <2> HIDE DEF T
  <2> QED  BY <2>1, LeastNumber
<1>2. m \in Nat /\ S \subseteq 1..m
  OBVIOUS
<1>3. m \in S \cup {0}
  <2>1. SUFFICES ASSUME m # 0, m \notin S PROVE FALSE
    OBVIOUS
  <2>2. m - 1 \in Nat /\ S \subseteq 1..(m - 1)
    BY <1>2, <2>1
  <2>3. m - 1 \in T
    BY <2>2
  <2> QED  BY <1>1, <1>2, <2>3
<1>4. \A y \in S \cup {0} : y \in Nat /\ m >= y
  BY <1>2
<1> HIDE DEF T
<1>5. Max(S \cup {0}) = m
  <2> DEFINE M == Max(S \cup {0})
  <2>1. M \in S \cup {0} /\ \A y \in S \cup {0} : M >= y
    BY <1>3, <1>4 DEF Max
  <2> HIDE DEF M
  <2>2. M \in Nat /\ m \in Nat /\ m >= M /\ M >= m
    BY <1>3, <1>4, <2>1
  <2>3. M = m
    BY <2>2
  <2> QED  BY <2>3 DEF M
<1>6. 1 + m \in Nat \ {0} /\ 1 + m \notin S /\ S \cup {1 + m} \subseteq 1..(1 + m)
  BY <1>2, <1>4
<1> QED  BY <1>2, <1>5, <1>6

LEMMA MinIn ==
    ASSUME NEW S, S # {}, S \subseteq Nat
    PROVE  Min(S) \in S
BY LeastNumber DEF Min

Entry == [name : Timer, left : Nat, by : (SUBSET Client) \ {{}}]

LEMMA CommandIs ==
    ASSUME TypeOK, NEW c \in Client
    PROVE  /\ cmd[c].op \in {"START", "START_SHARED", "CANCEL", "CANCEL_CMD", "LIST"}
           /\ cmd[c].name \in Timer
           /\ IsStart(cmd[c]) => cmd[c].ofs \in Int
<1>1. cmd[c] \in Command
  BY AgendaAssumption DEF TypeOK, ClientsOK
<1> QED  BY <1>1 DEF Command, IsStart

\* start_timer(): c is added to the timer at k, a new one or one of the name.
LEMMA StartIs ==
    ASSUME TypeOK, NEW q, NEW c \in Client, Makes(c),
           \E n \in Nat : DOMAIN q \subseteq 1..n,
           \A i \in DOMAIN q : q[i] \in Entry
    PROVE  LET r == start_timer(q, c) IN
           \E k \in Nat \ {0} :
              /\ DOMAIN r = DOMAIN q \cup {k}
              /\ \A i \in DOMAIN q \ {k} : r[i] = q[i]
              /\ r[k] \in Entry /\ r[k].name = cmd[c].name
              /\ r[k].by = (IF k \in DOMAIN q THEN q[k].by ELSE {}) \cup {c}
              /\ k \in DOMAIN q => q[k].name = cmd[c].name
              /\ \E m \in Nat : DOMAIN r \subseteq 1..m
<1> DEFINE same == {i \in DOMAIN q : q[i].name = cmd[c].name}
           end == 1 + Max(DOMAIN q \cup {0})
           new == [name |-> cmd[c].name, left |-> cmd[c].ofs, by |-> {c}]
<1>1. PICK n \in Nat : DOMAIN q \subseteq 1..n
  OBVIOUS
<1>2. cmd[c].name \in Timer /\ cmd[c].ofs \in Nat /\ ~(cmd[c].ofs < 0)
  BY CommandIs DEF Makes
<1>3. CASE cmd[c].op = "START_SHARED" /\ same # {}
  <2> DEFINE k == Min(same)
             old == q[k]
             upd == [old EXCEPT !.by = @ \cup {c}]
             r == [q EXCEPT ![k] = upd]
  <2>1. same \subseteq Nat \ {0}
    BY <1>1
  <2>2. k \in same
    <3> HIDE DEF same
    <3> QED  BY <1>3, <2>1, MinIn
  <2>3. k \in DOMAIN q /\ k \in Nat \ {0} /\ old.name = cmd[c].name /\ old \in Entry
    BY <2>1, <2>2
  <2>4. start_timer(q, c) = r
    BY <1>2, <1>3 DEF start_timer
  <2> HIDE DEF k, same
  <2>5. upd \in Entry /\ upd.name = cmd[c].name /\ upd.by = old.by \cup {c}
    <3>1. old.by \cup {c} \in (SUBSET Client) \ {{}} /\ old.left \in Nat /\ old.name \in Timer
      BY <2>3 DEF Entry
    <3>2. upd = [name |-> old.name, left |-> old.left, by |-> old.by \cup {c}]
      BY <2>3 DEF Entry
    <3> HIDE DEF upd
    <3> QED  BY <2>3, <3>1, <3>2 DEF Entry
  <2>6. DOMAIN r = DOMAIN q /\ r[k] = upd /\ \A i \in DOMAIN q \ {k} : r[i] = q[i]
    <3> HIDE DEF upd
    <3> QED  BY <2>3
  <2>7. DOMAIN q \cup {k} = DOMAIN q
    BY <2>3
  <2> HIDE DEF r, upd
  <2> QED  BY <1>1, <2>3, <2>4, <2>5, <2>6, <2>7 DEF old
<1>4. CASE ~(cmd[c].op = "START_SHARED" /\ same # {})
  <2>1. end \in Nat \ {0} /\ end \notin DOMAIN q /\ \E m \in Nat : DOMAIN q \cup {end} \subseteq 1..m
    BY <1>1, EndIsNew
  <2>2. new \in Entry /\ new.name = cmd[c].name /\ new.by = {c}
    <3>1. {c} \in (SUBSET Client) \ {{}}
      OBVIOUS
    <3> QED  BY <1>2, <3>1 DEF Entry
  <2>3. start_timer(q, c) = [i \in DOMAIN q \cup {end} |-> IF i = end THEN new ELSE q[i]]
    BY <1>2, <1>4 DEF start_timer, Added
  <2> HIDE DEF end, new
  <2> QED  BY <2>1, <2>2, <2>3
<1> QED  BY <1>3, <1>4

\* Timers stay as they are but for their time, or go.
Shrinks(d) ==
    /\ DOMAIN timers'[d] \subseteq DOMAIN timers[d]
    /\ \A i \in DOMAIN timers'[d] :
          timers'[d][i] \in Entry /\ timers'[d][i].name = timers[d][i].name
          /\ timers'[d][i].by = timers[d][i].by

LEMMA RestrictShrinks ==
    ASSUME NEW d \in Daemon, TimersOK, NEW S, S \subseteq DOMAIN timers[d],
           timers'[d] = Restrict(timers[d], S)
    PROVE  Shrinks(d) /\ DOMAIN timers'[d] = S
BY DEF Shrinks, Restrict, TimersOK, Entry

LEMMA SameShrinks ==
    ASSUME NEW d \in Daemon, TimersOK, timers'[d] = timers[d]
    PROVE  Shrinks(d)
BY DEF Shrinks, TimersOK, Entry

-----------------------------------------------------------------------------
(* What the steps do *)

\* A run of upssched goes from p to q.
Moves(c, q) == pc' = [pc EXCEPT ![c] = q]
Step(c) == Begin(c) \/ Run(c)

LEMMA StepFrame ==
    ASSUME NEW c \in Client, Step(c)
    PROVE  /\ UNCHANGED <<cmd, answer, timers, ready, empty, fired, ran, crashes, pipe, conns>>
           /\ pc[c] \notin Ended
           /\ UNCHANGED seen \/ (pc[c] = "idle" /\ seen' = [seen EXCEPT ![c] = {x \in Client : pc[x] = "done"}])
           /\ \E q : /\ Moves(c, q) /\ q \notin {"idle"}
                     /\ q = "done" => answer[c] = "OK" \/ (cmd[c].op = "CANCEL" /\ ~Reachable)
                     /\ pc[c] = "await" => \/ answer[c] = "OK" /\ q = "done"
                                           \/ answer[c] = "none" /\ dst[peer[c]] = "gone"
                     /\ answer[c] = "OK" /\ pc[c] = "await" => q = "done"
<1>1. CASE Begin(c)
  <2>1. /\ Moves(c, "connect") /\ pc[c] = "idle"
        /\ seen' = [seen EXCEPT ![c] = {x \in Client : pc[x] = "done"}]
    BY <1>1 DEF Begin, Moves
  <2>2. UNCHANGED <<cmd, answer, timers, ready, empty, fired, ran, crashes, pipe, conns>>
    BY <1>1 DEF Begin, files, daemonVars
  <2> QED  BY <2>1, <2>2 DEF Ended
<1>2. CASE Connect(c) \/ GetLock(c) \/ CannotFork(c) \/ LockTaken(c) \/ BreakLock(c) \/ WakeUp(c) \/ Write(c)
           \/ BrokenPipe(c)
  BY <1>2 DEF Connect, GetLock, CannotFork, LockTaken, BreakLock, WakeUp, Write, BrokenPipe, Moves, Ended, files,
           daemonVars, history
<1>3. CASE NoDaemon(c)
  <2>1. \E q \in {"done", "failed", "lock"} : Moves(c, q) /\ (q = "done" => cmd[c].op = "CANCEL")
    BY <1>3 DEF NoDaemon, Moves, IsCancel
  <2> QED  BY <1>3, <2>1 DEF NoDaemon, Ended, files, daemonVars, history
<1>4. CASE Released(c)
  <2>1. \E q \in {"nap", "failed"} : Moves(c, q)
    BY <1>4 DEF Released, TryAgain, Moves
  <2> QED  BY <1>4, <2>1 DEF Released, Ended, files, daemonVars, history
<1>5. CASE ConnectionLost(c)
  <2>1. \E q \in {"connect", "failed"} : Moves(c, q)
    BY <1>5 DEF ConnectionLost, TryAgain, Moves
  <2> QED  BY <1>5, <2>1 DEF ConnectionLost, Ended, files, daemonVars, history
<1>6. CASE Confirmed(c)
  BY <1>6 DEF Confirmed, Moves, Ended, files, daemonVars, history
<1> QED  BY <1>1, <1>2, <1>3, <1>4, <1>5, <1>6 DEF Step, Run

\* Whom it is connected to, or waits for.
LEMMA StepPeer ==
    ASSUME NEW c \in Client, Step(c)
    PROVE  peer' = peer \/ (pc[c] \in {"connect", "lock"} /\ \E d : peer' = [peer EXCEPT ![c] = d])
BY DEF Step, Run, Begin, Connect, NoDaemon, GetLock, CannotFork, LockTaken, BreakLock, Released, WakeUp,
    Write, BrokenPipe, ConnectionLost, Confirmed

\* Only start_daemon() changes what daemons there are.
LEMMA StepDaemons ==
    ASSUME TypeOK, NEW c \in Client, Step(c)
    PROVE  \/ UNCHANGED <<dst, alone>>
           \/ /\ \E d \in Daemon : dst[d] = "unborn" /\ dst' = [dst EXCEPT ![d] = "forked"]
              /\ alone' = (alone /\ \A e \in Daemon : dst[e] \notin Alive)
<1>1. CASE GetLock(c)
  <2>1. PICK d \in Unborn : dst' = [dst EXCEPT ![peer'[c]] = "forked"] /\ peer' = [peer EXCEPT ![c] = d]
    BY <1>1 DEF GetLock
  <2>2. peer'[c] = d
    BY <2>1 DEF TypeOK, ClientsOK
  <2>3. alone' = (alone /\ \A e \in Daemon : dst[e] \notin Alive)
    BY <1>1 DEF GetLock
  <2> QED  BY <2>1, <2>2, <2>3 DEF Unborn
<1>2. CASE Begin(c) \/ Connect(c) \/ NoDaemon(c) \/ CannotFork(c) \/ LockTaken(c) \/ BreakLock(c)
           \/ Released(c) \/ WakeUp(c) \/ Write(c) \/ BrokenPipe(c) \/ ConnectionLost(c) \/ Confirmed(c)
  BY <1>2 DEF Begin, Connect, NoDaemon, CannotFork, LockTaken, BreakLock, Released, WakeUp, Write,
           BrokenPipe, ConnectionLost, Confirmed, daemonVars, history
<1> QED  BY <1>1, <1>2 DEF Step, Run

\* A daemon that starts, or returns from select().
Starts(d) == Unlink(d) \/ Bind(d) \/ Listen(d) \/ Unlock(d) \/ Select(d)

LEMMA StartFrame ==
    ASSUME TypeOK, NEW d \in Daemon, Starts(d)
    PROVE  /\ UNCHANGED <<clientVars, answer, timers, empty, history>>
           /\ \E q : /\ dst' = [dst EXCEPT ![d] = q] /\ dst[d] \in Alive \ {"serve"} /\ q \in Alive \cup {"gone"}
                     /\ DOMAIN timers[d] # {} /\ dst[d] = "select" => q = "serve"
                     /\ q \in {"bound"} \cup Listening => pipe' = d \/ (dst[d] \in {"bound"} \cup Listening /\ pipe' = pipe)
           /\ pipe' = pipe \/ (dst[d] \in {"forked", "binding"})
           /\ \/ UNCHANGED ready
              \/ /\ dst' = [dst EXCEPT ![d] = "serve"]
                 /\ ready' = [ready EXCEPT ![d] =
                        {c \in conns[d] : peer[c] = d /\ pc[c] = "await" /\ answer[c] = "none"}]
<1>1. CASE Unlink(d)
  <2>1. PICK q \in {"binding"} : dst' = [dst EXCEPT ![d] = q] /\ dst[d] = "forked" /\ UNCHANGED ready
    BY <1>1 DEF Unlink
  <2>2. UNCHANGED <<clientVars, answer, timers, empty, history>>
    BY <1>1 DEF Unlink
  <2> QED  BY <2>1, <2>2 DEF Alive, Starting, Listening
<1>2. CASE Bind(d)
  <2>1. PICK q \in {"bound", "gone"} : dst' = [dst EXCEPT ![d] = q] /\ (q = "bound" => pipe' = d)
    BY <1>2 DEF Bind
  <2>2. UNCHANGED <<clientVars, answer, timers, empty, history>> /\ dst[d] = "binding" /\ UNCHANGED ready
    BY <1>2 DEF Bind
  <2> QED  BY <2>1, <2>2 DEF Alive, Starting, Listening
<1>3. CASE Listen(d)
  BY <1>3 DEF Listen, Alive, Starting, Listening, TypeOK, DaemonsOK, files
<1>4. CASE Unlock(d)
  BY <1>4 DEF Unlock, Alive, Starting, Listening, TypeOK, DaemonsOK
<1>5. CASE Select(d)
  BY <1>5 DEF Select, Alive, Starting, Listening, TypeOK, DaemonsOK, files
<1> QED  BY <1>1, <1>2, <1>3, <1>4, <1>5 DEF Starts

\* sock_arg() on a request: nothing, a timer less, or c in one more.
Unchanged(d, c) == ~IsCancel(c) /\ ~Makes(c) /\ timers'[d] = timers[d]
Cancelled(d, c) ==
    /\ IsCancel(c) /\ ~Makes(c) /\ Shrinks(d)
    /\ DOMAIN timers'[d] = {i \in DOMAIN timers[d] : timers[d][i].name # cmd[c].name}
Started(d, c, k) ==
    LET q == timers[d]
        r == timers'[d]
    IN  /\ Makes(c) /\ ~IsCancel(c)
        /\ DOMAIN r = DOMAIN q \cup {k}
        /\ \A i \in DOMAIN q \ {k} : r[i] = q[i]
        /\ r[k] \in Entry /\ r[k].name = cmd[c].name
        /\ r[k].by = (IF k \in DOMAIN q THEN q[k].by ELSE {}) \cup {c}
        /\ k \in DOMAIN q => q[k].name = cmd[c].name
        /\ \E m \in Nat : DOMAIN r \subseteq 1..m

LEMMA ServeFrame ==
    ASSUME IInv, NEW d \in Daemon, NEW c \in Client, Serve(d, c)
    PROVE  /\ UNCHANGED <<clientVars, files, dst, empty, seen, fired, alone, crashes, backlog, conns>>
           /\ dst[d] = "serve" /\ c \in ready[d] /\ ready' = [ready EXCEPT ![d] = ready[d] \ {c}]
           /\ answer' = [answer EXCEPT ![c] = "OK"]
           /\ ran' = [ran EXCEPT ![c] = ran[c] \/ (/\ cmd[c].op = "CANCEL_CMD"
                                                  /\ \A i \in DOMAIN timers[d] : timers[d][i].name # cmd[c].name)]
           /\ DOMAIN timers' = Daemon
           /\ \A e \in Daemon \ {d} : timers'[e] = timers[e]
           /\ Unchanged(d, c) \/ Cancelled(d, c) \/ \E k \in Nat \ {0} : Started(d, c, k)
<1>1. TypeOK /\ TimersOK /\ \E n \in Nat : DOMAIN timers[d] \subseteq 1..n
  BY DEF IInv, TypeOK, Queue
<1>2. cmd[c].op \in {"START", "START_SHARED", "CANCEL", "CANCEL_CMD", "LIST"} /\ (IsStart(cmd[c]) => cmd[c].ofs \in Int)
  BY <1>1, CommandIs
<1> DEFINE new == CASE cmd[c].op = "LIST" -> timers[d]
                    [] IsCancel(c) -> cancel_timer(timers[d], cmd[c].name)
                    [] OTHER -> start_timer(timers[d], c)
<1>3. timers' = [timers EXCEPT ![d] = new]
  BY DEF Serve
<1> HIDE DEF new
<1>4. DOMAIN timers' = Daemon /\ timers'[d] = new /\ \A e \in Daemon \ {d} : timers'[e] = timers[e]
  BY <1>1, <1>3 DEF TimersOK
<1>5. cmd[c].op = "LIST" => Unchanged(d, c)
  BY <1>4 DEF new, Unchanged, Makes, IsCancel, IsStart
<1>6. ASSUME IsCancel(c) PROVE Cancelled(d, c)
  <2> DEFINE S == {i \in DOMAIN timers[d] : timers[d][i].name # cmd[c].name}
  <2>1. timers'[d] = Restrict(timers[d], S)
    BY <1>4, <1>6 DEF new, cancel_timer, IsCancel
  <2>2. Shrinks(d) /\ DOMAIN timers'[d] = S
    BY <1>1, <2>1, RestrictShrinks
  <2> QED  BY <1>6, <2>2 DEF Cancelled, Makes, IsCancel, IsStart
<1>7. ASSUME IsStart(cmd[c]) PROVE Unchanged(d, c) \/ \E k \in Nat \ {0} : Started(d, c, k)
  <2>1. ~IsCancel(c) /\ timers'[d] = start_timer(timers[d], c)
    BY <1>4, <1>7 DEF new, IsCancel, IsStart
  <2>2. CASE Makes(c)
    <3>1. \A i \in DOMAIN timers[d] : timers[d][i] \in Entry
      BY <1>1 DEF TimersOK, Entry
    <3> DEFINE q == timers[d]
               r == start_timer(q, c)
    <3>2. PICK k \in Nat \ {0} :
              /\ DOMAIN r = DOMAIN q \cup {k}
              /\ \A i \in DOMAIN q \ {k} : r[i] = q[i]
              /\ r[k] \in Entry /\ r[k].name = cmd[c].name
              /\ r[k].by = (IF k \in DOMAIN q THEN q[k].by ELSE {}) \cup {c}
              /\ k \in DOMAIN q => q[k].name = cmd[c].name
              /\ \E m \in Nat : DOMAIN r \subseteq 1..m
      BY <1>1, <2>2, <3>1, StartIs
    <3>3. timers'[d] = r
      BY <2>1
    <3> HIDE DEF r
    <3>4. Started(d, c, k)
      BY <2>1, <2>2, <3>2, <3>3 DEF Started
    <3> QED  BY <3>4
  <2>3. CASE ~Makes(c)
    <3>1. cmd[c].ofs < 0
      BY <1>2, <1>7, <2>3 DEF Makes
    <3> QED  BY <2>1, <2>3, <3>1 DEF Unchanged, start_timer
  <2> QED  BY <2>2, <2>3
<1>8. Unchanged(d, c) \/ Cancelled(d, c) \/ \E k \in Nat \ {0} : Started(d, c, k)
  BY <1>2, <1>5, <1>6, <1>7 DEF IsCancel, IsStart
<1>9. /\ UNCHANGED <<clientVars, files, dst, empty, seen, fired, alone, crashes, backlog, conns>>
      /\ dst[d] = "serve" /\ c \in ready[d] /\ ready' = [ready EXCEPT ![d] = ready[d] \ {c}]
      /\ answer' = [answer EXCEPT ![c] = "OK"]
      /\ ran' = [ran EXCEPT ![c] = ran[c] \/ (/\ cmd[c].op = "CANCEL_CMD"
                                             /\ \A i \in DOMAIN timers[d] : timers[d][i].name # cmd[c].name)]
  BY DEF Serve
<1> QED  BY <1>4, <1>8, <1>9

\* A timer at most holds a client, so at most one of the due ones does.
LEMMA DueOnce ==
    ASSUME IInv, NEW d \in Daemon, NEW x \in Client
    PROVE  LET D == {i \in Due(d) : x \in timers[d][i].by} IN
           /\ D = {} => Cardinality(D) = 0
           /\ D # {} => Cardinality(D) = 1
<1> DEFINE D == {i \in Due(d) : x \in timers[d][i].by}
<1>1. CASE D = {}
  BY <1>1, FS_EmptySet
<1>2. CASE D # {}
  <2>1. PICK i \in D : TRUE
    BY <1>2
  <2>2. \A j \in D : j = i
    BY DEF IInv, InOneTimer, Due
  <2>3. D = {i}
    BY <2>1, <2>2
  <2> HIDE DEF D
  <2>4. Cardinality(D) = 1
    BY <2>3, FS_Singleton
  <2> QED  BY <1>2, <2>4 DEF D
<1> QED  BY <1>1, <1>2

LEMMA CheckFrame ==
    ASSUME IInv, NEW d \in Daemon, checktimers(d)
    PROVE  /\ UNCHANGED <<lock, clientVars, answer, ready, seen, ran, alone, crashes>>
           /\ dst[d] = "serve" /\ ready[d] = {}
           /\ \E q : /\ dst' = [dst EXCEPT ![d] = q]
                     /\ q = "select" \/ (q = "gone" /\ DOMAIN timers[d] = {})
                     /\ pipe' = pipe \/ (q = "gone" /\ pipe' = Nobody)
           /\ DOMAIN timers' = Daemon /\ \A e \in Daemon : Shrinks(e)
           /\ \A x \in Client :
                 \/ fired'[x] = fired[x] /\ (Held(x) => Held(x)')
                 \/ fired'[x] = fired[x] + 1 /\ ~Held(x)' /\ Held(x)
<1>1. TypeOK /\ TimersOK /\ HistoryOK
  BY DEF IInv, TypeOK
<1>2. UNCHANGED <<lock, clientVars, answer, ready, seen, ran, alone, crashes>> /\ dst[d] = "serve" /\ ready[d] = {}
  BY DEF checktimers
<1>3. CASE DOMAIN timers[d] = {}
  <2>1. PICK q \in {"select", "gone"} :
              /\ UNCHANGED <<timers, fired>> /\ dst' = [dst EXCEPT ![d] = q]
              /\ pipe' = pipe \/ (q = "gone" /\ pipe' = Nobody)
    BY <1>3 DEF checktimers
  <2>2. \A e \in Daemon : Shrinks(e)
    BY <1>1, <2>1, SameShrinks
  <2>3. \A x \in Client : Held(x) => Held(x)'
    BY <2>1 DEF Held
  <2> QED  BY <1>1, <1>2, <1>3, <2>1, <2>2, <2>3 DEF TimersOK
<1>4. CASE DOMAIN timers[d] # {}
  <2> DEFINE S == DOMAIN timers[d] \ Due(d)
             D(x) == {i \in Due(d) : x \in timers[d][i].by}
  <2>1. /\ dst' = [dst EXCEPT ![d] = "select"] /\ UNCHANGED pipe
        /\ timers' = [timers EXCEPT ![d] = Restrict(timers[d], S)]
        /\ fired' = [x \in Client |-> fired[x] + Cardinality(D(x))]
    BY <1>4 DEF checktimers
  <2>2. DOMAIN timers' = Daemon /\ timers'[d] = Restrict(timers[d], S) /\ \A e \in Daemon \ {d} : timers'[e] = timers[e]
    BY <1>1, <2>1 DEF TimersOK
  <2>3. Shrinks(d) /\ DOMAIN timers'[d] = S
    BY <1>1, <2>2, RestrictShrinks
  <2>4. \A e \in Daemon : Shrinks(e)
    BY <1>1, <2>2, <2>3, SameShrinks
  <2>5. ASSUME NEW x \in Client
        PROVE  \/ fired'[x] = fired[x] /\ (Held(x) => Held(x)')
               \/ fired'[x] = fired[x] + 1 /\ ~Held(x)' /\ Held(x)
    <3>1. fired'[x] = fired[x] + Cardinality(D(x)) /\ fired[x] \in Nat
      BY <1>1, <2>1 DEF HistoryOK
    <3>2. CASE D(x) = {}
      <4>1. Cardinality(D(x)) = 0
        BY <3>2, DueOnce
      <4>2. ASSUME Held(x) PROVE Held(x)'
        <5>1. PICK e \in Daemon : \E i \in DOMAIN timers[e] : x \in timers[e][i].by
          BY <4>2 DEF Held
        <5>2. PICK i \in DOMAIN timers[e] : x \in timers[e][i].by
          BY <5>1
        <5>3. i \in DOMAIN timers'[e] /\ x \in timers'[e][i].by
          BY <2>2, <2>3, <3>2, <5>2 DEF Shrinks
        <5> QED  BY <5>3 DEF Held
      <4> QED  BY <3>1, <4>1, <4>2
    <3>3. CASE D(x) # {}
      <4>1. Cardinality(D(x)) = 1
        BY <3>3, DueOnce
      <4>2. PICK i \in DOMAIN timers[d] : i \in Due(d) /\ x \in timers[d][i].by
        BY <3>3 DEF Due
      <4>3. Held(x)
        BY <4>2 DEF Held
      <4>4. ASSUME NEW e \in Daemon, NEW j \in DOMAIN timers'[e], x \in timers'[e][j].by PROVE FALSE
        <5>1. j \in DOMAIN timers[e] /\ x \in timers[e][j].by
          BY <2>4, <4>4 DEF Shrinks
        <5>2. e = d /\ j = i
          BY <4>2, <5>1 DEF IInv, InOneTimer
        <5> QED  BY <2>3, <4>2, <4>4, <5>2
      <4>5. ~Held(x)'
        BY <4>4 DEF Held
      <4> QED  BY <3>1, <4>1, <4>3, <4>5
    <3> QED  BY <3>2, <3>3
  <2> QED  BY <1>2, <2>1, <2>2, <2>4, <2>5
<1> QED  BY <1>3, <1>4

LEMMA CrashFrame ==
    ASSUME TypeOK, NEW d \in Daemon, Crash(d)
    PROVE  /\ UNCHANGED <<files, clientVars, answer, empty, seen, fired, ran, alone>>
           /\ dst[d] \in Alive /\ dst' = [dst EXCEPT ![d] = "gone"]
           /\ ready' = [ready EXCEPT ![d] = {}]
           /\ crashes' # 0 /\ crashes' \in 0..MaxCrashes
           /\ DOMAIN timers' = Daemon /\ DOMAIN timers'[d] = {} /\ \A e \in Daemon : Shrinks(e)
<1>1. TimersOK /\ HistoryOK
  BY DEF TypeOK
<1>2. timers' = [timers EXCEPT ![d] = <<>>]
  BY DEF Crash
<1>3. DOMAIN timers' = Daemon /\ timers'[d] = <<>> /\ \A e \in Daemon \ {d} : timers'[e] = timers[e]
  BY <1>1, <1>2 DEF TimersOK
<1>4. DOMAIN timers'[d] = {}
  BY <1>3
<1>5. \A e \in Daemon : Shrinks(e)
  BY <1>1, <1>3, <1>4, SameShrinks DEF Shrinks
<1>6. crashes' # 0 /\ crashes' \in 0..MaxCrashes
  BY <1>1, BoundAssumption DEF Crash, HistoryOK
<1> QED  BY <1>3, <1>4, <1>5, <1>6 DEF Crash

LEMMA TickFrame ==
    ASSUME TypeOK, Tick
    PROVE  /\ UNCHANGED <<files, clientVars, answer, dst, backlog, conns, ready, empty, history>>
           /\ DOMAIN timers' = Daemon /\ \A e \in Daemon : Shrinks(e) /\ DOMAIN timers'[e] = DOMAIN timers[e]
<1>1. TimersOK
  BY DEF TypeOK
<1>2. DOMAIN timers' = Daemon /\ UNCHANGED <<files, clientVars, answer, dst, backlog, conns, ready, empty, history>>
  BY DEF Tick
<1>3. ASSUME NEW e \in Daemon PROVE Shrinks(e) /\ DOMAIN timers'[e] = DOMAIN timers[e]
  <2>1. DOMAIN timers'[e] = DOMAIN timers[e]
    BY DEF Tick
  <2>2. ASSUME NEW i \in DOMAIN timers[e]
        PROVE  /\ timers'[e][i] \in Entry /\ timers'[e][i].name = timers[e][i].name
               /\ timers'[e][i].by = timers[e][i].by
    <3> DEFINE t == timers[e][i]
    <3>1. t \in Entry
      BY <1>1 DEF TimersOK, Entry
    <3>2. timers'[e][i] = [t EXCEPT !.left = IF @ > 0 THEN @ - 1 ELSE 0]
      BY DEF Tick
    <3> HIDE DEF t
    <3>3. timers'[e][i] = [name |-> t.name, left |-> IF t.left > 0 THEN t.left - 1 ELSE 0, by |-> t.by]
      BY <3>1, <3>2 DEF Entry
    <3>4. (IF t.left > 0 THEN t.left - 1 ELSE 0) \in Nat
      BY <3>1 DEF Entry
    <3> QED  BY <3>1, <3>3, <3>4 DEF Entry, t
  <2> QED  BY <2>1, <2>2 DEF Shrinks
<1> QED  BY <1>2, <1>3

\* The steps, by what they change.
LEMMA Steps ==
    ASSUME [Next]_vars
    PROVE  \/ UNCHANGED vars
           \/ \E c \in Client : Step(c)
           \/ \E d \in Daemon : Starts(d) \/ checktimers(d) \/ Crash(d) \/ \E c \in Client : Serve(d, c)
           \/ Tick
BY DEF Next, Work, Step, Starts

-----------------------------------------------------------------------------
(* Types *)

LEMMA StepClientsOK ==
    ASSUME IInv, [Next]_vars
    PROVE  ClientsOK'
<1>1. TypeOK /\ ClientsOK /\ DaemonsOK /\ Limits
  BY DEF IInv, TypeOK
<1>2. CASE UNCHANGED <<clientVars, answer>>
  BY <1>1, <1>2 DEF ClientsOK, clientVars
<1>3. CASE UNCHANGED vars \/ Tick \/ \E d \in Daemon : Starts(d) \/ checktimers(d) \/ Crash(d)
  BY <1>1, <1>2, <1>3, StartFrame, CheckFrame, CrashFrame, TickFrame DEF vars
<1>4. ASSUME NEW d \in Daemon, NEW c \in Client, Serve(d, c) PROVE ClientsOK'
  BY <1>1, <1>4, ServeFrame DEF ClientsOK, clientVars
<1>5. ASSUME NEW c \in Client, Step(c) PROVE ClientsOK'
  <2>1. UNCHANGED <<cmd, answer>> /\ pc[c] \notin Ended
    BY <1>5, StepFrame
  <2>2. tries[c] + 1 \in 0..MaxTries /\ knocks[c] + 1 \in 0..MaxTries /\ 0 \in 0..MaxTries
    BY <1>1, <2>1, LimitAssumption DEF Limits, ClientsOK
  <2>3. pc' \in [Client -> {"idle", "connect", "lock", "unlink", "nap", "wait", "write", "await"} \cup Ended]
    <3>1. CASE NoDaemon(c)
      BY <1>1, <3>1 DEF NoDaemon, ClientsOK, Ended
    <3>2. CASE Released(c) \/ ConnectionLost(c)
      BY <1>1, <3>2 DEF Released, ConnectionLost, TryAgain, ClientsOK, Ended
    <3>3. CASE ~(NoDaemon(c) \/ Released(c) \/ ConnectionLost(c))
      BY <1>1, <1>5, <3>3 DEF Step, Run, Begin, Connect, GetLock, CannotFork, LockTaken, BreakLock, WakeUp,
               Write, BrokenPipe, Confirmed, ClientsOK, Ended
    <3> QED  BY <3>1, <3>2, <3>3
  <2>4. tries' \in [Client -> 0..MaxTries] /\ knocks' \in [Client -> 0..MaxTries]
    <3>1. tries' = tries \/ tries' = [tries EXCEPT ![c] = tries[c] + 1]
      BY <1>5 DEF Step, Run, Begin, Connect, NoDaemon, GetLock, CannotFork, LockTaken, BreakLock, Released,
               WakeUp, Write, BrokenPipe, ConnectionLost, Confirmed, TryAgain
    <3>2. \/ knocks' = knocks \/ knocks' = [knocks EXCEPT ![c] = knocks[c] + 1]
          \/ knocks' = [knocks EXCEPT ![c] = 0]
      BY <1>5 DEF Step, Run, Begin, Connect, NoDaemon, GetLock, CannotFork, LockTaken, BreakLock, Released,
               WakeUp, Write, BrokenPipe, ConnectionLost, Confirmed, TryAgain
    <3> QED  BY <1>1, <2>2, <3>1, <3>2 DEF ClientsOK
  <2>5. peer' \in [Client -> Daemon \cup {Nobody}]
    <3>1. CASE GetLock(c)
      <4>1. \E d \in Unborn : peer' = [peer EXCEPT ![c] = d]
        BY <3>1 DEF GetLock
      <4> QED  BY <1>1, <4>1 DEF ClientsOK, Unborn
    <3>2. CASE Connect(c)
      BY <1>1, <3>2 DEF Connect, Reachable, ClientsOK, DaemonsOK
    <3>3. CASE ~(GetLock(c) \/ Connect(c))
      <4>1. peer' = peer
        BY <1>5, <3>3 DEF Step, Run, Begin, NoDaemon, CannotFork, LockTaken, BreakLock, Released, WakeUp, Write,
               BrokenPipe, ConnectionLost, Confirmed
      <4> QED  BY <1>1, <4>1 DEF ClientsOK
    <3> QED  BY <3>1, <3>2, <3>3
  <2> QED  BY <1>1, <2>1, <2>3, <2>4, <2>5 DEF ClientsOK
<1> QED  BY <1>3, <1>4, <1>5, Steps

LEMMA StepDaemonsOK ==
    ASSUME IInv, [Next]_vars
    PROVE  DaemonsOK'
<1>1. TypeOK /\ ClientsOK /\ DaemonsOK /\ Limits
  BY DEF IInv, TypeOK
<1>2. "gone" \in {"unborn", "gone"} \cup Alive /\ "forked" \in Alive /\ "binding" \in Alive /\ "bound" \in Alive
      /\ "listening" \in Alive /\ "select" \in Alive /\ "serve" \in Alive
  BY DEF Alive, Starting, Listening
<1>3. CASE UNCHANGED vars \/ Tick
  BY <1>1, <1>3, TickFrame DEF vars, files, daemonVars, DaemonsOK
<1>4. ASSUME NEW c \in Client, Step(c) PROVE DaemonsOK'
  <2>1. UNCHANGED <<ready, empty, pipe, conns>>
    BY <1>4, StepFrame
  <2>2. dst' \in [Daemon -> {"unborn", "gone"} \cup Alive]
    BY <1>1, <1>2, <1>4, StepDaemons DEF DaemonsOK
  <2>3. lock' \in BOOLEAN
    BY <1>1, <1>4 DEF Step, Run, Begin, Connect, NoDaemon, GetLock, CannotFork, LockTaken, BreakLock, Released,
             WakeUp, Write, BrokenPipe, ConnectionLost, Confirmed, files, DaemonsOK
  <2>4. backlog' \in [Daemon -> Seq(Client)]
    <3>1. CASE Connect(c)
      <4>1. pipe \in Daemon /\ backlog' = [backlog EXCEPT ![pipe] = Append(backlog[pipe], c)]
        BY <1>1, <3>1 DEF Connect, Reachable, DaemonsOK
      <4> QED  BY <1>1, <4>1 DEF DaemonsOK
    <3>2. CASE ~Connect(c)
      <4>1. backlog' = backlog
        BY <1>4, <3>2 DEF Step, Run, Begin, NoDaemon, GetLock, CannotFork, LockTaken, BreakLock, Released,
             WakeUp, Write, BrokenPipe, ConnectionLost, Confirmed, daemonVars
      <4> QED  BY <1>1, <4>1 DEF DaemonsOK
    <3> QED  BY <3>1, <3>2
  <2> QED  BY <1>1, <2>1, <2>2, <2>3, <2>4 DEF DaemonsOK
<1>5. ASSUME NEW d \in Daemon, Unlink(d) \/ Bind(d) \/ Listen(d) \/ Unlock(d) PROVE DaemonsOK'
  <2>1. UNCHANGED <<backlog, conns, ready, empty>>
    BY <1>5 DEF Unlink, Bind, Listen, Unlock
  <2>2. lock' \in BOOLEAN /\ pipe' \in Daemon \cup {Nobody}
    BY <1>1, <1>5 DEF Unlink, Bind, Listen, Unlock, files, DaemonsOK
  <2>3. \E q \in Alive \cup {"gone"} : dst' = [dst EXCEPT ![d] = q]
    BY <1>1, <1>5, StartFrame DEF Starts
  <2> QED  BY <1>1, <2>1, <2>2, <2>3 DEF DaemonsOK
<1>6. ASSUME NEW d \in Daemon, Select(d) PROVE DaemonsOK'
  <2>1. /\ UNCHANGED <<pipe, lock, empty>> /\ dst' = [dst EXCEPT ![d] = "serve"]
        /\ ready' = [ready EXCEPT ![d] = {c \in conns[d] : peer[c] = d /\ pc[c] = "await" /\ answer[c] = "none"}]
        /\ \/ backlog' = [backlog EXCEPT ![d] = backlog[d]] /\ conns' = [conns EXCEPT ![d] = conns[d]]
           \/ /\ backlog[d] # <<>>
              /\ backlog' = [backlog EXCEPT ![d] = Tail(backlog[d])]
              /\ conns' = [conns EXCEPT ![d] = conns[d] \cup {Head(backlog[d])}]
    BY <1>6 DEF Select, files
  <2>2. backlog[d] \in Seq(Client) /\ conns[d] \in SUBSET Client
    BY <1>1 DEF DaemonsOK
  <2>3. backlog[d] # <<>> => Tail(backlog[d]) \in Seq(Client) /\ Head(backlog[d]) \in Client
    BY <2>2
  <2>4. {c \in conns[d] : peer[c] = d /\ pc[c] = "await" /\ answer[c] = "none"} \in SUBSET Client
    BY <2>2
  <2>5. backlog' \in [Daemon -> Seq(Client)]
    <3>1. \E b \in Seq(Client) : backlog' = [backlog EXCEPT ![d] = b]
      BY <2>1, <2>2, <2>3
    <3> QED  BY <1>1, <3>1 DEF DaemonsOK
  <2>6. conns' \in [Daemon -> SUBSET Client]
    <3>1. \E b \in SUBSET Client : conns' = [conns EXCEPT ![d] = b]
      BY <2>1, <2>2, <2>3
    <3> QED  BY <1>1, <3>1 DEF DaemonsOK
  <2>7. ready' \in [Daemon -> SUBSET Client]
    <3>1. \E b \in SUBSET Client : ready' = [ready EXCEPT ![d] = b]
      BY <2>1, <2>4
    <3> QED  BY <1>1, <3>1 DEF DaemonsOK
  <2>8. dst' \in [Daemon -> {"unborn", "gone"} \cup Alive] /\ UNCHANGED <<pipe, lock, empty>>
    BY <1>1, <1>2, <2>1 DEF DaemonsOK
  <2> QED  BY <1>1, <2>5, <2>6, <2>7, <2>8 DEF DaemonsOK
<1>7. ASSUME NEW d \in Daemon, NEW c \in Client, Serve(d, c) PROVE DaemonsOK'
  <2>1. UNCHANGED <<pipe, lock, dst, empty, backlog, conns>> /\ ready' = [ready EXCEPT ![d] = ready[d] \ {c}]
    BY <1>7, ServeFrame DEF files
  <2> QED  BY <1>1, <2>1 DEF DaemonsOK
<1>8. ASSUME NEW d \in Daemon, checktimers(d) PROVE DaemonsOK'
  <2>1. empty[d] + 1 \in 0..EmptyWait /\ 0 \in 0..EmptyWait
    BY <1>1, <1>8, LimitAssumption DEF checktimers, Limits, DaemonsOK
  <2>2. /\ UNCHANGED <<lock, ready>>
        /\ pipe' \in {pipe, Nobody}
        /\ \E q \in {"select", "gone"} : dst' = [dst EXCEPT ![d] = q]
        /\ backlog' = backlog \/ backlog' = [backlog EXCEPT ![d] = <<>>]
        /\ conns' = conns \/ conns' = [conns EXCEPT ![d] = {}]
        /\ empty' = [empty EXCEPT ![d] = empty[d] + 1] \/ empty' = [empty EXCEPT ![d] = 0]
    BY <1>8 DEF checktimers
  <2>3. <<>> \in Seq(Client)
    OBVIOUS
  <2>4. backlog' \in [Daemon -> Seq(Client)] /\ conns' \in [Daemon -> SUBSET Client]
    BY <1>1, <2>2, <2>3 DEF DaemonsOK
  <2>5. empty' \in [Daemon -> 0..EmptyWait]
    BY <1>1, <2>1, <2>2 DEF DaemonsOK
  <2>6. dst' \in [Daemon -> {"unborn", "gone"} \cup Alive]
    BY <1>1, <1>2, <2>2 DEF DaemonsOK
  <2> QED  BY <1>1, <2>2, <2>4, <2>5, <2>6 DEF DaemonsOK
<1>9. ASSUME NEW d \in Daemon, Crash(d) PROVE DaemonsOK'
  BY <1>1, <1>2, <1>9 DEF Crash, DaemonsOK, files
<1> QED  BY <1>3, <1>4, <1>5, <1>6, <1>7, <1>8, <1>9, Steps DEF Starts

LEMMA StepTimersOK ==
    ASSUME IInv, [Next]_vars
    PROVE  TimersOK'
<1>1. TypeOK /\ TimersOK
  BY DEF IInv, TypeOK
<1>2. CASE DOMAIN timers' = Daemon /\ \A e \in Daemon : Shrinks(e)
  BY <1>2 DEF Shrinks, TimersOK, Entry
<1>3. CASE UNCHANGED timers
  BY <1>1, <1>3 DEF TimersOK
<1>4. CASE UNCHANGED vars \/ Tick \/ (\E c \in Client : Step(c))
           \/ \E d \in Daemon : Starts(d) \/ checktimers(d) \/ Crash(d)
  BY <1>1, <1>2, <1>3, <1>4, StepFrame, StartFrame, CheckFrame, CrashFrame, TickFrame DEF vars, daemonVars
<1>5. ASSUME NEW d \in Daemon, NEW c \in Client, Serve(d, c) PROVE TimersOK'
  <2>1. /\ DOMAIN timers' = Daemon
        /\ \A e \in Daemon \ {d} : timers'[e] = timers[e]
        /\ Unchanged(d, c) \/ Cancelled(d, c) \/ \E k \in Nat \ {0} : Started(d, c, k)
    BY <1>5, ServeFrame
  <2>2. \A e \in Daemon : \A i \in DOMAIN timers[e] : timers[e][i] \in Entry
    BY <1>1 DEF TimersOK, Entry
  <2>3. CASE Unchanged(d, c) \/ Cancelled(d, c)
    BY <2>1, <2>2, <2>3 DEF Unchanged, Cancelled, Shrinks, TimersOK, Entry
  <2>4. ASSUME NEW k, Started(d, c, k) PROVE TimersOK'
    <3>1. \A i \in DOMAIN timers'[d] : timers'[d][i] \in Entry
      BY <2>2, <2>4 DEF Started
    <3> QED  BY <2>1, <2>2, <3>1 DEF TimersOK, Entry
  <2> QED  BY <2>1, <2>3, <2>4
<1> QED  BY <1>4, <1>5, Steps

LEMMA StepHistoryOK ==
    ASSUME IInv, [Next]_vars
    PROVE  HistoryOK'
<1>1. TypeOK /\ HistoryOK
  BY DEF IInv, TypeOK
<1>2. CASE UNCHANGED history
  BY <1>1, <1>2 DEF history, HistoryOK
<1>3. CASE UNCHANGED vars \/ Tick \/ \E d \in Daemon : Starts(d)
  BY <1>1, <1>2, <1>3, StartFrame, TickFrame DEF vars
<1>4. ASSUME NEW c \in Client, Step(c) PROVE HistoryOK'
  <2>1. UNCHANGED <<fired, ran, crashes>> /\ alone' \in BOOLEAN
    BY <1>1, <1>4, StepFrame, StepDaemons DEF HistoryOK
  <2>2. seen' \in [Client -> SUBSET Client]
    <3>1. seen' = seen \/ seen' = [seen EXCEPT ![c] = {x \in Client : pc[x] = "done"}]
      BY <1>4, StepFrame
    <3> QED  BY <1>1, <3>1 DEF HistoryOK
  <2> QED  BY <1>1, <2>1, <2>2 DEF HistoryOK
<1>5. ASSUME NEW d \in Daemon, NEW c \in Client, Serve(d, c) PROVE HistoryOK'
  <2>1. /\ UNCHANGED <<seen, fired, alone, crashes>>
        /\ \E b \in BOOLEAN : ran' = [ran EXCEPT ![c] = b]
    <3>1. ran' = [ran EXCEPT ![c] = ran[c] \/ (/\ cmd[c].op = "CANCEL_CMD"
                                               /\ \A i \in DOMAIN timers[d] : timers[d][i].name # cmd[c].name)]
      BY <1>5, ServeFrame
    <3> QED  BY <1>5, <3>1, ServeFrame
  <2> QED  BY <1>1, <2>1 DEF HistoryOK
<1>6. ASSUME NEW d \in Daemon, checktimers(d) PROVE HistoryOK'
  <2>1. UNCHANGED <<seen, ran, alone, crashes>> /\ \A x \in Client : fired'[x] \in {fired[x], fired[x] + 1}
    BY <1>6, CheckFrame
  <2>2. fired' = fired \/ \E g : fired' = [x \in Client |-> g[x]]
    <3>1. fired' = fired \/ fired' = [x \in Client |-> fired[x] + Cardinality({i \in Due(d) : x \in timers[d][i].by})]
      BY <1>6 DEF checktimers
    <3> DEFINE g == [x \in Client |-> fired[x] + Cardinality({i \in Due(d) : x \in timers[d][i].by})]
    <3>2. g = [x \in Client |-> g[x]]
      OBVIOUS
    <3>3. fired' = fired \/ fired' = g
      BY <3>1
    <3> HIDE DEF g
    <3> QED  BY <3>2, <3>3
  <2>3. fired' \in [Client -> Nat]
    BY <1>1, <2>1, <2>2 DEF HistoryOK
  <2> QED  BY <1>1, <2>1, <2>3 DEF HistoryOK
<1>7. ASSUME NEW d \in Daemon, Crash(d) PROVE HistoryOK'
  BY <1>1, <1>7, CrashFrame DEF HistoryOK
<1> QED  BY <1>3, <1>4, <1>5, <1>6, <1>7, Steps

LEMMA StepLimits ==
    ASSUME IInv, [Next]_vars
    PROVE  Limits'
<1>1. TypeOK /\ ClientsOK /\ DaemonsOK /\ Limits
  BY DEF IInv, TypeOK
<1>2. MaxTries \in Nat \ {0} /\ EmptyWait \in Nat \ {0}
  BY LimitAssumption
<1>3. CASE UNCHANGED vars \/ Tick
  BY <1>1, <1>3, TickFrame DEF vars, clientVars, daemonVars, Limits
<1>4. ASSUME NEW c \in Client, Step(c) PROVE Limits'
  <2>1. UNCHANGED empty /\ \A d \in Daemon : dst'[d] # "gone" => dst[d] # "gone"
    BY <1>1, <1>4, StepFrame, StepDaemons DEF DaemonsOK
  <2>2. pc[c] \notin Ended /\ tries[c] < MaxTries /\ knocks[c] < MaxTries
    BY <1>1, <1>4, StepFrame DEF Limits
  <2>3. \A x \in Client \ {c} : pc'[x] = pc[x] /\ tries'[x] = tries[x] /\ knocks'[x] = knocks[x]
    BY <1>1, <1>4 DEF Step, Run, Begin, Connect, NoDaemon, GetLock, CannotFork, LockTaken, BreakLock, Released,
             WakeUp, Write, BrokenPipe, ConnectionLost, Confirmed, TryAgain, ClientsOK
  <2>4. pc'[c] \notin Ended => tries'[c] < MaxTries /\ knocks'[c] < MaxTries
    <3>1. CASE Released(c) \/ ConnectionLost(c)
      <4>1. /\ tries' = [tries EXCEPT ![c] = tries[c] + 1] /\ knocks' = [knocks EXCEPT ![c] = 0]
            /\ \E q : pc' = [pc EXCEPT ![c] = q] /\ (q = "failed" \/ tries[c] + 1 < MaxTries)
        BY <3>1 DEF Released, ConnectionLost, TryAgain
      <4>2. tries'[c] = tries[c] + 1 /\ knocks'[c] = 0 /\ (pc'[c] = "failed" \/ tries[c] + 1 < MaxTries)
        BY <1>1, <4>1 DEF ClientsOK
      <4> QED  BY <1>2, <4>2 DEF Ended
    <3>2. CASE BreakLock(c)
      <4>1. /\ tries' = tries /\ knocks' = [knocks EXCEPT ![c] = knocks[c] + 1]
            /\ \E q : pc' = [pc EXCEPT ![c] = q] /\ (q = "failed" \/ knocks[c] + 1 < MaxTries)
        BY <3>2 DEF BreakLock
      <4>2. tries'[c] = tries[c] /\ knocks'[c] = knocks[c] + 1 /\ (pc'[c] = "failed" \/ knocks[c] + 1 < MaxTries)
        BY <1>1, <4>1 DEF ClientsOK
      <4> QED  BY <2>2, <4>2 DEF Ended
    <3>3. CASE ~(Released(c) \/ ConnectionLost(c) \/ BreakLock(c))
      <4>1. UNCHANGED <<tries, knocks>>
        BY <1>4, <3>3 DEF Step, Run, Begin, Connect, NoDaemon, GetLock, CannotFork, LockTaken, WakeUp, Write,
                 BrokenPipe, Confirmed
      <4> QED  BY <2>2, <4>1
    <3> QED  BY <3>1, <3>2, <3>3
  <2> QED  BY <1>1, <2>1, <2>3, <2>4 DEF Limits
<1>5. ASSUME NEW d \in Daemon, Starts(d) PROVE Limits'
  <2>1. UNCHANGED <<clientVars, empty>> /\ dst[d] \in Alive /\ \E q : dst' = [dst EXCEPT ![d] = q]
    BY <1>1, <1>5, StartFrame
  <2>2. dst[d] # "gone"
    BY <2>1 DEF Alive, Starting, Listening
  <2>3. \A e \in Daemon : dst'[e] # "gone" => dst[e] # "gone"
    BY <1>1, <2>1, <2>2 DEF DaemonsOK
  <2> QED  BY <1>1, <2>1, <2>3 DEF Limits, clientVars
<1>6. ASSUME NEW d \in Daemon, NEW c \in Client, Serve(d, c) PROVE Limits'
  BY <1>1, <1>6, ServeFrame DEF Limits, clientVars
<1>7. ASSUME NEW d \in Daemon, checktimers(d) PROVE Limits'
  <2>1. \A e \in Daemon \ {d} : dst'[e] = dst[e] /\ empty'[e] = empty[e]
    BY <1>1, <1>7 DEF checktimers, DaemonsOK
  <2>2. dst'[d] # "gone" => empty'[d] < EmptyWait
    BY <1>1, <1>2, <1>7 DEF checktimers, DaemonsOK
  <2>3. UNCHANGED clientVars
    BY <1>7 DEF checktimers
  <2> QED  BY <1>1, <2>1, <2>2, <2>3 DEF Limits, clientVars
<1>8. ASSUME NEW d \in Daemon, Crash(d) PROVE Limits'
  BY <1>1, <1>8, CrashFrame DEF Limits, clientVars, DaemonsOK
<1> QED  BY <1>3, <1>4, <1>5, <1>6, <1>7, <1>8, Steps

-----------------------------------------------------------------------------
(* A request is carried out once *)

LEMMA StepReady ==
    ASSUME IInv, [Next]_vars
    PROVE  Ready'
<1>1. TypeOK /\ ClientsOK /\ DaemonsOK /\ Ready
  BY DEF IInv, TypeOK
<1>2. CASE UNCHANGED vars \/ Tick
  BY <1>1, <1>2, TickFrame DEF vars, clientVars, daemonVars, Ready
<1>3. ASSUME NEW c \in Client, Step(c) PROVE Ready'
  <2>1. PICK q : /\ pc' = [pc EXCEPT ![c] = q]
                 /\ pc[c] = "await" => \/ answer[c] = "OK" /\ q = "done"
                                       \/ answer[c] = "none" /\ dst[peer[c]] = "gone"
    BY <1>3, StepFrame DEF Moves
  <2>2. UNCHANGED <<ready, answer>>
    BY <1>3, StepFrame
  <2>3. ASSUME NEW d \in Daemon, NEW x \in ready[d]
        PROVE  dst'[d] = "serve" /\ peer'[x] = d /\ pc'[x] = "await" /\ answer'[x] = "none"
    <3>1. dst[d] = "serve" /\ peer[x] = d /\ pc[x] = "await" /\ answer[x] = "none" /\ x \in Client
      BY <1>1 DEF Ready, DaemonsOK
    <3>2. x # c
      BY <2>1, <3>1
    <3>3. pc'[x] = "await" /\ answer'[x] = "none"
      BY <1>1, <2>1, <2>2, <3>1, <3>2 DEF ClientsOK
    <3>4. peer'[x] = d
      BY <1>1, <1>3, <3>1, <3>2, StepPeer DEF ClientsOK
    <3>5. dst'[d] = "serve"
      BY <1>1, <1>3, <3>1, StepDaemons DEF DaemonsOK
    <3> QED  BY <3>3, <3>4, <3>5
  <2> QED  BY <2>2, <2>3 DEF Ready
<1>4. ASSUME NEW d \in Daemon, Starts(d) PROVE Ready'
  <2>1. UNCHANGED <<pc, peer, answer>>
    BY <1>1, <1>4, StartFrame DEF clientVars
  <2>2. \E q : dst' = [dst EXCEPT ![d] = q] /\ dst[d] # "serve"
    BY <1>1, <1>4, StartFrame
  <2>3. CASE UNCHANGED ready
    BY <1>1, <2>1, <2>2, <2>3 DEF Ready, DaemonsOK
  <2>4. CASE /\ dst' = [dst EXCEPT ![d] = "serve"]
             /\ ready' = [ready EXCEPT ![d] =
                    {c \in conns[d] : peer[c] = d /\ pc[c] = "await" /\ answer[c] = "none"}]
    BY <1>1, <2>1, <2>4 DEF Ready, DaemonsOK
  <2> QED  BY <1>1, <1>4, <2>3, <2>4, StartFrame
<1>5. ASSUME NEW d \in Daemon, NEW c \in Client, Serve(d, c) PROVE Ready'
  <2>1. /\ UNCHANGED <<pc, peer, dst>> /\ c \in ready[d] /\ ready' = [ready EXCEPT ![d] = ready[d] \ {c}]
        /\ answer' = [answer EXCEPT ![c] = "OK"]
    BY <1>5, ServeFrame DEF clientVars
  <2>2. peer[c] = d
    BY <1>1, <2>1 DEF Ready
  <2>3. ASSUME NEW e \in Daemon, NEW x \in ready'[e] PROVE x \in ready[e] /\ x # c /\ x \in Client
    <3>1. x \in ready[e] /\ x \in Client /\ (e = d => x # c)
      BY <1>1, <2>1 DEF DaemonsOK
    <3> QED  BY <1>1, <2>2, <3>1 DEF Ready
  <2>4. \A x \in Client \ {c} : answer'[x] = answer[x]
    BY <1>1, <2>1 DEF ClientsOK
  <2> QED  BY <1>1, <2>1, <2>3, <2>4 DEF Ready
<1>6. ASSUME NEW d \in Daemon, checktimers(d) PROVE Ready'
  <2>1. UNCHANGED <<pc, peer, answer, ready>> /\ ready[d] = {} /\ \E q : dst' = [dst EXCEPT ![d] = q]
    BY <1>6, CheckFrame DEF clientVars
  <2> QED  BY <1>1, <2>1 DEF Ready, DaemonsOK
<1>7. ASSUME NEW d \in Daemon, Crash(d) PROVE Ready'
  <2>1. /\ UNCHANGED <<pc, peer, answer>> /\ ready' = [ready EXCEPT ![d] = {}]
        /\ dst' = [dst EXCEPT ![d] = "gone"]
    BY <1>1, <1>7, CrashFrame DEF clientVars
  <2> QED  BY <1>1, <2>1 DEF Ready, DaemonsOK
<1> QED  BY <1>2, <1>3, <1>4, <1>5, <1>6, <1>7, Steps

\* Nobody but the client itself moves on.
LEMMA StepOthers ==
    ASSUME TypeOK, NEW c \in Client, Step(c)
    PROVE  \A x \in Client \ {c} : pc'[x] = pc[x] /\ seen'[x] = seen[x]
<1>1. \E q : pc' = [pc EXCEPT ![c] = q]
  BY StepFrame DEF Moves
<1>2. seen' = seen \/ seen' = [seen EXCEPT ![c] = {x \in Client : pc[x] = "done"}]
  BY StepFrame
<1> QED  BY <1>1, <1>2 DEF TypeOK, ClientsOK, HistoryOK

LEMMA StepAnswers ==
    ASSUME IInv, [Next]_vars
    PROVE  Answers'
<1>1. TypeOK /\ ClientsOK /\ HistoryOK /\ DaemonsOK /\ Ready /\ Answers
  BY DEF IInv, TypeOK
<1>2. CASE UNCHANGED <<pc, cmd, answer, ran>>
  BY <1>1, <1>2 DEF Answers
<1>3. CASE UNCHANGED vars \/ Tick \/ \E d \in Daemon : Starts(d) \/ checktimers(d) \/ Crash(d)
  BY <1>1, <1>2, <1>3, StartFrame, CheckFrame, CrashFrame, TickFrame DEF vars, clientVars, history
<1>4. ASSUME NEW c \in Client, Step(c) PROVE Answers'
  <2>1. UNCHANGED <<cmd, answer, ran>> /\ pc[c] \notin Ended
    BY <1>4, StepFrame
  <2>2. PICK q : /\ pc' = [pc EXCEPT ![c] = q]
                 /\ q = "done" => answer[c] = "OK" \/ cmd[c].op = "CANCEL"
                 /\ answer[c] = "OK" /\ pc[c] = "await" => q = "done"
    BY <1>4, StepFrame DEF Moves
  <2>3. pc'[c] = q /\ \A x \in Client \ {c} : pc'[x] = pc[x]
    BY <1>1, <2>2 DEF ClientsOK
  <2>4. answer[c] = "OK" => q = "done"
    BY <1>1, <2>1, <2>2 DEF Answers, Ended
  <2> QED  BY <1>1, <2>1, <2>2, <2>3, <2>4 DEF Answers
<1>5. ASSUME NEW d \in Daemon, NEW c \in Client, Serve(d, c) PROVE Answers'
  <2>1. UNCHANGED <<pc, cmd>> /\ c \in ready[d] /\ answer' = [answer EXCEPT ![c] = "OK"]
    BY <1>5, ServeFrame DEF clientVars
  <2>2. \A x \in Client \ {c} : answer'[x] = answer[x] /\ ran'[x] = ran[x]
    BY <1>1, <1>5, <2>1, ServeFrame DEF ClientsOK, HistoryOK
  <2>3. pc[c] = "await" /\ answer'[c] = "OK"
    BY <1>1, <2>1 DEF Ready, ClientsOK
  <2> QED  BY <1>1, <2>1, <2>2, <2>3 DEF Answers
<1> QED  BY <1>3, <1>4, <1>5, Steps

-----------------------------------------------------------------------------
(* The lists *)

LEMMA HeldShrinks == (\A e \in Daemon : Shrinks(e)) => \A x : Held(x)' => Held(x)
BY DEF Held, Shrinks

\* A list that only shrinks stays right while its daemon serves, if no timer
\* that is left has fired.
LEMMA QueueShrinks ==
    ASSUME IInv, NEW d \in Daemon, Shrinks(d), UNCHANGED cmd,
           DOMAIN timers'[d] # {} => dst'[d] \in {"select", "serve"},
           \A i \in DOMAIN timers'[d] : \A c \in timers'[d][i].by \cap Client :
                (answer[c] = "OK" => answer'[c] = "OK") /\ fired'[c] = fired[c]
    PROVE  Queue(d)'
<1>1. Queue(d)
  BY DEF IInv
<1>2. \A i \in DOMAIN timers'[d] : timers'[d][i].by \cap Client = timers[d][i].by
  BY DEF Shrinks, Entry
<1> QED  BY <1>1, <1>2 DEF Queue, Shrinks, Makes

LEMMA StepQueue ==
    ASSUME IInv, [Next]_vars, NEW e \in Daemon
    PROVE  Queue(e)'
<1>1. TypeOK /\ ClientsOK /\ HistoryOK /\ DaemonsOK /\ TimersOK /\ Ready /\ Answers /\ Queue(e) /\ FiredRight
  BY DEF IInv, TypeOK
<1>2. DOMAIN timers[e] # {} => dst[e] \in {"select", "serve"}
  BY <1>1 DEF Queue
<1>3. CASE UNCHANGED vars \/ Tick
  <2>1. Shrinks(e) /\ UNCHANGED <<cmd, answer, fired, dst>> /\ DOMAIN timers'[e] = DOMAIN timers[e]
    BY <1>1, <1>3, SameShrinks, TickFrame DEF vars, clientVars, daemonVars, history
  <2> QED  BY <1>2, <2>1, QueueShrinks
<1>4. ASSUME NEW c \in Client, Step(c) PROVE Queue(e)'
  <2>1. UNCHANGED <<cmd, answer, fired, timers>>
    BY <1>4, StepFrame
  <2>2. dst[e] \in {"select", "serve"} => dst'[e] = dst[e]
    BY <1>1, <1>4, StepDaemons DEF DaemonsOK
  <2>3. Shrinks(e)
    BY <1>1, <2>1, SameShrinks
  <2> QED  BY <1>2, <2>1, <2>2, <2>3, QueueShrinks
<1>5. ASSUME NEW d \in Daemon, Starts(d) PROVE Queue(e)'
  <2>1. UNCHANGED <<cmd, answer, fired, timers>>
    BY <1>1, <1>5, StartFrame DEF clientVars, history
  <2>2. DOMAIN timers[e] # {} => dst'[e] \in {"select", "serve"}
    BY <1>1, <1>2, <1>5, StartFrame DEF DaemonsOK
  <2>3. Shrinks(e)
    BY <1>1, <2>1, SameShrinks
  <2> QED  BY <2>1, <2>2, <2>3, QueueShrinks
<1>6. ASSUME NEW d \in Daemon, checktimers(d) PROVE Queue(e)'
  <2>1. UNCHANGED <<cmd, answer>> /\ Shrinks(e)
    BY <1>6, CheckFrame DEF clientVars
  <2>2. DOMAIN timers'[e] # {} => dst'[e] \in {"select", "serve"}
    <3>1. PICK q : dst' = [dst EXCEPT ![d] = q] /\ (q = "select" \/ DOMAIN timers[d] = {})
      BY <1>6, CheckFrame
    <3>2. DOMAIN timers'[e] \subseteq DOMAIN timers[e]
      BY <2>1 DEF Shrinks
    <3> QED  BY <1>1, <1>2, <3>1, <3>2 DEF DaemonsOK
  <2>3. ASSUME NEW i \in DOMAIN timers'[e], NEW c \in timers'[e][i].by PROVE fired'[c] = fired[c]
    <3>1. c \in Client
      BY <2>1, <2>3 DEF Shrinks, Entry
    <3>2. Held(c)'
      BY <2>3 DEF Held
    <3> QED  BY <1>6, <3>1, <3>2, CheckFrame
  <2> QED  BY <2>1, <2>2, <2>3, QueueShrinks
<1>7. ASSUME NEW d \in Daemon, Crash(d) PROVE Queue(e)'
  <2>1. UNCHANGED <<cmd, answer, fired>> /\ Shrinks(e)
    BY <1>1, <1>7, CrashFrame DEF clientVars
  <2>2. DOMAIN timers'[e] # {} => dst'[e] \in {"select", "serve"}
    BY <1>1, <1>2, <1>7, <2>1, CrashFrame DEF DaemonsOK, Shrinks
  <2> QED  BY <2>1, <2>2, QueueShrinks
<1>8. ASSUME NEW d \in Daemon, NEW c \in Client, Serve(d, c) PROVE Queue(e)'
  <2>1. /\ UNCHANGED <<cmd, dst, fired>> /\ dst[d] = "serve" /\ c \in ready[d]
        /\ \A x \in Daemon \ {d} : timers'[x] = timers[x]
        /\ Unchanged(d, c) \/ Cancelled(d, c) \/ \E k \in Nat \ {0} : Started(d, c, k)
    BY <1>8, ServeFrame DEF clientVars
  <2>2. answer'[c] = "OK" /\ \A x \in Client : answer[x] = "OK" => answer'[x] = "OK"
    BY <1>1, <1>8, ServeFrame DEF ClientsOK
  <2>3. CASE Shrinks(e)
    BY <1>2, <2>1, <2>2, <2>3, QueueShrinks DEF Shrinks
  <2>4. CASE e # d \/ Unchanged(d, c) \/ Cancelled(d, c)
    BY <1>1, <2>1, <2>3, <2>4, SameShrinks DEF Unchanged, Cancelled
  <2>5. ASSUME NEW k \in Nat \ {0}, Started(d, c, k), e = d PROVE Queue(e)'
    <3>1. answer[c] = "none" /\ fired[c] = 0 /\ Makes(c)
      BY <1>1, <2>1, <2>5 DEF Ready, FiredRight, Started
    <3>2. \E n \in Nat : DOMAIN timers'[e] \subseteq 1..n
      BY <2>5 DEF Started
    <3>3. ASSUME NEW i \in DOMAIN timers'[e], NEW x \in timers'[e][i].by
          PROVE  answer'[x] = "OK" /\ Makes(x) /\ fired[x] = 0 /\ timers'[e][i].name = cmd[x].name
      <4>0. x \in Client
        BY <1>1, <2>5, <3>3 DEF Started, Entry, TimersOK
      <4>1. CASE i # k
        <5>1. i \in DOMAIN timers[e] /\ timers'[e][i] = timers[e][i]
          BY <2>5, <4>1 DEF Started
        <5> QED  BY <1>1, <2>2, <3>3, <4>0, <5>1 DEF Queue
      <4>2. CASE i = k /\ x = c
        BY <2>2, <2>5, <3>1, <4>2 DEF Started
      <4>3. CASE i = k /\ x # c
        <5>1. k \in DOMAIN timers[e] /\ x \in timers[e][k].by /\ timers'[e][k].name = cmd[c].name
              /\ timers[e][k].name = cmd[c].name
          BY <2>5, <3>3, <4>3 DEF Started
        <5> QED  BY <1>1, <2>2, <4>0, <4>3, <5>1 DEF Queue
      <4> QED  BY <4>1, <4>2, <4>3
    <3> QED  BY <2>1, <2>5, <3>2, <3>3 DEF Queue, Makes
  <2> QED  BY <2>1, <2>4, <2>5
<1> QED  BY <1>3, <1>4, <1>5, <1>6, <1>7, <1>8, Steps

LEMMA StepOneTimer ==
    ASSUME IInv, [Next]_vars
    PROVE  InOneTimer'
<1>1. TypeOK /\ DaemonsOK /\ TimersOK /\ Ready /\ InOneTimer /\ \A d \in Daemon : Queue(d)
  BY DEF IInv, TypeOK
<1>2. CASE \A e \in Daemon : Shrinks(e)
  BY <1>1, <1>2 DEF InOneTimer, Shrinks
<1>3. CASE UNCHANGED timers
  BY <1>1, <1>3 DEF InOneTimer
<1>4. CASE UNCHANGED vars \/ Tick \/ (\E c \in Client : Step(c))
           \/ \E d \in Daemon : Starts(d) \/ checktimers(d) \/ Crash(d)
  BY <1>1, <1>2, <1>3, <1>4, StepFrame, StartFrame, CheckFrame, CrashFrame, TickFrame DEF vars, daemonVars
<1>5. ASSUME NEW d \in Daemon, NEW c \in Client, Serve(d, c) PROVE InOneTimer'
  <2>1. /\ c \in ready[d] /\ \A e \in Daemon \ {d} : timers'[e] = timers[e]
        /\ Unchanged(d, c) \/ Cancelled(d, c) \/ \E k \in Nat \ {0} : Started(d, c, k)
    BY <1>5, ServeFrame
  <2>2. CASE Unchanged(d, c) \/ Cancelled(d, c)
    <3>1. \A e \in Daemon : Shrinks(e)
      BY <1>1, <2>1, <2>2, SameShrinks DEF Unchanged, Cancelled
    <3> QED  BY <1>2, <3>1
  <2>3. ASSUME NEW k, Started(d, c, k) PROVE InOneTimer'
    <3>1. \A e \in Daemon : \A i \in DOMAIN timers[e] : c \notin timers[e][i].by
      BY <1>1, <2>1 DEF Ready, Queue
    <3>2. ASSUME NEW e \in Daemon, NEW i \in DOMAIN timers'[e]
          PROVE  /\ c \in timers'[e][i].by => e = d /\ i = k
                 /\ \A x \in timers'[e][i].by \ {c} : i \in DOMAIN timers[e] /\ x \in timers[e][i].by
      <4>1. CASE e # d
        BY <2>1, <3>1, <3>2, <4>1
      <4>2. CASE e = d /\ i # k
        BY <2>3, <3>1, <3>2, <4>2 DEF Started
      <4>3. CASE e = d /\ i = k
        BY <2>3, <4>3 DEF Started
      <4> QED  BY <4>1, <4>2, <4>3
    <3>3. ASSUME NEW e \in Daemon, NEW f \in Daemon, NEW i \in DOMAIN timers'[e], NEW j \in DOMAIN timers'[f],
                 NEW x, x \in timers'[e][i].by, x \in timers'[f][j].by
          PROVE  e = f /\ i = j
      BY <1>1, <3>2, <3>3 DEF InOneTimer
    <3> QED  BY <3>3 DEF InOneTimer
  <2> QED  BY <2>1, <2>2, <2>3
<1> QED  BY <1>4, <1>5, Steps

LEMMA StepFired ==
    ASSUME IInv, [Next]_vars
    PROVE  FiredRight'
<1>1. TypeOK /\ ClientsOK /\ FiredRight /\ \A d \in Daemon : Queue(d)
  BY DEF IInv, TypeOK
<1>2. CASE UNCHANGED <<cmd, fired>> /\ \A c \in Client : answer[c] = "OK" => answer'[c] = "OK"
  BY <1>1, <1>2 DEF FiredRight, Makes
<1>3. CASE UNCHANGED vars \/ Tick \/ (\E c \in Client : Step(c)) \/ \E d \in Daemon : Starts(d) \/ Crash(d)
  <2>1. UNCHANGED <<cmd, fired, answer>>
    BY <1>1, <1>3, StepFrame, StartFrame, CrashFrame, TickFrame DEF vars, clientVars, history
  <2> QED  BY <1>2, <2>1
<1>4. ASSUME NEW d \in Daemon, NEW c \in Client, Serve(d, c) PROVE FiredRight'
  BY <1>1, <1>2, <1>4, ServeFrame DEF clientVars, ClientsOK
<1>5. ASSUME NEW d \in Daemon, checktimers(d) PROVE FiredRight'
  <2>1. UNCHANGED <<cmd, answer>>
    BY <1>5, CheckFrame DEF clientVars
  <2>2. ASSUME NEW x \in Client, fired'[x] # fired[x]
        PROVE  fired'[x] = 1 /\ answer[x] = "OK" /\ Makes(x)
    <3>1. fired'[x] = fired[x] + 1 /\ Held(x)
      BY <1>5, <2>2, CheckFrame
    <3>2. fired[x] = 0 /\ answer[x] = "OK" /\ Makes(x)
      BY <1>1, <3>1 DEF Held, Queue
    <3> QED  BY <3>1, <3>2
  <2> QED  BY <1>1, <2>1, <2>2 DEF FiredRight, Makes
<1> QED  BY <1>3, <1>4, <1>5, Steps

-----------------------------------------------------------------------------
(* One daemon at a time *)

LEMMA StepLonely ==
    ASSUME IInv, [Next]_vars
    PROVE  Lonely'
<1>1. TypeOK /\ DaemonsOK /\ Lonely
  BY DEF IInv, TypeOK
<1>2. SUFFICES ASSUME alone'
               PROVE  /\ \A e, f \in Daemon : dst'[e] \in Alive /\ dst'[f] \in Alive => e = f
                      /\ \A e \in Daemon : dst'[e] \in {"bound"} \cup Listening => pipe' = e
  BY DEF Lonely
<1>3. {"bound"} \cup Listening \subseteq Alive /\ "gone" \notin Alive /\ "forked" \notin {"bound"} \cup Listening
      /\ {"forked", "binding"} \subseteq Alive /\ "serve" \in Listening /\ "select" \in Listening
  BY DEF Alive, Starting, Listening
<1>4. CASE alone /\ UNCHANGED <<dst, pipe>>
  BY <1>1, <1>4 DEF Lonely
<1>5. CASE UNCHANGED vars \/ Tick \/ \E d \in Daemon, c \in Client : Serve(d, c)
  BY <1>1, <1>2, <1>4, <1>5, TickFrame, ServeFrame DEF vars, files, daemonVars, history
<1>6. ASSUME NEW c \in Client, Step(c)
      PROVE  /\ \A e, f \in Daemon : dst'[e] \in Alive /\ dst'[f] \in Alive => e = f
             /\ \A e \in Daemon : dst'[e] \in {"bound"} \cup Listening => pipe' = e
  <2>1. UNCHANGED pipe
    BY <1>6, StepFrame
  <2>2. CASE UNCHANGED <<dst, alone>>
    BY <1>2, <1>4, <2>1, <2>2
  <2>3. CASE /\ \E d \in Daemon : dst[d] = "unborn" /\ dst' = [dst EXCEPT ![d] = "forked"]
             /\ alone' = (alone /\ \A e \in Daemon : dst[e] \notin Alive)
    <3>1. \A e \in Daemon : dst[e] \notin Alive
      BY <1>2, <2>3
    <3>2. PICK d \in Daemon : dst' = [dst EXCEPT ![d] = "forked"]
      BY <2>3
    <3>3. \A e \in Daemon : (e # d => dst'[e] \notin Alive) /\ dst'[d] = "forked"
      BY <1>1, <3>1, <3>2 DEF DaemonsOK
    <3> QED  BY <1>3, <3>3
  <2> QED  BY <1>1, <1>6, <2>2, <2>3, StepDaemons
<1>7. ASSUME NEW d \in Daemon, Starts(d)
      PROVE  /\ \A e, f \in Daemon : dst'[e] \in Alive /\ dst'[f] \in Alive => e = f
             /\ \A e \in Daemon : dst'[e] \in {"bound"} \cup Listening => pipe' = e
  <2>1. PICK q : /\ dst' = [dst EXCEPT ![d] = q] /\ dst[d] \in Alive
                 /\ q \in {"bound"} \cup Listening => pipe' = d \/ (dst[d] \in {"bound"} \cup Listening /\ pipe' = pipe)
    BY <1>1, <1>7, StartFrame
  <2>2. alone
    BY <1>1, <1>2, <1>7, StartFrame DEF history
  <2>3. \A e \in Daemon : e # d => dst'[e] = dst[e] /\ dst[e] \notin Alive
    BY <1>1, <2>1, <2>2 DEF DaemonsOK, Lonely
  <2>4. dst'[d] = q
    BY <1>1, <2>1 DEF DaemonsOK
  <2>5. dst'[d] \in {"bound"} \cup Listening => pipe' = d
    BY <1>1, <2>1, <2>2, <2>4 DEF Lonely
  <2> QED  BY <1>3, <2>3, <2>5
<1>8. ASSUME NEW d \in Daemon, checktimers(d) \/ Crash(d)
      PROVE  /\ \A e, f \in Daemon : dst'[e] \in Alive /\ dst'[f] \in Alive => e = f
             /\ \A e \in Daemon : dst'[e] \in {"bound"} \cup Listening => pipe' = e
  <2>1. alone /\ dst[d] \in Alive
    BY <1>1, <1>2, <1>3, <1>8, CheckFrame, CrashFrame
  <2>2. PICK q : /\ dst' = [dst EXCEPT ![d] = q]
                 /\ q = "gone" \/ (q = "select" /\ dst[d] = "serve" /\ pipe' = pipe)
    BY <1>1, <1>8, CheckFrame, CrashFrame DEF files
  <2>3. \A e \in Daemon : e # d => dst'[e] \notin Alive
    BY <1>1, <2>1, <2>2 DEF DaemonsOK, Lonely
  <2>4. dst'[d] = q
    BY <1>1, <2>2 DEF DaemonsOK
  <2>5. dst'[d] \in {"bound"} \cup Listening => pipe' = d
    BY <1>1, <1>3, <2>1, <2>2, <2>4 DEF Lonely
  <2> QED  BY <1>3, <2>3, <2>5
<1> QED  BY <1>5, <1>6, <1>7, <1>8, Steps

LEMMA StepSeen ==
    ASSUME IInv, [Next]_vars
    PROVE  SeenDone'
<1>1. TypeOK /\ ClientsOK /\ HistoryOK /\ SeenDone
  BY DEF IInv, TypeOK
<1>2. CASE UNCHANGED <<pc, seen>>
  BY <1>1, <1>2 DEF SeenDone
<1>3. CASE UNCHANGED vars \/ Tick \/ (\E d \in Daemon, c \in Client : Serve(d, c))
           \/ \E d \in Daemon : Starts(d) \/ checktimers(d) \/ Crash(d)
  BY <1>1, <1>2, <1>3, StartFrame, ServeFrame, CheckFrame, CrashFrame, TickFrame DEF vars, clientVars, history
<1>4. ASSUME NEW c \in Client, Step(c) PROVE SeenDone'
  <2>1. PICK q : pc' = [pc EXCEPT ![c] = q] /\ q # "idle"
    BY <1>4, StepFrame DEF Moves
  <2>2. pc'[c] # "idle" /\ \A x \in Client : (pc[x] = "done" => pc'[x] = "done") /\ (pc[x] # "idle" => pc'[x] # "idle")
    BY <1>1, <1>4, <2>1, StepFrame DEF ClientsOK, Ended
  <2>3. seen' = seen \/ seen' = [seen EXCEPT ![c] = {x \in Client : pc[x] = "done"}]
    BY <1>4, StepFrame
  <2>4. ASSUME NEW x \in Client, NEW s \in seen'[x] PROVE pc'[s] = "done" /\ pc'[x] # "idle"
    <3>1. s \in Client /\ (\/ s \in seen[x]
                           \/ x = c /\ pc[s] = "done")
      BY <1>1, <2>3, <2>4 DEF HistoryOK
    <3> QED  BY <1>1, <2>2, <3>1 DEF SeenDone
  <2> QED  BY <2>4 DEF SeenDone
<1> QED  BY <1>3, <1>4, Steps

-----------------------------------------------------------------------------
(* What was started and cancelled *)

LEMMA Constant ==
    ASSUME IInv, [Next]_vars
    PROVE  /\ UNCHANGED cmd /\ (alone' => alone) /\ (crashes' = 0 => crashes = 0)
           /\ \A x, s : Cancels(x, s)' => IsCancel(x) /\ IsStart(cmd[s]) /\ cmd[s].name = cmd[x].name
<1>1. TypeOK /\ HistoryOK
  BY DEF IInv, TypeOK
<1>2. CASE UNCHANGED vars \/ Tick \/ \E d \in Daemon : Starts(d)
  BY <1>1, <1>2, StartFrame, TickFrame DEF vars, clientVars, history, Cancels, IsCancel
<1>3. ASSUME NEW c \in Client, Step(c) PROVE UNCHANGED <<cmd, crashes>> /\ (alone' => alone)
  BY <1>1, <1>3, StepFrame, StepDaemons
<1>4. ASSUME NEW d \in Daemon, checktimers(d) \/ \E c \in Client : Serve(d, c)
      PROVE  UNCHANGED <<cmd, crashes, alone>>
  BY <1>4, CheckFrame, ServeFrame DEF clientVars
<1>5. ASSUME NEW d \in Daemon, Crash(d) PROVE UNCHANGED <<cmd, alone>> /\ crashes' # 0
  BY <1>1, <1>5, CrashFrame DEF clientVars
<1>6. UNCHANGED cmd /\ (alone' => alone) /\ (crashes' = 0 => crashes = 0)
  BY <1>2, <1>3, <1>4, <1>5, Steps DEF vars, clientVars, history
<1> QED  BY <1>6 DEF Cancels, IsCancel

\* The daemon that holds a timer is the one that serves, and can be reached.
LEMMA HolderIsAlone ==
    ASSUME IInv, alone, NEW e \in Daemon, DOMAIN timers[e] # {}
    PROVE  Reachable /\ \A d \in Daemon : dst[d] = "serve" => d = e
<1>1. dst[e] \in {"select", "serve"}
  BY DEF IInv, Queue
<1>2. dst[e] \in Listening /\ Listening \subseteq Alive /\ "serve" \in Alive
  BY <1>1 DEF Alive, Listening
<1> QED  BY <1>2, NobodyAssumption DEF IInv, Lonely, Reachable

\* What a daemon serves was not answered, and is no run that is finished.
LEMMA ServedIsNew ==
    ASSUME IInv, NEW d \in Daemon, NEW c \in ready[d]
    PROVE  pc[c] = "await" /\ answer[c] = "none"
BY DEF IInv, Ready

LEMMA ServeHolds ==
    ASSUME IInv, NEW d \in Daemon, NEW c \in Client, Serve(d, c), NEW s, s # c, Held(s)'
    PROVE  Held(s)
<1>1. /\ \A e \in Daemon \ {d} : timers'[e] = timers[e]
      /\ Unchanged(d, c) \/ Cancelled(d, c) \/ \E k \in Nat \ {0} : Started(d, c, k)
  BY ServeFrame
<1>2. PICK e \in Daemon : \E i \in DOMAIN timers'[e] : s \in timers'[e][i].by
  BY DEF Held
<1>3. PICK i \in DOMAIN timers'[e] : s \in timers'[e][i].by
  BY <1>2
<1>4. i \in DOMAIN timers[e] /\ s \in timers[e][i].by
  <2>1. CASE e # d \/ Unchanged(d, c) \/ Cancelled(d, c)
    BY <1>1, <1>3, <2>1 DEF Unchanged, Cancelled, Shrinks
  <2>2. ASSUME NEW k, Started(d, c, k), e = d PROVE i \in DOMAIN timers[e] /\ s \in timers[e][i].by
    BY <1>3, <2>2 DEF Started
  <2> QED  BY <1>1, <2>1, <2>2
<1> QED  BY <1>4 DEF Held

LEMMA StepCancelled ==
    ASSUME IInv, [Next]_vars
    PROVE  CancelledForGood'
<1>1. /\ TypeOK /\ ClientsOK /\ TimersOK /\ Ready /\ Answers /\ SeenDone /\ CancelledForGood
      /\ \A d \in Daemon : Queue(d)
  BY DEF IInv, TypeOK
<1>2. SUFFICES ASSUME alone', NEW x \in Client, NEW s \in Client, Cancels(x, s)',
                      answer'[x] = "OK" \/ pc'[x] = "done", Held(s)'
               PROVE  FALSE
  BY DEF CancelledForGood
<1>3. alone /\ s \in seen'[x] /\ IsCancel(x) /\ IsStart(cmd[s]) /\ cmd[s].name = cmd[x].name
  BY <1>2, Constant DEF Cancels
<1>4. ~(s \in seen[x] /\ (answer[x] = "OK" \/ pc[x] = "done") /\ Held(s))
  BY <1>1, <1>3 DEF CancelledForGood, Cancels
<1>5. CASE UNCHANGED vars \/ Tick \/ \E d \in Daemon : Starts(d) \/ checktimers(d) \/ Crash(d)
  <2>1. UNCHANGED <<pc, seen, answer>>
    BY <1>1, <1>5, StartFrame, CheckFrame, CrashFrame, TickFrame DEF vars, clientVars, history
  <2>2. UNCHANGED timers \/ \A e \in Daemon : Shrinks(e)
    BY <1>1, <1>5, StartFrame, CheckFrame, CrashFrame, TickFrame DEF vars, daemonVars
  <2>3. \A e \in Daemon : Shrinks(e)
    BY <1>1, <2>2, SameShrinks
  <2>4. Held(s)
    BY <1>2, <2>3, HeldShrinks
  <2> QED  BY <1>2, <1>3, <1>4, <2>1, <2>4
<1>6. ASSUME NEW c \in Client, Step(c) PROVE FALSE
  <2>1. UNCHANGED <<timers, answer>>
    BY <1>6, StepFrame
  <2>2. Held(s)
    BY <1>2, <2>1 DEF Held
  <2>3. c = x
    BY <1>1, <1>2, <1>3, <1>4, <1>6, <2>1, <2>2, StepOthers
  <2>4. PICK q : /\ pc' = [pc EXCEPT ![c] = q]
                 /\ q = "done" => answer[c] = "OK" \/ ~Reachable
    BY <1>6, StepFrame DEF Moves
  <2>5. answer[x] # "OK"
    <3>1. SUFFICES ASSUME answer[x] = "OK" PROVE FALSE
      OBVIOUS
    <3>2. pc[x] # "idle"
      BY <1>1, <3>1 DEF Answers
    <3>3. seen' = seen
      BY <1>6, <2>3, <3>2, StepFrame
    <3> QED  BY <1>3, <1>4, <2>2, <3>1, <3>3
  <2>6. pc'[x] = q
    BY <1>1, <2>3, <2>4 DEF ClientsOK
  <2>7. ~Reachable
    BY <1>2, <2>1, <2>3, <2>4, <2>5, <2>6
  <2>8. PICK e \in Daemon : DOMAIN timers[e] # {}
    BY <2>2 DEF Held
  <2> QED  BY <1>3, <2>7, <2>8, HolderIsAlone
<1>7. ASSUME NEW d \in Daemon, NEW c \in Client, Serve(d, c) PROVE FALSE
  <2>1. /\ UNCHANGED <<pc, seen>> /\ c \in ready[d] /\ dst[d] = "serve"
        /\ answer' = [answer EXCEPT ![c] = "OK"]
        /\ \A e \in Daemon \ {d} : timers'[e] = timers[e]
        /\ Unchanged(d, c) \/ Cancelled(d, c) \/ \E k \in Nat \ {0} : Started(d, c, k)
    BY <1>7, ServeFrame DEF clientVars
  <2>2. pc[s] = "done" /\ pc[c] = "await"
    BY <1>1, <1>3, <2>1, ServedIsNew DEF SeenDone
  <2>3. s # c
    BY <2>2
  <2>4. Held(s)
    BY <1>2, <1>7, <2>3, ServeHolds
  <2>5. c = x
    BY <1>1, <1>2, <1>3, <1>4, <2>1, <2>4 DEF ClientsOK
  <2>6. Cancelled(d, x)
    BY <1>3, <2>1, <2>5 DEF Unchanged, Started
  <2>7. PICK e \in Daemon : \E i \in DOMAIN timers'[e] : s \in timers'[e][i].by
    BY <1>2 DEF Held
  <2>8. PICK i \in DOMAIN timers'[e] : s \in timers'[e][i].by
    BY <2>7
  <2>9. i \in DOMAIN timers[e] /\ s \in timers[e][i].by
    BY <2>1, <2>6, <2>8 DEF Cancelled, Shrinks
  <2>10. e = d
    BY <1>3, <2>1, <2>9, HolderIsAlone
  <2>11. timers[e][i].name = cmd[x].name
    BY <1>1, <1>3, <2>9 DEF Queue
  <2> QED  BY <2>6, <2>8, <2>10, <2>11 DEF Cancelled
<1> QED  BY <1>5, <1>6, <1>7, Steps

LEMMA StepNotLost ==
    ASSUME IInv, [Next]_vars
    PROVE  NotLost'
<1>1. /\ TypeOK /\ ClientsOK /\ TimersOK /\ NotLost /\ FiredRight
      /\ \A d \in Daemon : Queue(d)
  BY DEF IInv, TypeOK
<1>2. SUFFICES ASSUME crashes' = 0, NEW s \in Client, answer'[s] = "OK", Makes(s)
               PROVE  \/ fired'[s] = 1 \/ Held(s)'
                      \/ \E y \in Client : IsCancel(y) /\ answer'[y] = "OK" /\ cmd[y].name = cmd[s].name
  BY Constant DEF NotLost, Makes, IsCancel
<1> DEFINE Goal == \/ fired'[s] = 1 \/ Held(s)'
                   \/ \E y \in Client : IsCancel(y) /\ answer'[y] = "OK" /\ cmd[y].name = cmd[s].name
<1>3. crashes = 0
  BY <1>2, Constant
<1>4. answer[s] = "OK" => \/ fired[s] = 1 \/ Held(s)
                          \/ \E y \in Client : IsCancel(y) /\ answer[y] = "OK" /\ cmd[y].name = cmd[s].name
  BY <1>1, <1>2, <1>3 DEF NotLost
<1>5. CASE UNCHANGED vars \/ Tick \/ (\E c \in Client : Step(c)) \/ \E d \in Daemon : Starts(d)
  <2>1. UNCHANGED <<answer, fired>>
    BY <1>1, <1>5, StepFrame, StartFrame, TickFrame DEF vars, clientVars, history
  <2>2. UNCHANGED timers \/ \A e \in Daemon : Shrinks(e) /\ DOMAIN timers'[e] = DOMAIN timers[e]
    BY <1>1, <1>5, StepFrame, StartFrame, TickFrame DEF vars, daemonVars
  <2>3. Held(s) => Held(s)'
    BY <2>2 DEF Held, Shrinks
  <2> QED  BY <1>2, <1>4, <2>1, <2>3
<1>6. ASSUME NEW d \in Daemon, checktimers(d) PROVE Goal
  <2>1. /\ UNCHANGED answer
        /\ \/ fired'[s] = fired[s] /\ (Held(s) => Held(s)')
           \/ fired'[s] = fired[s] + 1 /\ Held(s)
    BY <1>6, CheckFrame
  <2>2. Held(s) => fired[s] = 0
    BY <1>1 DEF Held, Queue
  <2> QED  BY <1>2, <1>4, <2>1, <2>2
<1>7. ASSUME NEW d \in Daemon, Crash(d) PROVE Goal
  BY <1>1, <1>2, <1>7, CrashFrame
<1>8. ASSUME NEW d \in Daemon, NEW c \in Client, Serve(d, c) PROVE Goal
  <2>1. /\ UNCHANGED fired /\ answer' = [answer EXCEPT ![c] = "OK"]
        /\ \A e \in Daemon \ {d} : timers'[e] = timers[e]
        /\ Unchanged(d, c) \/ Cancelled(d, c) \/ \E k \in Nat \ {0} : Started(d, c, k)
    BY <1>8, ServeFrame
  <2>2. answer'[c] = "OK" /\ \A y \in Client : answer[y] = "OK" => answer'[y] = "OK"
    BY <1>1, <2>1 DEF ClientsOK
  <2>3. CASE s = c
    <3>1. PICK k : Started(d, c, k)
      BY <1>2, <2>1, <2>3 DEF Unchanged, Cancelled
    <3>2. k \in DOMAIN timers'[d] /\ c \in timers'[d][k].by
      BY <3>1 DEF Started
    <3> QED  BY <2>3, <3>2 DEF Held
  <2>4. CASE s # c
    <3>1. answer[s] = "OK"
      BY <1>1, <1>2, <2>1, <2>4 DEF ClientsOK
    <3>2. ASSUME Held(s) PROVE Goal
      <4>1. PICK e \in Daemon : \E i \in DOMAIN timers[e] : s \in timers[e][i].by
        BY <3>2 DEF Held
      <4>2. PICK i \in DOMAIN timers[e] : s \in timers[e][i].by
        BY <4>1
      <4>3. CASE i \in DOMAIN timers'[e] /\ s \in timers'[e][i].by
        BY <4>3 DEF Held
      <4>4. CASE e # d \/ Unchanged(d, c)
        BY <2>1, <4>2, <4>3, <4>4 DEF Unchanged
      <4>5. ASSUME NEW k, Started(d, c, k), e = d PROVE Goal
        <5>1. i \in DOMAIN timers'[e] /\ s \in timers'[e][i].by
          BY <4>2, <4>5 DEF Started
        <5> QED  BY <4>3, <5>1
      <4>6. CASE Cancelled(d, c) /\ e = d
        <5>1. timers[d][i].name = cmd[s].name
          BY <1>1, <4>2, <4>6 DEF Queue
        <5>2. CASE timers[d][i].name # cmd[c].name
          BY <4>2, <4>3, <4>6, <5>2 DEF Cancelled, Shrinks
        <5>3. CASE timers[d][i].name = cmd[c].name
          BY <2>2, <4>6, <5>1, <5>3 DEF Cancelled
        <5> QED  BY <5>2, <5>3
      <4> QED  BY <2>1, <4>4, <4>5, <4>6
    <3> QED  BY <1>4, <2>1, <2>2, <3>1, <3>2
  <2> QED  BY <2>3, <2>4
<1> QED  BY <1>5, <1>6, <1>7, <1>8, Steps

\* Served, the CANCEL of x finds no timer of that name if and only if the one
\* that s started has fired.
LEMMA ServedTells ==
    ASSUME IInv, alone, crashes = 0, NEW d \in Daemon, NEW x \in ready[d], NEW s \in Client,
           Cancels(x, s), cmd[s].ofs >= 0, Others(x, s)
    PROVE  (\A i \in DOMAIN timers[d] : timers[d][i].name # cmd[x].name) <=> fired[s] = 1
<1>1. /\ TypeOK /\ TimersOK /\ Answers /\ SeenDone /\ NotLost /\ DaemonsOK
      /\ \A e \in Daemon : Queue(e)
  BY DEF IInv, TypeOK
<1>2. x \in Client /\ answer[x] = "none" /\ pc[x] = "await" /\ dst[d] = "serve"
  BY <1>1 DEF DaemonsOK, IInv, Ready
<1>3. IsCancel(x) /\ IsStart(cmd[s]) /\ cmd[s].name = cmd[x].name /\ Makes(s) /\ pc[s] = "done"
  BY <1>1, <1>2 DEF Cancels, Makes, SeenDone
<1>4. answer[s] = "OK"
  BY <1>1, <1>3 DEF Answers, IsStart
<1>5. \A y \in Client \ {s, x} : answer[y] = "OK" => cmd[y].op = "LIST"
  BY <1>1 DEF Others, Answers
<1>6. ASSUME \A i \in DOMAIN timers[d] : timers[d][i].name # cmd[x].name PROVE fired[s] = 1
  <2>1. \/ fired[s] = 1 \/ Held(s)
        \/ \E y \in Client : IsCancel(y) /\ answer[y] = "OK" /\ cmd[y].name = cmd[s].name
    BY <1>1, <1>3, <1>4 DEF NotLost
  <2>2. ASSUME NEW y \in Client, IsCancel(y), answer[y] = "OK" PROVE FALSE
    BY <1>2, <1>3, <1>5, <2>2 DEF IsCancel, IsStart
  <2>3. ASSUME Held(s) PROVE FALSE
    <3>1. PICK e \in Daemon : \E i \in DOMAIN timers[e] : s \in timers[e][i].by
      BY <2>3 DEF Held
    <3>2. PICK i \in DOMAIN timers[e] : s \in timers[e][i].by
      BY <3>1
    <3>3. d = e
      BY <1>2, <3>2, HolderIsAlone
    <3>4. timers[e][i].name = cmd[x].name
      BY <1>1, <1>3, <3>2 DEF Queue
    <3> QED  BY <1>6, <3>2, <3>3, <3>4
  <2> QED  BY <2>1, <2>2, <2>3
<1>7. ASSUME fired[s] = 1, NEW i \in DOMAIN timers[d], timers[d][i].name = cmd[x].name PROVE FALSE
  <2>1. timers[d][i].by # {} /\ timers[d][i].by \subseteq Client
    BY <1>1 DEF TimersOK
  <2>2. PICK y \in timers[d][i].by : TRUE
    BY <2>1
  <2>3. y \in Client /\ answer[y] = "OK" /\ Makes(y) /\ fired[y] = 0
    BY <1>1, <2>1, <2>2 DEF Queue
  <2>4. y # s /\ y # x
    BY <1>2, <1>7, <2>3
  <2> QED  BY <1>5, <2>3, <2>4 DEF Makes, IsStart
<1> QED  BY <1>6, <1>7

LEMMA StepTells ==
    ASSUME IInv, [Next]_vars
    PROVE  Tells'
<1>1. /\ TypeOK /\ ClientsOK /\ HistoryOK /\ Answers /\ SeenDone /\ CancelledForGood /\ Tells
  BY DEF IInv, TypeOK
<1>2. SUFFICES ASSUME alone', crashes' = 0, NEW x \in Client, NEW s \in Client,
                      cmd[x].op = "CANCEL_CMD", answer'[x] = "OK",
                      Cancels(x, s)', cmd[s].ofs >= 0, Others(x, s)'
               PROVE  ran'[x] <=> fired'[s] = 1
  BY Constant DEF Tells
<1>3. /\ alone /\ crashes = 0 /\ UNCHANGED cmd /\ s \in seen'[x]
      /\ IsCancel(x) /\ IsStart(cmd[s]) /\ cmd[s].name = cmd[x].name
  BY <1>2, Constant DEF Cancels
<1>4. s \in seen[x] => Cancels(x, s)
  BY <1>3 DEF Cancels
<1>5. s \in seen[x] /\ answer[x] = "OK" /\ Others(x, s) => (ran[x] <=> fired[s] = 1)
  BY <1>1, <1>2, <1>3, <1>4 DEF Tells
<1>6. CASE UNCHANGED vars \/ Tick \/ \E d \in Daemon : Starts(d)
  <2>1. UNCHANGED <<pc, seen, answer, ran, fired>>
    BY <1>1, <1>6, StartFrame, TickFrame DEF vars, clientVars, history
  <2> QED  BY <1>2, <1>3, <1>5, <2>1 DEF Others
<1>7. ASSUME NEW c \in Client, Step(c) PROVE ran'[x] <=> fired'[s] = 1
  <2>1. UNCHANGED <<answer, ran, fired>> /\ pc[c] \notin Ended
    BY <1>7, StepFrame
  <2>2. pc[x] # "idle"
    BY <1>1, <1>2, <2>1 DEF Answers
  <2>3. s \in seen[x]
    BY <1>1, <1>3, <1>7, <2>2, StepFrame, StepOthers
  <2>4. PICK q : pc' = [pc EXCEPT ![c] = q] /\ q # "idle"
    BY <1>7, StepFrame DEF Moves
  <2>5. \A y \in Client : pc'[y] = "idle" => pc[y] = "idle"
    BY <1>1, <2>4 DEF ClientsOK
  <2>6. Others(x, s)
    BY <1>2, <1>3, <2>5 DEF Others
  <2> QED  BY <1>2, <1>5, <2>1, <2>3, <2>6
<1>8. ASSUME NEW d \in Daemon, checktimers(d) PROVE ran'[x] <=> fired'[s] = 1
  <2>1. UNCHANGED <<pc, seen, answer, ran>>
    BY <1>8, CheckFrame DEF clientVars
  <2>2. ~Held(s)
    BY <1>1, <1>2, <1>3, <1>4, <2>1 DEF CancelledForGood
  <2>3. fired'[s] = fired[s]
    BY <1>8, <2>2, CheckFrame
  <2> QED  BY <1>2, <1>3, <1>5, <2>1, <2>3 DEF Others
<1>9. ASSUME NEW d \in Daemon, Crash(d) PROVE FALSE
  BY <1>1, <1>2, <1>9, CrashFrame
<1>10. ASSUME NEW d \in Daemon, NEW c \in Client, Serve(d, c) PROVE ran'[x] <=> fired'[s] = 1
  <2>1. /\ UNCHANGED <<pc, seen, fired>> /\ c \in ready[d]
        /\ answer' = [answer EXCEPT ![c] = "OK"]
        /\ ran' = [ran EXCEPT ![c] = ran[c] \/ (/\ cmd[c].op = "CANCEL_CMD"
                                               /\ \A i \in DOMAIN timers[d] : timers[d][i].name # cmd[c].name)]
    BY <1>10, ServeFrame DEF clientVars
  <2>2. s \in seen[x] /\ Others(x, s)
    BY <1>2, <1>3, <2>1 DEF Others
  <2>3. CASE c # x
    <3>1. answer'[x] = answer[x] /\ ran'[x] = ran[x]
      BY <1>1, <2>1, <2>3 DEF ClientsOK, HistoryOK
    <3> QED  BY <1>2, <1>5, <2>1, <2>2, <3>1
  <2>4. CASE c = x
    <3>1. ~ran[x]
      BY <1>1, <2>1, <2>4, ServedIsNew DEF Answers
    <3>2. ran'[x] <=> \A i \in DOMAIN timers[d] : timers[d][i].name # cmd[x].name
      BY <1>1, <1>2, <2>1, <2>4, <3>1 DEF HistoryOK
    <3>3. (\A i \in DOMAIN timers[d] : timers[d][i].name # cmd[x].name) <=> fired[s] = 1
      BY <1>2, <1>3, <1>4, <2>1, <2>2, <2>4, ServedTells
    <3> QED  BY <2>1, <3>2, <3>3
  <2> QED  BY <2>3, <2>4
<1> QED  BY <1>6, <1>7, <1>8, <1>9, <1>10, Steps

-----------------------------------------------------------------------------
(* Theorems *)

LEMMA InitIInv == Init => IInv
<1> SUFFICES ASSUME Init PROVE IInv
  OBVIOUS
<1>1. /\ pipe = Nobody /\ lock = FALSE
      /\ pc = [c \in Client |-> "idle"]
      /\ \A c \in Client : cmd[c] \in Agenda[c]
      /\ tries = [c \in Client |-> 0] /\ knocks = [c \in Client |-> 0]
      /\ peer = [c \in Client |-> Nobody] /\ answer = [c \in Client |-> "none"]
  BY DEF Init
<1>2. /\ dst = [d \in Daemon |-> "unborn"]
      /\ backlog = [d \in Daemon |-> <<>>] /\ conns = [d \in Daemon |-> {}]
      /\ ready = [d \in Daemon |-> {}] /\ empty = [d \in Daemon |-> 0]
      /\ DOMAIN timers = Daemon /\ \A d \in Daemon : timers[d] = <<>>
  BY DEF Init
<1>3. /\ seen = [c \in Client |-> {}] /\ fired = [c \in Client |-> 0] /\ ran = [c \in Client |-> FALSE]
      /\ alone = TRUE /\ crashes = 0
  BY DEF Init
<1>4. \A d \in Daemon : DOMAIN timers[d] = {}
  BY <1>2
<1>5. MaxTries \in Nat \ {0} /\ EmptyWait \in Nat \ {0} /\ MaxCrashes \in Nat
  BY LimitAssumption, BoundAssumption
<1>6. ClientsOK /\ TimersOK /\ HistoryOK
  BY <1>1, <1>2, <1>3, <1>4, <1>5 DEF ClientsOK, TimersOK, HistoryOK
<1>7. DaemonsOK
  <2>1. <<>> \in Seq(Client) /\ {} \in SUBSET Client /\ 0 \in 0..EmptyWait
    BY <1>5
  <2>2. backlog \in [Daemon -> Seq(Client)]
    BY <1>2, <2>1
  <2>3. conns \in [Daemon -> SUBSET Client] /\ ready \in [Daemon -> SUBSET Client]
    BY <1>2, <2>1
  <2>4. dst \in [Daemon -> {"unborn", "gone"} \cup Alive] /\ empty \in [Daemon -> 0..EmptyWait]
    BY <1>2, <2>1
  <2> QED  BY <1>1, <2>2, <2>3, <2>4 DEF DaemonsOK
<1>8. Limits /\ Ready /\ Answers /\ FiredRight /\ SeenDone
  BY <1>1, <1>2, <1>3, <1>5 DEF Limits, Ready, Answers, FiredRight, SeenDone
<1>9. InOneTimer /\ \A d \in Daemon : Queue(d)
  <2>1. {} \subseteq 1..0 /\ 0 \in Nat
    OBVIOUS
  <2> QED  BY <1>4, <2>1 DEF InOneTimer, Queue
<1>10. Lonely
  BY <1>2 DEF Lonely, Alive, Starting, Listening
<1>11. CancelledForGood /\ NotLost /\ Tells
  BY <1>1, <1>3, <1>4 DEF CancelledForGood, NotLost, Tells, Cancels
<1> QED  BY <1>6, <1>7, <1>8, <1>9, <1>10, <1>11 DEF IInv, TypeOK

LEMMA StepIInv == IInv /\ [Next]_vars => IInv'
<1> SUFFICES ASSUME IInv, [Next]_vars PROVE IInv'
  OBVIOUS
<1>1. TypeOK'
  BY StepClientsOK, StepDaemonsOK, StepTimersOK, StepHistoryOK DEF TypeOK
<1>2. \A d \in Daemon : Queue(d)'
  BY StepQueue
<1> QED  BY <1>1, <1>2, StepLimits, StepReady, StepAnswers, StepOneTimer, StepFired, StepLonely, StepSeen,
             StepCancelled, StepNotLost, StepTells DEF IInv

LEMMA Invariance == Spec => []IInv
BY InitIInv, StepIInv, PTL DEF Spec

\* A timer fires once at most for each run of upssched that asked for it,
\* although sendcmd() repeats a request that was not confirmed and a daemon may
\* exit, or be killed, at any point of it.
THEOREM TimersFireOnce == Spec => [](TypeOK /\ FiresOnce)
<1>1. IInv => TypeOK /\ FiresOnce
  <2> SUFFICES ASSUME IInv, NEW c \in Client
               PROVE  fired[c] <= (IF IsStart(cmd[c]) /\ cmd[c].ofs >= 0 THEN 1 ELSE 0)
    BY DEF IInv, FiresOnce
  <2> QED  BY DEF IInv, FiredRight, Makes
<1> QED  BY <1>1, Invariance, PTL

\* The command given with CANCEL runs if and only if the one timer that was
\* started before has fired, with one daemon at a time and none killed
\* (cancel_timer(), check_parent()).
THEOREM CommandTells == Spec => []CommandTellsPassed
<1>1. IInv => CommandTellsPassed
  <2> SUFFICES ASSUME IInv, NEW x \in Client, NEW s \in Client,
                      alone, crashes = 0, cmd[x].op = "CANCEL_CMD", pc[x] = "done",
                      s \in seen[x], IsStart(cmd[s]), cmd[s].ofs >= 0, cmd[s].name = cmd[x].name,
                      \A c \in Client \ {s, x} : pc[c] = "idle" \/ cmd[c].op = "LIST"
               PROVE  ran[x] <=> fired[s] = 1
    BY DEF CommandTellsPassed
  <2>1. answer[x] = "OK"
    BY DEF IInv, Answers
  <2>2. Cancels(x, s) /\ Others(x, s)
    BY DEF Cancels, IsCancel, Others
  <2> QED  BY <2>1, <2>2 DEF IInv, Tells
<1> QED  BY <1>1, Invariance, PTL

\* As long as no two daemons were alive at once, a CANCEL that succeeded, be it
\* that a daemon confirmed it or that there was none to talk to, is final: no
\* timer that was started before it fires (check_parent(), cancel_timer()).
THEOREM CancelEndsTimers == Spec => CancelIsFinalAlone
<1>1. IInv /\ [Next]_vars => [alone' => \A s, x \in Client : Fires(s) => ~CancelledBy(s, x)]_vars
  <2> SUFFICES ASSUME IInv, [Next]_vars, alone', NEW s \in Client, NEW x \in Client,
                      Fires(s), CancelledBy(s, x)
               PROVE  FALSE
    OBVIOUS
  <2>1. TypeOK /\ HistoryOK
    BY DEF IInv, TypeOK
  <2>2. alone
    BY Constant
  <2>3. ~Held(s)
    BY <2>2 DEF IInv, CancelledForGood, CancelledBy, Cancels
  <2>4. fired'[s] = fired[s]
    <3>1. CASE UNCHANGED vars \/ Tick \/ (\E c \in Client : Step(c))
               \/ \E d \in Daemon : Starts(d) \/ Crash(d) \/ \E c \in Client : Serve(d, c)
      BY <2>1, <3>1, StepFrame, StartFrame, ServeFrame, CrashFrame, TickFrame DEF vars, history
    <3>2. CASE \E d \in Daemon : checktimers(d)
      BY <2>3, <3>2, CheckFrame
    <3> QED  BY <3>1, <3>2, Steps
  <2>5. fired[s] \in Nat
    BY <2>1 DEF HistoryOK
  <2> QED  BY <2>4, <2>5 DEF Fires
<1> QED  BY <1>1, Invariance, PTL DEF Spec, CancelIsFinalAlone

\* A timer whose START was confirmed is in the list of a daemon that is at work.
Ticking(s) ==
    \E d \in Daemon : /\ dst[d] \in {"select", "serve"}
                      /\ \E i \in DOMAIN timers[d] : s \in timers[d][i].by

\* Unless a daemon is killed, a timer whose START was confirmed has fired, was
\* cancelled by name or is held by a daemon that runs: no daemon exits for want
\* of timers while it has one or has confirmed one, however runs connect,
\* repeat and start other daemons meanwhile (the safety part of StartedTimersEnd;
\* checktimers(), start_timer()).
THEOREM StartedTimersAreHeld ==
    Spec => [](crashes = 0 => \A s \in Client :
                 answer[s] = "OK" /\ Makes(s) =>
                     \/ fired[s] = 1 \/ Ticking(s)
                     \/ \E y \in Client : IsCancel(y) /\ answer[y] = "OK" /\ cmd[y].name = cmd[s].name)
<1>1. IInv => (crashes = 0 => \A s \in Client :
                 answer[s] = "OK" /\ Makes(s) =>
                     \/ fired[s] = 1 \/ Ticking(s)
                     \/ \E y \in Client : IsCancel(y) /\ answer[y] = "OK" /\ cmd[y].name = cmd[s].name)
  <2>1. ASSUME IInv, NEW s \in Client, Held(s) PROVE Ticking(s)
    <3>1. PICK d \in Daemon : \E i \in DOMAIN timers[d] : s \in timers[d][i].by
      BY <2>1 DEF Held
    <3>2. Queue(d)
      BY <2>1 DEF IInv
    <3> QED  BY <3>1, <3>2 DEF Queue, Ticking
  <2> QED  BY <2>1 DEF IInv, NotLost
<1> QED  BY <1>1, Invariance, PTL
=============================================================================
