# A verification of NUT's protection path

NUT (Network UPS Tools) exists for one purpose: when the mains fail and a UPS
battery runs low, every host it feeds is shut down in time and in order, and
no host is shut down without need. The programs that share this job are a
*driver* per UPS (`drivers/`), the data server `upsd` (`server/`) and one
`upsmon` per host (`clients/upsmon.c`). This directory holds TLA+ models of
that path and of the programs beside it that keep state of their own (the
failover driver, upssched, the tracking of commands, the tokenizer all of them
read with), the TLC runs that check them, and proofs checked by TLAPS.

    hardware -> driver --local socket--> upsd --TCP--> upsmon (primary)   --pipe--> privileged parent
                (DriverLink)            (Upsd,     \-> upsmon (secondary)            -> SHUTDOWNCMD
                                      LoginService)    (Upsmon, Shutdown)           (UpsmonLoop; UpsmonWhole: both)
    several drivers -> failover driver -> upsd            upsmon --NOTIFYCMD--> upssched -> its timer daemon
                       (Failover)                                              (Upssched)
    upscmd, upsrw --> upsd --> driver (Tracking)          every file and every line: parseconf (Parseconf)

## 1. Inventory

Every component of the repository is listed in `PROJECT.json`. Those that carry
the core logic:

| component | state | operations | talks to |
|---|---|---|---|
| driver core (`drivers/dstate.c`, `drivers/main.c`) | tree of variables `dtree_root`, flag `stale`, list of connections, `do_synchronous` | `dstate_setinfo`, `dstate_delinfo`, `dstate_dataok`, `dstate_datastale`, `sock_connect`, `sock_read`/`sock_arg`, `send_to_all`, `send_to_one` | upsd, over a local stream socket |
| upsd, driver side (`server/sstate.c`) | per UPS: `sock_fd`, `inforoot`, `dumpdone`, `data_ok`, `stale`, `last_heard`, `last_ping` | `sstate_connect`, `sstate_readline`, `sstate_dead`, `sstate_disconnect` | driver; clients through `ups_available()` |
| upsd, client side (`server/upsd.c`, `netuser.c`, `netmisc.c`, `netget.c`, `conf.c`, `user.c`) | client list, credentials, `loginups`, `last_heard`; per UPS `numlogins`, `fsd`; `maxconn`, `reload_flag` | `mainloop`, `client_connect`, `client_readline`, `client_disconnect`, `net_login`, `net_logout`, `net_fsd`, `conf_reload` | upsmon and the other clients |
| upsmon, monitor (`clients/upsmon.c`) | per UPS: `status` flags, `commstate`, `lastpoll`, `lastnoncrit`, `offsince`, `oblbsince`, `oversince`; `sleepval`; the configuration | `pollups`, `parse_status`, `recalc`, `is_ups_critical`, `reload_conf`, the OS sleep handling | upsd |
| upsmon, shutdown | who is primary, timers `HOSTSYNC`, `FINALDELAY`, `SHUTDOWNEXIT` | `forceshutdown`, `setfsd`, `sync_secondaries`, `doshutdown` | upsd, the other upsmons through it |
| upsmon, processes | `exit_flag`, `userfsd`, `reload_flag`, the pipe, POWERDOWNFLAG | the main loop, signal handlers, `runparent` | operating system |
| tracking of INSTCMD/SET (`server/upsd.c`, `netinstcmd.c`, `netset.c`, `drivers/dstate.c`) | `tracking_list` with status and time of each id, `tracking_enabled`, `client->tracking` | `tracking_add`, `tracking_set`, `tracking_get`, `tracking_cleanup`, `send_instcmd`, `set_var`, the driver's `sock_arg` | upscmd and upsrw, upsd, driver |
| `upssched` (`clients/upssched.c`) | files LOCKFN and PIPEFN, list of timers, connections, `emptyctr` | `sendcmd`, `check_parent`, `start_daemon`, `start_timer`, `cancel_timer`, `checktimers` | run by upsmon's NOTIFYCMD, runs CMDSCRIPT |
| `parseconf` (`common/parseconf.c`) | state, word and words of a context | `pconf_char`, `pconf_line`, `pconf_file_next`, `pconf_encode` | everyone |
| `failover` driver (`drivers/failover.c`) | per driver: connection, flags, variables, failures, overrides; the elected primary; what it publishes | `handle_connections`, `ups_parse_protocol`, `get_primary_candidate`, `ups_export_dstate`, `handle_no_primaries`, `instcmd` | several drivers, upsd |
| `common/state.c`, `upsdrvctl`, `upsclient` library | the variable tree; processes; sockets | `state_setinfo`, ...; start/stop with retries; request/answer | drivers, upsd |

What makes this hard, and is hardly reachable by a test:

* *Interleaving and ordering.* upsd is one thread, but the order in which
  commands, hang-ups, a SIGHUP and the idle limit meet a client list and a
  table of UPSes that a reload rewrites is anyone's. In upsmon a signal lands
  between any two statements.
* *Stale state.* Verdicts outlive what they were based on: `data_ok` outlives a
  connection, status flags and `kept` memories outlive a lost UPS, the primary
  reads a login count that may be about to change.
* *Unreliable delivery and crashes.* Sockets overflow, drivers die in the middle
  of a dump, upsd restarts and forgets FSD.
* *Timeouts.* MAXAGE with its second of grace, DEADTIME, HOSTSYNC, OBLBDURATION,
  TRACKINGDELAY, noprimarytime and the idle limit each race with the late answer
  they wait for.
* *Processes that start and end on demand.* Runs of upssched overlap with each
  other and with a daemon that exits when idle; two files are all that keeps
  them apart.
* *Everyone waiting on everyone.* The primary waits for the secondaries, they
  for the primary.
* *Limits.* MAXCONN, descriptors (EMFILE), socket buffers.

`PROJECT.json` lists the hazards one by one with the line where each bites and
the properties that would catch it.

What makes each component correct:

* driver link: the copy converges to the driver's tree and keeps nothing old;
  dead drivers are noticed; a live one is served again;
* upsd: logins are counted exactly, FSD is latched, no login outlives its
  client or its UPS, silent clients leave;
* upsmon: no needless shutdown, no missed shutdown;
* shutdown protocol: the primary goes last, and nobody waits for ever;
* processes: the command runs if and only if it was decided;
* tracking: what a client is told is what the driver did, and nobody waits for
  ever for a result;
* upssched: a timer that was started fires once, unless it is cancelled, and
  then never;
* failover: the published data are those of one driver, the best there is;
* parseconf: words arrive as they were sent, and files read as described.

## 2. Modules and their correspondence to the code

`PROJECT.json` `map` gives source lines for each definition. Definitions keep
the C names where an action is a function of the code. Definitions introduced
by a comment `Mutant:` are deliberate bugs, each next to the definition it
spoils; no specification uses them, they show that the properties bite.

**`Upsd`** - the client side of upsd. One pass of `mainloop()` is cut at its
natural places (variable `phase`): the pending reload, the drivers, shedding of
idle clients, filling of the poll array and `poll()`, and serving the ready
descriptors one by one. `place` is the client's position in `firstclient`
(newest first), which decides who is polled when MAXCONN is reached.
`client_disconnect` includes `declogins()`; `conf_reload` is the whole of a
reload: deleted UPSes kick their clients, surviving ones keep `numlogins` and
`fsd`, files that cannot be opened for want of descriptors cost the oldest
clients. Passwords are abstracted to which entry of `upsd.users` a client
knows; commands that alter no session state are one action (`OtherCommand`,
which may still break a driver's socket).

**`LoginService`** - what upsd promises: clients join and leave UPSes, the
count equals the membership, FSD stays while the UPS is configured. `Upsd`
implements it under the mapping at the end of `Upsd`; `Shutdown` is composed
with it, so the protocol is checked against what upsd has been proved to do.

**`DriverLink`** - one driver, one connection, one upsd. The driver is one
thread: a handler first fills `out`, the lines it still has to write, and each
`write()` is a step, so overflow, crash and disconnection may fall into the
middle of a dump. `wire` and `asked` are the two directions of the socket with
limited room. upsd's side is the part of `mainloop()` that looks at a driver
(`scan`), sleeps (`poll`) and reads (`serve`). A write that fails drops the
connection and nothing else (`WriteFails`): `synchronous = auto` never becomes
`yes`, section 6.

**`Upsmon`** - the decision. `PollAnswers` is a status line with the clearing of
flags at the head of `parse_status()`, `ParseWord` one word of it with its
handler and `update_crittimer()`, `Recalc` is `recalc()` over
`is_ups_critical()` of every UPS. `Reload`, `Wake` and `WakeUnread` are the
three ways the flags are rewritten. `heard` and `fresh` are history variables
for the properties. The words a UPS may report and the configurations a file
may hold are constants.

**`UpsmonLoop`** - the same loop reduced to the places where a flag set by a
signal handler is looked at, with the pipe and the privileged parent. The child
ends by its own `exit()`; the parent may be killed.

**`UpsmonWhole`** - `main()`: the monitor of `Upsmon` inside the loop of
`UpsmonLoop`. The two move together where the code has both in one place (the top
of a cycle, with a SIGHUP, a doze or a wake-up; an abandoned polling; the return of
`recalc()`, or a `forceshutdown()` that does not; `sleep()`), and one of them alone
elsewhere. A SIGHUP honoured right before a doze is two steps of the monitor
(`ReloadThenDoze`, `DozeOver`), as the wake-up may read the configuration again.

**`Shutdown`** - several hosts behind one UPS, the upsmon of each reduced to
its connection, last status and timers, composed with `LoginService`.

**`Tracking`** - `upscmd` or `upsrw`, upsd and a driver. A client goes from
SET TRACKING ON to its request, the polling of the id and its end; a request
and upsd's answer are one step, the way to the driver (`todriver`) and back
(`toupsd`) are queues that a lost connection empties. A client's name stands for
its id, since each makes one request. A driver may lack a `setvar` handler, and
what the words of an INSTCMD become on the way is `Understood`.

**`Upssched`** - runs of upssched and the daemons they fork. Each system call on
LOCKFN or PIPEFN is a step of its own, since that is where processes interleave;
a pass of the daemon is `Select`, `Serve` for each ready connection, and
`checktimers`. The list of timers is a function on positions: deleting one leaves
a gap, adding one takes a position behind all others, so only the order counts.
A run that writes to a daemon that has ended is killed (`BrokenPipe`), as upssched
does not ignore SIGPIPE; one that waits for the answer tries again (`ConnectionLost`).
`EmptyWait` counts passes, as `emptyctr` does. `seen`, `fired`,
`ran` and `alone` are history for the properties.

**`Parseconf`** - one context fed one text; each state of the machine is an
operator with the name of the C function, applied to `[state, word, args]`.
Characters are the classes the code tells apart. `pconf_encode` joins the codes of
as many characters as fit (`Coded`, `Fitting`), which is where its loop stops.
**`ParseconfText`** holds the reference to compare it with: where blanks, comments and
words of a text start and end and what they mean, written from the header of
`parseconf.c` and `docs/`, not from the machine. It carries no state from one
character to the next: an item is read from where it starts, a line from its
newlines.

**`Failover`** - `upsdrv_updateinfo()` as a turn over the drivers (`check`,
`read`) and an election (`elect`) that also exports; time passes between turns.
`dstate` is what is published, with the buffers behind `ups.status` and
`ups.alarm`, whose commits are those of `drivers/dstate.c`; `charge_was` is the
charge `main()` noted at the start of the turn, from which `status_commit()` infers
CHRG or DISCHRG (`Trend`). A turn reads whatever lines have come, none
of them (`ReadEnds`), an error (`ReadFails`) or nothing for 3 seconds, which
disconnects the driver (`ReadTimesOut`). `lacking` is history, and so is `leftover`:
the keys that stay published of a primary whose list was freed by a new
connection. `calm`, for liveness, marks that drivers can be reached and send
what they owe, which is all of their dump and the DATAOK after a DATASTALE; a
quiet driver is disconnected then as before.

The modules named `MC...` give constants small values. A module `M_proofs` extends
`M` by its inductive invariant, lemmas and theorems; `Parseconf_proofs` extends
`ParseconfText`, and `Upsmon_proofs` extends `UpsmonWhole`, with the theorems about
the monitor, the loop and the whole in this order.

## 3. Runs

| run | bounds | shows |
|---|---|---|
| `upsd` | 3 clients (a primary's, two secondaries'), 1 UPS that reloads add and delete, MAXCONN 1 or 2 and changing, fairness | counts match logins, no ghost logins, FSD latched, refinement of `LoginService`, silent clients leave, through reloads, EMFILE sacrifices, hang-ups and idle shedding |
| `driverlink` | 2 variables, 2 changes, 1 failure, buffer of 2 lines (a dump has up to 4), prompt and hanging drivers, `synchronous` auto or yes, fairness | the copy never loses a change; the verdict belongs to this connection; a silent driver is noticed; data comes back if the driver writes synchronously or the dump fits the buffer |
| `upsmon` | 1 UPS, 10 status lines, primary or secondary, all timers, an impossible configuration, fairness | no needless shutdown; the HOSTSYNC timer is not renewed; peril ends in shutdown, OBLBDURATION included |
| `upsmon_two` | 2 redundant UPSes, 5 status lines, configurations that drop one, OBLBDURATION off | power values added up: no needless and no missed shutdown |
| `upsmon_whole` | 1 UPS, 4 status lines, primary or secondary, an impossible configuration; any number of signals and sleeps of the OS, parent may die, SHUTDOWNEXIT for ever, fairness | SHUTDOWNCMD only for an FSD signal or for want of power; a decision is carried out; SIGTERM honoured |
| `shutdown` | primary, 2 secondaries (one lingers), HOSTSYNC 2, FINALDELAY 2, 1 fault | the primary goes last |
| `shutdown_live` | primary, 1 secondary, 2 faults of every kind, fairness | it waits as long as it can ask; nobody is held up; FSD and low battery bring all down |
| `tracking` | 2 clients: one that gives up before TRACKINGDELAY, the other alike, more patient than that, or not waiting at all; 1 lost connection, fairness | results are true and of this request, done once; every client ends; what was accepted and understood is handled |
| `upssched` | 2 runs (a START; a START of a shared timer, bogus or not, a CANCEL with or without command, or a listing), 2 daemons, 2 tries, 1 crash, fairness | a timer fires once or is cancelled for good; CANCEL's command tells whether it has passed; no run hangs |
| `parseconf` | texts of up to 5 characters of 7 classes; messages of up to 2 words of 2 characters; limits of 2 words and 2 characters; 3 characters of room for an encoded word | agrees with the reference reading; limits leave nothing behind; messages arrive |
| `failover` | 2 drivers: one that only reports a charge of 60, and a better one (OL, charge 50 or none) whose data change and go stale; fsdmode 0, and fsdmode 2 with a status filter and an order to ignore the better one; fairness | counters right; all of the primary's data published, and nothing else that is not accounted for; best driver elected; fallback entered; fresh data come again and again |
| `failover_grace` | the same, fsdmode 2, noprimarytime 1 | **violation**, section 6 |

*Why these bounds.* Two clients are enough for one to leave while the other
keeps a login on the same UPS; with three and a MAXCONN of 1 or 2 there is
always one left over for the poll array, and the list is cut at head, middle and
end. That one UPS is deleted while another stays is covered by the
proofs (section 5), which hold for any number of both.
Timers are ages that stop one above the largest value compared against, so
larger values behave alike; the durations chosen make every comparison both
true and false and let the timers overlap. In `DriverLink` the buffer holds
fewer lines than a dump has, which is the situation overflow is about; towards
a hung driver there is room for the pings of MAXAGE seconds, as in any real
socket buffer (with less room, upsd would close and reopen the socket before
its clock runs out). Two changes allow one before and one during, or one during
and one after, a dump; a variable that is set and deleted is two different
lines, so one value is enough. In `Upssched` two tries are one in which a daemon
is started and one in which it is used, and `EmptyWait` 2 is the least with
which a daemon can serve anyone: it accepts in one pass and reads in the next.
In `UpsmonWhole` one line of each kind is enough (fine, low, a kept alarm, FSD),
since the flags of one UPS are the subject of `upsmon` and `upsmon_two`; what
counts is that each reason for a decision meets each signal.
In `Parseconf` a text of five characters passes through every pair of states
and reaches both limits. In `Failover` all timeouts are 0 or 1 turns, so that
each is reached while others run, and two charges are enough for one to
look like a change of the other; fsdmode 1, `strict_filtering`, the other ways
of comparing runtime and drivers that set `ups.alarm` are in the model, but no
run has them.
In `Shutdown` one tick is one polling interval: every active host takes its turn
between two ticks, in any order, which is how the code behaves as long as
network calls take less than a polling interval.

*What `OrderlyShutdown` needs.* It is a statement about timing. It holds with
one fault because a secondary whose connection broke polls again within one
interval, and FINALDELAY of two intervals is longer than that. With two faults
at the wrong moments (the connection breaks again, or a login is refused after
it broke) the secondary is counted out while it is still unaware, and the
primary's FINALDELAY is over first. This is the protocol's documented limit:
the only remedy the code has is a longer FINALDELAY.
`WaitsWhileItCanAsk` is the part that needs no timing assumption and is
checked under two faults of every kind.

*Deadlock* is checked in every run but those of `Tracking`, `Upssched` and
`Parseconf`, whose clients come to an end. The final states of `Upsmon`
(`Terminated`) and of `UpsmonLoop` (`BothGone`) stutter by an explicit action.

## 4. Fairness

The liveness runs assume no more than the code's scheduling gives:

* `Upsd`: `mainloop()` is called for ever and each pass ends (a `read()` brings
  one buffer of lines), so WF of a step that moves the pass on; WF of time.
* `DriverLink`: WF of upsd's loop; SF of reading, because `poll()` reports a
  readable descriptor in every pass; SF of `Tick`, because upsd sleeps in
  `poll()`. `DataComesBack` also needs WF of the driver's answers and that it
  reacts within a second (`prompt`): a driver that is slower than MAXAGE is
  stale by definition. And it needs a driver that waits for its reader
  (`synchronous = yes`) or whose dump fits the buffer: otherwise the dump is cut
  off and asked for again for ever, with `auto` as with `no` (section 6).
  `SilenceIsNoticed` assumes nothing of the driver: one that is not `prompt` may hang at any point.
* `Upsmon`: WF of the loop, since each blocking call has a time limit; SF of
  `Tick`, since each cycle sleeps at least a second.
* `Shutdown`: WF of hosts, time, and of a driver's recovery
  (`LowBatteryBringsAllDown` needs no FSD, but somebody must read the status).
  Nothing obliges a lingering upsmon to exit.
* `UpsmonWhole` (and `UpsmonLoop` alone): WF of each process. The child's part is
  its loop, whose blocking calls have time limits; no signal has to arrive, the OS
  does not have to sleep, and no configuration has to be fatal. In `UpsmonLoop`
  alone, which does not know the reasons, `recalc()` need not find the situation
  critical either.
* `Tracking`: WF of each client, of upsd's cleaning and reading, of a connected
  driver's reading (a driver's handler returns) and of reconnection. No client
  has to switch tracking off, and no connection has to break.
* `Upssched`: WF of each process and of time. Nothing has to be notified.
* `Failover`: WF of the turn, as `main()` calls `upsdrv_updateinfo()` for ever and
  each read ends; written as infinitely many steps that move `pc`, which is the
  same here because such a step is possible in every state. `ComesBack` starts
  when `calm` is set: drivers can be reached and their devices answer. SF of
  `Answers`: a driver that is read again and again goes on with what it owes, since
  a dump is finite. A quiet driver is still disconnected by the read timeout,
  so fresh data come back again and again, but need not remain.

## 5. Proofs

Each theorem holds for every value of the constants that satisfies the `ASSUME`s
of its module, which say no more than what kind of thing a constant is (finite
sets, durations in `Nat`, a buffer of at least one line or character); the runs
evaluate them. One theorem, `PrimaryGoesLast`, has a hypothesis of its own. A
proof has an inductive invariant (`IInv`, strengthened where a theorem needs more),
lemmas for the operators, and one case per action.

| theorem | states | along which argument |
|---|---|---|
| `Upsd_proofs`: `LoginsCounted` | `TypeOK`, `LoginsMatch` | `Configured` (a login names a configured UPS, what `delete_ups()` secures by kicking first) and `RestZero`: without them a client logged into an unknown UPS would be counted wrongly once a reload creates it. `LeaveCount` is the cardinality argument behind every way of losing clients. As `numlogins` is natural, the "Programming error" branch of `declogins()` is dead code |
| `FsdStays` | `FsdLatched` | from the same invariant, one case per action |
| `LoginsAreLive` | `NoGhostLogin` | `Listed` (no two clients share a place of the list) and `ServesOnline` (only clients of the list are served): the clients sacrificed for a reload are counted by their places |
| `UpsdImplementsLoginService` | refinement of `LoginService` | `DisconnectLeaves` and `ReloadRedefines` map the two operations that do most to `Leave` and `Redefine`; other steps are `Join`, `Force` or invisible |
| `DriverLink_proofs`: `CopyIsFaithful` | `TypeOK`, `CopyFollowsDriver` | `Copied`: the last line under way about a variable tells what the driver has, or none is under way and upsd has it, or the dump is still to come; `Sockets` and `Fresh` for what has been said before the driver accepts |
| `VerdictIsTheDrivers` | `VerdictIsCurrent` | `Judged`, the same for DATAOK and DATASTALE once the dump was asked for |
| `Upsmon_proofs`: `NoNeedlessShutdown` | `TypeOK`, `ShutdownJustified` | `Remembered` ties the flags of a UPS to the last status it sent, `Parsing` while the words of one are looked at; power values are added up by `MapThenSumSet`, whose monotony is proved (`fewer supplies have no more power`) |
| `NoMissedShutdown`, `PatienceIsNotRenewed` | `NoSleepInPeril`, `CritTimerAges` | the same invariant |
| `CommandIsDecided` | `LoopTypeOK`, `CommandOnlyWhenDecided` of `UpsmonLoop` | `Traces` (where a decision can be found: place, byte, flag) and `ClosedByExit` (end of file on the pipe means that the child is gone) |
| `DecisionIsNotLost` | `DecisionUnderWay`: the byte is about to be written, in the pipe or acted on, or the parent is dead | `ParentHasRead` (what the parent did tells what is in the pipe) |
| `WholeImplements` | `UpsmonWhole` implements `Upsmon` and `UpsmonLoop` | `WholeStep`: each action of the whole is an action of each part, or leaves its variables alone. All the theorems above hold of the whole by it |
| `WholeJustified` | `CommandJustified` | `WholeInv`: the invariants of both parts, `Placed` (the place in the loop tells the state of the monitor) and `Reason` (a decision is due to a pending FSD or to a monitor that stopped in `forceshutdown()`, and stays so): neither part alone knows why the parent is told to act |
| `Shutdown_proofs`: `PrimaryWaits` | `WaitsWhileItCanAsk` | `Logins`: the count is the membership of `LoginService`, and members are connected |
| `PrimaryGoesLast` | `OrderlyShutdown`, if `Mild` | `Mild`: only secondaries' links and logins fail, fewer times than FINALDELAY has intervals (section 3). `UnawareFailed` counts: a secondary that does not know yet met a fault in every interval since FSD |
| `Tracking_proofs`: `RequestsRunOnce`, `ResultsAreTrue`, `UnknownsAreTrue` | `TypeOK`, `HandledOnce`, `ResultIsTrue`, `UnknownIsTrue` | `UnderWayOnce`, `ReportsTrue` and `EntriesTrue` follow a request through both queues and the list; `Kept` (a client's entry is no older than its wait) is what keeps ERR UNKNOWN from a client whose patience is within TRACKINGDELAY + 1 (an entry goes when it is older than TRACKINGDELAY, in whole seconds) |
| `RequestsAreNotLost` | `NothingLost`: what was accepted is under way or carried out, unless dropped or the connection lost | on top of the same invariant |
| `Upssched_proofs`: `TimersFireOnce` | `TypeOK`, `FiresOnce` | `Answers`, `Queue` and `InOneTimer`: a request is in at most one timer, of one daemon, and only if it was answered, so that one which is repeated was not carried out before |
| `CancelEndsTimers`, `CommandTells` | `CancelIsFinalAlone`, `CommandTellsPassed` | `Lonely` (with one daemon at a time PIPEFN is its socket), `CancelledForGood`, `NotLost`, `Tells` |
| `StartedTimersAreHeld` | without a crash, a confirmed timer has fired, was cancelled or is held by a daemon at work | `NotLost` and `Queue`: a daemon that has a timer does not exit |
| `Failover_proofs`: `CountersAreRight` | `TypeOK`, `CountsAreRight` | each change of a flag changes one cardinality |
| `FallbackInTime` | `FallbackIsEntered` | `ClockRuns`: the time since the last primary keeps up with the turns without one |
| `PublishedIsThePrimarys` | `PublishedIsPrimary` | `Published`: every key published is the primary's, waits to be exported, or is in `leftover`, which only fsdmode 0 fills, as it keeps a primary that is lost (`PrimaryLost`); `Bare`: after `ups_clean_dstate()` nothing but `leftover` is there, so neither an older primary nor an older run can show through; `Added`: what `status_commit()` may add; `UpToDate` says when nothing waits |
| `TheBestIsElected` | `FreshIsPreferred` | what `best_choice` returns after any prefix of the list |
| `Parseconf_proofs`: `WordsAreClean` | `TypeOK`, `WordsStartEmpty` | `TypeOK` with the limits and `WordsStartEmpty` are inductive together; `CharGood` has one case per state and character |
| `MessagesComeThrough` | `MessagesArrive` | `Sending`: how far a message was read determines state, word and words. `TextIs`, `PartIs` and `CodeIs` say what stands where in it, `OutOfRoom` that nothing is left out while there is room |
| `TextsAreRead` | `ReadsAsDescribed` | `TextInv`: the machine is always inside an item of the text, or between two, and has kept what the reference reads in the part before (`InItem`; `WordStep`, `CommentStep` and `StartStep` have one case per state and character), and the lines returned are those that end before it (`TextRead`) |

*Induction over data* is not available to the installed provers as a theorem.
Where a proof needs it for one operator (sums of power values, the loop of an
election, the concatenations of `Parseconf`, where items of a text start) it takes the least counterexample of
a set of numbers instead, and a table of intermediate results in place of a
recursive definition.

*Only model-checked.* All liveness (`SilentClientsLeave`, `SilenceIsNoticed`,
`DataComesBack`, `PerilEndsInShutdown`, `DecisionIsCarriedOut`, `TermIsHonoured`,
`NobodyHeldUp`, `FsdBringsAllDown`, `LowBatteryBringsAllDown`, `ClientsEnd`,
`UnderstoodIsHandled`, `ClientsReturn`, `StartedTimersEnd`, `ComesBack`): fairness
is beyond the prover. Of three of them the safety part is proved, that what is
waited for cannot get lost (`DecisionIsNotLost`, `RequestsAreNotLost`,
`StartedTimersAreHeld`). Every invariant and action property of a passing run is
proved.

## 6. Where the code and its documentation disagree

One run ends with a counterexample to a manual page; `findings` in
`PROJECT.json` quotes the lines.

* `failover_grace` (`GraceIsGiven`): `upsdrv_updateinfo()` resets
  `primaries_gone_time` only if the fallback had been entered. After a spell
  without a primary that was shorter than `noprimarytime` the time stays, and the
  next such spell, hours later, enters the fallback in its first turn; with
  fsdmode 2 that is FSD.

The models show further ones. They are formulas next to the other properties;
the first nine have a configuration of their own with which TLC refutes them,
the others fail on one or two clients, UPSes or hosts:

* `RelaxedOnlyWhenSafe` (`UpsmonPace.cfg`): `flag_isset()` wants all bits of a
  mask, `try_restore_pollfreq()` expects any ("Use relaxed pollfreq if we are not
  in a hardware power state that is prone to UPS disappearance",
  `upsmon.c:238`), so one UPS leaving an alarm relaxes the polling although
  another condition still calls for the fast one.
* `FsdSignalIsObeyed` (`UpsmonLoopFsd.cfg`): an FSD signal between
  `end_loop_cycle` and the loop condition ends upsmon without shutdown
  (`docs/man/upsmon.txt:37`: "shutdown all primary-mode UPSes").
* `WaitsForSecondaries` (`ShutdownBlind.cfg`): a NUMLOGINS query that is refused
  because the data are stale counts as "all secondaries gone", whereas the
  comment at `upsmon.c:1325` has the primary wait "until all secondaries log out
  [...] or the HOSTSYNC timeout expires". It also fails if the primary's own
  LOGIN was refused (`Faults = {"login"}`): the one login left is a secondary's.
* `CancelIsFinal` (`UpsschedRace.cfg`): a run that finds the lock taken removes it,
  so a third run may take it before the first has its socket; `open_sock()` then
  removes the socket of the daemon that holds the timers, and a CANCEL never
  reaches them. `docs/man/upssched.conf.txt:82` says the lock is there "to avoid
  a race condition when two events are dispatched from upsmon at nearly the same
  time". As long as there is one daemon at a time, `CancelIsFinalAlone` holds.
* `EofForcesParsing` (`ParseconfEof.cfg`): "reaching EOF will also force parsing on
  what's been scanned so far" (`parseconf.c:59`), but `pconf_file_next()` drops a
  last line that consists of one word without a newline.
* `AutoFallsBack` (`DriverLinkAuto.cfg`): `docs/man/ups.conf.txt:168` has drivers
  "fall back to synchronous mode if writes to server socket failed (i.e
  synchronous=auto)". `send_to_one()` reports the failure with
  `upsdebug_with_errno()`, which ends in `vupslog()`, and that sets `errno` to 0
  (`common.c:4071`), before it asks for `errno == EAGAIN` (`dstate.c:554`; so does
  `send_to_all()`, 402). The driver stays asynchronous, and a dump that exceeds the
  buffer never gets through.
* `NothingLeftOver` (`FailoverLeft.cfg`): `docs/man/failover.txt:43` says failover
  "ensures that any data is switched out instantly". Under fsdmode 0 a primary
  that is lost stays primary, and connecting to it anew frees the list by which
  `ups_clean_dstate()` would remove its variables; what its new run, or the next
  primary, does not speak of stays published. `leftover` holds exactly these keys.
* `StatusIsThePrimarys` (`FailoverTrend.cfg`): `status_commit()` compares the charge
  of the new primary with that of the old one, and makes up CHRG or DISCHRG, which
  stays until the status is exported again; `docs/man/failover.txt:28` presents the
  primary's status "as if it were directly talking to that UPS".
* `QuietIsNotDead` (`FailoverQuiet.cfg`): a driver that is silent for 3 seconds is
  disconnected as if its socket had failed, so `deadtime` ("a grace period in
  seconds after which a non-responsive UPS driver is considered dead. Defaults to
  30 seconds", `docs/man/failover.txt:75`) is not waited for.
* `AcceptedIsHandled` (`Tracking`): `send_instcmd()` escapes the parameter but does
  not quote it, so one with a space in it arrives as two words, which
  `sock_arg()` rejects, or takes for something else, without a result.
* `sendcmd()` has a branch "write failed, trying again" (`upssched.c:2058`), which a
  daemon that ended does not lead to: the write raises SIGPIPE, which is not
  ignored (upsmon's handler does not survive `exec`), and the event is lost.
* `upssched.conf(5)` documents `CANCEL-TIMER-MATCHED`; the daemon knows
  CANCEL-MATCHED, but `parse_at()` has no such command and never sends it.
* `ConnectedClientsArePolled` (`Upsd`): the poll array takes drivers first, so
  at MAXCONN a driver that reconnects displaces an established client, which is
  then shed as idle, whereas `upsd.conf(5)` speaks of new clients only.
* `StaleDataIsWithheld` (`DriverLink`): for `MAXAGE < elapsed <= MAXAGE + 1`
  `sstate_dead()` returns before it looks at `data_ok`; data the driver declared
  stale counts as fresh for that second.
* `PrimaryKeepsItsRole` (`Upsmon`): a wake-up clears all flags; if `upsmon.conf`
  then cannot be opened, a primary goes on as a secondary.
* `ReconnectsAfterDisconnect` (`Upsmon`): the same wake-up forgets connections
  without closing them.

## 7. Not modelled

Hardware protocols, CGI programs, scanners, the C++ libraries and the Windows
port: see the notes in `PROJECT.json`. Within modelled parts: TLS, notification
texts and NOTIFYCMD, replace-battery reminders, `upsmon -p` (one process),
commands, ranges and enums of the driver protocol; a child of upsmon that is killed
between its decision and the byte for the parent; `ignorelb`, with which
`status_commit()` adds LB by charge or runtime.

Some 95 % of the repository's lines are drivers of particular devices (tables and
protocols of hardware), generated or platform code and tools; a model of one of
them would have the device, which is not in the repository, as its only partner.
That is why the map covers few per cent of all lines.

## 8. Plan

Done, with proofs: `LoginService`, `Upsd`, `Upsmon`, `UpsmonLoop`, `UpsmonWhole`,
`Shutdown`, `DriverLink`, `Tracking`, `Upssched`, `Parseconf`, `Failover`. Every
invariant and action property of a passing run is proved (section 5). Left open:

1. Composition of `DriverLink` with a client's view (the `WAIT` status), and
   several connections to one driver (`send_to_all()` re-entered).
2. `upsdrvctl` and the driver's own signal handling.
3. A refinement of `Shutdown`'s hosts by `UpsmonWhole`: the protocol of several
   hosts takes from each upsmon that it learns of FSD and of a low battery, which
   `NoSleepInPeril` and `DecisionIsNotLost` say of one.
