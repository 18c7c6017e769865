----------------------------- MODULE UpsmonLoop -----------------------------
(***************************************************************************)
(* The two processes of upsmon (clients/upsmon.c) and their signals: the   *)
(* unprivileged child runs the main loop, the privileged parent does       *)
(* nothing but wait on a pipe for one byte, write the POWERDOWNFLAG file   *)
(* and call SHUTDOWNCMD.  Signal handlers run between any two statements   *)
(* of the child and only set flags; what matters is which flag is looked   *)
(* at where.  Polling is reduced to its outcome: recalc() decides for a    *)
(* shutdown or it does not (module Upsmon), and the work of                *)
(* forceshutdown() before doshutdown() is module Shutdown's.  UpsmonWhole  *)
(* puts this module and Upsmon together, so no name occurs in both.  The   *)
(* child ends by its own exit() only; that it is killed is not modelled.   *)
(***************************************************************************)
EXTENDS Integers

CONSTANTS
    LingerForEver, \* SHUTDOWNEXIT is negative: upsmon stays after SHUTDOWNCMD
    ParentMayDie,  \* whether the parent can be killed
    OsSleeps       \* whether the OS tells upsmon of its sleep

ASSUME OptionAssumption == {LingerForEver, ParentMayDie, OsSleeps} \subseteq BOOLEAN

VARIABLES
    place,        \* place in the child's main loop
    exit_flag,    \* 0, the number of a signal, or -1
    userfsd,      \* "upsmon -c fsd" was received
    reload_flag,  \* SIGHUP was received
    pipe,         \* bytes in the pipe: "empty", "byte" or "closed" (child gone)
    parent,       \* "waiting", "flagged", "called", "gone" (it left) or "dead"
    pdflag,       \* the POWERDOWNFLAG file exists
    decided,      \* history: the child decided for a shutdown
    terminated    \* history: SIGTERM was received

flags == <<exit_flag, userfsd, reload_flag>>
loopVars == <<place, flags, pipe, parent, pdflag, decided, terminated>>

SIGTERM == 15

\* main() ran clear_pdflag() and start_pipe() already.
LoopInit ==
    /\ place = "while"
    /\ exit_flag = 0 /\ userfsd = FALSE /\ reload_flag = FALSE
    /\ pipe = "empty" /\ parent = "waiting" /\ pdflag = FALSE
    /\ decided = FALSE /\ terminated = FALSE

-----------------------------------------------------------------------------
(* Signals, at any time while the child runs *)

Runs == place # "exit"

set_exit_flag ==
    /\ Runs
    /\ exit_flag' = SIGTERM /\ terminated' = TRUE
    /\ UNCHANGED <<place, userfsd, reload_flag, pipe, parent, pdflag, decided>>

user_fsd ==
    /\ Runs
    /\ userfsd' = TRUE
    /\ exit_flag' = -1
    /\ UNCHANGED <<place, reload_flag, pipe, parent, pdflag, decided, terminated>>

set_reload_flag ==
    /\ Runs
    /\ reload_flag' = TRUE
    /\ UNCHANGED <<place, exit_flag, userfsd, pipe, parent, pdflag, decided, terminated>>

-----------------------------------------------------------------------------
(* The child *)

Goes(from, to) == /\ place = from /\ place' = to
                  /\ UNCHANGED <<parent, pdflag, terminated>>

\* exit(): the pipe is closed, after what was written to it.
Leaves == pipe' = IF pipe = "empty" THEN "closed" ELSE pipe

\* while (exit_flag == 0)
LoopBegins ==
    /\ Goes("while", "top") /\ exit_flag = 0
    /\ UNCHANGED <<flags, pipe, decided>>

LoopEnds ==
    /\ Goes("while", "exit") /\ exit_flag # 0
    /\ Leaves
    /\ UNCHANGED <<flags, decided>>

\* if (userfsd) forceshutdown()
HonourFsd ==
    /\ Goes("top", "shutdown") /\ userfsd
    /\ decided' = TRUE
    /\ UNCHANGED <<flags, pipe>>

\* Otherwise reload if asked to, and poll or, when the OS prepares for sleep, doze.
NoFsd(to) ==
    /\ Goes("top", to) /\ ~userfsd
    /\ to = "doze" => OsSleeps
    /\ reload_flag' = FALSE
    /\ UNCHANGED <<exit_flag, userfsd, pipe, decided>>

\* Dozing ends because the OS woke up, or a flag was raised.
DozeEnds ==
    /\ Goes("doze", IF exit_flag # 0 THEN "exit" ELSE "poll")
    /\ IF exit_flag # 0 THEN Leaves ELSE UNCHANGED pipe
    /\ reload_flag' = FALSE
    /\ UNCHANGED <<exit_flag, userfsd, decided>>

\* reload_conf(), for SIGHUP or after a sleep: a configuration that cannot be
\* used is fatal.
FatalReload ==
    /\ \/ Goes("top", "exit") /\ ~userfsd
       \/ Goes("doze", "exit") /\ exit_flag = 0
    /\ Leaves
    /\ UNCHANGED <<flags, decided>>

\* pollups() and recalc(), which may find the situation critical.
RecalcCritical ==
    /\ Goes("poll", "shutdown")
    /\ decided' = TRUE
    /\ UNCHANGED <<flags, pipe>>

RecalcFine ==
    /\ Goes("poll", "rest")
    /\ UNCHANGED <<flags, pipe, decided>>

\* The polling is abandoned as the OS prepares for sleep.
AbandonPolling ==
    /\ OsSleeps
    /\ Goes("poll", "end")
    /\ UNCHANGED <<flags, pipe, decided>>

\* if (userfsd) goto end_loop_cycle; otherwise sleep() until time or a signal.
Rest ==
    /\ Goes("rest", "end")
    /\ UNCHANGED <<flags, pipe, decided>>

\* Mutant: the flag is taken back whoever raised it.
EndForgettingFlag ==
    /\ Goes("end", "while")
    /\ exit_flag' = 0
    /\ UNCHANGED <<userfsd, reload_flag, pipe, decided>>

\* end_loop_cycle: if (exit_flag < 0 && userfsd) exit_flag = 0
end_loop_cycle ==
    /\ Goes("end", "while")
    /\ exit_flag' = IF exit_flag < 0 /\ userfsd THEN 0 ELSE exit_flag
    /\ UNCHANGED <<userfsd, reload_flag, pipe, decided>>

\* Mutant: SIGTERM takes the decision back.
DoshutdownUnlessExit ==
    /\ Goes("shutdown", "linger")
    /\ pipe' = IF parent = "dead" \/ exit_flag > 0 THEN pipe ELSE "byte"
    /\ UNCHANGED <<flags, decided>>

\* doshutdown(): FINALDELAY, then the byte for the parent.  If the parent is
\* dead the write fails, which is only logged.
doshutdown ==
    /\ Goes("shutdown", "linger")
    /\ pipe' = IF parent = "dead" THEN pipe ELSE "byte"
    /\ UNCHANGED <<flags, decided>>

\* do { ... } while (!exit_flag && shutdownexitdelay != 0), with a break when a
\* positive SHUTDOWNEXIT is over: at once, after some time or on a signal only.
LingerEnds ==
    /\ Goes("linger", "exit")
    /\ exit_flag # 0 \/ ~LingerForEver
    /\ Leaves
    /\ UNCHANGED <<flags, decided>>

Child == \/ LoopBegins \/ LoopEnds \/ HonourFsd \/ (\E to \in {"poll", "doze"} : NoFsd(to))
         \/ DozeEnds \/ RecalcFine \/ AbandonPolling \/ Rest \/ end_loop_cycle
         \/ doshutdown \/ LingerEnds

-----------------------------------------------------------------------------
(* The parent *)

Read == parent = "waiting" /\ UNCHANGED <<place, flags, decided, terminated>>

\* Mutant: the end of the pipe passes for the byte.
ParentFlagsAtEnd ==
    /\ Read /\ pipe # "empty"
    /\ parent' = "flagged" /\ pdflag' = TRUE
    /\ UNCHANGED pipe

\* runparent(): the byte arrived; set_pdflag() comes before the command.
ParentFlags ==
    /\ Read /\ pipe = "byte"
    /\ parent' = "flagged" /\ pdflag' = TRUE
    /\ UNCHANGED pipe

\* set_pdflag() cannot create the file: logged only.
FlagFails ==
    /\ Read /\ pipe = "byte"
    /\ parent' = "flagged"
    /\ UNCHANGED <<pipe, pdflag>>

\* system(shutdowncmd)
ParentCalls ==
    /\ parent = "flagged"
    /\ parent' = "called"
    /\ UNCHANGED <<place, flags, pipe, pdflag, decided, terminated>>

\* read() returned nothing: the child exited.
ParentLeaves ==
    /\ Read /\ pipe = "closed"
    /\ parent' = "gone"
    /\ UNCHANGED <<pipe, pdflag>>

ParentDies ==
    /\ ParentMayDie /\ parent = "waiting"
    /\ parent' = "dead"
    /\ UNCHANGED <<place, flags, pipe, pdflag, decided, terminated>>

Parent == ParentFlags \/ ParentCalls \/ ParentLeaves

\* Both are gone, or the parent waits for the command's effect.
BothGone == place = "exit" /\ parent \in {"called", "gone", "dead"} /\ UNCHANGED loopVars

LoopNext == \/ Child \/ RecalcCritical \/ FatalReload \/ Parent \/ FlagFails \/ ParentDies
            \/ set_exit_flag \/ user_fsd \/ set_reload_flag \/ BothGone

LoopSpec == LoopInit /\ [][LoopNext]_loopVars

\* Both processes are scheduled; nobody has to send a signal.
LoopFairSpec == LoopSpec /\ WF_loopVars(Child) /\ WF_loopVars(Parent)

-----------------------------------------------------------------------------
(* Properties *)

\* Every variable keeps to its domain: exit_flag is 0, -1 or a signal number.
LoopTypeOK ==
    /\ place \in {"while", "top", "doze", "poll", "rest", "end", "shutdown", "linger", "exit"}
    /\ exit_flag \in {0, -1, SIGTERM}
    /\ {userfsd, reload_flag, pdflag, decided, terminated} \subseteq BOOLEAN
    /\ pipe \in {"empty", "byte", "closed"}
    /\ parent \in {"waiting", "flagged", "called", "gone", "dead"}

\* A false start of the privileged part: SHUTDOWNCMD is called, or the
\* POWERDOWNFLAG file written, only after the child decided for a shutdown; an
\* exit of the child, for whatever signal, is never taken for that decision.
CommandOnlyWhenDecided ==
    parent \in {"flagged", "called"} \/ pdflag => decided

\* The decision for a shutdown is carried out: no signal a handler is installed
\* for, SIGTERM included, and no exit of the child takes it back, unless the
\* parent is dead ("shutdown impossible", check_parent()).  A child that is
\* killed between its decision and the byte for the parent is not modelled.
DecisionIsCarriedOut ==
    decided ~> (parent \in {"called", "dead"})

\* SIGTERM ends the child, however signals are mixed; a later FSD signal may
\* override it, but then upsmon ends with the shutdown.
TermIsHonoured ==
    terminated ~> (place = "exit" \/ userfsd \/ decided)

\* docs/man/upsmon.txt:37 on "upsmon -c fsd": "shutdown all primary-mode UPSes";
\* clients/upsmon.c:2992: the exit_flag it raises is reset, so upsmon does not
\* just exit.
FsdSignalIsObeyed ==
    userfsd ~> (decided \/ terminated)
=============================================================================
