---------------------------- MODULE UpsmonWhole ----------------------------
(***************************************************************************)
(* upsmon put together: main() of clients/upsmon.c, with the monitor of    *)
(* module Upsmon inside the loop of module UpsmonLoop.  A step of the      *)
(* whole is a step of one of them, or of both where they meet: at the top  *)
(* of the loop, where polling is abandoned, where recalc() returns or does *)
(* not, and after sleep().                                                 *)
(***************************************************************************)
EXTENDS Upsmon, UpsmonLoop

wholeVars == <<vars, loopVars>>

WholeInit == Init /\ LoopInit

\* The configuration is read again because of SIGHUP.
HonourHup == reload_flag /\ Reload

\* A cycle begins, at once or after a doze (with what a SIGHUP before the doze
\* made of the monitor).
Cycle ==
    /\ NoFsd("poll") \/ (DozeEnds /\ place' = "poll")
    /\ \/ StartPolling \/ HonourHup \/ Wake \/ WakeUnread
       \/ pc = "poll" /\ UNCHANGED vars
    /\ pc' = "poll"

\* SIGHUP is honoured and then the OS prepares for sleep.
ReloadThenDoze == NoFsd("doze") /\ HonourHup /\ pc' = "poll"

\* After that the configuration can be read once more, by another SIGHUP or the
\* end of the OS's sleep.
DozeOver == place = "doze" /\ AbortPolling /\ UNCHANGED loopVars

\* The new configuration has too little power, or reading it is fatal.
CycleFatal ==
    /\ FatalReload
    /\ ((HonourHup \/ Wake) /\ pc' = "exit") \/ UNCHANGED vars

\* for (ups = firstups; ...) pollups(ups)
Polling ==
    /\ place = "poll"
    /\ PollStep \/ ParseWord \/ ParseDone \/ AllPolled
    /\ UNCHANGED loopVars

Abandoned == AbandonPolling /\ AbortPolling

\* recalc() calls forceshutdown(), which does not return, or returns.
RecalcWhole ==
    /\ Recalc
    /\ \/ RecalcCritical /\ pc' = "shutdown"
       \/ RecalcFine /\ pc' = "sleep"

Sleeps == Rest /\ EndOfCycle

\* Steps the monitor has no part in: of the child, of the parent, of others.
ChildAside ==
    /\ \/ LoopBegins \/ LoopEnds \/ HonourFsd \/ NoFsd("doze") \/ (DozeEnds /\ place' = "exit")
       \/ end_loop_cycle \/ doshutdown \/ LingerEnds
    /\ UNCHANGED vars

ParentAside == Parent /\ UNCHANGED vars

OthersAside ==
    /\ \/ FlagFails \/ ParentDies
       \/ set_exit_flag \/ user_fsd \/ set_reload_flag \/ BothGone
    /\ UNCHANGED vars

TimePasses == Tick /\ Runs /\ UNCHANGED loopVars

ChildWhole == \/ Cycle \/ ReloadThenDoze \/ DozeOver \/ Polling
              \/ RecalcWhole \/ Sleeps \/ ChildAside

WholeNext == \/ ChildWhole \/ CycleFatal \/ Abandoned
             \/ ParentAside \/ OthersAside \/ TimePasses

WholeSpec == WholeInit /\ [][WholeNext]_wholeVars

\* Both processes are scheduled; every blocking call of the child has a time
\* limit, so its loop goes on.
WholeFairSpec == WholeSpec /\ WF_wholeVars(ChildWhole) /\ WF_wholeVars(ParentAside)

-----------------------------------------------------------------------------
(* Properties *)

\* From the last status of each UPS to the privileged parent: SHUTDOWNCMD is
\* called, or POWERDOWNFLAG written, only if "upsmon -c fsd" was received or the
\* UPSes whose last status was a plain OL, and those never heard, do not
\* provide MINSUPPLIES, whatever signals, deaths, losses of connections,
\* reloads and wake-ups went before.
CommandJustified ==
    parent \in {"flagged", "called"} \/ pdflag =>
        userfsd \/ Power(conf, {u \in Monitored : Fine(heard[u])}) < conf.minsupplies
=============================================================================
