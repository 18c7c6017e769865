------------------------------ MODULE Tracking ------------------------------
(***************************************************************************)
(* Instant commands and settings, from upscmd or upsrw through upsd to the *)
(* driver and back (clients/upscmd.c, server/netinstcmd.c,                 *)
(* server/netset.c, server/upsd.c, server/sstate.c, drivers/dstate.c).     *)
(*                                                                         *)
(* upsd answers OK as soon as it has passed the request on.  A client that *)
(* wants to know what became of it turns tracking on, is given an id, and  *)
(* asks for its status every second until it is no longer PENDING or its   *)
(* own patience ends; upsd forgets an id after TRACKINGDELAY.              *)
(*                                                                         *)
(* Each client makes one request, so its name stands for the id too: ids   *)
(* are random and do not collide.  A request to upsd and its answer are    *)
(* one step, upsd being single-threaded; a client that gets no answer in   *)
(* time fails, which the timeout stands for.                               *)
(***************************************************************************)
EXTENDS Naturals, Sequences

CONSTANTS
    Client,         \* runs of upscmd and upsrw
    Requests,       \* what they may be run for, together
    Results,        \* what the driver's handler may return
    TrackingDelay,  \* TRACKINGDELAY
    MaxBreaks       \* bound: times the connection to the driver is lost

\* Values of STAT_* but STAT_PENDING.
Status == {"HANDLED", "UNKNOWN", "INVALID", "FAILED", "CONVERSION_FAILED"}

\* kind: INSTCMD-WORDS is INSTCMD with a parameter that has a space in it;
\* wants: option -w, the result is waited for; timeout: option -t.
Request == [kind : {"SET", "INSTCMD", "INSTCMD_WORDS"}, wants : BOOLEAN, timeout : Nat]

ASSUME RequestAssumption == Requests \subseteq [Client -> Request] /\ Results \subseteq Status
ASSUME DelayAssumption   == TrackingDelay \in Nat
ASSUME BoundAssumption   == MaxBreaks \in Nat

VARIABLES
    \* clients
    pc,        \* "start", "ask", "poll", "nap" or "over"
    request,   \* what is asked for
    waited,    \* seconds since the request was accepted
    result,    \* what the user is told
    \* upsd
    tracking,          \* client->tracking
    tracking_enabled,
    tracking_list,     \* entries [id, status, age]: ids differ, so their order tells nothing
    \* the connection between upsd and the driver
    link, todriver, toupsd,
    \* the driver
    hassetvar, \* upsh.setvar is there
    handled,   \* what the driver did for a client: times and last status
    breaks

clientVars == <<pc, request, waited, result>>
upsdVars   == <<tracking, tracking_enabled, tracking_list>>
linkVars   == <<link, todriver, toupsd>>
driverVars == <<hassetvar, handled>>
vars == <<clientVars, upsdVars, linkVars, driverVars, breaks>>

-----------------------------------------------------------------------------
\* Answers of upsd, with _ where they have a blank or a hyphen.
Errors == {"ERR_UNKNOWN", "ERR_INVALID_ARGUMENT", "ERR_FAILED"}

Init ==
    /\ pc = [c \in Client |-> "start"]
    /\ request \in Requests
    /\ waited = [c \in Client |-> 0] /\ result = [c \in Client |-> "nothing"]
    /\ tracking = [c \in Client |-> FALSE] /\ tracking_enabled = FALSE
    /\ tracking_list = {}
    /\ link = TRUE /\ todriver = <<>> /\ toupsd = <<>>
    /\ hassetvar \in BOOLEAN
    /\ handled = [c \in Client |-> [times |-> 0, status |-> "none"]]
    /\ breaks = 0

-----------------------------------------------------------------------------
(* The list of upsd *)

tracking_add(id) ==
    tracking_list \cup (IF tracking_enabled THEN {[id |-> id, status |-> "PENDING", age |-> 0]} ELSE {})

Entries(id) == {e \in tracking_list : e.id = id}

tracking_set(id, status) ==
    (tracking_list \ Entries(id)) \cup {[e EXCEPT !.status = status] : e \in Entries(id)}

\* What the status of an entry is called in the answer.
Told(status) ==
    CASE status = "PENDING" -> "PENDING"
      [] status = "HANDLED" -> "SUCCESS"
      [] status = "UNKNOWN" -> "ERR_UNKNOWN"
      [] status \in {"INVALID", "CONVERSION_FAILED"} -> "ERR_INVALID_ARGUMENT"
      [] status = "FAILED" -> "ERR_FAILED"

tracking_get(id) ==
    IF Entries(id) = {} THEN "ERR_UNKNOWN" ELSE Told((CHOOSE e \in Entries(id) : TRUE).status)

\* tracking_cleanup(), at each turn of mainloop().
tracking_cleanup ==
    /\ \E e \in tracking_list : e.age > TrackingDelay
    /\ tracking_list' = {e \in tracking_list : e.age <= TrackingDelay}
    /\ UNCHANGED <<clientVars, tracking, tracking_enabled, linkVars, driverVars, breaks>>

-----------------------------------------------------------------------------
(* Clients, and upsd's answers to them *)

\* main() of upscmd and upsrw, net_set(): SET TRACKING ON.
TrackingOn(c) ==
    /\ pc[c] = "start" /\ request[c].wants
    /\ tracking_enabled' = TRUE
    /\ tracking' = [tracking EXCEPT ![c] = TRUE]
    /\ pc' = [pc EXCEPT ![c] = "ask"]
    /\ UNCHANGED <<request, waited, result, tracking_list, linkVars, driverVars, breaks>>

\* Mutant: the others that use tracking are forgotten.
OffForAll(c) ==
    /\ pc[c] \in {"poll", "nap"} /\ tracking[c]
    /\ tracking_enabled' = FALSE
    /\ tracking' = [tracking EXCEPT ![c] = FALSE]
    /\ UNCHANGED <<clientVars, tracking_list, linkVars, driverVars, breaks>>

\* net_set(): SET TRACKING OFF, which a client may send at any time.
\* tracking_disable() finds out whether the list is still of use to someone
\* else, but leaves tracking_enabled as it is.
TrackingOff(c) ==
    /\ pc[c] \in {"poll", "nap"} /\ tracking[c]
    /\ tracking' = [tracking EXCEPT ![c] = FALSE]
    /\ UNCHANGED <<clientVars, tracking_enabled, tracking_list, linkVars, driverVars, breaks>>

Ready(c) == pc[c] = "ask" \/ (pc[c] = "start" /\ ~request[c].wants)

\* send_instcmd() and set_var(): the driver is not connected;
NotAvailable(c) ==
    /\ Ready(c) /\ ~link
    /\ result' = [result EXCEPT ![c] = "ERR_DRIVER_NOT_CONNECTED"]
    /\ pc' = [pc EXCEPT ![c] = "over"]
    /\ UNCHANGED <<request, waited, upsdVars, linkVars, driverVars, breaks>>

\* Mutant: nothing is written while another request is under way.
PassOnIdle(c) ==
    /\ Ready(c) /\ link
    /\ tracking_list' = IF tracking[c] THEN tracking_add(c) ELSE tracking_list
    /\ todriver' = IF todriver = <<>> THEN <<c>> ELSE todriver
    /\ result' = [result EXCEPT ![c] = "OK"]
    /\ pc' = [pc EXCEPT ![c] = IF request[c].wants THEN "poll" ELSE "over"]
    /\ UNCHANGED <<request, waited, tracking, tracking_enabled, link, toupsd, driverVars, breaks>>

\* the request is passed on, with the id if there is one, and accepted;
PassOn(c) ==
    /\ Ready(c) /\ link
    /\ tracking_list' = IF tracking[c] THEN tracking_add(c) ELSE tracking_list
    /\ todriver' = Append(todriver, c)
    /\ result' = [result EXCEPT ![c] = "OK"]
    /\ pc' = [pc EXCEPT ![c] = IF request[c].wants THEN "poll" ELSE "over"]
    /\ UNCHANGED <<request, waited, tracking, tracking_enabled, link, toupsd, driverVars, breaks>>

\* sstate_sendline() fails: the connection is dropped, the entry stays.
SendFails(c) ==
    /\ Ready(c) /\ link /\ breaks < MaxBreaks
    /\ tracking_list' = IF tracking[c] THEN tracking_add(c) ELSE tracking_list
    /\ link' = FALSE /\ todriver' = <<>> /\ toupsd' = <<>>
    /\ breaks' = breaks + 1
    /\ result' = [result EXCEPT ![c] = "ERR_FAILED_TO_SEND"]
    /\ pc' = [pc EXCEPT ![c] = "over"]
    /\ UNCHANGED <<request, waited, tracking, tracking_enabled, driverVars>>

\* Mutant: only success ends it, and the clock starts again at each question.
PollUntilSuccess(c) ==
    /\ pc[c] = "poll" /\ waited[c] < request[c].timeout
    /\ result' = [result EXCEPT ![c] = IF tracking[c] THEN tracking_get(c) ELSE "ERR_FEATURE_NOT_CONFIGURED"]
    /\ pc' = [pc EXCEPT ![c] = IF result'[c] # "SUCCESS" THEN "nap" ELSE "over"]
    /\ waited' = [waited EXCEPT ![c] = 0]
    /\ UNCHANGED <<request, upsdVars, linkVars, driverVars, breaks>>

\* do_cmd(), net_get(): GET TRACKING, then a second's sleep if it is pending.
Poll(c) ==
    /\ pc[c] = "poll" /\ waited[c] < request[c].timeout
    /\ result' = [result EXCEPT ![c] = IF tracking[c] THEN tracking_get(c) ELSE "ERR_FEATURE_NOT_CONFIGURED"]
    /\ pc' = [pc EXCEPT ![c] = IF result'[c] = "PENDING" THEN "nap" ELSE "over"]
    /\ UNCHANGED <<request, waited, upsdVars, linkVars, driverVars, breaks>>

TimesOut(c) ==
    /\ pc[c] = "poll" /\ waited[c] >= request[c].timeout
    /\ result' = [result EXCEPT ![c] = "timeout"]
    /\ pc' = [pc EXCEPT ![c] = "over"]
    /\ UNCHANGED <<request, waited, upsdVars, linkVars, driverVars, breaks>>

Goes(c) == TrackingOn(c) \/ NotAvailable(c) \/ PassOn(c) \/ Poll(c) \/ TimesOut(c)

-----------------------------------------------------------------------------
(* The driver *)

\* sock_arg() counts words: send_instcmd() does not quote the parameter of
\* INSTCMD, so one with a space in it is malformed.
Understood(c) == request[c].kind # "INSTCMD_WORDS"

\* A driver without setvar() answers nothing to SET; the shared handler of
\* all drivers, main_setvar(), may have dealt with it before.
Drops(c) == ~Understood(c) \/ (request[c].kind = "SET" /\ ~hassetvar)

\* Mutant: what has no handler is taken for handled.
AnswersAlways ==
    /\ link /\ todriver # <<>>
    /\ LET c == Head(todriver)
       IN  /\ handled' = IF Drops(c) THEN handled
                         ELSE [handled EXCEPT ![c] = [times |-> @.times + 1, status |-> "HANDLED"]]
           /\ toupsd' = IF request[c].wants THEN Append(toupsd, [id |-> c, status |-> "HANDLED"]) ELSE toupsd
    /\ todriver' = Tail(todriver)
    /\ UNCHANGED <<clientVars, upsdVars, link, hassetvar, breaks>>

\* Mutant: the request stays in the buffer.
ReadsTwice ==
    /\ link /\ todriver # <<>> /\ ~Drops(Head(todriver)) /\ handled[Head(todriver)].times < 2
    /\ handled' = [handled EXCEPT ![Head(todriver)] = [times |-> @.times + 1, status |-> "HANDLED"]]
    /\ UNCHANGED <<clientVars, upsdVars, linkVars, hassetvar, breaks>>

\* sock_read() and sock_arg(): a request is handled, and the result sent if
\* an id came with it.
Handles ==
    /\ link /\ todriver # <<>>
    /\ \/ Drops(Head(todriver)) /\ UNCHANGED <<handled, toupsd>>
       \/ /\ Understood(Head(todriver))
          /\ \E status \in Results :
                /\ status # "UNKNOWN" \/ hassetvar \/ request[Head(todriver)].kind # "SET"
                /\ handled' = [handled EXCEPT ![Head(todriver)] =
                                  [times |-> @.times + 1, status |-> status]]
                /\ toupsd' = IF request[Head(todriver)].wants
                             THEN Append(toupsd, [id |-> Head(todriver), status |-> status])
                             ELSE toupsd
    /\ todriver' = Tail(todriver)
    /\ UNCHANGED <<clientVars, upsdVars, link, hassetvar, breaks>>

\* parse_args() of sstate.c: TRACKING.
Reads ==
    /\ link /\ toupsd # <<>>
    /\ tracking_list' = tracking_set(Head(toupsd).id, Head(toupsd).status)
    /\ toupsd' = Tail(toupsd)
    /\ UNCHANGED <<clientVars, tracking, tracking_enabled, link, todriver, driverVars, breaks>>

\* The driver ends or the socket breaks: what is under way is lost.
Break ==
    /\ link /\ breaks < MaxBreaks
    /\ link' = FALSE /\ todriver' = <<>> /\ toupsd' = <<>>
    /\ breaks' = breaks + 1
    /\ UNCHANGED <<clientVars, upsdVars, driverVars>>

Reconnect ==
    /\ ~link
    /\ link' = TRUE
    /\ UNCHANGED <<clientVars, upsdVars, todriver, toupsd, driverVars, breaks>>

\* A second passes; nobody sleeps longer than that between two questions.
Tick ==
    /\ \A c \in Client : pc[c] # "poll"
    /\ tracking_list # {} \/ \E c \in Client : pc[c] = "nap"
    /\ tracking_list' = {[e EXCEPT !.age = IF @ > TrackingDelay THEN @ ELSE @ + 1] : e \in tracking_list}
    /\ waited' = [c \in Client |-> IF pc[c] = "nap" THEN waited[c] + 1 ELSE waited[c]]
    /\ pc' = [c \in Client |-> IF pc[c] = "nap" THEN "poll" ELSE pc[c]]
    /\ UNCHANGED <<request, result, tracking, tracking_enabled, linkVars, driverVars, breaks>>

Next ==
    \/ \E c \in Client : Goes(c) \/ TrackingOff(c) \/ SendFails(c)
    \/ tracking_cleanup \/ Handles \/ Reads \/ Break \/ Reconnect \/ Tick

Spec == Init /\ [][Next]_vars

\* Clients run to their end, upsd and a driver that is connected read what is
\* there, and time passes.
FairSpec ==
    /\ Spec
    /\ \A c \in Client : WF_vars(Goes(c))
    /\ WF_vars(tracking_cleanup) /\ WF_vars(Handles) /\ WF_vars(Reads) /\ WF_vars(Reconnect)
    /\ WF_vars(Tick)

-----------------------------------------------------------------------------
(* Properties *)

Answers == Errors \cup {"nothing", "OK", "PENDING", "SUCCESS", "timeout", "ERR_FAILED_TO_SEND",
                        "ERR_DRIVER_NOT_CONNECTED", "ERR_FEATURE_NOT_CONFIGURED"}

Report == [id : Client, status : Status]
Entry == [id : Client, status : Status \cup {"PENDING"}, age : 0..(TrackingDelay + 1)]

\* No client waits longer than it was told to.
ClientsOK ==
    /\ pc \in [Client -> {"start", "ask", "poll", "nap", "over"}]
    /\ request \in Requests
    /\ result \in [Client -> Answers]
    /\ waited \in [Client -> Nat] /\ \A c \in Client : waited[c] <= request[c].timeout

\* The list has one entry per id.
UpsdOK ==
    /\ tracking \in [Client -> BOOLEAN] /\ tracking_enabled \in BOOLEAN
    /\ tracking_list \subseteq Entry
    /\ \A d, e \in tracking_list : d.id = e.id => d = e

LinkOK ==
    /\ link \in BOOLEAN /\ todriver \in Seq(Client) /\ toupsd \in Seq(Report)
    /\ breaks \in 0..MaxBreaks

DriverOK ==
    /\ hassetvar \in BOOLEAN
    /\ handled \in [Client -> [times : 0..2, status : Status \cup {"none"}]]

\* Every variable keeps to its domain.
TypeOK == ClientsOK /\ UpsdOK /\ LinkOK /\ DriverOK

\* docs/net-protocol.txt: "SUCCESS (command was successfully executed)", and
\* so on: a result a client is told is what the driver's handler returned for
\* this very request, however requests, results, lost connections and other
\* clients interleave.
ResultIsTrue ==
    \A c \in Client :
        /\ result[c] = "SUCCESS" => handled[c].status = "HANDLED"
        /\ result[c] = "ERR_FAILED" => handled[c].status = "FAILED"
        /\ result[c] = "ERR_INVALID_ARGUMENT" => handled[c].status \in {"INVALID", "CONVERSION_FAILED"}

\* "ERR UNKNOWN (command execution failed with unknown error)" is the answer
\* for an id that is not there, too.  A client is told so only if the driver
\* said it, provided the client is not more patient than TRACKINGDELAY and the
\* second in which an entry of that age is still kept (difftime() > delay): the
\* entry was made, whoever else turned tracking on and off, and is there.
UnknownIsTrue ==
    \A c \in Client :
        result[c] = "ERR_UNKNOWN" /\ request[c].timeout <= TrackingDelay + 1 => handled[c].status = "UNKNOWN"

\* What a client holds before upsd has passed its request on.
Refusals == {"nothing", "ERR_DRIVER_NOT_CONNECTED", "ERR_FAILED_TO_SEND"}

\* A request is carried out at most once, and not if upsd refused it.
HandledOnce ==
    \A c \in Client : handled[c].times <= (IF result[c] \in Refusals THEN 0 ELSE 1)

\* Every client that begins gets to its end, also if the driver never answers
\* (do_cmd()).
ClientsEnd == \A c \in Client : pc[c] # "start" ~> pc[c] = "over"

\* docs/net-protocol.txt on INSTCMD: "<cmdparam> is an additional and optional
\* parameter for the command."  So what upsd answered OK to is handled, unless
\* the connection to the driver is lost.
AcceptedIsHandled ==
    \A c \in Client : result[c] = "OK" ~> handled[c].times > 0 \/ breaks > 0

\* The same for requests the driver has a handler for and can tell the words of.
UnderstoodIsHandled ==
    \A c \in Client : result[c] = "OK" ~> handled[c].times > 0 \/ breaks > 0 \/ Drops(c)
=============================================================================
