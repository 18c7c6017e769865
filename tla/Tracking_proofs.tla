-------------------------- MODULE Tracking_proofs --------------------------
(***************************************************************************)
(* Proofs about Tracking for any clients, requests, delays and losses of   *)
(* the connection: a request is carried out at most once, and what a       *)
(* client is told about it is what the driver did.                         *)
(***************************************************************************)
EXTENDS Tracking, SequenceTheorems, TLAPS

\* The client has not made its request yet.
Asking(c) == pc[c] \in {"start", "ask"}

\* Before a client has asked nothing is known of its request.
Beginning ==
    \A c \in Client : Asking(c) => result[c] = "nothing" /\ waited[c] = 0

\* A request under way to the driver is there once and was not handled yet.
UnderWayOnce ==
    /\ \A i, j \in 1..Len(todriver) : todriver[i] = todriver[j] => i = j
    /\ \A i \in 1..Len(todriver) : /\ handled[todriver[i]].times = 0
                                   /\ result[todriver[i]] \notin Refusals

\* The driver's own record.
HandledRecord ==
    \A c \in Client : handled[c].status = "none" <=> handled[c].times = 0

\* A report under way to upsd, and an entry that is not pending, say what the
\* driver did for that id; an entry belongs to a client that has asked.
ReportsTrue ==
    \A i \in 1..Len(toupsd) : handled[toupsd[i].id].status = toupsd[i].status

EntriesTrue ==
    \A e \in tracking_list : /\ ~Asking(e.id)
                             /\ e.status # "PENDING" => handled[e.id].status = e.status

\* Whoever is about to ask for a tracked request has turned tracking on, and
\* nobody turns it off for the others.
Enabled ==
    \A c \in Client : /\ pc[c] = "ask" => tracking[c]
                      /\ tracking[c] => tracking_enabled

\* The entry of a client that waits is no older than its wait, so that it is
\* still there while the wait is within TRACKINGDELAY.
Kept ==
    \A c \in Client :
        /\ pc[c] = "nap" => waited[c] < request[c].timeout
        /\ pc[c] \in {"poll", "nap"} /\ tracking[c] /\ waited[c] <= TrackingDelay =>
              \E e \in Entries(c) : e.age <= waited[c]

IInv == /\ TypeOK /\ Beginning /\ UnderWayOnce /\ HandledRecord /\ ReportsTrue /\ EntriesTrue
        /\ Enabled /\ Kept /\ HandledOnce /\ ResultIsTrue /\ UnknownIsTrue

-----------------------------------------------------------------------------
(* Queues, answers and requests *)

\* What is left of a queue after its first member was taken.
LEMMA TailMembers ==
    ASSUME NEW S, NEW q \in Seq(S), q # <<>>
    PROVE  /\ Head(q) = q[1] /\ Head(q) \in S /\ 1 \in 1..Len(q)
           /\ Tail(q) \in Seq(S)
           /\ \A i \in 1..Len(Tail(q)) : i + 1 \in 1..Len(q) /\ Tail(q)[i] = q[i + 1]
OBVIOUS

\* A queue with a new last member.
LEMMA AppendMembers ==
    ASSUME NEW S, NEW q \in Seq(S), NEW x \in S
    PROVE  /\ Append(q, x) \in Seq(S)
           /\ Len(Append(q, x)) = Len(q) + 1
           /\ \A i \in 1..Len(q) : Append(q, x)[i] = q[i]
           /\ Append(q, x)[Len(q) + 1] = x
OBVIOUS

LEMMA RequestType ==
    ASSUME TypeOK, NEW c \in Client
    PROVE  /\ request[c].timeout \in Nat /\ request[c].wants \in BOOLEAN
           /\ waited[c] \in Nat /\ waited[c] <= request[c].timeout
BY RequestAssumption DEF TypeOK, ClientsOK, Request

\* An answer other than PENDING tells the status of the entry, or that there
\* is none.
LEMMA AnswerTells ==
    ASSUME TypeOK, NEW c \in Client
    PROVE  \/ Entries(c) = {} /\ tracking_get(c) = "ERR_UNKNOWN"
           \/ \E e \in Entries(c) : tracking_get(c) = Told(e.status)
BY DEF tracking_get

LEMMA ToldMeaning ==
    ASSUME NEW s \in Status \cup {"PENDING"}
    PROVE  /\ Told(s) \in Errors \cup {"PENDING", "SUCCESS"}
           /\ Told(s) = "SUCCESS" => s = "HANDLED"
           /\ Told(s) = "ERR_FAILED" => s = "FAILED"
           /\ Told(s) = "ERR_INVALID_ARGUMENT" => s \in {"INVALID", "CONVERSION_FAILED"}
           /\ Told(s) = "ERR_UNKNOWN" => s = "UNKNOWN"
BY DEF Told, Status, Errors

-----------------------------------------------------------------------------
LEMMA InitIInv == Init => IInv
<1> SUFFICES ASSUME Init PROVE IInv
  OBVIOUS
<1>1. /\ tracking \in [Client -> BOOLEAN] /\ \A c \in Client : ~tracking[c]
      /\ tracking_enabled \in BOOLEAN /\ link \in BOOLEAN /\ hassetvar \in BOOLEAN
  BY Zenon DEF Init
<1>2. \A c \in Client : request[c].timeout \in Nat
  BY RequestAssumption DEF Init, Request
<1>3. /\ handled \in [Client -> [times : 0..2, status : Status \cup {"none"}]]
      /\ \A c \in Client : handled[c].times = 0 /\ handled[c].status = "none"
  BY DEF Init
<1>4. /\ pc \in [Client -> {"start", "ask", "poll", "nap", "over"}]
      /\ waited \in [Client -> Nat]
      /\ \A c \in Client : pc[c] = "start" /\ waited[c] = 0
  BY DEF Init
<1>5. /\ result = [c \in Client |-> "nothing"] /\ \A c \in Client : result[c] = "nothing"
  BY DEF Init
<1>6. /\ request \in Requests /\ tracking_list = {} /\ todriver = <<>> /\ toupsd = <<>> /\ breaks = 0
  BY DEF Init
<1>7. TypeOK
  BY <1>1, <1>2, <1>3, <1>4, <1>5, <1>6, BoundAssumption
  DEF TypeOK, ClientsOK, UpsdOK, LinkOK, DriverOK, Answers
<1>8. Beginning /\ HandledRecord /\ EntriesTrue /\ Enabled /\ Kept
  BY <1>1, <1>3, <1>4, <1>5, <1>6 DEF Beginning, HandledRecord, EntriesTrue, Enabled, Kept
<1>9. UnderWayOnce /\ ReportsTrue
  BY <1>6 DEF UnderWayOnce, ReportsTrue
<1>10. HandledOnce /\ ResultIsTrue /\ UnknownIsTrue
  BY <1>3, <1>5 DEF HandledOnce, ResultIsTrue, UnknownIsTrue
<1>11. QED
  BY <1>7, <1>8, <1>9, <1>10 DEF IInv

-----------------------------------------------------------------------------
(* Steps *)

\* Turning tracking on or off touches nobody else's request.
LEMMA StepClient ==
    ASSUME IInv, NEW c \in Client, TrackingOn(c) \/ TrackingOff(c)
    PROVE  IInv'
<1> USE DEF IInv, TypeOK
<1>1. /\ UNCHANGED <<request, waited, result, tracking_list, link, todriver, toupsd, hassetvar, handled, breaks>>
      /\ pc' \in [Client -> {"start", "ask", "poll", "nap", "over"}]
      /\ \A d \in Client : \/ pc'[d] = pc[d]
                           \/ d = c /\ pc[c] = "start" /\ pc'[c] = "ask"
  BY DEF TrackingOn, TrackingOff, ClientsOK, clientVars, linkVars, driverVars
<1>2. tracking' \in [Client -> BOOLEAN] /\ tracking_enabled' \in BOOLEAN
  BY Zenon DEF TrackingOn, TrackingOff, UpsdOK
<1>3. /\ tracking_enabled => tracking_enabled'
      /\ \A d \in Client : tracking'[d] => tracking_enabled'
      /\ \A d \in Client : pc'[d] = "ask" => tracking'[d]
      /\ \A d \in Client : pc[d] \in {"poll", "nap"} /\ tracking'[d] => tracking[d]
  BY DEF TrackingOn, TrackingOff, UpsdOK, ClientsOK, Enabled, clientVars
<1>4. ClientsOK' /\ UpsdOK' /\ LinkOK' /\ DriverOK'
  BY <1>1, <1>2 DEF ClientsOK, UpsdOK, LinkOK, DriverOK, Entry, Report
<1>5. Beginning' /\ EntriesTrue'
  BY <1>1 DEF Beginning, EntriesTrue, Asking, UpsdOK, Entry
<1>6. Enabled' /\ Kept'
  BY <1>1, <1>3 DEF Enabled, Kept, Entries
<1>7. UnderWayOnce' /\ HandledRecord' /\ ReportsTrue' /\ HandledOnce' /\ ResultIsTrue' /\ UnknownIsTrue'
  BY <1>1 DEF UnderWayOnce, HandledRecord, ReportsTrue, HandledOnce, ResultIsTrue, UnknownIsTrue
<1>8. QED
  BY <1>4, <1>5, <1>6, <1>7

\* The entry upsd makes is the first one for its id.
LEMMA AddEntry ==
    ASSUME IInv, NEW c \in Client, Asking(c),
           tracking_list' = IF tracking[c] THEN tracking_add(c) ELSE tracking_list
    PROVE  /\ tracking_list \subseteq tracking_list'
           /\ \A e \in tracking_list' \ tracking_list : e.id = c /\ e.status = "PENDING" /\ e.age = 0
           /\ tracking_list' \subseteq Entry
           /\ \A d, e \in tracking_list' : d.id = e.id => d = e
           /\ tracking[c] => \E e \in tracking_list' : e.id = c /\ e.age = 0
<1> DEFINE new == [id |-> c, status |-> "PENDING", age |-> 0]
<1>1. \A e \in tracking_list : e.id # c
  BY DEF IInv, EntriesTrue
<1>2. new \in Entry
  BY DelayAssumption DEF Entry
<1>3. tracking[c] => tracking_enabled
  BY DEF IInv, Enabled
<1>4. /\ tracking_list' = tracking_list \/ tracking_list' = tracking_list \cup {new}
      /\ tracking[c] => new \in tracking_list'
  BY <1>3 DEF tracking_add
<1>5. new.id = c /\ new.status = "PENDING" /\ new.age = 0
  OBVIOUS
<1> HIDE DEF new
<1>6. QED
  BY <1>1, <1>2, <1>4, <1>5 DEF IInv, TypeOK, UpsdOK

\* A client that asks has no history.
LEMMA NewRequest ==
    ASSUME IInv, NEW c \in Client, Asking(c)
    PROVE  /\ handled[c].times = 0 /\ result[c] = "nothing" /\ waited[c] = 0
           /\ \A i \in 1..Len(todriver) : todriver[i] # c
<1>1. result[c] = "nothing" /\ waited[c] = 0
  BY DEF IInv, Beginning
<1>2. handled[c].times \in 0..2 /\ handled[c].times <= 0
  BY <1>1 DEF IInv, TypeOK, DriverOK, HandledOnce, Refusals
<1>3. \A i \in 1..Len(todriver) : todriver[i] # c
  BY <1>1 DEF IInv, UnderWayOnce, Refusals
<1>4. QED
  BY <1>1, <1>2, <1>3

\* The members of the queue to the driver are clients.
LEMMA UnderWayClients ==
    ASSUME IInv
    PROVE  Len(todriver) \in Nat /\ \A i \in 1..Len(todriver) : todriver[i] \in Client
BY DEF IInv, TypeOK, LinkOK

\* upsd refuses: the client ends without a trace but, perhaps, a pending entry.
LEMMA StepRefused ==
    ASSUME IInv, NEW c \in Client, NotAvailable(c) \/ SendFails(c)
    PROVE  IInv'
<1> USE DEF IInv, TypeOK
<1>1. /\ UNCHANGED <<request, waited, tracking, tracking_enabled, hassetvar, handled>>
      /\ Asking(c)
      /\ pc' = [pc EXCEPT ![c] = "over"]
  BY DEF NotAvailable, SendFails, Ready, Asking, upsdVars, linkVars, driverVars
<1>2. PICK r \in {"ERR_DRIVER_NOT_CONNECTED", "ERR_FAILED_TO_SEND"} : result' = [result EXCEPT ![c] = r]
  BY DEF NotAvailable, SendFails
<1>3. LinkOK' /\ (UNCHANGED <<todriver, toupsd>> \/ (todriver' = <<>> /\ toupsd' = <<>>))
  <2>1. CASE NotAvailable(c)
    BY <2>1 DEF NotAvailable, linkVars, LinkOK
  <2>2. CASE SendFails(c)
    <3>1. link' \in BOOLEAN
      BY <2>2, Zenon DEF SendFails
    <3>2. breaks' \in 0..MaxBreaks
      BY <2>2, BoundAssumption DEF SendFails, LinkOK
    <3>3. todriver' = <<>> /\ toupsd' = <<>>
      BY <2>2 DEF SendFails
    <3>4. QED
      BY <3>1, <3>2, <3>3 DEF LinkOK
  <2>3. QED
    BY <2>1, <2>2
<1>4. /\ tracking_list \subseteq tracking_list'
      /\ \A e \in tracking_list' \ tracking_list : e.id = c /\ e.status = "PENDING" /\ e.age = 0
      /\ tracking_list' \subseteq Entry
      /\ \A d, e \in tracking_list' : d.id = e.id => d = e
  <2>1. CASE NotAvailable(c)
    BY <2>1 DEF NotAvailable, upsdVars, UpsdOK
  <2>2. CASE SendFails(c)
    BY <1>1, <2>2, AddEntry DEF SendFails
  <2>3. QED
    BY <2>1, <2>2
<1>5. /\ \A d \in Client : pc'[d] = IF d = c THEN "over" ELSE pc[d]
      /\ \A d \in Client : result'[d] = IF d = c THEN r ELSE result[d]
  BY <1>1, <1>2 DEF ClientsOK
<1>6. /\ handled[c].times = 0 /\ result[c] = "nothing" /\ waited[c] = 0
      /\ \A i \in 1..Len(todriver) : todriver[i] # c
  BY <1>1, NewRequest
<1>7. ClientsOK' /\ UpsdOK' /\ DriverOK'
  <2>1. ClientsOK'
    BY <1>1, <1>2 DEF ClientsOK, Answers
  <2>2. QED
    BY <1>1, <1>4, <2>1 DEF UpsdOK, DriverOK, Entry
<1>8. Beginning' /\ EntriesTrue'
  BY <1>1, <1>4, <1>5 DEF Beginning, EntriesTrue, Asking, UpsdOK, Entry
<1>9. UnderWayOnce' /\ ReportsTrue'
  BY <1>1, <1>3, <1>5, <1>6, UnderWayClients DEF UnderWayOnce, ReportsTrue
<1>10. Enabled' /\ Kept'
  BY <1>1, <1>4, <1>5 DEF Enabled, Kept, Entries
<1>11. HandledRecord' /\ HandledOnce' /\ ResultIsTrue' /\ UnknownIsTrue'
  BY <1>1, <1>5, <1>6 DEF HandledRecord, HandledOnce, ResultIsTrue, UnknownIsTrue
<1>12. QED
  BY <1>3, <1>7, <1>8, <1>9, <1>10, <1>11

\* upsd passes the request on: it is under way for the first time.
LEMMA StepPassOn ==
    ASSUME IInv, NEW c \in Client, PassOn(c)
    PROVE  IInv'
<1> USE DEF IInv, TypeOK
<1>1. /\ UNCHANGED <<request, waited, tracking, tracking_enabled, link, toupsd, hassetvar, handled, breaks>>
      /\ Asking(c)
      /\ \/ pc' = [pc EXCEPT ![c] = "over"]
         \/ pc' = [pc EXCEPT ![c] = "poll"] /\ pc[c] = "ask"
      /\ result' = [result EXCEPT ![c] = "OK"]
      /\ todriver' = Append(todriver, c)
  BY DEF PassOn, Ready, Asking, driverVars
<1>2. /\ tracking_list \subseteq tracking_list'
      /\ \A e \in tracking_list' \ tracking_list : e.id = c /\ e.status = "PENDING" /\ e.age = 0
      /\ tracking_list' \subseteq Entry
      /\ \A d, e \in tracking_list' : d.id = e.id => d = e
      /\ tracking[c] => \E e \in tracking_list' : e.id = c /\ e.age = 0
  BY <1>1, AddEntry DEF PassOn
<1>3. /\ todriver' \in Seq(Client) /\ Len(todriver') = Len(todriver) + 1
      /\ \A i \in 1..Len(todriver) : todriver'[i] = todriver[i]
      /\ todriver'[Len(todriver) + 1] = c
  <2>1. todriver \in Seq(Client)
    BY DEF LinkOK
  <2>2. QED
    BY <1>1, <2>1, AppendMembers
<1>4. /\ handled[c].times = 0 /\ result[c] = "nothing" /\ waited[c] = 0
      /\ \A i \in 1..Len(todriver) : todriver[i] # c
  BY <1>1, NewRequest
<1>5. /\ \A d \in Client \ {c} : pc'[d] = pc[d]
      /\ pc'[c] \in {"poll", "over"}
      /\ \A d \in Client : result'[d] = IF d = c THEN "OK" ELSE result[d]
  BY <1>1 DEF ClientsOK
<1>6. ClientsOK' /\ UpsdOK' /\ LinkOK' /\ DriverOK'
  <2>1. ClientsOK'
    BY <1>1 DEF ClientsOK, Answers
  <2>2. UpsdOK' /\ DriverOK'
    BY <1>1, <1>2 DEF UpsdOK, DriverOK, Entry
  <2>3. QED
    BY <1>1, <1>3, <2>1, <2>2 DEF LinkOK
<1>7. Beginning' /\ EntriesTrue'
  BY <1>1, <1>2, <1>5 DEF Beginning, EntriesTrue, Asking, UpsdOK, Entry
<1>8. UnderWayOnce'
  <2>1. \A i \in 1..Len(todriver') : i \in 1..Len(todriver) \/ i = Len(todriver) + 1
    BY <1>3, UnderWayClients
  <2>2. QED
    BY <1>1, <1>3, <1>4, <1>5, <2>1, UnderWayClients DEF UnderWayOnce, Refusals
<1>9. Enabled' /\ Kept'
  <2>1. Enabled'
    BY <1>1, <1>5 DEF Enabled
  <2>2. tracking[c] => \E e \in Entries(c)' : e.age <= waited[c]
    BY <1>2, <1>4 DEF Entries
  <2>3. \A d \in Client : Entries(d) \subseteq Entries(d)'
    BY <1>2 DEF Entries
  <2>4. QED
    BY <1>1, <1>5, <2>1, <2>2, <2>3 DEF Kept
<1>10. HandledRecord' /\ ReportsTrue' /\ HandledOnce' /\ ResultIsTrue' /\ UnknownIsTrue'
  BY <1>1, <1>4, <1>5 DEF HandledRecord, ReportsTrue, HandledOnce, ResultIsTrue, UnknownIsTrue, Refusals
<1>11. QED
  BY <1>6, <1>7, <1>8, <1>9, <1>10

\* A client that waits is answered, or gives up.
LEMMA StepAnswer ==
    ASSUME IInv, NEW c \in Client, Poll(c) \/ TimesOut(c)
    PROVE  IInv'
<1> USE DEF IInv, TypeOK
<1>1. /\ UNCHANGED <<request, waited, tracking, tracking_enabled, tracking_list, link, todriver, toupsd,
                     hassetvar, handled, breaks>>
      /\ pc[c] = "poll"
  BY DEF Poll, TimesOut, upsdVars, linkVars, driverVars
<1>2. PICK r : /\ result' = [result EXCEPT ![c] = r]
               /\ \/ pc' = [pc EXCEPT ![c] = "over"]
                  \/ pc' = [pc EXCEPT ![c] = "nap"] /\ waited[c] < request[c].timeout
               /\ \/ r \in {"timeout", "ERR_FEATURE_NOT_CONFIGURED"}
                  \/ r = tracking_get(c) /\ tracking[c] /\ waited[c] < request[c].timeout
  BY DEF Poll, TimesOut
<1>3. /\ r \in Errors \cup {"PENDING", "SUCCESS", "timeout", "ERR_FEATURE_NOT_CONFIGURED"}
      /\ r = "SUCCESS" => handled[c].status = "HANDLED"
      /\ r = "ERR_FAILED" => handled[c].status = "FAILED"
      /\ r = "ERR_INVALID_ARGUMENT" => handled[c].status \in {"INVALID", "CONVERSION_FAILED"}
      /\ r = "ERR_UNKNOWN" /\ request[c].timeout <= TrackingDelay + 1 => handled[c].status = "UNKNOWN"
  <2>1. CASE r \in {"timeout", "ERR_FEATURE_NOT_CONFIGURED"}
    BY <2>1
  <2>2. CASE Entries(c) = {} /\ r = "ERR_UNKNOWN" /\ tracking[c] /\ waited[c] < request[c].timeout
    <3>1. ~(waited[c] <= TrackingDelay)
      BY <1>1, <2>2 DEF Kept
    <3>2. waited[c] \in Nat /\ request[c].timeout \in Nat
      BY RequestType
    <3>3. ~(request[c].timeout <= TrackingDelay + 1)
      BY <2>2, <3>1, <3>2, DelayAssumption
    <3>4. QED
      BY <2>2, <3>3 DEF Errors
  <2>3. ASSUME NEW e \in Entries(c), r = Told(e.status) PROVE <1>3!:
    <3>1. e.id = c /\ e.status \in Status \cup {"PENDING"} /\ (e.status # "PENDING" => handled[c].status = e.status)
      BY DEF Entries, EntriesTrue, UpsdOK, Entry
    <3>2. QED
      BY <2>3, <3>1, ToldMeaning
  <2>4. QED
    BY <1>2, <2>1, <2>2, <2>3, AnswerTells
<1>4. /\ \A d \in Client \ {c} : pc'[d] = pc[d]
      /\ pc'[c] = "over" \/ (pc'[c] = "nap" /\ waited[c] < request[c].timeout)
      /\ \A d \in Client : result'[d] = IF d = c THEN r ELSE result[d]
  BY <1>2 DEF ClientsOK
<1>5. r \notin Refusals
  BY <1>3 DEF Refusals, Errors
<1>6. ClientsOK' /\ UpsdOK' /\ LinkOK' /\ DriverOK'
  <2>1. ClientsOK'
    BY <1>1, <1>2, <1>3 DEF ClientsOK, Answers
  <2>2. QED
    BY <1>1, <2>1 DEF UpsdOK, LinkOK, DriverOK, Entry, Report
<1>7. Beginning' /\ EntriesTrue'
  BY <1>1, <1>4 DEF Beginning, EntriesTrue, Asking, UpsdOK, Entry
<1>8. UnderWayOnce' /\ HandledOnce'
  <2>1. handled[c].times \in Int /\ handled[c].times <= 1
    BY DEF HandledOnce, DriverOK
  <2>2. QED
    BY <1>1, <1>4, <1>5, <2>1, UnderWayClients DEF UnderWayOnce, HandledOnce
<1>9. Enabled' /\ Kept'
  BY <1>1, <1>4 DEF Enabled, Kept, Entries
<1>10. HandledRecord' /\ ReportsTrue' /\ ResultIsTrue' /\ UnknownIsTrue'
  BY <1>1, <1>3, <1>4 DEF HandledRecord, ReportsTrue, ResultIsTrue, UnknownIsTrue
<1>11. QED
  BY <1>6, <1>7, <1>8, <1>9, <1>10

\* tracking_cleanup() forgets only entries that are older than any wait that
\* is still to end with an answer.
LEMMA StepCleanup == ASSUME IInv, tracking_cleanup PROVE IInv'
<1> USE DEF IInv, TypeOK
<1>1. /\ UNCHANGED <<pc, request, waited, result, tracking, tracking_enabled, link, todriver, toupsd,
                     hassetvar, handled, breaks>>
      /\ tracking_list' = {e \in tracking_list : e.age <= TrackingDelay}
  BY DEF tracking_cleanup, clientVars, linkVars, driverVars
<1>2. ClientsOK' /\ UpsdOK' /\ LinkOK' /\ DriverOK'
  BY <1>1 DEF ClientsOK, UpsdOK, LinkOK, DriverOK, Entry, Report
<1>3. Beginning' /\ EntriesTrue' /\ Enabled'
  BY <1>1 DEF Beginning, EntriesTrue, Enabled, Asking
<1>4. Kept'
  <2>1. \A c \in Client : \A e \in Entries(c) :
            e.age <= waited[c] /\ waited[c] <= TrackingDelay => e \in Entries(c)'
    BY <1>1, DelayAssumption DEF Entries, ClientsOK, UpsdOK, Entry
  <2>2. QED
    BY <1>1, <2>1 DEF Kept
<1>5. UnderWayOnce' /\ HandledRecord' /\ ReportsTrue' /\ HandledOnce' /\ ResultIsTrue' /\ UnknownIsTrue'
  BY <1>1 DEF UnderWayOnce, HandledRecord, ReportsTrue, HandledOnce, ResultIsTrue, UnknownIsTrue
<1>6. QED
  BY <1>2, <1>3, <1>4, <1>5

\* The driver takes the first request: nothing is known of it yet, so whatever
\* it makes of it contradicts no report, no entry and no answer.
LEMMA StepHandles == ASSUME IInv, Handles PROVE IInv'
<1> USE DEF IInv, TypeOK
<1> DEFINE h == Head(todriver)
<1>1. /\ UNCHANGED <<pc, request, waited, result, tracking, tracking_enabled, tracking_list, link, hassetvar, breaks>>
      /\ todriver # <<>> /\ todriver' = Tail(todriver)
  BY DEF Handles, clientVars, upsdVars
<1>2. todriver \in Seq(Client) /\ toupsd \in Seq(Report)
  BY DEF LinkOK
<1>3. /\ h = todriver[1] /\ h \in Client /\ 1 \in 1..Len(todriver)
      /\ todriver' \in Seq(Client) /\ Len(todriver') \in Nat
      /\ \A i \in 1..Len(todriver') : i + 1 \in 1..Len(todriver) /\ todriver'[i] = todriver[i + 1]
  BY <1>1, <1>2, TailMembers
<1>4. handled[h].times = 0 /\ handled[h].status = "none" /\ result[h] \notin Refusals
  BY <1>3 DEF UnderWayOnce, HandledRecord
<1>5. \A i \in 1..Len(todriver') : todriver'[i] # h
  <2>1. \A i \in 1..Len(todriver') : i + 1 # 1
    BY <1>3
  <2>2. QED
    BY <1>3, <2>1 DEF UnderWayOnce
<1>6. CASE UNCHANGED <<handled, toupsd>>
  <2>1. UnderWayOnce'
    <3>1. \A i, j \in 1..Len(todriver') : i + 1 = j + 1 => i = j
      BY <1>3
    <3>2. QED
      BY <1>1, <1>3, <1>6, <3>1 DEF UnderWayOnce
  <2>2. ClientsOK' /\ UpsdOK' /\ LinkOK' /\ DriverOK'
    BY <1>1, <1>2, <1>3, <1>6 DEF ClientsOK, UpsdOK, LinkOK, DriverOK, Entry, Report
  <2>3. Beginning' /\ EntriesTrue' /\ Enabled' /\ Kept' /\ ReportsTrue' /\ HandledRecord'
    BY <1>1, <1>6 DEF Beginning, EntriesTrue, Enabled, Kept, ReportsTrue, HandledRecord, Asking, Entries
  <2>4. HandledOnce' /\ ResultIsTrue' /\ UnknownIsTrue'
    BY <1>1, <1>6 DEF HandledOnce, ResultIsTrue, UnknownIsTrue
  <2>5. QED
    BY <2>1, <2>2, <2>3, <2>4
<1>7. ASSUME NEW status \in Status,
             handled' = [handled EXCEPT ![h] = [times |-> @.times + 1, status |-> status]],
             toupsd' \in {toupsd, Append(toupsd, [id |-> h, status |-> status])}
      PROVE  IInv'
  <2>1. \A c \in Client : \/ c # h /\ handled'[c] = handled[c]
                          \/ c = h /\ handled'[c].times = 1 /\ handled'[c].status = status
    <3>1. DOMAIN handled = Client
      BY DEF DriverOK
    <3>2. ASSUME NEW c \in Client, c # h PROVE handled'[c] = handled[c]
      BY <1>7, <3>1, <3>2
    <3>3. handled'[h] = [times |-> handled[h].times + 1, status |-> status]
      BY <1>3, <1>7, <3>1
    <3>4. handled'[h].times = 1 /\ handled'[h].status = status
      BY <1>4, <3>3
    <3> HIDE DEF h
    <3>5. QED
      BY <3>2, <3>4
  <2>2. status # "none" /\ status # "PENDING"
    BY DEF Status
  <2>3. DriverOK'
    <3>1. [times |-> handled[h].times + 1, status |-> status] \in [times : 0..2, status : Status \cup {"none"}]
      BY <1>4
    <3>2. QED
      BY <1>1, <1>7, <3>1 DEF DriverOK
  <2>4. ClientsOK' /\ UpsdOK'
    BY <1>1 DEF ClientsOK, UpsdOK, Entry
  <2> DEFINE report == [id |-> h, status |-> status]
  <2>5. report \in Report /\ report.id = h /\ report.status = status
    BY <1>3 DEF Report
  <2>6. toupsd' = toupsd \/ toupsd' = Append(toupsd, report)
    BY <1>7
  <2> HIDE DEF report
  <2>7. toupsd' \in Seq(Report) /\ Len(toupsd) \in Nat
    BY <1>2, <2>5, <2>6, AppendMembers
  <2>8. LinkOK'
    BY <1>1, <1>3, <2>7 DEF LinkOK
  <2>9. ReportsTrue'
    <3>1. \A i \in 1..Len(toupsd) : toupsd[i].id \in Client /\ toupsd[i].status \in Status
      <4>1. \A i \in 1..Len(toupsd) : toupsd[i] \in Report
        BY <1>2
      <4>2. QED
        BY <4>1 DEF Report
    <3>2. \A i \in 1..Len(toupsd) : toupsd[i].id # h
      BY <1>4, <3>1 DEF ReportsTrue, Status
    <3>3. \A i \in 1..Len(toupsd) : handled'[toupsd[i].id].status = toupsd[i].status
      BY <2>1, <3>1, <3>2 DEF ReportsTrue
    <3>4. CASE toupsd' = toupsd
      BY <3>3, <3>4 DEF ReportsTrue
    <3>5. CASE toupsd' = Append(toupsd, report)
      <4>1. /\ Len(toupsd') = Len(toupsd) + 1
            /\ \A i \in 1..Len(toupsd) : toupsd'[i] = toupsd[i]
            /\ toupsd'[Len(toupsd) + 1] = report
        BY <1>2, <2>5, <3>5, AppendMembers
      <4>2. \A i \in 1..Len(toupsd') : i \in 1..Len(toupsd) \/ i = Len(toupsd) + 1
        BY <2>7, <4>1
      <4>3. handled'[report.id].status = report.status
        BY <1>3, <2>1, <2>5
      <4>4. QED
        BY <3>3, <4>1, <4>2, <4>3 DEF ReportsTrue
    <3>6. QED
      BY <2>6, <3>4, <3>5
  <2>10. UnderWayOnce'
    <3>1. \A i, j \in 1..Len(todriver') : i + 1 = j + 1 => i = j
      BY <1>3
    <3>2. \A i \in 1..Len(todriver') : handled'[todriver'[i]] = handled[todriver'[i]]
      BY <1>3, <1>5, <2>1, UnderWayClients
    <3>3. QED
      BY <1>1, <1>3, <3>1, <3>2 DEF UnderWayOnce
  <2>11. HandledRecord'
    BY <2>1, <2>2 DEF HandledRecord
  <2>12. EntriesTrue'
    <3>1. \A e \in tracking_list : e.id \in Client /\ e.status \in Status \cup {"PENDING"}
      BY DEF UpsdOK, Entry
    <3>2. \A e \in tracking_list : e.status # "PENDING" => e.id # h
      BY <1>4, <3>1 DEF EntriesTrue, Status
    <3>3. QED
      BY <1>1, <2>1, <3>1, <3>2 DEF EntriesTrue, Asking
  <2>13. Beginning' /\ Enabled' /\ Kept'
    BY <1>1 DEF Beginning, Enabled, Kept, Asking, Entries
  <2>14. HandledOnce' /\ ResultIsTrue' /\ UnknownIsTrue'
    BY <1>1, <1>4, <2>1 DEF HandledOnce, ResultIsTrue, UnknownIsTrue
  <2>15. QED
    BY <2>3, <2>4, <2>8, <2>9, <2>10, <2>11, <2>12, <2>13, <2>14
<1>8. QED
  BY <1>6, <1>7, RequestAssumption DEF Handles

\* upsd enters a report in the list.
LEMMA StepReads == ASSUME IInv, Reads PROVE IInv'
<1> USE DEF IInv, TypeOK
<1> DEFINE m == Head(toupsd)
<1>1. /\ UNCHANGED <<pc, request, waited, result, tracking, tracking_enabled, link, todriver, hassetvar, handled, breaks>>
      /\ toupsd # <<>> /\ toupsd' = Tail(toupsd)
      /\ tracking_list' = tracking_set(m.id, m.status)
  BY DEF Reads, clientVars, driverVars
<1>2. toupsd \in Seq(Report)
  BY DEF LinkOK
<1>3. /\ m = toupsd[1] /\ m \in Report /\ 1 \in 1..Len(toupsd)
      /\ toupsd' \in Seq(Report)
      /\ \A i \in 1..Len(toupsd') : i + 1 \in 1..Len(toupsd) /\ toupsd'[i] = toupsd[i + 1]
  BY <1>1, <1>2, TailMembers
<1>4. handled[m.id].status = m.status /\ m.status \in Status
  BY <1>3 DEF ReportsTrue, Report
<1> HIDE DEF m
<1>5. /\ \A e \in tracking_list' : \E d \in tracking_list :
             /\ e.id = d.id /\ e.age = d.age /\ e \in Entry
             /\ \/ e = d /\ d.id # m.id
                \/ e = [d EXCEPT !.status = m.status] /\ e.status = m.status /\ d.id = m.id
      /\ \A d \in tracking_list : \E e \in tracking_list' : e.id = d.id /\ e.age = d.age
  <2> DEFINE Set(d) == [d EXCEPT !.status = m.status]
  <2>1. ASSUME NEW d \in tracking_list
        PROVE  /\ Set(d).id = d.id /\ Set(d).age = d.age /\ Set(d).status = m.status
               /\ Set(d) \in Entry /\ d \in Entry
    BY <1>4 DEF UpsdOK, Entry
  <2>2. tracking_list' = {d \in tracking_list : d.id # m.id}
                           \cup {Set(d) : d \in {e \in tracking_list : e.id = m.id}}
    BY <1>1 DEF tracking_set, Entries
  <2> HIDE DEF Set
  <2>3. ASSUME NEW e \in tracking_list'
        PROVE  \E d \in tracking_list : \/ e = d /\ d.id # m.id
                                        \/ e = Set(d) /\ d.id = m.id
    BY <2>2
  <2>4. ASSUME NEW d \in tracking_list PROVE d \in tracking_list' \/ Set(d) \in tracking_list'
    BY <2>2
  <2>5. \A d \in tracking_list : \E e \in tracking_list' : e.id = d.id /\ e.age = d.age
    BY <2>1, <2>4
  <2>6. \A e \in tracking_list' : \E d \in tracking_list :
             /\ e.id = d.id /\ e.age = d.age /\ e \in Entry
             /\ \/ e = d /\ d.id # m.id
                \/ e = Set(d) /\ e.status = m.status /\ d.id = m.id
    BY <2>1, <2>3
  <2>7. QED
    BY <2>5, <2>6 DEF Set
<1>6. UpsdOK'
  <2>1. tracking_list' \subseteq Entry
    BY <1>5
  <2>2. \A d, e \in tracking_list' : d.id = e.id => d = e
    BY <1>5 DEF UpsdOK
  <2>3. QED
    BY <1>1, <2>1, <2>2 DEF UpsdOK, Entry
<1>7. ClientsOK' /\ LinkOK' /\ DriverOK'
  BY <1>1, <1>3 DEF ClientsOK, LinkOK, DriverOK
<1>8. EntriesTrue'
  BY <1>1, <1>4, <1>5 DEF EntriesTrue, Asking
<1>9. Kept'
  <2>1. \A c \in Client : (\E e \in Entries(c) : e.age <= waited[c]) => \E e \in Entries(c)' : e.age <= waited[c]
    BY <1>5 DEF Entries
  <2>2. QED
    BY <1>1, <2>1 DEF Kept
<1>10. ReportsTrue'
  BY <1>1, <1>3 DEF ReportsTrue
<1>11. Beginning' /\ Enabled' /\ UnderWayOnce' /\ HandledRecord' /\ HandledOnce' /\ ResultIsTrue' /\ UnknownIsTrue'
  BY <1>1 DEF Beginning, Enabled, UnderWayOnce, HandledRecord, HandledOnce, ResultIsTrue, UnknownIsTrue, Asking
<1>12. QED
  BY <1>6, <1>7, <1>8, <1>9, <1>10, <1>11

\* The connection is lost or made again.
LEMMA StepLink == ASSUME IInv, Break \/ Reconnect PROVE IInv'
<1> USE DEF IInv, TypeOK
<1>1. /\ UNCHANGED <<pc, request, waited, result, tracking, tracking_enabled, tracking_list, hassetvar, handled>>
      /\ UNCHANGED <<todriver, toupsd>> \/ (todriver' = <<>> /\ toupsd' = <<>>)
  BY DEF Break, Reconnect, clientVars, upsdVars, driverVars
<1>2. breaks' \in 0..MaxBreaks
  BY BoundAssumption DEF Break, Reconnect, LinkOK
<1>3. link' \in BOOLEAN
  BY Zenon DEF Break, Reconnect
<1>4. ClientsOK' /\ UpsdOK' /\ LinkOK' /\ DriverOK'
  <2>1. ClientsOK' /\ UpsdOK' /\ DriverOK'
    BY <1>1 DEF ClientsOK, UpsdOK, DriverOK, Entry
  <2>2. todriver' \in Seq(Client) /\ toupsd' \in Seq(Report)
    <3>1. CASE UNCHANGED <<todriver, toupsd>>
      BY <3>1 DEF LinkOK, Report
    <3>2. CASE todriver' = <<>> /\ toupsd' = <<>>
      BY <3>2
    <3>3. QED
      BY <1>1, <3>1, <3>2
  <2>3. QED
    BY <1>2, <1>3, <2>1, <2>2 DEF LinkOK, Report
<1>5. UnderWayOnce' /\ ReportsTrue'
  BY <1>1 DEF UnderWayOnce, ReportsTrue
<1>6. Beginning' /\ EntriesTrue' /\ Enabled' /\ Kept' /\ HandledRecord' /\ HandledOnce' /\ ResultIsTrue' /\ UnknownIsTrue'
  BY <1>1 DEF Beginning, EntriesTrue, Enabled, Kept, HandledRecord, HandledOnce, ResultIsTrue, UnknownIsTrue,
              Asking, Entries
<1>7. QED
  BY <1>4, <1>5, <1>6

\* A second passes for the list and for every client that waits alike.
LEMMA StepTick == ASSUME IInv, Tick PROVE IInv'
<1> USE DEF IInv, TypeOK
<1>1. /\ UNCHANGED <<request, result, tracking, tracking_enabled, link, todriver, toupsd, hassetvar, handled, breaks>>
      /\ \A c \in Client : pc[c] # "poll"
      /\ tracking_list' = {[e EXCEPT !.age = IF @ > TrackingDelay THEN @ ELSE @ + 1] : e \in tracking_list}
  BY DEF Tick, linkVars, driverVars
<1>2. /\ waited' = [c \in Client |-> IF pc[c] = "nap" THEN waited[c] + 1 ELSE waited[c]]
      /\ pc' = [c \in Client |-> IF pc[c] = "nap" THEN "poll" ELSE pc[c]]
  BY DEF Tick
<1>3. /\ \A e \in tracking_list' : \E d \in tracking_list : e.id = d.id /\ e.status = d.status /\ e \in Entry
                                                           /\ e = [d EXCEPT !.age = IF @ > TrackingDelay THEN @ ELSE @ + 1]
      /\ \A d \in tracking_list : \E e \in tracking_list' : e.id = d.id /\ e.age <= d.age + 1
  <2>1. ASSUME NEW d \in tracking_list
        PROVE  LET e == [d EXCEPT !.age = IF @ > TrackingDelay THEN @ ELSE @ + 1]
               IN  e.id = d.id /\ e.status = d.status /\ e.age <= d.age + 1 /\ e \in Entry
    BY DelayAssumption DEF UpsdOK, Entry
  <2>2. QED
    BY <1>1, <2>1
<1>4. UpsdOK'
  <2>1. tracking_list' \subseteq Entry
    BY <1>3
  <2>2. \A d, e \in tracking_list' : d.id = e.id => d = e
    BY <1>3 DEF UpsdOK
  <2>3. QED
    BY <1>1, <2>1, <2>2 DEF UpsdOK, Entry
<1>5. ClientsOK'
  <2>1. pc' \in [Client -> {"start", "ask", "poll", "nap", "over"}] /\ waited' \in [Client -> Nat]
    BY <1>2 DEF ClientsOK
  <2>2. ASSUME NEW c \in Client PROVE waited'[c] <= request[c].timeout
    BY <1>2, RequestType DEF Kept
  <2>3. QED
    BY <1>1, <2>1, <2>2 DEF ClientsOK
<1>6. LinkOK' /\ DriverOK'
  BY <1>1 DEF LinkOK, DriverOK, Report
<1>7. Beginning' /\ EntriesTrue' /\ Enabled'
  <2>1. \A c \in Client : Asking(c)' = Asking(c)
    BY <1>2 DEF Asking
  <2>2. \A e \in tracking_list : e.id \in Client
    BY DEF UpsdOK, Entry
  <2>3. EntriesTrue'
    BY <1>1, <1>3, <2>1, <2>2 DEF EntriesTrue
  <2>4. Beginning'
    BY <1>1, <1>2, <2>1 DEF Beginning, Asking
  <2>5. Enabled'
    BY <1>1, <1>2 DEF Enabled
  <2>6. QED
    BY <2>3, <2>4, <2>5
<1>8. Kept'
  <2> SUFFICES ASSUME NEW c \in Client
               PROVE  /\ pc'[c] # "nap"
                      /\ pc'[c] = "poll" /\ tracking[c] /\ waited'[c] <= TrackingDelay =>
                            \E e \in Entries(c)' : e.age <= waited'[c]
    BY <1>1 DEF Kept
  <2>1. pc'[c] # "nap"
    BY <1>2
  <2>2. ASSUME pc'[c] = "poll", tracking[c], waited'[c] <= TrackingDelay
        PROVE  \E e \in Entries(c)' : e.age <= waited'[c]
    <3>1. pc[c] = "nap" /\ waited'[c] = waited[c] + 1 /\ waited[c] \in Nat
      BY <1>1, <1>2, <2>2, RequestType
    <3>2. PICK d \in Entries(c) : d.age <= waited[c]
      BY <2>2, <3>1, DelayAssumption DEF Kept
    <3>3. d \in tracking_list /\ d.id = c /\ d.age \in Nat
      BY DelayAssumption DEF Entries, UpsdOK, Entry
    <3>4. PICK e \in tracking_list' : e.id = c /\ e.age <= d.age + 1 /\ e.age \in Nat
      BY <1>3, <1>4, <3>3, DelayAssumption DEF UpsdOK, Entry
    <3>5. QED
      BY <3>1, <3>2, <3>3, <3>4 DEF Entries
  <2>3. QED
    BY <2>1, <2>2
<1>9. UnderWayOnce' /\ ReportsTrue' /\ HandledRecord' /\ HandledOnce' /\ ResultIsTrue' /\ UnknownIsTrue'
  BY <1>1 DEF UnderWayOnce, ReportsTrue, HandledRecord, HandledOnce, ResultIsTrue, UnknownIsTrue
<1>10. QED
  BY <1>4, <1>5, <1>6, <1>7, <1>8, <1>9

LEMMA StepIInv == IInv /\ [Next]_vars => IInv'
<1> SUFFICES ASSUME IInv, [Next]_vars PROVE IInv'
  OBVIOUS
<1>1. CASE UNCHANGED vars
  <2>1. TypeOK'
    BY <1>1 DEF vars, clientVars, upsdVars, linkVars, driverVars, IInv, TypeOK, ClientsOK, UpsdOK, LinkOK, DriverOK, Entry, Report
  <2>2. QED
    BY <1>1, <2>1 DEF vars, clientVars, upsdVars, linkVars, driverVars, IInv, Beginning, UnderWayOnce,
       HandledRecord, ReportsTrue, EntriesTrue, Enabled, Kept, HandledOnce, ResultIsTrue, UnknownIsTrue, Asking, Entries
<1>2. QED
  BY <1>1, StepClient, StepRefused, StepPassOn, StepAnswer, StepCleanup, StepHandles, StepReads, StepLink, StepTick
  DEF Next, Goes

LEMMA Invariance == Spec => []IInv
BY InitIInv, StepIInv, PTL DEF Spec

\* Whatever is lost on the way, the driver carries a request out at most once,
\* and not if upsd refused it (netinstcmd.c send_instcmd(), dstate.c sock_arg()).
THEOREM RequestsRunOnce == Spec => [](TypeOK /\ HandledOnce)
<1>1. IInv => TypeOK /\ HandledOnce
  BY DEF IInv
<1> QED  BY <1>1, Invariance, PTL

\* Whoever else uses tracking, a client is told what the driver's handler
\* returned for its own request (upsd.c tracking_set(), tracking_get()).
THEOREM ResultsAreTrue == Spec => []ResultIsTrue
<1>1. IInv => ResultIsTrue
  BY DEF IInv
<1> QED  BY <1>1, Invariance, PTL

\* A client that is not more patient than TRACKINGDELAY + 1, in whole seconds, is
\* told ERR UNKNOWN only if the driver said so: its entry is neither missing nor
\* expired (tracking_add(), tracking_cleanup(), tracking_disable() in upsd.c).
THEOREM UnknownsAreTrue == Spec => []UnknownIsTrue
<1>1. IInv => UnknownIsTrue
  BY DEF IInv
<1> QED  BY <1>1, Invariance, PTL

-----------------------------------------------------------------------------
(* What a step cannot undo: the safety part of UnderstoodIsHandled.        *)

OnTheWay(c) == \E i \in 1..Len(todriver) : todriver[i] = c

Accepted(c) == pc[c] \in {"poll", "nap"} \/ result[c] \notin Refusals

\* What upsd has accepted is on its way to the driver or was carried out, unless
\* the driver cannot deal with it or its connection was lost.
NothingLost ==
    \A c \in Client : Accepted(c) => OnTheWay(c) \/ handled[c].times > 0 \/ Drops(c) \/ breaks > 0

LEMMA StepNothingLost == ASSUME IInv, NothingLost, [Next]_vars PROVE NothingLost'
<1> SUFFICES ASSUME NEW c \in Client, Accepted(c)'
             PROVE  (OnTheWay(c) \/ handled[c].times > 0 \/ Drops(c) \/ breaks > 0)'
  BY DEF NothingLost
<1>1. /\ todriver \in Seq(Client) /\ breaks \in Nat
      /\ handled \in [Client -> [times : 0..2, status : Status \cup {"none"}]]
      /\ pc \in [Client -> {"start", "ask", "poll", "nap", "over"}] /\ result \in [Client -> Answers]
  BY BoundAssumption DEF IInv, TypeOK, ClientsOK, LinkOK, DriverOK
<1>2. ASSUME Accepted(c), UNCHANGED <<todriver, handled, request, hassetvar, breaks>>
      PROVE  (OnTheWay(c) \/ handled[c].times > 0 \/ Drops(c) \/ breaks > 0)'
  BY <1>2 DEF NothingLost, OnTheWay, Drops, Understood
<1>3. ASSUME NEW d \in Client, TrackingOn(d) \/ TrackingOff(d) \/ NotAvailable(d) \/ Poll(d) \/ TimesOut(d)
      PROVE  Accepted(c) /\ UNCHANGED <<todriver, handled, request, hassetvar, breaks>>
  BY <1>1, <1>3 DEF TrackingOn, TrackingOff, NotAvailable, Poll, TimesOut, Accepted, Refusals,
                    clientVars, linkVars, driverVars
<1>4. ASSUME NEW d \in Client, PassOn(d)
      PROVE  (OnTheWay(c) \/ handled[c].times > 0 \/ Drops(c) \/ breaks > 0)'
  <2>1. /\ todriver' = Append(todriver, d) /\ UNCHANGED <<handled, request, hassetvar, breaks>>
        /\ d # c => Accepted(c)
    BY <1>1, <1>4 DEF PassOn, Accepted, driverVars
  <2>2. OnTheWay(d)' /\ (OnTheWay(c) => OnTheWay(c)')
    BY <1>1, <2>1, AppendMembers DEF OnTheWay
  <2>3. QED
    BY <2>1, <2>2 DEF NothingLost, Drops, Understood
<1>5. ASSUME NEW d \in Client, SendFails(d) PROVE breaks' > 0
  BY <1>1, <1>5 DEF SendFails
<1>6. ASSUME Handles PROVE (OnTheWay(c) \/ handled[c].times > 0 \/ Drops(c) \/ breaks > 0)'
  <2> DEFINE h == Head(todriver)
  <2>1. /\ todriver # <<>> /\ todriver' = Tail(todriver)
        /\ UNCHANGED <<pc, result, request, hassetvar, breaks>>
        /\ Accepted(c)
    BY <1>6 DEF Handles, clientVars, Accepted
  <2>2. /\ Drops(c) => Drops(c)'
        /\ \/ Drops(h) /\ handled' = handled
           \/ \E st \in Results : handled' = [handled EXCEPT ![h] = [times |-> @.times + 1, status |-> st]]
    <3>1. Drops(c) => Drops(c)'
      BY <2>1 DEF Drops, Understood
    <3>2. QED
      BY <1>6, <3>1, Zenon DEF Handles
  <2>3. h \in Client /\ (OnTheWay(c) => c = h \/ OnTheWay(c)')
    <3>1. h = todriver[1] /\ h \in Client
      BY <1>1, <2>1, TailMembers
    <3>2. ASSUME NEW i \in 1..Len(todriver), todriver[i] = c, c # h PROVE OnTheWay(c)'
      <4>1. i - 1 \in 1..Len(Tail(todriver)) /\ Tail(todriver)[i - 1] = c
        BY <1>1, <2>1, <3>1, <3>2
      <4>2. QED
        BY <2>1, <4>1 DEF OnTheWay
    <3>3. QED
      BY <3>1, <3>2 DEF OnTheWay
  <2>4. handled'[c].times >= handled[c].times /\ (c = h => handled'[c].times > 0 \/ Drops(c))
    <3>1. handled[c].times \in 0..2
      BY <1>1
    <3>2. CASE Drops(h) /\ handled' = handled
      BY <3>1, <3>2
    <3>3. CASE \E st \in Results : handled' = [handled EXCEPT ![h] = [times |-> @.times + 1, status |-> st]]
      <4>1. PICK st \in Results : handled' = [handled EXCEPT ![h] = [times |-> @.times + 1, status |-> st]]
        BY <3>3
      <4>2. handled'[c].times = IF c = h THEN handled[c].times + 1 ELSE handled[c].times
        BY <1>1, <2>3, <4>1
      <4>3. QED
        BY <3>1, <4>2
    <3>4. QED
      BY <2>2, <3>2, <3>3
  <2>5. QED
    BY <1>1, <2>1, <2>2, <2>3, <2>4 DEF NothingLost
<1>7. CASE tracking_cleanup \/ Reads \/ Reconnect
  BY <1>2, <1>7 DEF tracking_cleanup, Reads, Reconnect, Accepted, clientVars, linkVars, driverVars
<1>8. CASE Break
  BY <1>1, <1>8 DEF Break
<1>9. CASE Tick
  <2>1. Accepted(c) /\ UNCHANGED <<todriver, handled, request, hassetvar, breaks>>
    BY <1>1, <1>9 DEF Tick, Accepted, linkVars, driverVars
  <2>2. QED
    BY <1>2, <2>1
<1>10. CASE UNCHANGED vars
  BY <1>2, <1>10 DEF vars, clientVars, linkVars, driverVars, Accepted
<1>11. QED
  BY <1>2, <1>3, <1>4, <1>5, <1>6, <1>7, <1>8, <1>9, <1>10 DEF Next, Goes

\* No request that upsd answered OK to disappears: however clients, results and
\* the forgetting of ids interleave, it is still on its way, or carried out,
\* unless the driver drops it or the connection was lost (netinstcmd.c
\* send_instcmd(), netset.c set_var(), dstate.c sock_arg()).
THEOREM RequestsAreNotLost == Spec => []NothingLost
<1>1. Init => NothingLost
  BY DEF Init, NothingLost, Accepted, Refusals
<1>2. QED
  BY <1>1, Invariance, StepNothingLost, PTL DEF Spec
=============================================================================
