-------------------------- MODULE Failover_proofs --------------------------
(***************************************************************************)
(* Proofs about Failover for any list of drivers, whatever they say, any   *)
(* settings and any times: the counters are right, the data published are  *)
(* the primary's, the best driver is preferred and the fallback is entered *)
(* in time.                                                                *)
(***************************************************************************)
EXTENDS Failover, FiniteSetTheorems, SequenceTheorems, TLAPS

\* Before the first election, and after one without a candidate.
Elections ==
    /\ ~init_time_elapsed => primary_ups = None /\ lacking = 0
    /\ primary_ups # None /\ arg.fsdmode # 0 => lacking = 0

\* The clock of the fallback keeps up with the turns without a candidate.
ClockRuns ==
    lacking > 0 => IF At("rest") THEN gone_for >= lacking - 1
                   ELSE gone_for >= lacking \/ gone_for >= arg_noprimary_timeout + 1

\* A primary that is lost is replaced in the same turn, except under fsdmode 0:
\* its connection is not renewed before the election.
Passed(u) == \/ At("elect")
             \/ \E j \in 1..Len(ups_list) : ups_list[j] = u /\ j < pc.i /\ ~At("rest")
PrimaryLost ==
    primary_ups # None /\ arg.fsdmode # 0 /\ "ALIVE" \notin flags[primary_ups] => Passed(primary_ups)

\* What dstate looks like: ups.alarm is always committed.
Record(d) ==
    /\ DOMAIN d = {"info", "status_buf", "alarm_buf"}
    /\ d.info = [k \in Key |-> d.info[k]]
    /\ d.info["ups.alarm"] = d.alarm_buf

\* What status_commit() may have made up until now.
Added == IF charge_was < 0 THEN {} ELSE {"CHRG", "DISCHRG"}

\* d holds what a driver said, except for the pending keys, and on top of it the
\* keys left, if it did not speak of them, and words of more in the status.
Exported(d, said, pending, left, more) ==
    /\ \A k \in PlainKey : \/ d.info[k] = said[k]
                           \/ said[k] # None /\ k \in pending
                           \/ said[k] = None /\ k \in left
    /\ \/ d.alarm_buf = said["ups.alarm"]
       \/ said["ups.alarm"] # None /\ "ups.alarm" \in pending
    /\ \/ said["ups.status"] = None \/ "ups.status" \in pending
       \/ /\ said["ups.status"] \subseteq d.status_buf
          /\ d.status_buf \subseteq said["ups.status"] \cup more
          /\ d.info["ups.status"] = d.status_buf \cup (IF d.alarm_buf # None THEN {"ALARM"} ELSE {})

\* Nothing is there but the keys left.
Bare(d, left) == \A k \in PlainKey : d.info[k] = None \/ k \in left

Lax == arg.fsdmode = 0

\* What is published is the primary's, but for what is to be exported yet; and
\* without a primary, or of one that has just been connected to anew, nothing
\* is there but what leftover accounts for.  Only a primary that is kept while
\* it is lost leaves anything over.
Published ==
    /\ Record(dstate)
    /\ ~Lax => leftover = {}
    /\ primary_ups # None =>
          \/ Exported(dstate, var_list[primary_ups], needs_export[primary_ups], leftover, Added)
          \/ force_dstate_export[primary_ups] /\ Bare(dstate, leftover)
    /\ primary_ups = None => Bare(dstate, leftover)

\* After a turn with a candidate all of it is exported.
UpToDate ==
    At("rest") /\ primary_ups # None /\ lacking = 0 =>
        needs_export[primary_ups] = {} /\ ~force_dstate_export[primary_ups]

IInv == /\ TypeOK /\ CountsAreRight /\ Elections /\ ClockRuns /\ PrimaryLost /\ Published /\ UpToDate
        /\ FallbackIsEntered

-----------------------------------------------------------------------------
(* The list of drivers *)

LEMMA ListLength == Len(ups_list) \in Nat /\ DOMAIN ups_list = 1..Len(ups_list)
BY ListAssumption

LEMMA InList == \A i \in 1..Len(ups_list) : ups_list[i] \in Ups
BY ListLength DEF Ups

LEMMA UpsFinite == IsFiniteSet(Ups)
<1>1. ups_list \in Surjection(1..Len(ups_list), Ups)
  <2>1. ups_list \in [1..Len(ups_list) -> Ups]
    BY ListAssumption, ListLength
  <2>2. \A u \in Ups : \E i \in 1..Len(ups_list) : ups_list[i] = u
    BY ListLength DEF Ups
  <2> QED  BY <2>1, <2>2 DEF Surjection
<1>2. IsFiniteSet(1..Len(ups_list))
  BY ListLength, FS_Interval
<1> QED  BY <1>1, <1>2, FS_Surjection

LEMMA HereInList == PlaceOK /\ (At("check") \/ At("read")) => Here \in Ups
BY InList DEF PlaceOK, Here

-----------------------------------------------------------------------------
(* The loop of get_primary_candidate() *)

LEMMA LeastNumber ==
    ASSUME NEW T, T \subseteq Nat, T # {}
    PROVE  \E n \in T : \A m \in T : n <= m
<1>1. \E n \in T : \A m \in T : ~(<<m, n>> \in OpToRel(<, Nat))
  BY NatLessThanWellFounded, WFMin
<1>2. \A m, n \in T : ~(<<m, n>> \in OpToRel(<, Nat)) => n <= m
  BY DEF OpToRel
<1> QED  BY <1>1, <1>2

\* A loop over the list that works on one value can be run.
Runs(n) == {g \in [0..n -> Ups \cup {None}] :
               \A i \in 0..n : g[i] = IF i = 0 THEN None ELSE Better(g[i - 1], ups_list[i])}

LEMMA RunsExist == \A n \in 0..Len(ups_list) : Runs(n) # {}
<1> DEFINE T == {n \in 0..Len(ups_list) : Runs(n) = {}}
<1>1. SUFFICES ASSUME T # {} PROVE FALSE
  OBVIOUS
<1>2. PICK n \in T : \A m \in T : n <= m
  <2>1. T \subseteq Nat
    BY ListLength
  <2> HIDE DEF T
  <2> QED  BY <1>1, <2>1, LeastNumber
<1>3. n \in 0..Len(ups_list) /\ Runs(n) = {}
  OBVIOUS
<1>4. n # 0
  <2>1. SUFFICES ASSUME n = 0 PROVE FALSE
    OBVIOUS
  <2>2. [i \in 0..0 |-> None] \in Runs(0)
    BY DEF Runs
  <2> QED  BY <1>3, <2>1, <2>2
<1>5. n - 1 \in 0..Len(ups_list) /\ n - 1 \notin T
  BY <1>2, <1>3, <1>4, ListLength
<1>6. PICK g : g \in Runs(n - 1)
  BY <1>5
<1>7. g \in [0..(n - 1) -> Ups \cup {None}]
      /\ \A i \in 0..(n - 1) : g[i] = IF i = 0 THEN None ELSE Better(g[i - 1], ups_list[i])
  BY <1>6 DEF Runs
<1> DEFINE last == Better(g[n - 1], ups_list[n])
           h == [i \in 0..n |-> IF i = n THEN last ELSE g[i]]
<1>8. last \in Ups \cup {None}
  <2>1. ups_list[n] \in Ups /\ g[n - 1] \in Ups \cup {None}
    BY <1>3, <1>4, <1>7, InList, ListLength
  <2> QED  BY <2>1 DEF Better
<1> HIDE DEF last
<1>9. h \in [0..n -> Ups \cup {None}]
  BY <1>3, <1>7, <1>8, ListLength
<1>10. ASSUME NEW i \in 0..n
       PROVE  h[i] = IF i = 0 THEN None ELSE Better(h[i - 1], ups_list[i])
  <2>1. CASE i = n
    <3>1. h[i] = last /\ h[i - 1] = g[n - 1]
      BY <1>3, <1>4, <2>1, ListLength
    <3> QED  BY <1>4, <2>1, <3>1 DEF last
  <2>2. CASE i # n /\ i = 0
    BY <1>3, <1>7, <2>2, ListLength
  <2>3. CASE i # n /\ i # 0
    <3>1. h[i] = g[i] /\ h[i - 1] = g[i - 1] /\ i \in 0..(n - 1)
      BY <1>3, <2>3, ListLength
    <3> QED  BY <1>7, <2>3, <3>1
  <2> QED  BY <2>1, <2>2, <2>3
<1> HIDE DEF h
<1>11. h \in Runs(n)
  BY <1>9, <1>10 DEF Runs
<1> QED  BY <1>3, <1>11

LEMMA BestChoice ==
    /\ best_choice \in [0..Len(ups_list) -> Ups \cup {None}]
    /\ best_choice[0] = None
    /\ \A i \in 1..Len(ups_list) : best_choice[i] = Better(best_choice[i - 1], ups_list[i])
<1>1. PICK g : g \in Runs(Len(ups_list))
  BY RunsExist, ListLength
<1>2. g = [i \in 0..Len(ups_list) |-> IF i = 0 THEN None ELSE Better(g[i - 1], ups_list[i])]
  BY <1>1 DEF Runs
<1>3. best_choice = [i \in 0..Len(ups_list) |->
                       IF i = 0 THEN None ELSE Better(best_choice[i - 1], ups_list[i])]
  BY <1>2 DEF best_choice
<1> DEFINE b == best_choice
<1>4. /\ DOMAIN b = 0..Len(ups_list) /\ b[0] = None
      /\ \A i \in 1..Len(ups_list) : b[i] = Better(b[i - 1], ups_list[i])
  BY <1>3, ListLength
<1>5. \A i \in 0..Len(ups_list) : b[i] \in Ups \cup {None}
  <2> DEFINE T == {i \in 0..Len(ups_list) : b[i] \notin Ups \cup {None}}
  <2> HIDE DEF b
  <2>1. SUFFICES ASSUME T # {} PROVE FALSE
    OBVIOUS
  <2>2. PICK n \in T : \A m \in T : n <= m
    <3>1. T \subseteq Nat
      BY ListLength
    <3> HIDE DEF T
    <3> QED  BY <2>1, <3>1, LeastNumber
  <2>3. n # 0 /\ n \in 1..Len(ups_list)
    BY <1>4, ListLength
  <2>4. n - 1 \in 0..Len(ups_list) /\ n - 1 \notin T
    BY <2>2, <2>3, ListLength
  <2>5. b[n - 1] \in Ups \cup {None} /\ ups_list[n] \in Ups
    BY <2>3, <2>4, InList
  <2>6. Better(b[n - 1], ups_list[n]) \in Ups \cup {None}
    BY <2>5 DEF Better
  <2> QED  BY <1>4, <2>3, <2>6
<1>6. b \in [0..Len(ups_list) -> Ups \cup {None}]
  BY <1>3, <1>4, <1>5
<1> QED  BY <1>4, <1>6

LEMMA CandidateType == get_primary_candidate \in Ups \cup {None}
BY BestChoice, ListLength DEF get_primary_candidate

LEMMA PriorityType ==
    ASSUME NEW u
    PROVE  /\ Priority(u) \in Int
           /\ Priority(u) >= 0 => {"ALIVE", "DUMPED"} \subseteq flags[u] /\ ~Ignored(u)
           /\ Priority(u) = 0 => Forced(u)
           /\ Priority(u) = 1 => ups_passes_status_filters(u)
           /\ Priority(u) = 2 => {"DATA_OK", "ONLINE"} \subseteq flags[u]
           /\ /\ {"ALIVE", "DUMPED", "DATA_OK", "ONLINE"} \subseteq flags[u]
              /\ ~Ignored(u) /\ ~arg.strict_filtering
              => Priority(u) \in 0..2 /\ (Forced(u) => Priority(u) = 0)
<1> DEFINE A == {"ALIVE", "DUMPED"} \subseteq flags[u]
           I == Ignored(u)
           F == Forced(u)
           P == ups_passes_status_filters(u)
           S == arg.strict_filtering
           D == {"DATA_OK", "ONLINE"} \subseteq flags[u]
           E == "DATA_OK" \in flags[u]
           n == Priority(u)
<1>1. n = IF ~A \/ I THEN -1 ELSE IF F THEN 0 ELSE IF P THEN 1 ELSE IF S THEN -1
          ELSE IF D THEN 2 ELSE IF E THEN 3 ELSE 4
  BY DEF Priority
<1>2. {"ALIVE", "DUMPED", "DATA_OK", "ONLINE"} \subseteq flags[u] <=> A /\ D
  OBVIOUS
<1> HIDE DEF A, I, F, P, S, D, E, n
<1>3. /\ n \in Int /\ (n >= 0 => A /\ ~I) /\ (n = 0 => F) /\ (n = 1 => P) /\ (n = 2 => D)
      /\ A /\ D /\ ~I /\ ~S => n \in 0..2 /\ (F => n = 0)
  BY <1>1
<1> QED  BY <1>2, <1>3 DEF A, I, F, P, S, D, n

\* The candidate is eligible, and no driver has a better priority.
LEMMA CandidateIsBest ==
    LET c == get_primary_candidate
    IN  /\ c # None => Priority(c) >= 0
        /\ \A u \in Ups : Priority(u) >= 0 => c # None /\ Priority(c) <= Priority(u)
<1> DEFINE b == best_choice
           Best(n) == /\ b[n] # None => Priority(b[n]) >= 0
                      /\ \A j \in 1..n : Priority(ups_list[j]) >= 0 =>
                             b[n] # None /\ Priority(b[n]) <= Priority(ups_list[j])
           T == {n \in 0..Len(ups_list) : ~Best(n)}
<1>1. T = {}
  <2>1. SUFFICES ASSUME T # {} PROVE FALSE
    OBVIOUS
  <2>2. PICK n \in T : \A m \in T : n <= m
    <3>1. T \subseteq Nat
      BY ListLength
    <3> HIDE DEF T
    <3> QED  BY <2>1, <3>1, LeastNumber
  <2>3. n \in 0..Len(ups_list) /\ ~Best(n)
    BY <2>2
  <2>4. n # 0
    <3>1. Best(0)
      BY BestChoice
    <3> HIDE DEF Best
    <3> QED  BY <2>3, <3>1
  <2>5. n - 1 \in 0..Len(ups_list) /\ n - 1 \notin T
    BY <2>2, <2>3, <2>4, ListLength
  <2>6. Best(n - 1)
    BY <2>5
  <2> DEFINE x == b[n - 1]
             u == ups_list[n]
             y == b[n]
  <2>7. y = Better(x, u)
    BY <2>3, <2>4, BestChoice, ListLength
  <2>8. Priority(x) \in Int /\ Priority(u) \in Int /\ Priority(y) \in Int
        /\ \A j \in 1..n : Priority(ups_list[j]) \in Int
    BY PriorityType
  <2>9. \/ /\ y = x
           /\ Priority(u) >= 0 => x # None /\ Priority(x) <= Priority(u)
        \/ /\ y = u /\ u # None /\ Priority(u) >= 0
           /\ x # None => Priority(u) <= Priority(x)
    <3>1. u \in Ups /\ u # None
      BY <2>3, <2>4, InList, ListAssumption, ListLength
    <3> QED  BY <2>7, <2>8, <3>1 DEF Better
  <2>10. \A j \in 1..n : j = n \/ j \in 1..(n - 1)
    BY <2>3, ListLength
  <2>11. /\ x # None => Priority(x) >= 0
         /\ \A j \in 1..(n - 1) : Priority(ups_list[j]) >= 0 =>
                x # None /\ Priority(x) <= Priority(ups_list[j])
    BY <2>6
  <2> HIDE DEF x, y
  <2>12. Best(n)
    <3>1. y # None => Priority(y) >= 0
      BY <2>9, <2>11
    <3>2. ASSUME NEW j \in 1..n, Priority(ups_list[j]) >= 0
          PROVE  y # None /\ Priority(y) <= Priority(ups_list[j])
      <4>1. CASE j = n
        BY <2>8, <2>9, <3>2, <4>1
      <4>2. CASE j \in 1..(n - 1)
        BY <2>8, <2>9, <2>11, <3>2, <4>2
      <4> QED  BY <2>10, <4>1, <4>2
    <3> QED  BY <3>1, <3>2 DEF y
  <2> HIDE DEF Best
  <2> QED  BY <2>3, <2>12
<1>2. Best(Len(ups_list))
  BY <1>1, ListLength
<1>3. \A u \in Ups : \E j \in 1..Len(ups_list) : u = ups_list[j]
  BY ListLength DEF Ups
<1> QED  BY <1>2, <1>3 DEF get_primary_candidate

-----------------------------------------------------------------------------
(* Types and counters *)

\* The place in the list after one driver is dealt with.
LEMMA OnwardPlace ==
    ASSUME PlaceOK, At("check") \/ At("read"), Onward
    PROVE  /\ pc' \in [at : {"rest", "check", "read", "elect"}, i : Nat]
           /\ At("check")' \/ At("read")' => pc'.i \in 1..Len(ups_list) /\ pc'.i = pc.i + 1
           /\ ~At("rest")' /\ ~At("read")'
BY ListLength DEF PlaceOK, At, Onward

LEMMA InitIInv == Init => IInv
<1> SUFFICES ASSUME Init PROVE IInv
  OBVIOUS
<1>1. PlaceOK
  BY DEF Init, PlaceOK, At
<1>2. FlagsOK
  BY DEF Init, FlagsOK, At
<1>3. CopiesOK
  BY DEF Init, CopiesOK, NoData
<1>4. TimesOK
  BY TimeAssumption DEF Init, TimesOK
<1>5. ElectionOK
  BY DEF Init, ElectionOK
<1>6. CountsAreRight
  <2>1. {u \in Ups : "ONLINE" \in flags[u]} = {}
    BY DEF Init
  <2> QED  BY <2>1, FS_EmptySet DEF Init, CountsAreRight
<1>7. Elections /\ ClockRuns /\ PrimaryLost /\ UpToDate
  BY DEF Init, Elections, ClockRuns, PrimaryLost, UpToDate
<1>8. Published
  <2> DEFINE d == [info |-> NoData, status_buf |-> {"WAIT"}, alarm_buf |-> None]
             x == {"WAIT"} \cup (IF None # None THEN {"ALARM"} ELSE {})
  <2>1. dstate = [d EXCEPT !.status_buf = {"WAIT"}, !.info["ups.status"] = x]
    <3>1. Trend(None) = {}
      BY DEF Trend
    <3> QED  BY <3>1 DEF Init, status_commit
  <2>2. /\ DOMAIN dstate = {"info", "status_buf", "alarm_buf"} /\ dstate.alarm_buf = None
        /\ dstate.info = [NoData EXCEPT !["ups.status"] = x]
    BY <2>1
  <2>3. /\ dstate.info = [k \in Key |-> dstate.info[k]]
        /\ \A k \in Key \ {"ups.status"} : dstate.info[k] = None
    BY <2>2 DEF NoData
  <2>4. "ups.alarm" \in Key \ {"ups.status"}
    BY DEF Key
  <2>5. Record(dstate) /\ Bare(dstate, leftover)
    BY <2>2, <2>3, <2>4 DEF Record, Bare, PlainKey
  <2> QED  BY <2>5 DEF Init, Published
<1>9. FallbackIsEntered
  BY TimeAssumption DEF Init, FallbackIsEntered
<1> QED  BY <1>1, <1>2, <1>3, <1>4, <1>5, <1>6, <1>7, <1>8, <1>9 DEF IInv, TypeOK

LEMMA StepPlaceOK ==
    ASSUME TypeOK, [Next]_vars
    PROVE  PlaceOK'
<1>1. PlaceOK
  BY DEF TypeOK
<1>2. CASE UNCHANGED vars
  BY <1>1, <1>2 DEF vars, PlaceOK, At
<1>3. CASE Turn
  BY <1>1, <1>3, ListLength DEF Turn, PlaceOK, At
<1>4. CASE Skip \/ ConnectFails \/ Dead \/ ReadFails \/ ReadTimesOut \/ ReadEnds
  <2>1. Onward /\ arg' = arg /\ (At("check") \/ At("read"))
    BY <1>4 DEF Skip, ConnectFails, Dead, ReadFails, ReadTimesOut, ReadEnds
  <2> QED  BY <1>1, <2>1, OnwardPlace DEF PlaceOK
<1>5. CASE Connect \/ Alive
  BY <1>1, <1>5 DEF Connect, Alive, PlaceOK, At
<1>6. CASE StillWaiting \/ NoPrimaries \/ Elected
  <2>1. pc' = [at |-> "rest", i |-> 1] /\ arg' = arg
    BY <1>6 DEF StillWaiting, NoPrimaries, Elected, ElectionEnds
  <2> QED  BY <1>1, <2>1 DEF PlaceOK, At
<1>7. ASSUME NEW line \in Says[Here], Line(line) PROVE PlaceOK'
  BY <1>1, <1>7 DEF Line, PlaceOK, At
<1>8. ASSUME NEW o \in Orders[arg], instcmd(o) PROVE PlaceOK'
  BY <1>1, <1>8 DEF instcmd, PlaceOK, At
<1>9. CASE CalmDown
  BY <1>1, <1>9 DEF CalmDown, PlaceOK, At
<1> QED  BY <1>2, <1>3, <1>4, <1>5, <1>6, <1>7, <1>8, <1>9 DEF Next

\* How a counter of drivers changes with the flags of one of them.
Counted(n, m, w, f) ==
    m = IF w \in f /\ w \notin flags[Here] THEN n + 1
        ELSE IF w \in flags[Here] /\ w \notin f THEN n - 1 ELSE n

Carrying(w) == {u \in Ups : w \in flags[u]}

LEMMA CarryingFinite ==
    ASSUME NEW w
    PROVE  IsFiniteSet(Carrying(w)) /\ Cardinality(Carrying(w)) \in Nat
<1>1. IsFiniteSet(Carrying(w))
  BY UpsFinite, FS_Subset DEF Carrying
<1> QED  BY <1>1, FS_CardinalityType

\* The only driver whose flags a step changes is the one it deals with, and the
\* counters change with them.
LEMMA FlagSteps ==
    ASSUME TypeOK, CountsAreRight, [Next]_vars
    PROVE  \/ UNCHANGED <<flags, ups_alive_count, ups_online_count>>
           \/ /\ Here \in Ups
              /\ \E f \in SUBSET {"ALIVE", "DUMPED", "DATA_OK", "ONLINE"} :
                    /\ flags' = [flags EXCEPT ![Here] = f]
                    /\ f # {} => "ALIVE" \in f
                    /\ Counted(ups_alive_count, ups_alive_count', "ALIVE", f)
                    /\ Counted(ups_online_count, ups_online_count', "ONLINE", f)
                    /\ f = {} => Dead \/ ReadFails \/ ReadTimesOut
<1>1. PlaceOK /\ FlagsOK /\ ups_alive_count \in Int /\ ups_online_count \in Int
  <2>1. /\ ups_alive_count = Cardinality(Carrying("ALIVE"))
        /\ ups_online_count = Cardinality(Carrying("ONLINE"))
    BY DEF CountsAreRight, Carrying
  <2>2. Cardinality(Carrying("ALIVE")) \in Nat /\ Cardinality(Carrying("ONLINE")) \in Nat
    BY CarryingFinite
  <2> QED  BY <2>1, <2>2 DEF TypeOK
<1> DEFINE All == {"ALIVE", "DUMPED", "DATA_OK", "ONLINE"}
           Shape(f) == /\ flags' = [flags EXCEPT ![Here] = f]
                       /\ f # {} => "ALIVE" \in f
                       /\ Counted(ups_alive_count, ups_alive_count', "ALIVE", f)
                       /\ Counted(ups_online_count, ups_online_count', "ONLINE", f)
                       /\ f = {} => Dead \/ ReadFails \/ ReadTimesOut
<1>2. At("check") \/ At("read") => Here \in Ups /\ flags[Here] \in SUBSET All
  BY <1>1, HereInList DEF FlagsOK
<1>3. At("read") => "ALIVE" \in flags[Here]
  BY <1>1 DEF FlagsOK
<1>4. CASE UNCHANGED vars \/ Turn \/ Skip \/ ConnectFails \/ Alive \/ StillWaiting \/ NoPrimaries
           \/ Elected \/ CalmDown
  BY <1>4 DEF vars, copyVars, Turn, Skip, ConnectFails, Alive, StillWaiting, NoPrimaries, Elected,
           ElectionEnds, CalmDown
<1>5. CASE Connect
  <2> DEFINE f == flags[Here] \cup {"ALIVE"}
  <2>1. f \in SUBSET All /\ Here \in Ups
    BY <1>2, <1>5 DEF Connect
  <2>2. Shape(f)
    BY <1>5 DEF Connect, Counted
  <2> QED  BY <2>1, <2>2
<1>6. CASE Dead \/ ReadFails \/ ReadTimesOut
  <2>1. Here \in Ups /\ "ALIVE" \in flags[Here] /\ ups_disconnect
    BY <1>2, <1>3, <1>6 DEF Dead, ReadFails, ReadTimesOut
  <2>2. Shape({})
    BY <1>6, <2>1 DEF ups_disconnect, Counted
  <2> QED  BY <2>1, <2>2
<1>7. CASE ReadEnds
  BY <1>7 DEF ReadEnds, copyVars
<1>8. ASSUME NEW line \in Says[Here], Line(line)
      PROVE  \/ UNCHANGED <<flags, ups_alive_count, ups_online_count>>
             \/ Here \in Ups /\ \E f \in SUBSET All : Shape(f)
  <2>1. At("read") /\ UNCHANGED ups_alive_count
    BY <1>8 DEF Line
  <2>2. CASE Flag(line)
    <3> DEFINE f == CASE line[1] = "DUMPDONE" -> flags[Here] \cup {"DUMPED"}
                      [] line[1] = "DATAOK" -> flags[Here] \cup {"DATA_OK"}
                      [] OTHER -> flags[Here] \ {"DATA_OK"}
    <3>1. flags' = [flags EXCEPT ![Here] = f] /\ UNCHANGED ups_online_count
      BY <2>2 DEF Flag
    <3>2. \/ f = flags[Here] \cup {"DUMPED"} \/ f = flags[Here] \cup {"DATA_OK"}
          \/ f = flags[Here] \ {"DATA_OK"}
      OBVIOUS
    <3> HIDE DEF f
    <3>3. f \in SUBSET All
      BY <1>2, <2>1, <3>2
    <3>4. "ALIVE" \in f /\ ("ONLINE" \in f <=> "ONLINE" \in flags[Here])
      BY <1>3, <2>1, <3>2
    <3>5. Shape(f)
      BY <1>3, <2>1, <3>1, <3>4 DEF Counted
    <3> QED  BY <1>2, <2>1, <3>3, <3>5
  <2>3. CASE DelInfo(line)
    BY <2>1, <2>3 DEF DelInfo
  <2>4. CASE SetInfo(line)
    <3> DEFINE was == "ONLINE" \in flags[Here]
               is  == IF line[2] = "ups.status" THEN "OL" \in line[3] ELSE was
               f == (flags[Here] \ {"ONLINE"}) \cup (IF is THEN {"ONLINE"} ELSE {})
    <3>1. /\ flags' = [flags EXCEPT ![Here] = f]
          /\ ups_online_count' = ups_online_count + (IF is /\ ~was THEN 1 ELSE IF was /\ ~is THEN -1 ELSE 0)
      BY <2>4 DEF SetInfo
    <3>2. f \in SUBSET All /\ "ALIVE" \in f /\ ("ONLINE" \in f <=> is)
      BY <1>2, <1>3, <2>1
    <3> HIDE DEF is, f
    <3>3. Counted(ups_online_count, ups_online_count', "ONLINE", f)
      BY <1>1, <3>1, <3>2 DEF Counted
    <3>4. Counted(ups_alive_count, ups_alive_count', "ALIVE", f)
      BY <1>3, <2>1, <3>2 DEF Counted
    <3>5. Shape(f)
      BY <3>1, <3>2, <3>3, <3>4
    <3> QED  BY <1>2, <2>1, <3>2, <3>5
  <2> QED  BY <1>8, <2>2, <2>3, <2>4 DEF Line
<1>9. ASSUME NEW o \in Orders[arg], instcmd(o) PROVE UNCHANGED <<flags, ups_alive_count, ups_online_count>>
  BY <1>9 DEF instcmd, copyVars
<1> QED  BY <1>4, <1>5, <1>6, <1>7, <1>8, <1>9 DEF Next

\* One driver gains or loses a flag.
LEMMA CountOne ==
    ASSUME FlagsOK, Here \in Ups, NEW f, NEW w, NEW m, flags' = [flags EXCEPT ![Here] = f],
           Counted(Cardinality(Carrying(w)), m, w, f)
    PROVE  m = Cardinality(Carrying(w)')
<1> DEFINE S == Carrying(w)
           n == Cardinality(S)
<1>1. IsFiniteSet(S) /\ n \in Nat
  BY CarryingFinite
<1>2. Here \in S <=> w \in flags[Here]
  BY DEF Carrying
<1>3. \A u \in Ups : u \in Carrying(w)' <=> IF u = Here THEN w \in f ELSE u \in S
  BY DEF Carrying, FlagsOK
<1>4. Carrying(w)' \subseteq Ups /\ S \subseteq Ups
  BY DEF Carrying
<1>5. Carrying(w)' = IF w \in f THEN S \cup {Here} ELSE S \ {Here}
  BY <1>3, <1>4
<1>6. /\ Cardinality(S \cup {Here}) = IF Here \in S THEN n ELSE n + 1
      /\ Cardinality(S \ {Here}) = IF Here \in S THEN n - 1 ELSE n
  BY <1>1, FS_AddElement, FS_RemoveElement
<1> HIDE DEF S
<1> QED  BY <1>2, <1>5, <1>6 DEF Counted, S

LEMMA StepCounts ==
    ASSUME TypeOK, CountsAreRight, [Next]_vars
    PROVE  CountsAreRight'
<1>1. /\ ups_alive_count = Cardinality(Carrying("ALIVE"))
      /\ ups_online_count = Cardinality(Carrying("ONLINE"))
      /\ FlagsOK
  BY DEF CountsAreRight, Carrying, TypeOK
<1>2. CASE UNCHANGED <<flags, ups_alive_count, ups_online_count>>
  BY <1>2 DEF CountsAreRight
<1>3. ASSUME Here \in Ups, NEW f, flags' = [flags EXCEPT ![Here] = f],
             Counted(ups_alive_count, ups_alive_count', "ALIVE", f),
             Counted(ups_online_count, ups_online_count', "ONLINE", f)
      PROVE  CountsAreRight'
  <2>1. /\ Counted(Cardinality(Carrying("ALIVE")), ups_alive_count', "ALIVE", f)
        /\ Counted(Cardinality(Carrying("ONLINE")), ups_online_count', "ONLINE", f)
    BY <1>1, <1>3
  <2>2. ups_alive_count' = Cardinality(Carrying("ALIVE")')
    BY <1>1, <1>3, <2>1, CountOne
  <2>3. ups_online_count' = Cardinality(Carrying("ONLINE")')
    BY <1>1, <1>3, <2>1, CountOne
  <2> QED  BY <2>2, <2>3 DEF CountsAreRight, Carrying
<1> QED  BY <1>2, <1>3, FlagSteps

LEMMA StepFlagsOK ==
    ASSUME TypeOK, CountsAreRight, [Next]_vars
    PROVE  FlagsOK'
<1>1. FlagsOK /\ PlaceOK
  BY DEF TypeOK
<1>2. /\ flags' \in [Ups -> SUBSET {"ALIVE", "DUMPED", "DATA_OK", "ONLINE"}]
      /\ \A u \in Ups : flags'[u] # {} => "ALIVE" \in flags'[u]
  <2>1. CASE UNCHANGED flags
    BY <1>1, <2>1 DEF FlagsOK
  <2>2. ASSUME Here \in Ups, NEW f \in SUBSET {"ALIVE", "DUMPED", "DATA_OK", "ONLINE"},
               flags' = [flags EXCEPT ![Here] = f], f # {} => "ALIVE" \in f
        PROVE  /\ flags' \in [Ups -> SUBSET {"ALIVE", "DUMPED", "DATA_OK", "ONLINE"}]
               /\ \A u \in Ups : flags'[u] # {} => "ALIVE" \in flags'[u]
    <3>1. flags' \in [Ups -> SUBSET {"ALIVE", "DUMPED", "DATA_OK", "ONLINE"}]
      BY <1>1, <2>2 DEF FlagsOK
    <3>2. \A u \in Ups : flags'[u] = IF u = Here THEN f ELSE flags[u]
      BY <1>1, <2>2 DEF FlagsOK
    <3> QED  BY <1>1, <2>2, <3>1, <3>2 DEF FlagsOK
  <2> QED  BY <2>1, <2>2, FlagSteps
<1>3. ASSUME At("read")' PROVE ("ALIVE" \in flags[Here])'
  <2>1. CASE UNCHANGED vars
    BY <1>1, <1>3, <2>1 DEF vars, copyVars, FlagsOK, At, Here
  <2>2. CASE Alive
    <3>1. Here' = Here /\ flags' = flags /\ "ALIVE" \in flags[Here]
      BY <1>1, <2>2 DEF Alive, copyVars, Here, PlaceOK, At
    <3> QED  BY <3>1
  <2>3. CASE Connect
    <3>1. Here' = Here /\ Here \in Ups
      BY <1>1, <2>3, HereInList DEF Connect, Here, PlaceOK, At
    <3>2. "ALIVE" \in flags'[Here]
      BY <1>1, <2>3, <3>1 DEF Connect, FlagsOK
    <3> QED  BY <3>1, <3>2
  <2>4. CASE Turn \/ StillWaiting \/ NoPrimaries \/ Elected \/ CalmDown
             \/ \E o \in Orders[arg] : instcmd(o)
    <3>1. CASE Turn \/ StillWaiting \/ NoPrimaries \/ Elected
      <4>1. \/ pc' = [at |-> IF ups_list = <<>> THEN "elect" ELSE "check", i |-> 1]
            \/ pc' = [at |-> "rest", i |-> 1]
        BY <3>1 DEF Turn, StillWaiting, NoPrimaries, Elected, ElectionEnds
      <4> QED  BY <1>3, <4>1 DEF At
    <3>2. CASE CalmDown \/ \E o \in Orders[arg] : instcmd(o)
      <4>1. pc' = pc /\ pc.at = "rest"
        BY <3>2 DEF CalmDown, instcmd, At
      <4> QED  BY <1>3, <4>1 DEF At
    <3> QED  BY <2>4, <3>1, <3>2
  <2>5. CASE Skip \/ ConnectFails \/ Dead \/ ReadFails \/ ReadTimesOut \/ ReadEnds
    <3>1. Onward /\ (At("check") \/ At("read"))
      BY <2>5 DEF Skip, ConnectFails, Dead, ReadFails, ReadTimesOut, ReadEnds
    <3> QED  BY <1>1, <1>3, <3>1, OnwardPlace
  <2>6. ASSUME NEW line \in Says[Here], Line(line) PROVE ("ALIVE" \in flags[Here])'
    <3>1. At("read") /\ pc' = pc
      BY <2>6 DEF Line
    <3>2. Here' = Here /\ Here \in Ups /\ "ALIVE" \in flags[Here]
      BY <1>1, <3>1, HereInList DEF Here, FlagsOK
    <3>3. ~Dead /\ ~ReadFails /\ ~ReadTimesOut
      <4>1. Dead \/ ReadFails \/ ReadTimesOut => pc' # pc
        <5>1. SUFFICES ASSUME Dead \/ ReadFails \/ ReadTimesOut, pc' = pc PROVE FALSE
          OBVIOUS
        <5>2. Onward
          BY <5>1 DEF Dead, ReadFails, ReadTimesOut
        <5> QED  BY <1>1, <3>1, <5>1, <5>2, OnwardPlace DEF At
      <4> QED  BY <3>1, <4>1
    <3>4. CASE UNCHANGED flags
      BY <3>2, <3>4
    <3>5. CASE ~UNCHANGED flags
      <4>1. PICK f : flags' = [flags EXCEPT ![Here] = f] /\ "ALIVE" \in f
        BY <3>3, <3>5, FlagSteps
      <4>2. "ALIVE" \in flags'[Here]
        BY <1>1, <3>2, <4>1 DEF FlagsOK
      <4> QED  BY <3>2, <4>2
    <3> QED  BY <3>4, <3>5
  <2> QED  BY <2>1, <2>2, <2>3, <2>4, <2>5, <2>6 DEF Next
<1> QED  BY <1>2, <1>3 DEF FlagsOK

\* SaysAssumption, for a line that is read.
LEMMA LineKeys ==
    ASSUME PlaceOK, At("read"), NEW line \in Says[Here]
    PROVE  line[1] \in {"DELINFO", "SETINFO"} => line[2] \in Key
<1>1. Here \in Ups
  BY HereInList
<1> QED  BY <1>1, SaysAssumption

LEMMA StepCopiesOK ==
    ASSUME TypeOK, [Next]_vars
    PROVE  CopiesOK'
<1>1. CopiesOK /\ PlaceOK /\ DOMAIN var_list = Ups /\ \A u \in Ups : DOMAIN var_list[u] = Key
  BY DEF TypeOK, CopiesOK
<1>2. ASSUME UNCHANGED <<var_list, needs_export, force_dstate_export>> PROVE CopiesOK'
  BY <1>1, <1>2 DEF CopiesOK
<1>3. CASE UNCHANGED vars \/ Turn \/ Skip \/ ConnectFails \/ Alive \/ StillWaiting \/ NoPrimaries
           \/ CalmDown \/ Dead \/ ReadFails \/ ReadTimesOut \/ ReadEnds
  BY <1>2, <1>3 DEF vars, copyVars, Turn, Skip, ConnectFails, Alive, StillWaiting, NoPrimaries,
           ElectionEnds, CalmDown, Dead, ReadFails, ReadTimesOut, ReadEnds
<1>4. CASE Connect
  BY <1>1, <1>4 DEF Connect, NoData, CopiesOK
<1>5. CASE Elected
  BY <1>1, <1>5 DEF Elected, ElectionEnds, CopiesOK
<1>6. ASSUME NEW line \in Says[Here], Line(line) PROVE CopiesOK'
  <2>1. At("read") /\ UNCHANGED force_dstate_export
    BY <1>6 DEF Line
  <2>2. CASE Flag(line)
    BY <1>2, <2>1, <2>2 DEF Flag
  <2>3. CASE DelInfo(line) \/ SetInfo(line)
    <3>1. line[2] \in Key
      BY <1>1, <2>1, <2>3, LineKeys DEF DelInfo, SetInfo
    <3>2. needs_export' \in [Ups -> SUBSET Key]
      BY <1>1, <2>3, <3>1 DEF DelInfo, SetInfo, CopiesOK
    <3>3. PICK x : var_list' = [var_list EXCEPT ![Here][line[2]] = x]
      BY <2>3 DEF DelInfo, SetInfo
    <3>4. var_list' = [u \in Ups |-> [k \in Key |-> var_list'[u][k]]]
      <4> DEFINE row == [var_list[Here] EXCEPT ![line[2]] = x]
      <4>1. var_list' = [var_list EXCEPT ![Here] = row] /\ Here \in Ups
        BY <1>1, <2>1, <3>3, HereInList
      <4>2. row = [k \in Key |-> row[k]]
        BY <1>1, <4>1
      <4> HIDE DEF row
      <4>3. DOMAIN var_list' = Ups /\ \A u \in Ups : var_list'[u] = IF u = Here THEN row ELSE var_list[u]
        BY <1>1, <4>1
      <4>4. \A u \in Ups : var_list'[u] = [k \in Key |-> var_list'[u][k]]
        BY <1>1, <4>2, <4>3 DEF CopiesOK
      <4>5. var_list' = [u \in Ups |-> var_list'[u]]
        BY <1>1, <4>1
      <4> QED  BY <4>4, <4>5
    <3> QED  BY <1>1, <2>1, <3>2, <3>4 DEF CopiesOK
  <2> QED  BY <1>6, <2>2, <2>3 DEF Line
<1>7. ASSUME NEW o \in Orders[arg], instcmd(o) PROVE CopiesOK'
  BY <1>2, <1>7 DEF instcmd, copyVars
<1> QED  BY <1>3, <1>4, <1>5, <1>6, <1>7 DEF Next

LEMMA StepElectionOK ==
    ASSUME TypeOK, [Next]_vars
    PROVE  ElectionOK'
<1>1. ElectionOK /\ arg \in Confs
  BY DEF TypeOK, PlaceOK
<1>2. arg.fsdmode \in 0..2
  BY <1>1, ConfAssumption
<1>3. CASE UNCHANGED vars \/ Turn \/ Skip \/ Connect \/ ConnectFails \/ Alive \/ CalmDown \/ Dead
           \/ ReadFails \/ ReadTimesOut \/ ReadEnds
  <2>1. /\ UNCHANGED <<primary_ups, stale, primaries_gone, init_time_elapsed>> /\ calm' \in BOOLEAN
        /\ charge_was' \in Nat \cup {-1} /\ leftover' \subseteq PlainKey
    BY <1>1, <1>3 DEF vars, pubVars, goneVars, Turn, Skip, Connect, ConnectFails, Alive, CalmDown,
             Dead, ReadFails, ReadTimesOut, ReadEnds, ElectionOK
  <2> QED  BY <1>1, <2>1 DEF ElectionOK
<1>4. CASE StillWaiting
  BY <1>1, <1>4 DEF StillWaiting, ElectionEnds, ElectionOK
<1>5. CASE NoPrimaries
  <2>1. stale' \in BOOLEAN
    <3> DEFINE g == gone_for' > arg_noprimary_timeout
               late == gone_for' >= arg_noprimary_timeout + AlarmPropagTime
    <3>1. stale' = CASE ~g \/ arg.fsdmode = 2 -> FALSE
                     [] g /\ arg.fsdmode = 0 -> TRUE
                     [] g /\ arg.fsdmode = 1 -> late
      BY <1>5 DEF NoPrimaries
    <3>2. late \in BOOLEAN /\ g \in BOOLEAN
      OBVIOUS
    <3> HIDE DEF g, late
    <3>3. CASE ~g \/ arg.fsdmode = 2
      BY <3>1, <3>2, <3>3
    <3>4. CASE g /\ arg.fsdmode = 0
      BY <3>1, <3>2, <3>4
    <3>5. CASE g /\ arg.fsdmode = 1
      BY <3>1, <3>2, <3>5
    <3>6. arg.fsdmode = 0 \/ arg.fsdmode = 1 \/ arg.fsdmode = 2
      BY <1>2
    <3> QED  BY <3>2, <3>3, <3>4, <3>5, <3>6
  <2>2. /\ primary_ups' \in {None, primary_ups} /\ primaries_gone' \in BOOLEAN
        /\ init_time_elapsed' = TRUE /\ calm' = calm /\ UNCHANGED <<charge_was, leftover>>
    BY <1>1, <1>5 DEF NoPrimaries, ElectionEnds, ElectionOK
  <2> QED  BY <1>1, <2>1, <2>2 DEF ElectionOK
<1>6. CASE Elected
  BY <1>1, <1>6, CandidateType DEF Elected, ElectionEnds, ElectionOK
<1>7. ASSUME NEW line \in Says[Here], Line(line) PROVE ElectionOK'
  BY <1>1, <1>7 DEF Line, goneVars, ElectionOK
<1>8. ASSUME NEW o \in Orders[arg], instcmd(o) PROVE ElectionOK'
  BY <1>1, <1>8 DEF instcmd, goneVars, pubVars, ElectionOK
<1> QED  BY <1>3, <1>4, <1>5, <1>6, <1>7, <1>8 DEF Next

LEMMA Times ==
    /\ arg_init_timeout \in Nat /\ arg_dead_timeout \in Nat /\ arg_noprimary_timeout \in Nat
    /\ arg_maxconnfails \in Nat /\ arg_coolofftimeout \in Nat /\ AlarmPropagTime \in Nat
BY TimeAssumption

LEMMA StepTimesOK ==
    ASSUME TypeOK, [Next]_vars
    PROVE  TimesOK'
<1>1. TimesOK /\ PlaceOK
  BY DEF TypeOK
<1>2. CASE UNCHANGED vars \/ Skip \/ Alive \/ CalmDown \/ \E o \in Orders[arg] : instcmd(o)
  <2>1. UNCHANGED <<heard, failVars, goneVars>>
    BY <1>2 DEF vars, copyVars, Skip, Alive, CalmDown, instcmd
  <2> QED  BY <1>1, <2>1 DEF failVars, goneVars, TimesOK
<1>3. CASE Turn
  <2>1. heard' \in [Ups -> 0..arg_dead_timeout + 1]
    BY <1>1, <1>3, Times DEF Turn, TimesOK
  <2>2. failed' \in [Ups -> 0..arg_coolofftimeout + 1]
    BY <1>1, <1>3, Times DEF Turn, TimesOK
  <2>3. gone_for' \in -1..(arg_noprimary_timeout + AlarmPropagTime + 1)
    BY <1>1, <1>3, Times DEF Turn, TimesOK
  <2> QED  BY <1>1, <1>3, <2>1, <2>2, <2>3 DEF Turn, TimesOK
<1>4. CASE Connect \/ ConnectFails
  <2>1. UNCHANGED <<gone_for, lacking>>
    BY <1>4 DEF Connect, ConnectFails, goneVars
  <2>2. heard' \in [Ups -> 0..arg_dead_timeout + 1] /\ failed' \in [Ups -> 0..arg_coolofftimeout + 1]
    BY <1>1, <1>4, Times DEF Connect, ConnectFails, copyVars, TimesOK
  <2>3. failure_count' \in [Ups -> 0..arg_maxconnfails + 1]
    BY <1>1, <1>4, Times DEF Connect, ConnectFails, TimesOK
  <2> QED  BY <1>1, <2>1, <2>2, <2>3 DEF TimesOK
<1>5. CASE Dead \/ ReadFails \/ ReadTimesOut \/ ReadEnds \/ \E line \in Says[Here] : Line(line)
  <2>1. UNCHANGED <<failVars, goneVars>>
    BY <1>5 DEF Dead, ReadFails, ReadTimesOut, ReadEnds, Line
  <2>2. heard' \in [Ups -> 0..arg_dead_timeout + 1]
    BY <1>1, <1>5, Times DEF Dead, ReadFails, ReadTimesOut, ReadEnds, Line, ups_disconnect, Heard,
             copyVars, TimesOK
  <2> QED  BY <1>1, <2>1, <2>2 DEF failVars, goneVars, TimesOK
<1>6. CASE StillWaiting \/ NoPrimaries \/ Elected
  <2>1. UNCHANGED <<heard, failVars>>
    BY <1>6 DEF StillWaiting, NoPrimaries, Elected, ElectionEnds
  <2>2. /\ gone_for' \in -1..(arg_noprimary_timeout + AlarmPropagTime + 1)
        /\ lacking' \in 0..(arg_noprimary_timeout + 2)
    <3>1. CASE StillWaiting
      BY <1>1, <3>1 DEF StillWaiting, TimesOK
    <3>2. CASE NoPrimaries
      <4>1. gone_for' = GoneSince /\ lacking' = Cap(lacking)
        BY <3>2 DEF NoPrimaries
      <4> QED  BY <1>1, <4>1, Times DEF GoneSince, Cap, TimesOK
    <3>3. CASE Elected
      <4>1. gone_for' \in {-1, gone_for} /\ lacking' = 0
        BY <3>3 DEF Elected
      <4> QED  BY <1>1, <4>1, Times DEF TimesOK
    <3> QED  BY <1>6, <3>1, <3>2, <3>3
  <2> QED  BY <1>1, <2>1, <2>2 DEF failVars, TimesOK
<1> QED  BY <1>2, <1>3, <1>4, <1>5, <1>6 DEF Next

LEMMA StepTypeOK ==
    ASSUME TypeOK, CountsAreRight, [Next]_vars
    PROVE  TypeOK'
BY StepPlaceOK, StepFlagsOK, StepCopiesOK, StepElectionOK, StepTimesOK DEF TypeOK

-----------------------------------------------------------------------------
(* The functions on dstate *)

Form(d) == /\ DOMAIN d = {"info", "status_buf", "alarm_buf"}
           /\ d.info = [k \in Key |-> d.info[k]]

\* Keys that are not spoken of are the ones of old.
Same(d, e, keys) == \A k \in keys : e.info[k] = d.info[k]

LEMMA TrendAdded == \A x : Trend(x) \subseteq Added
BY DEF Trend, Added

LEMMA StatusCommit ==
    ASSUME NEW d, Form(d), NEW charge
    PROVE  LET e == status_commit(d, charge)
           IN  /\ Form(e) /\ Same(d, e, Key \ {"ups.status"})
               /\ e.status_buf = d.status_buf \cup Trend(charge) /\ e.alarm_buf = d.alarm_buf
               /\ e.info["ups.status"] =
                     e.status_buf \cup (IF d.alarm_buf # None THEN {"ALARM"} ELSE {})
<1> DEFINE buf == d.status_buf \cup Trend(charge)
           x == buf \cup (IF d.alarm_buf # None THEN {"ALARM"} ELSE {})
           e == status_commit(d, charge)
<1>1. e = [d EXCEPT !.status_buf = buf, !.info["ups.status"] = x]
  BY DEF status_commit
<1> HIDE DEF x, buf
<1>2. /\ DOMAIN e = {"info", "status_buf", "alarm_buf"}
      /\ e.info = [d.info EXCEPT !["ups.status"] = x]
      /\ e.status_buf = buf /\ e.alarm_buf = d.alarm_buf
  BY <1>1 DEF Form
<1> HIDE DEF e
<1>3. /\ e.info = [k \in Key |-> e.info[k]] /\ e.info["ups.status"] = x
      /\ \A k \in Key \ {"ups.status"} : e.info[k] = d.info[k]
  BY <1>2 DEF Form, Key
<1> QED  BY <1>2, <1>3 DEF e, x, buf, Form, Same

LEMMA AlarmCommit ==
    ASSUME NEW d, Form(d)
    PROVE  LET e == alarm_commit(d)
           IN  /\ Form(e) /\ Same(d, e, Key \ {"ups.alarm"})
               /\ e.status_buf = d.status_buf /\ e.alarm_buf = d.alarm_buf
               /\ e.info["ups.alarm"] = d.alarm_buf
<1> DEFINE e == alarm_commit(d)
<1>1. e = [d EXCEPT !.info["ups.alarm"] = d.alarm_buf]
  BY DEF alarm_commit
<1>2. /\ DOMAIN e = {"info", "status_buf", "alarm_buf"}
      /\ e.info = [d.info EXCEPT !["ups.alarm"] = d.alarm_buf]
      /\ e.status_buf = d.status_buf /\ e.alarm_buf = d.alarm_buf
  BY <1>1 DEF Form
<1> HIDE DEF e
<1>3. /\ e.info = [k \in Key |-> e.info[k]] /\ e.info["ups.alarm"] = d.alarm_buf
      /\ \A k \in Key \ {"ups.alarm"} : e.info[k] = d.info[k]
  BY <1>2 DEF Form, Key
<1> QED  BY <1>2, <1>3 DEF e, Form, Same

\* Both of them, as they are always called.
LEMMA BothCommit ==
    ASSUME NEW d, Form(d), NEW charge
    PROVE  LET e == status_commit(alarm_commit(d), charge)
           IN  /\ Record(e) /\ Same(d, e, PlainKey)
               /\ e.status_buf = d.status_buf \cup Trend(charge) /\ e.alarm_buf = d.alarm_buf
               /\ e.info["ups.status"] =
                     e.status_buf \cup (IF d.alarm_buf # None THEN {"ALARM"} ELSE {})
<1> DEFINE m == alarm_commit(d)
           e == status_commit(m, charge)
<1>1. /\ Form(m) /\ Same(d, m, Key \ {"ups.alarm"}) /\ m.status_buf = d.status_buf
      /\ m.alarm_buf = d.alarm_buf /\ m.info["ups.alarm"] = d.alarm_buf
  BY AlarmCommit
<1> HIDE DEF m
<1>2. /\ Form(e) /\ Same(m, e, Key \ {"ups.status"})
      /\ e.status_buf = m.status_buf \cup Trend(charge) /\ e.alarm_buf = m.alarm_buf
      /\ e.info["ups.status"] = e.status_buf \cup (IF m.alarm_buf # None THEN {"ALARM"} ELSE {})
  BY <1>1, StatusCommit
<1> HIDE DEF e
<1>3. Record(e) /\ Same(d, e, PlainKey)
  BY <1>1, <1>2 DEF Form, Record, Same, PlainKey, Key
<1> QED  BY <1>1, <1>2, <1>3 DEF e, m

LEMMA CleanRecord ==
    ASSUME NEW d, Form(d), NEW u
    PROVE  LET e == ups_clean_dstate(d, u)
           IN  /\ Record(e)
               /\ \A k \in PlainKey : e.info[k] = IF var_list[u][k] # None THEN None ELSE d.info[k]
<1> DEFINE bare == [info |-> [k \in Key |-> IF var_list[u][k] # None THEN None ELSE d.info[k]],
                    status_buf |-> {}, alarm_buf |-> None]
<1>1. ups_clean_dstate(d, u) = status_commit(alarm_commit(bare), Charge(bare))
  BY DEF ups_clean_dstate
<1>2. Form(bare) /\ \A k \in PlainKey : bare.info[k] = IF var_list[u][k] # None THEN None ELSE d.info[k]
  BY DEF Form, PlainKey
<1> HIDE DEF bare
<1> QED  BY <1>1, <1>2, BothCommit DEF Same

\* An export of everything needs an empty place, except for what it fills.
LEMMA ExportRecord ==
    ASSUME NEW d, Record(d), NEW u \in Ups, NEW force \in BOOLEAN, NEW after \in BOOLEAN, NEW left,
           force => \A k \in PlainKey : var_list[u][k] = None => d.info[k] = None \/ k \in left,
           ~force => Exported(d, var_list[u], needs_export[u], left, Added)
    PROVE  LET e == ups_export_dstate(d, u, force, after)
           IN  Record(e) /\ Exported(e, var_list[u], {}, left, Added)
<1> DEFINE v == var_list[u]
           todo == {k \in Key : v[k] # None /\ (force \/ k \in needs_export[u])}
           said == [info |-> [k \in Key |-> IF k \in todo THEN v[k] ELSE d.info[k]],
                    status_buf |-> IF "ups.status" \in todo THEN v["ups.status"]
                                   ELSE IF force THEN {} ELSE d.status_buf,
                    alarm_buf |-> IF "ups.alarm" \in todo THEN v["ups.alarm"]
                                  ELSE IF force THEN None ELSE d.alarm_buf]
           charge == IF force \/ after THEN Charge(said) ELSE Charge(d)
           e == ups_export_dstate(d, u, force, after)
           commit == force \/ todo \cap {"ups.status", "ups.alarm"} # {}
<1>1. e = IF commit THEN status_commit(alarm_commit(said), charge) ELSE said
  BY DEF ups_export_dstate
<1>2. \A k \in Key : k \in todo <=> v[k] # None /\ (force \/ k \in needs_export[u])
  OBVIOUS
<1>3. /\ Form(said) /\ \A k \in Key : said.info[k] = IF k \in todo THEN v[k] ELSE d.info[k]
      /\ said.status_buf = IF "ups.status" \in todo THEN v["ups.status"]
                           ELSE IF force THEN {} ELSE d.status_buf
      /\ said.alarm_buf = IF "ups.alarm" \in todo THEN v["ups.alarm"]
                          ELSE IF force THEN None ELSE d.alarm_buf
  BY DEF Form
<1>4. "ups.status" \in Key /\ "ups.alarm" \in Key /\ PlainKey \subseteq Key
  BY DEF Key, PlainKey
<1>5. commit <=> force \/ "ups.status" \in todo \/ "ups.alarm" \in todo
  BY <1>4
<1> HIDE DEF todo, said, charge, e, commit
<1>6. \A k \in PlainKey : said.info[k] = v[k] \/ (v[k] = None /\ k \in left)
  BY <1>2, <1>3, <1>4 DEF Exported
<1>7. said.alarm_buf = v["ups.alarm"]
  BY <1>2, <1>3, <1>4 DEF Exported
<1>8. v["ups.status"] # None =>
         v["ups.status"] \subseteq said.status_buf /\ said.status_buf \subseteq v["ups.status"] \cup Added
  BY <1>2, <1>3, <1>4 DEF Exported
<1>9. CASE commit
  <2>1. /\ Record(e) /\ Same(said, e, PlainKey)
        /\ e.status_buf = said.status_buf \cup Trend(charge) /\ e.alarm_buf = said.alarm_buf
        /\ e.info["ups.status"] =
              e.status_buf \cup (IF said.alarm_buf # None THEN {"ALARM"} ELSE {})
    BY <1>1, <1>3, <1>9, BothCommit
  <2>2. v["ups.status"] # None =>
           v["ups.status"] \subseteq e.status_buf /\ e.status_buf \subseteq v["ups.status"] \cup Added
    BY <1>8, <2>1, TrendAdded
  <2> QED  BY <1>6, <1>7, <2>1, <2>2 DEF Exported, Same, e
<1>10. CASE ~commit
  <2>1. /\ e = said /\ ~force /\ "ups.status" \notin todo /\ "ups.alarm" \notin todo
    BY <1>1, <1>5, <1>10
  <2>2. /\ said.info["ups.status"] = d.info["ups.status"] /\ said.info["ups.alarm"] = d.info["ups.alarm"]
        /\ said.status_buf = d.status_buf /\ said.alarm_buf = d.alarm_buf
    BY <1>3, <1>4, <2>1
  <2>3. Record(said)
    BY <1>3, <2>2 DEF Record, Form
  <2>4. \/ v["ups.status"] = None
        \/ d.info["ups.status"] = d.status_buf \cup (IF d.alarm_buf # None THEN {"ALARM"} ELSE {})
    BY <1>2, <1>4, <2>1 DEF Exported
  <2>5. Exported(said, v, {}, left, Added)
    BY <1>6, <1>7, <1>8, <2>2, <2>4 DEF Exported
  <2> QED  BY <2>1, <2>3, <2>5 DEF e
<1> QED  BY <1>9, <1>10

\* A variable of the primary goes.
LEMMA WithdrawRecord ==
    ASSUME NEW d, Record(d), NEW j \in Key
    PROVE  LET e == Withdraw(d, j)
           IN  /\ Record(e) /\ Same(d, e, PlainKey \ {j}) /\ (j \in PlainKey => e.info[j] = None)
               /\ e.alarm_buf = IF j = "ups.alarm" THEN None ELSE d.alarm_buf
               /\ j # "ups.status" =>
                     /\ d.status_buf \subseteq e.status_buf /\ e.status_buf \subseteq d.status_buf \cup Added
                     /\ j # "ups.alarm" => e.status_buf = d.status_buf
                     /\ e.info["ups.status"] = IF j # "ups.alarm" THEN d.info["ups.status"] ELSE e.status_buf
<1> DEFINE e == Withdraw(d, j)
<1>1. CASE j = "ups.alarm"
  <2> DEFINE quiet == [d EXCEPT !.alarm_buf = None]
             bare == status_commit(alarm_commit(quiet), Charge(d))
  <2>1. e = [bare EXCEPT !.info[j] = None]
    BY <1>1 DEF Withdraw
  <2>2. Form(quiet) /\ quiet.alarm_buf = None /\ quiet.status_buf = d.status_buf /\ quiet.info = d.info
    BY DEF Record, Form
  <2> HIDE DEF quiet
  <2>3. /\ Record(bare) /\ Same(quiet, bare, PlainKey) /\ bare.alarm_buf = None
        /\ bare.status_buf = d.status_buf \cup Trend(Charge(d))
        /\ bare.info["ups.status"] = bare.status_buf
    BY <2>2, BothCommit
  <2> HIDE DEF bare
  <2>4. /\ DOMAIN e = {"info", "status_buf", "alarm_buf"} /\ e.info = [bare.info EXCEPT ![j] = None]
        /\ e.status_buf = bare.status_buf /\ e.alarm_buf = bare.alarm_buf
    BY <2>1, <2>3 DEF Record
  <2> HIDE DEF e
  <2>5. /\ e.info = [k \in Key |-> e.info[k]] /\ e.info[j] = None
        /\ \A k \in Key \ {j} : e.info[k] = bare.info[k]
    BY <2>3, <2>4 DEF Record
  <2>6. "ups.status" \in Key \ {j} /\ PlainKey \subseteq Key \ {j} /\ j \notin PlainKey
    BY <1>1 DEF Key, PlainKey
  <2> QED  BY <1>1, <2>2, <2>3, <2>4, <2>5, <2>6, TrendAdded DEF Record, Same, e
<1>2. CASE j # "ups.alarm"
  <2> DEFINE bare == IF j = "ups.status" THEN [d EXCEPT !.status_buf = {}] ELSE d
  <2>1. e = [bare EXCEPT !.info[j] = None]
    BY <1>2 DEF Withdraw
  <2>2. /\ DOMAIN bare = {"info", "status_buf", "alarm_buf"} /\ bare.info = d.info
        /\ bare.alarm_buf = d.alarm_buf /\ (j # "ups.status" => bare.status_buf = d.status_buf)
    BY DEF Record
  <2> HIDE DEF bare
  <2>3. /\ DOMAIN e = {"info", "status_buf", "alarm_buf"} /\ e.info = [d.info EXCEPT ![j] = None]
        /\ e.status_buf = bare.status_buf /\ e.alarm_buf = bare.alarm_buf
    BY <2>1, <2>2
  <2> HIDE DEF e
  <2>4. /\ e.info = [k \in Key |-> e.info[k]] /\ e.info[j] = None
        /\ \A k \in Key \ {j} : e.info[k] = d.info[k]
    BY <2>3 DEF Record
  <2>5. "ups.status" \in Key /\ "ups.alarm" \in Key \ {j} /\ PlainKey \subseteq Key
    BY <1>2 DEF Key, PlainKey
  <2> QED  BY <1>2, <2>2, <2>3, <2>4, <2>5 DEF Record, Same, e
<1> QED  BY <1>1, <1>2

-----------------------------------------------------------------------------
(* Elections and the clock of the fallback *)

\* A step is an election, or leaves the primary and the verdicts alone.
LEMMA Frame ==
    ASSUME PlaceOK, [Next]_vars
    PROVE  /\ arg' = arg
           /\ \/ At("elect") /\ At("rest")' /\ (StillWaiting \/ NoPrimaries \/ Elected)
              \/ /\ UNCHANGED <<primary_ups, init_time_elapsed, lacking, primaries_gone, stale>>
                 /\ \/ /\ pc' = pc /\ gone_for' = gone_for
                       /\ At("rest") => UNCHANGED <<dstate, flags, needs_export, force_dstate_export>>
                    \/ Turn /\ At("rest") /\ ~At("rest")'
                    \/ /\ ~At("rest") /\ ~At("rest")' /\ gone_for' = gone_for
                       /\ ~At("elect") /\ (At("elect")' \/ pc'.i >= pc.i)
<1>1. CASE StillWaiting \/ NoPrimaries \/ Elected
  <2>1. ElectionEnds
    BY <1>1 DEF StillWaiting, NoPrimaries, Elected
  <2> QED  BY <1>1, <2>1 DEF ElectionEnds, At
<1>2. CASE Turn
  <2>1. /\ pc.at = "rest" /\ arg' = arg
        /\ UNCHANGED <<primary_ups, init_time_elapsed, lacking, primaries_gone, stale>>
        /\ pc' = [at |-> IF ups_list = <<>> THEN "elect" ELSE "check", i |-> 1]
    BY <1>2 DEF Turn, pubVars, At
  <2> QED  BY <1>2, <2>1 DEF At
<1>3. CASE UNCHANGED vars \/ CalmDown \/ (\E o \in Orders[arg] : instcmd(o))
           \/ \E line \in Says[Here] : Line(line)
  BY <1>3 DEF vars, copyVars, goneVars, pubVars, CalmDown, instcmd, Line, At
<1>4. CASE Skip \/ ConnectFails \/ Dead \/ ReadFails \/ ReadTimesOut \/ ReadEnds
  <2>1. Onward /\ (At("check") \/ At("read")) /\ arg' = arg /\ UNCHANGED <<goneVars, pubVars>>
    BY <1>4 DEF Skip, ConnectFails, Dead, ReadFails, ReadTimesOut, ReadEnds
  <2>2. pc.i \in Nat /\ ~At("rest")' /\ (At("elect")' \/ pc'.i = pc.i + 1)
    BY <2>1, OnwardPlace DEF PlaceOK, At, Onward
  <2> QED  BY <2>1, <2>2 DEF goneVars, pubVars, At
<1>5. CASE Connect \/ Alive
  <2>1. /\ pc.at = "check" /\ pc' = [pc EXCEPT !.at = "read"] /\ arg' = arg
        /\ UNCHANGED <<goneVars, dstate, stale>>
    BY <1>5 DEF Connect, Alive, pubVars, At
  <2>2. pc'.at = "read" /\ pc'.i = pc.i /\ pc.i \in Nat
    BY <2>1 DEF PlaceOK
  <2> QED  BY <2>1, <2>2 DEF goneVars, pubVars, At
<1> QED  BY <1>1, <1>2, <1>3, <1>4, <1>5 DEF Next

\* handle_no_primaries() without the published data.
LEMMA NoPrimariesFrame ==
    ASSUME TypeOK, NoPrimaries
    PROVE  /\ init_time_elapsed' = TRUE /\ lacking' = Cap(lacking) /\ gone_for' = GoneSince
           /\ lacking' > 0
           /\ primary_ups' = IF arg.fsdmode # 0 THEN None ELSE primary_ups
<1>1. arg.fsdmode \in 0..2
  BY ConfAssumption DEF TypeOK, PlaceOK
<1>2. lacking \in Nat
  BY Times DEF TypeOK, TimesOK
<1>3. init_time_elapsed' = TRUE /\ lacking' = Cap(lacking) /\ gone_for' = GoneSince
  BY DEF NoPrimaries
<1>4. primary_ups' = IF primary_ups # None /\ arg.fsdmode > 0 THEN None ELSE primary_ups
  BY DEF NoPrimaries
<1> QED  BY <1>1, <1>2, <1>3, <1>4, Times DEF Cap

LEMMA StepElections ==
    ASSUME IInv, [Next]_vars
    PROVE  Elections' /\ ClockRuns'
<1>1. /\ TypeOK /\ PlaceOK /\ Elections /\ ClockRuns /\ lacking \in Nat /\ gone_for \in Int
      /\ lacking <= arg_noprimary_timeout + 2
  BY Times DEF IInv, TypeOK, TimesOK
<1>2. arg' = arg
  BY <1>1, Frame
<1>3. CASE At("elect") /\ At("rest")' /\ StillWaiting
  <2>1. /\ ~init_time_elapsed /\ UNCHANGED <<primary_ups, init_time_elapsed, lacking>>
    BY <1>3 DEF StillWaiting, InitTime
  <2> QED  BY <1>1, <1>2, <2>1 DEF Elections, ClockRuns
<1>4. CASE At("elect") /\ At("rest")' /\ NoPrimaries
  <2>1. ~At("rest")
    BY <1>4 DEF At
  <2>2. /\ init_time_elapsed' = TRUE /\ lacking' = Cap(lacking) /\ gone_for' = GoneSince
        /\ primary_ups' = IF arg.fsdmode # 0 THEN None ELSE primary_ups
    BY <1>1, <1>4, NoPrimariesFrame
  <2>3. Elections'
    BY <1>2, <2>2 DEF Elections
  <2>4. gone_for' >= lacking' - 1
    BY <1>1, <2>1, <2>2, Times DEF ClockRuns, Cap, GoneSince, IInv, TypeOK, TimesOK
  <2> QED  BY <1>4, <2>3, <2>4 DEF ClockRuns
<1>5. CASE Elected
  BY <1>5 DEF Elected, Elections, ClockRuns
<1>6. CASE /\ UNCHANGED <<primary_ups, init_time_elapsed, lacking>>
           /\ (pc' = pc \/ (~At("rest") /\ ~At("rest")')) /\ gone_for' = gone_for
  BY <1>1, <1>2, <1>6 DEF Elections, ClockRuns, At
<1>7. CASE Turn /\ At("rest") /\ ~At("rest")' /\ UNCHANGED <<primary_ups, init_time_elapsed, lacking>>
  <2>1. gone_for' = IF gone_for \in {-1, arg_noprimary_timeout + AlarmPropagTime + 1}
                    THEN gone_for ELSE gone_for + 1
    BY <1>7 DEF Turn
  <2> QED  BY <1>1, <1>2, <1>7, <2>1, Times DEF Elections, ClockRuns
<1> QED  BY <1>1, <1>3, <1>4, <1>5, <1>6, <1>7, Frame

LEMMA StepFallback ==
    ASSUME IInv, [Next]_vars
    PROVE  FallbackIsEntered'
<1>1. TypeOK /\ PlaceOK /\ FallbackIsEntered /\ Elections /\ arg.fsdmode \in 0..2
  BY ConfAssumption DEF IInv, TypeOK, PlaceOK
<1>2. Elections' /\ ClockRuns' /\ arg' = arg
  BY <1>1, StepElections, Frame
<1>3. CASE ~At("rest")' \/ lacking' = 0
  BY <1>3, Times DEF FallbackIsEntered
<1>4. CASE UNCHANGED <<lacking, stale>> /\ At("rest") /\ dstate' = dstate
  BY <1>1, <1>2, <1>4 DEF FallbackIsEntered, Shown
<1>5. CASE StillWaiting
  <2>1. lacking' = 0
    BY <1>1, <1>5 DEF StillWaiting, InitTime, Elections
  <2> QED  BY <1>3, <2>1
<1>6. CASE NoPrimaries /\ At("rest")'
  <2> SUFFICES ASSUME lacking' > arg_noprimary_timeout + 1
               PROVE  CASE arg.fsdmode = 0 -> stale'
                        [] arg.fsdmode = 1 -> "ALARM" \in Shown("ups.status")'
                        [] arg.fsdmode = 2 -> {"ALARM", "FSD"} \subseteq Shown("ups.status")'
    BY <1>2 DEF FallbackIsEntered
  <2>1. gone_for' > arg_noprimary_timeout
    <3>1. lacking' \in Int /\ gone_for' \in Int
      <4>1. TimesOK'
        BY <1>1, StepTimesOK
      <4> QED  BY <4>1, Times DEF TimesOK
    <3>2. lacking' > 0
      BY <3>1, Times
    <3>3. gone_for' >= lacking' - 1
      BY <1>2, <1>6, <3>2 DEF ClockRuns
    <3>4. arg_noprimary_timeout \in Int
      BY Times
    <3>5. lacking' > arg_noprimary_timeout + 1
      OBVIOUS
    <3>6. \A g, l, t \in Int : g >= l - 1 /\ l > t + 1 => g > t
      OBVIOUS
    <3> QED  BY <3>1, <3>3, <3>4, <3>5, <3>6, Zenon
  <2> DEFINE up == gone_for' > arg_noprimary_timeout
             demoted == primary_ups # None /\ arg.fsdmode > 0
             clean == IF demoted THEN ups_clean_dstate(dstate, primary_ups) ELSE dstate
             alarmed == [clean EXCEPT !.alarm_buf = "NO_SUITABLE_PRIMARIES"]
             forced == [alarmed EXCEPT !.status_buf = @ \cup {"FSD"}]
  <2>2. /\ stale' = CASE ~up \/ arg.fsdmode = 2 -> FALSE
                      [] up /\ arg.fsdmode = 0 -> TRUE
                      [] up /\ arg.fsdmode = 1 -> gone_for' >= arg_noprimary_timeout + AlarmPropagTime
        /\ dstate' = CASE ~up \/ arg.fsdmode = 0 -> clean
                       [] up /\ arg.fsdmode = 1 -> status_commit(alarm_commit(alarmed), Charge(clean))
                       [] up /\ arg.fsdmode = 2 -> status_commit(alarm_commit(forced), Charge(clean))
    BY <1>6 DEF NoPrimaries
  <2>3. Record(clean)
    <3>1. Record(dstate) /\ Form(dstate)
      BY DEF IInv, Published, Record, Form
    <3> QED  BY <3>1, CleanRecord
  <2>4. "NO_SUITABLE_PRIMARIES" # None
    BY ListAssumption
  <2>5. CASE arg.fsdmode = 0
    BY <2>1, <2>2, <2>5
  <2>6. CASE arg.fsdmode = 1
    <3>1. dstate' = status_commit(alarm_commit(alarmed), Charge(clean))
      BY <2>1, <2>2, <2>6
    <3>2. alarmed.alarm_buf # None /\ Form(alarmed)
      BY <2>3, <2>4 DEF Record, Form
    <3> HIDE DEF alarmed
    <3>3. "ALARM" \in dstate'.info["ups.status"]
      BY <3>1, <3>2, StatusCommit, AlarmCommit
    <3> QED  BY <2>6, <3>3 DEF Shown
  <2>7. CASE arg.fsdmode = 2
    <3>1. dstate' = status_commit(alarm_commit(forced), Charge(clean))
      BY <2>1, <2>2, <2>7
    <3>2. forced.alarm_buf # None /\ Form(forced) /\ "FSD" \in forced.status_buf
      BY <2>3, <2>4 DEF Record, Form
    <3> HIDE DEF forced
    <3>3. {"ALARM", "FSD"} \subseteq dstate'.info["ups.status"]
      BY <3>1, <3>2, StatusCommit, AlarmCommit
    <3> QED  BY <2>7, <3>3 DEF Shown
  <2>8. arg.fsdmode = 0 \/ arg.fsdmode = 1 \/ arg.fsdmode = 2
    BY <1>1
  <2> QED  BY <2>5, <2>6, <2>7, <2>8
<1>7. CASE Elected
  BY <1>3, <1>7 DEF Elected
<1> QED  BY <1>1, <1>3, <1>4, <1>5, <1>6, <1>7, Frame DEF At

LEMMA StepPrimaryLost ==
    ASSUME IInv, [Next]_vars
    PROVE  PrimaryLost'
<1>1. TypeOK /\ CountsAreRight /\ PlaceOK /\ FlagsOK /\ Elections /\ PrimaryLost /\ primary_ups \in Ups \cup {None}
  BY DEF IInv, TypeOK, ElectionOK
<1>2. arg' = arg
  BY <1>1, Frame
<1> SUFFICES ASSUME primary_ups' # None, arg.fsdmode # 0, "ALIVE" \notin flags'[primary_ups']
             PROVE  Passed(primary_ups)'
  BY <1>2 DEF PrimaryLost, Passed
<1>3. CASE StillWaiting
  BY <1>1, <1>3 DEF StillWaiting, InitTime, Elections
<1>4. CASE NoPrimaries
  BY <1>1, <1>4, NoPrimariesFrame
<1>5. CASE Elected
  <2>1. primary_ups' = get_primary_candidate /\ get_primary_candidate # None /\ flags' = flags
    BY <1>5 DEF Elected, ElectionEnds
  <2>2. "ALIVE" \in flags[get_primary_candidate]
    BY <2>1, CandidateIsBest, PriorityType
  <2> QED  BY <2>1, <2>2
<1>6. CASE UNCHANGED primary_ups /\ "ALIVE" \notin flags[primary_ups]
           /\ ~(StillWaiting \/ NoPrimaries \/ Elected)
  <2>1. Passed(primary_ups)
    BY <1>1, <1>6 DEF PrimaryLost
  <2>2. ~At("rest")
    BY <2>1 DEF Passed, At
  <2>3. \/ pc' = pc
        \/ ~At("elect") /\ ~At("rest")' /\ (At("elect")' \/ pc'.i >= pc.i)
    BY <1>1, <1>6, <2>2, Frame
  <2>4. CASE pc' = pc
    BY <1>6, <2>1, <2>4 DEF Passed, At
  <2>5. CASE At("elect")'
    BY <2>5 DEF Passed
  <2>6. CASE ~At("elect") /\ ~At("rest")' /\ pc'.i >= pc.i
    <3>1. PICK j \in 1..Len(ups_list) : ups_list[j] = primary_ups /\ j < pc.i
      BY <2>1, <2>6 DEF Passed
    <3>2. pc.i \in Nat /\ pc'.i \in Nat
      BY <1>1, StepPlaceOK DEF PlaceOK
    <3>3. j < pc'.i
      BY <2>6, <3>1, <3>2, ListLength
    <3> QED  BY <1>6, <2>6, <3>1, <3>3 DEF Passed
  <2> QED  BY <2>3, <2>4, <2>5, <2>6
<1>7. CASE UNCHANGED primary_ups /\ "ALIVE" \in flags[primary_ups]
  <2>1. primary_ups = Here /\ (Dead \/ ReadFails \/ ReadTimesOut)
    <3>1. flags' # flags /\ primary_ups \in Ups
      BY <1>1, <1>7
    <3>2. PICK f \in SUBSET {"ALIVE", "DUMPED", "DATA_OK", "ONLINE"} :
            flags' = [flags EXCEPT ![Here] = f] /\ (f # {} => "ALIVE" \in f) /\ (f = {} => Dead \/ ReadFails \/ ReadTimesOut)
      BY <1>1, <3>1, FlagSteps
    <3>3. flags'[primary_ups] = IF primary_ups = Here THEN f ELSE flags[primary_ups]
      BY <1>1, <3>1, <3>2 DEF FlagsOK
    <3> QED  BY <1>7, <3>2, <3>3
  <2>2. Onward /\ (At("check") \/ At("read"))
    BY <2>1 DEF Dead, ReadFails, ReadTimesOut
  <2>3. pc.i \in 1..Len(ups_list) /\ (At("elect")' \/ (~At("rest")' /\ pc'.i = pc.i + 1))
    BY <1>1, <2>2, OnwardPlace DEF PlaceOK, Onward, At
  <2>4. pc.i < pc.i + 1
    BY <2>3, ListLength
  <2> QED  BY <1>7, <2>1, <2>3, <2>4 DEF Passed, Here
<1> QED  BY <1>1, <1>3, <1>4, <1>5, <1>6, <1>7, Frame

\* The primary is not connected to in the turn in which it is lost.
LEMMA NotRenewed ==
    ASSUME IInv, Connect, ~Lax
    PROVE  Here # primary_ups
<1>1. PlaceOK /\ PrimaryLost /\ At("check") /\ "ALIVE" \notin flags[Here]
  BY DEF IInv, TypeOK, Connect
<1>2. Here \in Ups /\ Here # None /\ pc.i \in 1..Len(ups_list)
  BY <1>1, HereInList, ListAssumption DEF PlaceOK
<1> SUFFICES ASSUME Here = primary_ups PROVE FALSE
  OBVIOUS
<1>3. PICK j \in 1..Len(ups_list) : ups_list[j] = Here /\ j < pc.i
  BY <1>1, <1>2 DEF PrimaryLost, Passed, Lax, At
<1>4. j = pc.i
  BY <1>2, <1>3, ListAssumption, ListLength DEF IsInjective, Here
<1> QED  BY <1>2, <1>3, <1>4, ListLength

-----------------------------------------------------------------------------
(* What is published *)

\* A line changes nothing of what is known of the other drivers.
LEMMA LineRow ==
    ASSUME TypeOK, Here \in Ups, NEW k \in Key, NEW x, NEW n,
           var_list' = [var_list EXCEPT ![Here][k] = x], needs_export' = [needs_export EXCEPT ![Here] = n]
    PROVE  \A u \in Ups : u # Here => var_list'[u] = var_list[u] /\ needs_export'[u] = needs_export[u]
BY DEF TypeOK, CopiesOK

LEMMA LinePublished ==
    ASSUME IInv, NEW line \in Says[Here], Line(line)
    PROVE  Published'
<1>1. /\ TypeOK /\ PlaceOK /\ Published /\ At("read") /\ Here \in Ups /\ primary_ups \in Ups \cup {None}
      /\ None \notin Ups
  BY HereInList, ListAssumption DEF IInv, TypeOK, ElectionOK, Line
<1>2. /\ UNCHANGED <<arg, primary_ups, force_dstate_export, leftover>>
      /\ Lax' = Lax /\ Added' = Added
  BY DEF Line, goneVars, Lax, Added
<1>3. ASSUME UNCHANGED <<dstate, var_list, needs_export>> PROVE Published'
  BY <1>1, <1>2, <1>3 DEF Published, Exported, Record
<1>4. CASE Flag(line)
  BY <1>3, <1>4 DEF Flag
<1>5. ASSUME DelInfo(line) \/ SetInfo(line), primary_ups # Here PROVE Published'
  <2>1. dstate' = dstate
    BY <1>5 DEF DelInfo, SetInfo
  <2>2. line[2] \in Key
    BY <1>1, <1>5, LineKeys DEF DelInfo, SetInfo
  <2>3. PICK x, n : /\ var_list' = [var_list EXCEPT ![Here][line[2]] = x]
                    /\ needs_export' = [needs_export EXCEPT ![Here] = n]
    BY <1>5 DEF DelInfo, SetInfo
  <2>4. \A u \in Ups : u # Here => var_list'[u] = var_list[u] /\ needs_export'[u] = needs_export[u]
    BY <1>1, <2>2, <2>3, LineRow
  <2> QED  BY <1>1, <1>2, <1>5, <2>1, <2>4 DEF Published
<1>6. CASE primary_ups = Here
  <2> DEFINE k == line[2]
             v == var_list[Here]
             w == var_list'[Here]
             n == needs_export[Here]
             m == needs_export'[Here]
  <2>1. /\ Record(dstate)
        /\ \/ Exported(dstate, v, n, leftover, Added)
           \/ force_dstate_export[Here] /\ Bare(dstate, leftover)
    BY <1>1, <1>6 DEF Published
  <2>2. SUFFICES ASSUME DelInfo(line) \/ SetInfo(line)
                 PROVE  /\ Record(dstate')
                        /\ Exported(dstate, v, n, leftover, Added) => Exported(dstate', w, m, leftover, Added)
                        /\ Bare(dstate, leftover) => Bare(dstate', leftover)
    <3>1. CASE ~(DelInfo(line) \/ SetInfo(line))
      BY <1>4, <3>1 DEF Line
    <3>2. ASSUME Record(dstate'),
                 Exported(dstate, v, n, leftover, Added) => Exported(dstate', w, m, leftover, Added),
                 Bare(dstate, leftover) => Bare(dstate', leftover)
          PROVE  Published'
      BY <1>1, <1>2, <1>6, <2>1, <3>2 DEF Published
    <3> QED  BY <3>1, <3>2
  <2>3. k \in Key /\ PlainKey \subseteq Key /\ "ups.alarm" \in Key /\ "ups.status" \in Key
    BY <1>1, <2>2, LineKeys DEF DelInfo, SetInfo, PlainKey, Key
  <2>4. CASE DelInfo(line)
    <3>1. m = n \ {k} /\ \A j \in Key : w[j] = IF j = k THEN None ELSE v[j]
      <4>1. DOMAIN var_list = Ups /\ DOMAIN v = Key /\ DOMAIN needs_export = Ups
        BY <1>1 DEF TypeOK, CopiesOK
      <4>2. w = [v EXCEPT ![k] = None] /\ m = n \ {k}
        BY <1>1, <2>4, <4>1 DEF DelInfo
      <4> QED  BY <2>3, <4>1, <4>2
    <3>2. dstate' = IF v[k] # None THEN Withdraw(dstate, k) ELSE dstate
      BY <1>6, <2>4 DEF DelInfo
    <3> HIDE DEF k, v, w, n, m
    <3>3. CASE v[k] = None
      <4>1. \A j \in Key : w[j] = v[j]
        BY <3>1, <3>3
      <4> QED  BY <2>1, <2>3, <3>1, <3>2, <3>3, <4>1 DEF Exported
    <3>4. CASE v[k] # None
      <4>1. dstate' = Withdraw(dstate, k)
        BY <3>2, <3>4
      <4>2. /\ Record(dstate') /\ Same(dstate, dstate', PlainKey \ {k})
            /\ k \in PlainKey => dstate'.info[k] = None
            /\ dstate'.alarm_buf = IF k = "ups.alarm" THEN None ELSE dstate.alarm_buf
            /\ k # "ups.status" =>
                  /\ dstate.status_buf \subseteq dstate'.status_buf
                  /\ dstate'.status_buf \subseteq dstate.status_buf \cup Added
                  /\ k # "ups.alarm" => dstate'.status_buf = dstate.status_buf
                  /\ dstate'.info["ups.status"] =
                        IF k # "ups.alarm" THEN dstate.info["ups.status"] ELSE dstate'.status_buf
        BY <2>1, <2>3, <4>1, WithdrawRecord
      <4>3. ASSUME Exported(dstate, v, n, leftover, Added) PROVE Exported(dstate', w, m, leftover, Added)
        <5>1. ASSUME NEW j \in PlainKey
              PROVE  \/ dstate'.info[j] = w[j]
                     \/ w[j] # None /\ j \in m
                     \/ w[j] = None /\ j \in leftover
          BY <2>3, <3>1, <4>2, <4>3 DEF Exported, Same
        <5>2. \/ dstate'.alarm_buf = w["ups.alarm"]
              \/ w["ups.alarm"] # None /\ "ups.alarm" \in m
          BY <2>3, <3>1, <4>2, <4>3 DEF Exported
        <5>3. \/ w["ups.status"] = None \/ "ups.status" \in m
              \/ /\ w["ups.status"] \subseteq dstate'.status_buf
                 /\ dstate'.status_buf \subseteq w["ups.status"] \cup Added
                 /\ dstate'.info["ups.status"] =
                       dstate'.status_buf \cup (IF dstate'.alarm_buf # None THEN {"ALARM"} ELSE {})
          <6>1. CASE k = "ups.status"
            BY <2>3, <3>1, <6>1
          <6>2. CASE k # "ups.status"
            BY <2>3, <3>1, <4>2, <4>3, <6>2 DEF Exported
          <6> QED  BY <6>1, <6>2
        <5> QED  BY <5>1, <5>2, <5>3 DEF Exported
      <4>4. Bare(dstate, leftover) => Bare(dstate', leftover)
        BY <4>2 DEF Bare, Same
      <4> QED  BY <4>2, <4>3, <4>4
    <3> QED  BY <3>3, <3>4
  <2>5. CASE SetInfo(line)
    <3>1. /\ m = IF v[k] = line[3] THEN n ELSE n \cup {k}
          /\ \A j \in Key : w[j] = IF j = k THEN line[3] ELSE v[j]
      <4>1. DOMAIN var_list = Ups /\ DOMAIN v = Key /\ DOMAIN needs_export = Ups
        BY <1>1 DEF TypeOK, CopiesOK
      <4>2. w = [v EXCEPT ![k] = line[3]] /\ m = IF v[k] = line[3] THEN n ELSE n \cup {k}
        BY <1>1, <2>5, <4>1 DEF SetInfo
      <4> QED  BY <2>3, <4>1, <4>2
    <3>2. dstate' = dstate /\ line[3] # None
      BY <1>1, <2>5, SaysAssumption DEF SetInfo
    <3> HIDE DEF k, v, w, n, m
    <3>3. CASE v[k] = line[3]
      <4>1. m = n /\ \A j \in Key : w[j] = v[j]
        BY <3>1, <3>3
      <4> QED  BY <2>1, <2>3, <3>2, <4>1 DEF Exported
    <3>4. CASE v[k] # line[3]
      BY <2>1, <2>3, <3>1, <3>2, <3>4 DEF Exported
    <3> QED  BY <3>3, <3>4
  <2> QED  BY <2>2, <2>4, <2>5
<1> QED  BY <1>4, <1>5, <1>6 DEF Line

\* The clean-up takes away all that a primary spoke of.
LEMMA CleanIsBare ==
    ASSUME NEW d, Record(d), NEW u, NEW n, NEW left,
           Exported(d, var_list[u], n, left, Added) \/ Bare(d, left)
    PROVE  LET e == ups_clean_dstate(d, u)
           IN  \A k \in PlainKey : e.info[k] = None \/ (k \in left /\ var_list[u][k] = None)
<1>1. Form(d)
  BY DEF Form, Record
<1> DEFINE e == ups_clean_dstate(d, u)
<1>2. \A k \in PlainKey : e.info[k] = IF var_list[u][k] # None THEN None ELSE d.info[k]
  BY <1>1, CleanRecord
<1> HIDE DEF e
<1>3. \A k \in PlainKey : e.info[k] = None \/ (k \in left /\ var_list[u][k] = None)
  BY <1>2 DEF Exported, Bare
<1> QED  BY <1>3 DEF e

LEMMA NoPrimariesPublished ==
    ASSUME IInv, NoPrimaries
    PROVE  Published'
<1>1. TypeOK /\ Published /\ Record(dstate) /\ Form(dstate) /\ arg.fsdmode \in 0..2
  BY ConfAssumption DEF IInv, TypeOK, PlaceOK, Published, Record, Form
<1>2. /\ UNCHANGED <<arg, var_list, needs_export, force_dstate_export, leftover>>
      /\ Lax' = Lax /\ Added' = Added
      /\ primary_ups' = IF arg.fsdmode # 0 THEN None ELSE primary_ups
  BY <1>1, NoPrimariesFrame DEF NoPrimaries, ElectionEnds, Lax, Added
<1> DEFINE up == gone_for' > arg_noprimary_timeout
           demoted == primary_ups # None /\ arg.fsdmode > 0
           clean == IF demoted THEN ups_clean_dstate(dstate, primary_ups) ELSE dstate
           alarmed == [clean EXCEPT !.alarm_buf = "NO_SUITABLE_PRIMARIES"]
           forced == [alarmed EXCEPT !.status_buf = @ \cup {"FSD"}]
<1>3. dstate' = CASE ~up \/ arg.fsdmode = 0 -> clean
                  [] up /\ arg.fsdmode = 1 -> status_commit(alarm_commit(alarmed), Charge(clean))
                  [] up /\ arg.fsdmode = 2 -> status_commit(alarm_commit(forced), Charge(clean))
  BY DEF NoPrimaries
<1>4. CASE arg.fsdmode = 0
  <2>1. dstate' = dstate /\ primary_ups' = primary_ups
    BY <1>2, <1>3, <1>4
  <2> QED  BY <1>1, <1>2, <2>1 DEF Published
<1>5. CASE arg.fsdmode # 0
  <2>1. ~Lax /\ leftover = {} /\ primary_ups' = None /\ (demoted <=> primary_ups # None)
    BY <1>1, <1>2, <1>5 DEF Lax, Published
  <2>2. Record(clean) /\ \A k \in PlainKey : clean.info[k] = None
    <3>1. CASE primary_ups = None
      BY <1>1, <2>1, <3>1 DEF Published, Bare
    <3>2. CASE primary_ups # None
      <4>1. \/ Exported(dstate, var_list[primary_ups], needs_export[primary_ups], leftover, Added)
            \/ Bare(dstate, leftover)
        BY <1>1, <2>1, <3>2 DEF Published
      <4>2. clean = ups_clean_dstate(dstate, primary_ups)
        BY <2>1, <3>2
      <4>3. Record(ups_clean_dstate(dstate, primary_ups))
        BY <1>1, CleanRecord
      <4>4. \A k \in PlainKey : ups_clean_dstate(dstate, primary_ups).info[k] = None
        <5>1. \A k \in PlainKey : ups_clean_dstate(dstate, primary_ups).info[k] = None
                                 \/ (k \in leftover /\ var_list[primary_ups][k] = None)
          BY <1>1, <4>1, CleanIsBare
        <5> QED  BY <2>1, <5>1
      <4> QED  BY <4>2, <4>3, <4>4
    <3> QED  BY <3>1, <3>2
  <2> HIDE DEF clean
  <2>3. Form(alarmed) /\ Form(forced) /\ alarmed.info = clean.info /\ forced.info = clean.info
    BY <2>2 DEF Form, Record
  <2> HIDE DEF alarmed, forced
  <2> HIDE DEF up
  <2>4. Record(dstate') /\ \A k \in PlainKey : dstate'.info[k] = None
    <3>1. CASE ~up
      BY <1>3, <2>2, <3>1
    <3>2. CASE up /\ arg.fsdmode = 1
      <4>1. dstate' = status_commit(alarm_commit(alarmed), Charge(clean))
        BY <1>3, <3>2
      <4> QED  BY <2>2, <2>3, <4>1, BothCommit DEF Same
    <3>3. CASE up /\ arg.fsdmode = 2
      <4>1. dstate' = status_commit(alarm_commit(forced), Charge(clean))
        BY <1>3, <3>3
      <4> QED  BY <2>2, <2>3, <4>1, BothCommit DEF Same
    <3>4. arg.fsdmode = 1 \/ arg.fsdmode = 2
      BY <1>1, <1>5
    <3> QED  BY <3>1, <3>2, <3>3, <3>4
  <2> QED  BY <1>2, <2>1, <2>4 DEF Published, Bare
<1> QED  BY <1>4, <1>5

LEMMA ElectedPublished ==
    ASSUME IInv, Elected
    PROVE  /\ Published'
           /\ needs_export'[primary_ups'] = {} /\ force_dstate_export'[primary_ups'] = FALSE
<1> DEFINE c == get_primary_candidate
           p == primary_ups
           again == primaries_gone /\ c = p
           clean == CASE Demotes(c) -> ups_clean_dstate(dstate, p)
                      [] again -> ups_clean_dstate(dstate, c)
                      [] OTHER -> dstate
           force == force_dstate_export[c] \/ again \/ p # c
<1>1. /\ Published /\ Record(dstate) /\ Form(dstate) /\ CopiesOK /\ primaries_gone \in BOOLEAN
      /\ leftover \subseteq PlainKey
  BY DEF IInv, TypeOK, ElectionOK, Published, Record, Form
<1>2. /\ primary_ups' = c /\ c # None /\ UNCHANGED <<arg, var_list>> /\ Lax' = Lax /\ Added' = Added
      /\ leftover' = {k \in leftover : /\ var_list[c][k] = None
                                       /\ p # None => var_list[p][k] = None}
      /\ \E after \in BOOLEAN : dstate' = ups_export_dstate(clean, c, force, after)
      /\ needs_export' = [needs_export EXCEPT ![c] = {}]
      /\ force_dstate_export' = [force_dstate_export EXCEPT ![c] = FALSE]
  BY DEF Elected, ElectionEnds, Lax, Added
<1>3. c \in Ups /\ force \in BOOLEAN
  BY <1>1, <1>2, CandidateType DEF CopiesOK
<1>4. needs_export'[c] = {} /\ force_dstate_export'[c] = FALSE
  BY <1>1, <1>2, <1>3 DEF CopiesOK
<1> HIDE DEF c
<1>5. \/ Demotes(c) /\ p # c /\ p # None /\ clean = ups_clean_dstate(dstate, p)
      \/ again /\ p = c /\ clean = ups_clean_dstate(dstate, p)
      \/ p = None /\ clean = dstate
      \/ p = c /\ ~again /\ clean = dstate
  BY <1>2 DEF Demotes
<1> HIDE DEF clean
<1>6. Record(clean)
  BY <1>1, <1>5, CleanRecord
<1>7. p # None => \/ Exported(dstate, var_list[p], needs_export[p], leftover, Added)
                  \/ force_dstate_export[p] /\ Bare(dstate, leftover)
  BY <1>1 DEF Published
<1>8. ASSUME force, NEW k \in PlainKey, var_list[c][k] = None PROVE clean.info[k] = None \/ k \in leftover'
  <2>1. CASE p = None
    <3>1. clean = dstate /\ Bare(dstate, leftover)
      BY <1>1, <1>2, <1>5, <2>1 DEF Published, Demotes
    <3> QED  BY <1>2, <1>8, <2>1, <3>1 DEF Bare
  <2>2. CASE p # None /\ clean = ups_clean_dstate(dstate, p)
    <3>1. clean.info[k] = None \/ (k \in leftover /\ var_list[p][k] = None)
      BY <1>1, <1>7, <2>2, CleanIsBare
    <3> QED  BY <1>2, <1>8, <2>2, <3>1
  <2>3. CASE p = c /\ clean = dstate
    <3>1. dstate.info[k] = None \/ k \in leftover
      BY <1>2, <1>7, <1>8, <2>3 DEF Exported, Bare
    <3> QED  BY <1>2, <1>8, <2>3, <3>1
  <2> QED  BY <1>5, <2>1, <2>2, <2>3
<1>9. ASSUME ~force PROVE Exported(clean, var_list[c], needs_export[c], leftover', Added)
  <2>1. p = c /\ ~again /\ clean = dstate /\ ~force_dstate_export[c]
    BY <1>2, <1>5, <1>9 DEF Demotes
  <2>2. Exported(dstate, var_list[c], needs_export[c], leftover, Added)
    BY <1>2, <1>7, <2>1
  <2>3. \A k : k \in leftover /\ var_list[c][k] = None => k \in leftover'
    BY <1>2, <2>1
  <2> QED  BY <2>1, <2>2, <2>3 DEF Exported
<1>10. PICK after \in BOOLEAN : dstate' = ups_export_dstate(clean, c, force, after)
  BY <1>2
<1> HIDE DEF force
<1>11. Record(dstate') /\ Exported(dstate', var_list[c], {}, leftover', Added)
  BY <1>3, <1>6, <1>8, <1>9, <1>10, ExportRecord
<1>12. ~Lax => leftover' = {}
  BY <1>1, <1>2 DEF Published
<1> QED  BY <1>2, <1>4, <1>11, <1>12 DEF Published

LEMMA StepPublished ==
    ASSUME IInv, [Next]_vars
    PROVE  Published' /\ UpToDate'
<1>1. TypeOK /\ PlaceOK /\ CopiesOK /\ Published /\ Elections /\ UpToDate /\ primary_ups \in Ups \cup {None}
  BY DEF IInv, TypeOK, ElectionOK
<1>2. arg' = arg /\ Lax' = Lax
  BY <1>1, Frame DEF Lax
<1>3. Published'
  <2>1. CASE UNCHANGED vars \/ Skip \/ ConnectFails \/ Alive \/ CalmDown \/ Dead
             \/ ReadFails \/ ReadTimesOut \/ ReadEnds \/ StillWaiting \/ \E o \in Orders[arg] : instcmd(o)
    <3>1. /\ UNCHANGED <<dstate, var_list, needs_export, force_dstate_export, primary_ups, leftover>>
          /\ Added' = Added
      BY <2>1 DEF vars, copyVars, goneVars, pubVars, Added, Skip, ConnectFails, Alive, CalmDown, Dead,
               ReadFails, ReadTimesOut, ReadEnds, StillWaiting, ElectionEnds, instcmd
    <3> QED  BY <1>1, <1>2, <3>1 DEF Published
  <2>2. CASE Turn
    <3>1. /\ UNCHANGED <<dstate, var_list, needs_export, force_dstate_export, primary_ups, leftover>>
          /\ charge_was' = charge_was \/ charge_was' \in Nat
      BY <2>2 DEF Turn
    <3>2. Added \subseteq Added'
      BY <1>1, <3>1 DEF Added, TypeOK, ElectionOK
    <3>3. \A d, said, pending, left :
             Exported(d, said, pending, left, Added) => Exported(d, said, pending, left, Added')
      BY <3>2 DEF Exported
    <3> QED  BY <1>1, <1>2, <3>1, <3>3 DEF Published
  <2>3. CASE Connect
    <3>1. UNCHANGED <<dstate, primary_ups>> /\ Added' = Added /\ Here \in Ups
      BY <1>1, <2>3, HereInList DEF Connect, goneVars, Added
    <3>2. /\ force_dstate_export'[Here] = TRUE
          /\ \A u \in Ups : u # Here => /\ var_list'[u] = var_list[u] /\ needs_export'[u] = needs_export[u]
                                        /\ force_dstate_export'[u] = force_dstate_export[u]
      BY <1>1, <2>3, <3>1 DEF Connect, CopiesOK
    <3>3. CASE primary_ups = Here
      <4>1. Lax
        BY <2>3, <3>3, NotRenewed
      <4>2. leftover' = leftover \cup {k \in PlainKey : var_list[Here][k] # None}
        BY <2>3, <3>3 DEF Connect
      <4>3. Exported(dstate, var_list[Here], needs_export[Here], leftover, Added) \/ Bare(dstate, leftover)
        BY <1>1, <3>1, <3>3, ListAssumption DEF Published
      <4>4. Bare(dstate, leftover')
        BY <4>2, <4>3 DEF Exported, Bare
      <4> QED  BY <1>1, <1>2, <3>1, <3>2, <3>3, <4>1, <4>4 DEF Published
    <3>4. CASE primary_ups # Here
      <4>1. leftover' = leftover
        BY <2>3, <3>4 DEF Connect
      <4> QED  BY <1>1, <1>2, <3>1, <3>2, <3>4, <4>1 DEF Published
    <3> QED  BY <3>3, <3>4
  <2>4. CASE NoPrimaries
    BY <2>4, NoPrimariesPublished
  <2>5. CASE Elected
    BY <2>5, ElectedPublished
  <2>6. ASSUME NEW line \in Says[Here], Line(line) PROVE Published'
    BY <2>6, LinePublished
  <2> QED  BY <2>1, <2>2, <2>3, <2>4, <2>5, <2>6 DEF Next
<1>4. UpToDate'
  <2>1. CASE StillWaiting
    BY <1>1, <2>1 DEF StillWaiting, InitTime, Elections, UpToDate
  <2>2. CASE NoPrimaries
    <3>1. lacking' > 0
      BY <1>1, <2>2, NoPrimariesFrame
    <3> QED  BY <3>1 DEF UpToDate
  <2>3. CASE Elected
    BY <2>3, ElectedPublished DEF UpToDate
  <2>4. CASE ~At("rest")'
    BY <2>4 DEF UpToDate
  <2>5. CASE At("rest") /\ UNCHANGED <<primary_ups, lacking, needs_export, force_dstate_export>>
    BY <1>1, <2>5 DEF UpToDate
  <2> QED  BY <1>1, <2>1, <2>2, <2>3, <2>4, <2>5, Frame DEF At
<1> QED  BY <1>3, <1>4

-----------------------------------------------------------------------------
(* The theorems *)

LEMMA StepIInv == IInv /\ [Next]_vars => IInv'
<1> SUFFICES ASSUME IInv, [Next]_vars PROVE IInv'
  OBVIOUS
<1>1. TypeOK /\ CountsAreRight
  BY DEF IInv
<1>2. TypeOK' /\ CountsAreRight'
  BY <1>1, StepTypeOK, StepCounts
<1>3. Elections' /\ ClockRuns' /\ FallbackIsEntered'
  BY StepElections, StepFallback
<1>4. PrimaryLost' /\ Published' /\ UpToDate'
  BY StepPrimaryLost, StepPublished
<1> QED  BY <1>2, <1>3, <1>4 DEF IInv

LEMMA Invariance == Spec => []IInv
BY InitIInv, StepIInv, PTL DEF Spec

\* The variables of failover.c keep to their domains, and the numbers of drivers
\* that are connected and on line, counted up and down in ups_connect(),
\* ups_disconnect() and ups_parse_protocol(), are right for any list of drivers.
THEOREM CountersAreRight == Spec => [](TypeOK /\ CountsAreRight)
<1>1. IInv => TypeOK /\ CountsAreRight
  BY DEF IInv
<1> QED  BY <1>1, Invariance, PTL

\* handle_no_primaries(): for any noprimarytime, the fallback is in force once no
\* driver was fit for longer than that.
THEOREM FallbackInTime == Spec => []FallbackIsEntered
<1>1. IInv => FallbackIsEntered
  BY DEF IInv
<1> QED  BY <1>1, Invariance, PTL

\* ups_export_dstate(), ups_clean_dstate() and ups_del_var(): after a turn that
\* found a primary, what failover publishes is what that driver said, and every
\* exception has its reason: a key the driver is silent of comes from a primary
\* that was kept while it was lost, under fsdmode 0, and connected to anew; a
\* word added to its status is ALARM, for its alarm, or the CHRG or DISCHRG of
\* status_commit(), after a charge was published.
THEOREM PublishedIsThePrimarys == Spec => []PublishedIsPrimary
<1>1. IInv => PublishedIsPrimary
  <2> SUFFICES ASSUME IInv PROVE PublishedIsPrimary
    OBVIOUS
  <2>1. arg.fsdmode > 0 => leftover = {}
    <3>1. arg.fsdmode \in 0..2
      BY ConfAssumption DEF IInv, TypeOK, PlaceOK
    <3> QED  BY <3>1 DEF IInv, Published, Lax
  <2>2. ASSUME Primary
        PROVE  /\ \A k \in Key \ {"ups.status"} : Shown(k) = Said(k) \/ (Said(k) = None /\ k \in leftover)
               /\ Said("ups.status") # None =>
                     /\ Said("ups.status") \subseteq Shown("ups.status")
                     /\ MadeUp \subseteq {"ALARM"} \cup Added
                     /\ ("ALARM" \in Shown("ups.status"))
                           <=> ("ALARM" \in Said("ups.status") \/ Said("ups.alarm") # None)
    <3> DEFINE said == var_list[primary_ups]
    <3>1. Record(dstate) /\ Exported(dstate, said, {}, leftover, Added)
      BY <2>2 DEF IInv, UpToDate, Published, Primary
    <3>2. \A k : Said(k) = said[k] /\ Shown(k) = dstate.info[k]
      BY DEF Said, Shown
    <3> HIDE DEF said
    <3>3. dstate.info["ups.alarm"] = said["ups.alarm"] /\ dstate.alarm_buf = said["ups.alarm"]
      BY <3>1 DEF Record, Exported
    <3>4. \A k \in Key \ {"ups.status"} : k = "ups.alarm" \/ k \in PlainKey
      BY DEF PlainKey
    <3>5. \A k \in PlainKey : Shown(k) = Said(k) \/ (Said(k) = None /\ k \in leftover)
      BY <3>1, <3>2 DEF Exported
    <3>6. \A k \in Key \ {"ups.status"} : Shown(k) = Said(k) \/ (Said(k) = None /\ k \in leftover)
      BY <3>2, <3>3, <3>4, <3>5
    <3>7. ASSUME said["ups.status"] # None
          PROVE  /\ said["ups.status"] \subseteq dstate.info["ups.status"]
                 /\ dstate.info["ups.status"] \subseteq said["ups.status"] \cup {"ALARM"} \cup Added
                 /\ ("ALARM" \in dstate.info["ups.status"])
                       <=> ("ALARM" \in said["ups.status"] \/ said["ups.alarm"] # None)
      <4>1. /\ said["ups.status"] \subseteq dstate.status_buf
            /\ dstate.status_buf \subseteq said["ups.status"] \cup Added
            /\ dstate.info["ups.status"] =
                  dstate.status_buf \cup (IF said["ups.alarm"] # None THEN {"ALARM"} ELSE {})
        BY <3>1, <3>3, <3>7 DEF Exported
      <4>2. "ALARM" \notin Added
        BY DEF Added
      <4> QED  BY <4>1, <4>2
    <3> QED  BY <3>2, <3>6, <3>7 DEF MadeUp
  <2> QED  BY <2>1, <2>2 DEF PublishedIsPrimary, Added
<1> QED  BY <1>1, Invariance, PTL

\* get_primary_candidate(): whatever the order of the list, an election takes an
\* eligible driver, and passes over one with fresh data that is on line only
\* for another such one, a forced one or one the filters favour.
THEOREM TheBestIsElected == Spec => FreshIsPreferred
<1> DEFINE A == At("elect") /\ lacking' = 0 /\ primary_ups' # None =>
                  /\ Eligible(primary_ups')
                  /\ \A u \in Ups : Eligible(u) /\ Fresh(u) /\ ~arg.strict_filtering =>
                        \/ Forced(primary_ups') \/ ups_passes_status_filters(primary_ups')
                        \/ Fresh(primary_ups') /\ (Forced(u) => u = primary_ups')
<1>1. IInv /\ [Next]_vars => [A]_vars
  <2> SUFFICES ASSUME IInv, Next, At("elect"), lacking' = 0, primary_ups' # None
               PROVE  A
    OBVIOUS
  <2> DEFINE c == get_primary_candidate
  <2>1. Elected
    <3>1. TypeOK /\ Elections /\ pc.at = "elect"
      BY DEF IInv, At
    <3>2. StillWaiting \/ NoPrimaries \/ Elected
      BY <3>1 DEF Next, Turn, Skip, Connect, ConnectFails, Dead, Alive, ReadFails, ReadTimesOut, ReadEnds, instcmd,
               CalmDown, At
    <3>3. ~StillWaiting
      BY <3>1 DEF StillWaiting, InitTime, Elections
    <3>4. ~NoPrimaries
      BY <3>1, NoPrimariesFrame
    <3> QED  BY <3>2, <3>3, <3>4
  <2>2. primary_ups' = c /\ c # None
    BY <2>1 DEF Elected
  <2>3. Priority(c) \in Int /\ Priority(c) >= 0
    BY <2>2, CandidateIsBest, PriorityType
  <2>4. Eligible(c)
    BY <2>3, PriorityType DEF Eligible
  <2>5. ASSUME NEW u \in Ups, Eligible(u), Fresh(u), ~arg.strict_filtering
        PROVE  \/ Forced(c) \/ ups_passes_status_filters(c)
               \/ Fresh(c) /\ (Forced(u) => u = c)
    <3>1. {"ALIVE", "DUMPED", "DATA_OK", "ONLINE"} \subseteq flags[u] /\ ~Ignored(u)
      BY <2>5 DEF Eligible, Fresh
    <3>2. Priority(u) \in 0..2 /\ (Forced(u) => Priority(u) = 0)
      BY <2>5, <3>1, PriorityType
    <3>3. Priority(c) <= Priority(u)
      BY <3>2, CandidateIsBest
    <3>4. /\ Priority(c) = 0 => Forced(c)
          /\ Priority(c) = 1 => ups_passes_status_filters(c)
          /\ Priority(c) = 2 => Fresh(c)
      BY PriorityType DEF Fresh
    <3>5. \/ Priority(c) = 0 \/ Priority(c) = 1
          \/ Priority(c) = 2 /\ Priority(u) # 0
      BY <2>3, <3>2, <3>3
    <3> QED  BY <3>2, <3>4, <3>5
  <2> HIDE DEF c
  <2> QED  BY <2>2, <2>4, <2>5
<1> QED  BY <1>1, Invariance, PTL DEF Spec, FreshIsPreferred
=============================================================================
