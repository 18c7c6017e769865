--------------------------- MODULE Upsmon_proofs ---------------------------
(***************************************************************************)
(* Proofs about upsmon.  The monitor (module Upsmon), for any set of       *)
(* UPSes, any configurations with any power values, any answers of upsd    *)
(* and any durations: no needless shutdown, no missed one, and a timer     *)
(* that is not restarted.  Its two processes (module UpsmonLoop): nothing  *)
(* is shut down that the child did not decide to shut down, and no         *)
(* decision is lost.  Both together (module UpsmonWhole), at the end.      *)
(***************************************************************************)
EXTENDS UpsmonWhole, FiniteSetTheorems, SequenceTheorems, TLAPS

\* While the words of a status are looked at: no flag is left that it does not
\* speak of, those of the words that are done are there, and a UPS that was
\* low and still is has been so all along.
Parsing ==
    pc = "parse" =>
        LET s == status[cur]
            said == Mentioned(line)
            done == said \ Mentioned(words)
        IN  /\ words \in Seq(said)
            /\ s \cap Cleared \subseteq said /\ kept[cur] \subseteq said
            /\ Cleared \cap done \subseteq s
            /\ "OB" \in done /\ "OL" \notin said => "OB" \in s
            /\ "OL" \in done /\ "OB" \notin said => "OB" \notin s
            /\ LowLine(heard[cur]) /\ fresh[cur] /\ LowLine(line) => {"OB", "LB"} \subseteq s

\* What is left of the last status of u, until there is another one.
Remembered(u) ==
    LET said == Mentioned(heard[u])
    IN  /\ Fine(heard[u]) => status[u] \cap Alarming = {} /\ kept[u] = {}
        /\ fresh[u] => /\ Cleared \cap said \subseteq status[u]
                       /\ "CAL" \in status[u] => "CAL" \in said
                       /\ "OB" \in said /\ "OL" \notin said => "OB" \in status[u]

IInv == /\ TypeOK /\ Parsing /\ ShutdownJustified
        /\ \A u \in Ups : cur # u => Remembered(u)

-----------------------------------------------------------------------------
(* Power values add up: fewer supplies have no more power *)

Weighted(c, S) == IsFiniteSet(S) /\ \A u \in S : c.pv[u] \in Nat

\* The sum, taken one element at a time, as MapThenSumSet() does.
Pick(s) == CHOOSE x \in s : TRUE
Sum1(c, g, s) == IF s = {} THEN 0 ELSE c.pv[Pick(s)] + g[s \ {Pick(s)}]
Step(c, S, g) == [s \in SUBSET S |-> Sum1(c, g, s)]

LEMMA PowerIs ==
    ASSUME NEW c, NEW S, NEW g, g = Step(c, S, g)
    PROVE  \E h : h = Step(c, S, h) /\ Power(c, S) = h[S]
BY DEF Power, MapThenSumSet, MapThenFoldSet, Step, Sum1, Pick

LEMMA PickIn == \A s : s # {} => Pick(s) \in s
BY DEF Pick

LEMMA LeastNumber ==
    ASSUME NEW T, T \subseteq Nat, T # {}
    PROVE  \E n \in T : \A m \in T : n <= m
<1>1. \E n \in T : \A m \in T : ~(<<m, n>> \in OpToRel(<, Nat))
  BY NatLessThanWellFounded, WFMin
<1>2. \A m, n \in T : ~(<<m, n>> \in OpToRel(<, Nat)) => n <= m
  BY DEF OpToRel
<1> QED  BY <1>1, <1>2

\* Sizes of subsets of a finite set.
LEMMA Sizes ==
    ASSUME NEW S, IsFiniteSet(S), NEW s \in SUBSET S
    PROVE  /\ IsFiniteSet(s) /\ Cardinality(s) \in Nat
           /\ Cardinality(s) = 0 <=> s = {}
           /\ \A x \in s : s \ {x} \in SUBSET S /\ Cardinality(s \ {x}) = Cardinality(s) - 1
<1>1. IsFiniteSet(s)
  BY FS_Subset
<1> QED  BY <1>1, FS_CardinalityType, FS_EmptySet, FS_RemoveElement

\* A property of sets fails for a smallest one first.
LEMMA SmallestSet ==
    ASSUME NEW S, IsFiniteSet(S), NEW B, B \subseteq SUBSET S, B # {}
    PROVE  \E s \in B : \A t \in B : Cardinality(s) <= Cardinality(t)
<1> DEFINE T == {Cardinality(s) : s \in B}
<1>1. T \subseteq Nat /\ T # {}
  BY Sizes
<1>2. \E n \in T : \A m \in T : n <= m
  <2> HIDE DEF T
  <2> QED  BY <1>1, LeastNumber
<1> QED  BY <1>2

\* Sums of subsets of up to n elements.
Upto(S, n) == {s \in SUBSET S : Cardinality(s) <= n}
Tables(c, S, n) == {g \in [Upto(S, n) -> Nat] : \A s \in Upto(S, n) : g[s] = Sum1(c, g, s)}

LEMMA TablesExist ==
    ASSUME NEW c, NEW S, Weighted(c, S)
    PROVE  \A n \in Nat : Tables(c, S, n) # {}
<1> DEFINE T == {n \in Nat : Tables(c, S, n) = {}}
<1>1. SUFFICES ASSUME T # {} PROVE FALSE
  OBVIOUS
<1>2. PICK n \in T : \A m \in T : n <= m
  <2>1. T \subseteq Nat
    OBVIOUS
  <2> HIDE DEF T
  <2> QED  BY <1>1, <2>1, LeastNumber
<1>3. n \in Nat /\ Tables(c, S, n) = {} /\ IsFiniteSet(S)
  BY DEF Weighted
<1>4. n # 0
  <2>1. SUFFICES ASSUME n = 0 PROVE FALSE
    OBVIOUS
  <2>2. \A s \in Upto(S, 0) : s = {}
    BY <1>3, Sizes DEF Upto
  <2>3. [s \in Upto(S, 0) |-> 0] \in Tables(c, S, 0)
    BY <2>2 DEF Tables, Sum1
  <2> QED  BY <1>3, <2>1, <2>3
<1>5. n - 1 \in Nat /\ n - 1 \notin T
  BY <1>2, <1>3, <1>4
<1>6. PICK g : g \in Tables(c, S, n - 1)
  BY <1>5
<1>7. g \in [Upto(S, n - 1) -> Nat] /\ \A s \in Upto(S, n - 1) : g[s] = Sum1(c, g, s)
  BY <1>6 DEF Tables
<1> DEFINE h == [s \in Upto(S, n) |-> Sum1(c, g, s)]
<1>8. ASSUME NEW s \in Upto(S, n), s # {}
      PROVE  s \ {Pick(s)} \in Upto(S, n - 1) /\ Pick(s) \in S
  <2>1. s \in SUBSET S /\ Pick(s) \in s /\ Cardinality(s) <= n
    BY <1>8, PickIn DEF Upto
  <2> QED  BY <1>3, <2>1, Sizes DEF Upto
<1>9. h \in [Upto(S, n) -> Nat]
  <2>1. ASSUME NEW s \in Upto(S, n) PROVE Sum1(c, g, s) \in Nat
    <3>1. CASE s = {}
      BY <3>1 DEF Sum1
    <3>2. CASE s # {}
      <4>1. g[s \ {Pick(s)}] \in Nat /\ c.pv[Pick(s)] \in Nat
        BY <1>7, <1>8, <3>2 DEF Weighted
      <4> QED  BY <3>2, <4>1 DEF Sum1
    <3> QED  BY <3>1, <3>2
  <2> QED  BY <2>1
<1>10. \A s \in Upto(S, n - 1) : s \in Upto(S, n) /\ h[s] = g[s]
  <2>1. Upto(S, n - 1) \subseteq Upto(S, n)
    BY <1>3, Sizes DEF Upto
  <2> QED  BY <1>7, <2>1
<1>11. ASSUME NEW s \in Upto(S, n) PROVE h[s] = Sum1(c, h, s)
  <2>1. h[s] = Sum1(c, g, s)
    OBVIOUS
  <2> HIDE DEF h
  <2>2. s # {} => h[s \ {Pick(s)}] = g[s \ {Pick(s)}]
    BY <1>8, <1>10
  <2> QED  BY <2>1, <2>2 DEF Sum1
<1> HIDE DEF h
<1>12. h \in Tables(c, S, n)
  BY <1>9, <1>11 DEF Tables
<1> QED  BY <1>3, <1>12

\* One table holds the power of all subsets.
LEMMA PowerTable ==
    ASSUME NEW c, NEW S, Weighted(c, S)
    PROVE  \E g \in [SUBSET S -> Nat] : \A s \in SUBSET S : g[s] = Sum1(c, g, s) /\ Power(c, s) = g[s]
<1>1. IsFiniteSet(S) /\ Cardinality(S) \in Nat
  BY FS_CardinalityType DEF Weighted
<1>2. Upto(S, Cardinality(S)) = SUBSET S
  BY <1>1, FS_Subset DEF Upto
<1>3. PICK g \in [SUBSET S -> Nat] : \A s \in SUBSET S : g[s] = Sum1(c, g, s)
  <2>1. PICK g : g \in Tables(c, S, Cardinality(S))
    BY <1>1, TablesExist
  <2> QED  BY <1>2, <2>1 DEF Tables
<1>4. ASSUME NEW T \in SUBSET S PROVE Power(c, T) = g[T]
  <2> DEFINE k == [s \in SUBSET T |-> g[s]]
  <2>1. \A s \in SUBSET T : s \in SUBSET S /\ (s # {} => s \ {Pick(s)} \in SUBSET T)
    BY PickIn
  <2>2. k = Step(c, T, k)
    <3>1. \A s \in SUBSET T : k[s] = Sum1(c, k, s)
      <4>1. ASSUME NEW s \in SUBSET T PROVE k[s] = Sum1(c, k, s)
        <5>1. k[s] = Sum1(c, g, s)
          BY <1>3, <2>1
        <5>2. s # {} => k[s \ {Pick(s)}] = g[s \ {Pick(s)}]
          BY <2>1
        <5> QED  BY <5>1, <5>2 DEF Sum1
      <4> QED  BY <4>1
    <3>2. k = [s \in SUBSET T |-> k[s]]
      OBVIOUS
    <3> HIDE DEF k
    <3> QED  BY <3>1, <3>2 DEF Step
  <2>3. PICK h : h = Step(c, T, h) /\ Power(c, T) = h[T]
    <3> HIDE DEF k
    <3> QED  BY <2>2, PowerIs
  <2>4. \A s \in SUBSET T : h[s] = Sum1(c, h, s)
    BY <2>3 DEF Step
  <2> DEFINE B == {s \in SUBSET T : h[s] # g[s]}
  <2>5. B = {}
    <3>1. SUFFICES ASSUME B # {} PROVE FALSE
      OBVIOUS
    <3>2. PICK s \in B : \A t \in B : Cardinality(s) <= Cardinality(t)
      <4>1. B \subseteq SUBSET S
        OBVIOUS
      <4> HIDE DEF B
      <4> QED  BY <1>1, <3>1, <4>1, SmallestSet
    <3>3. s \in SUBSET T /\ s \in SUBSET S /\ h[s] # g[s]
      OBVIOUS
    <3>4. h[s] = Sum1(c, h, s) /\ g[s] = Sum1(c, g, s)
      BY <1>3, <2>4, <3>3
    <3>5. s # {}
      BY <3>3, <3>4 DEF Sum1
    <3>6. s \ {Pick(s)} \in SUBSET T /\ Cardinality(s \ {Pick(s)}) = Cardinality(s) - 1
          /\ Cardinality(s) \in Nat
      BY <1>1, <2>1, <3>3, <3>5, PickIn, Sizes
    <3>7. s \ {Pick(s)} \notin B
      <4> HIDE DEF B
      <4>1. \A t \in B : Cardinality(s) <= Cardinality(t)
        BY <3>2
      <4> QED  BY <3>6, <4>1
    <3> QED  BY <3>3, <3>4, <3>5, <3>6, <3>7 DEF Sum1
  <2> QED  BY <2>3, <2>5
<1> QED  BY <1>3, <1>4

\* Any element can be taken first.
LEMMA PowerSplit ==
    ASSUME NEW c, NEW S, Weighted(c, S), NEW s \in SUBSET S, NEW y \in s
    PROVE  Power(c, s) = c.pv[y] + Power(c, s \ {y}) /\ Power(c, s \ {y}) \in Nat
<1>1. PICK g \in [SUBSET S -> Nat] : \A t \in SUBSET S : g[t] = Sum1(c, g, t) /\ Power(c, t) = g[t]
  BY PowerTable
<1>2. IsFiniteSet(S) /\ \A u \in S : c.pv[u] \in Nat
  BY DEF Weighted
<1> DEFINE B == {t \in SUBSET S : \E x \in t : g[t] # c.pv[x] + g[t \ {x}]}
<1>3. B = {}
  <2>1. SUFFICES ASSUME B # {} PROVE FALSE
    OBVIOUS
  <2>2. PICK t \in B : \A r \in B : Cardinality(t) <= Cardinality(r)
    <3>1. B \subseteq SUBSET S
      OBVIOUS
    <3> HIDE DEF B
    <3> QED  BY <1>2, <2>1, <3>1, SmallestSet
  <2>3. PICK x \in t : g[t] # c.pv[x] + g[t \ {x}]
    BY <2>2
  <2> DEFINE z == Pick(t)
  <2>4. t \in SUBSET S /\ t # {} /\ z \in t
    BY <2>2, <2>3, PickIn
  <2>5. g[t] = c.pv[z] + g[t \ {z}]
    BY <1>1, <2>4 DEF Sum1
  <2> HIDE DEF z
  <2>6. x # z
    BY <2>3, <2>5
  <2>7. /\ Cardinality(t) \in Nat /\ Cardinality(t \ {z}) = Cardinality(t) - 1
        /\ Cardinality(t \ {x}) = Cardinality(t) - 1
        /\ t \ {z} \in SUBSET S /\ t \ {x} \in SUBSET S
    BY <1>2, <2>3, <2>4, Sizes
  <2>8. t \ {z} \notin B /\ t \ {x} \notin B
    <3> HIDE DEF B
    <3>1. \A r \in B : Cardinality(t) <= Cardinality(r)
      BY <2>2
    <3> QED  BY <2>7, <3>1
  <2>9. /\ g[t \ {z}] = c.pv[x] + g[(t \ {z}) \ {x}]
        /\ g[t \ {x}] = c.pv[z] + g[(t \ {x}) \ {z}]
    BY <2>3, <2>4, <2>6, <2>7, <2>8
  <2>10. (t \ {z}) \ {x} = (t \ {x}) \ {z} /\ (t \ {x}) \ {z} \in SUBSET S
    BY <2>4
  <2>11. c.pv[x] \in Nat /\ c.pv[z] \in Nat /\ g[(t \ {x}) \ {z}] \in Nat
    BY <1>2, <2>3, <2>4, <2>10
  <2>12. \A a, b, m \in Nat : a + (b + m) = b + (a + m)
    OBVIOUS
  <2>13. g[t] = c.pv[x] + g[t \ {x}]
    <3> DEFINE m == g[(t \ {x}) \ {z}]
    <3>1. g[t] = c.pv[z] + (c.pv[x] + m) /\ g[t \ {x}] = c.pv[z] + m
      BY <2>5, <2>9, <2>10
    <3>2. m \in Nat
      BY <2>11
    <3> HIDE DEF m
    <3> QED  BY <2>11, <2>12, <3>1, <3>2
  <2> QED  BY <2>3, <2>13
<1>4. s \ {y} \in SUBSET S
  OBVIOUS
<1> QED  BY <1>1, <1>3, <1>4

LEMMA PowerGrows ==
    ASSUME NEW c, NEW S, Weighted(c, S), NEW t \in SUBSET S
    PROVE  Power(c, t) <= Power(c, S) /\ Power(c, t) \in Nat /\ Power(c, S) \in Nat
<1>1. PICK g \in [SUBSET S -> Nat] : \A s \in SUBSET S : g[s] = Sum1(c, g, s) /\ Power(c, s) = g[s]
  BY PowerTable
<1>2. IsFiniteSet(S) /\ \A u \in S : c.pv[u] \in Nat
  BY DEF Weighted
<1> DEFINE B == {s \in SUBSET S : t \subseteq s /\ ~(g[t] <= g[s])}
<1>3. B = {}
  <2>1. SUFFICES ASSUME B # {} PROVE FALSE
    OBVIOUS
  <2>2. PICK s \in B : \A r \in B : Cardinality(s) <= Cardinality(r)
    <3>1. B \subseteq SUBSET S
      OBVIOUS
    <3> HIDE DEF B
    <3> QED  BY <1>2, <2>1, <3>1, SmallestSet
  <2>3. s \in SUBSET S /\ t \subseteq s /\ ~(g[t] <= g[s]) /\ g[s] \in Nat /\ g[t] \in Nat
    BY <1>1
  <2>4. PICK y \in s : y \notin t
    <3>1. s # t
      BY <2>3
    <3> QED  BY <2>3, <3>1
  <2>5. Cardinality(s) \in Nat /\ Cardinality(s \ {y}) = Cardinality(s) - 1 /\ s \ {y} \in SUBSET S
    BY <1>2, <2>3, Sizes
  <2>6. s \ {y} \notin B
    <3> HIDE DEF B
    <3>1. \A r \in B : Cardinality(s) <= Cardinality(r)
      BY <2>2
    <3> QED  BY <2>5, <3>1
  <2>7. g[t] <= g[s \ {y}]
    BY <2>3, <2>4, <2>5, <2>6
  <2>8. g[s] = c.pv[y] + g[s \ {y}] /\ g[s \ {y}] \in Nat
    BY <1>1, <2>3, <2>5, PowerSplit
  <2>9. c.pv[y] \in Nat
    BY <1>2, <2>3
  <2> QED  BY <2>3, <2>7, <2>8, <2>9
<1> QED  BY <1>1, <1>3

-----------------------------------------------------------------------------
(* Types *)

LEMMA Times ==
    /\ DeadTime \in Nat /\ HostSync \in Nat /\ OblbDuration \in Nat
    /\ Positive(OffDuration) \in Nat /\ Positive(OverDuration) \in Nat /\ Unset = -1
BY TimeAssumption DEF Positive, Unset

LEMMA RoleIsFlag == \A c, u : RoleFlag(c, u) \subseteq {"PRIMARY"}
BY DEF RoleFlag

LEMMA MonitoredUps == conf \in Confs => Monitored \subseteq Ups /\ Weighted(conf, Monitored)
<1>1. ASSUME conf \in Confs PROVE Monitored \subseteq Ups /\ \A u \in Monitored : conf.pv[u] \in Nat
  BY <1>1, ConfAssumption DEF Monitored
<1> QED  BY <1>1, UpsAssumption, FS_Subset DEF Weighted

\* reload_conf() on the entries that stay and on the others.
Kept(c) == Monitored \cap DOMAIN c.pv
LEMMA ReloadEntries ==
    ASSUME NEW st \in [Ups -> SUBSET Flags], NEW lp \in [Ups -> 0..DeadTime + 1], NEW c \in Confs,
           NEW changed, reload_conf(st, lp, c, changed), EntryOK
    PROVE  /\ conf' = c
           /\ status' \in [Ups -> SUBSET Flags]
           /\ comm' \in [Ups -> {"new", "gone", "ok"}]
           /\ kept' \in [Ups -> SUBSET {"OFF", "BYPASS", "ALARM", "OVER"}]
           /\ fd' \in [Ups -> BOOLEAN]
           /\ \A u \in Kept(c) :
                 u \in Ups => /\ \A w \in Flags : w \notin Session \cup {"PRIMARY"} =>
                                        (w \in status'[u] <=> w \in st[u])
                              /\ kept'[u] = kept[u] /\ heard'[u] = heard[u]
                              /\ lastnoncrit'[u] = lastnoncrit[u]
           /\ \A u \in Ups \ Kept(c) : /\ status'[u] \subseteq {"PRIMARY"} /\ kept'[u] = {}
                                       /\ heard'[u] = <<>>
<1> DEFINE drops == {u \in Kept(c) : \/ u \in changed /\ "LOGIN" \notin st[u]
                                     \/ u \in c.primary /\ "PRIMARY" \notin st[u]}
           now(u) == IF u \in Kept(c)
                     THEN (st[u] \ ((IF u \in drops THEN Session ELSE {}) \cup {"PRIMARY"}))
                          \cup RoleFlag(c, u)
                     ELSE RoleFlag(c, u)
<1>1. /\ conf' = c /\ status' = [u \in Ups |-> now(u)]
      /\ comm' = [u \in Ups |-> IF u \in drops THEN "gone"
                                ELSE IF u \in Kept(c) THEN comm[u] ELSE "new"]
      /\ fd' = [u \in Ups |-> u \in Kept(c) \ drops /\ fd[u]]
      /\ kept' = [u \in Ups |-> IF u \in Kept(c) THEN kept[u] ELSE {}]
      /\ heard' = [u \in Ups |-> IF u \in Kept(c) THEN heard[u] ELSE <<>>]
      /\ lastnoncrit' = [u \in Ups |-> IF u \in Kept(c) THEN lastnoncrit[u] ELSE HostSync + 1]
  BY DEF reload_conf, Kept
<1>2. \A u \in Ups : RoleFlag(c, u) \subseteq {"PRIMARY"} /\ "PRIMARY" \in Flags
  BY RoleIsFlag DEF Flags
<1>3. \A u \in Ups : /\ now(u) \subseteq Flags
                     /\ u \notin Kept(c) => now(u) \subseteq {"PRIMARY"}
                     /\ u \in Kept(c) => \A w \in Flags : w \notin Session \cup {"PRIMARY"} =>
                                            (w \in now(u) <=> w \in st[u])
  BY <1>2
<1> HIDE DEF drops, now
<1>4. /\ comm' \in [Ups -> {"new", "gone", "ok"}] /\ fd' \in [Ups -> BOOLEAN]
      /\ kept' \in [Ups -> SUBSET {"OFF", "BYPASS", "ALARM", "OVER"}]
  BY <1>1 DEF EntryOK
<1> QED  BY <1>1, <1>3, <1>4

LEMMA ReloadTimers ==
    ASSUME NEW st, NEW lp \in [Ups -> 0..DeadTime + 1], NEW c, NEW changed,
           reload_conf(st, lp, c, changed), TimersOK
    PROVE  TimersOK'
<1>1. /\ lastpoll' = [u \in Ups |-> IF u \in Kept(c) THEN lp[u] ELSE DeadTime + 1]
      /\ lastnoncrit' = [u \in Ups |-> IF u \in Kept(c) THEN lastnoncrit[u] ELSE HostSync + 1]
      /\ offsince' = [u \in Ups |-> IF u \in Kept(c) THEN offsince[u] ELSE Unset]
      /\ oblbsince' = [u \in Ups |-> IF u \in Kept(c) THEN oblbsince[u] ELSE Unset]
      /\ oversince' = [u \in Ups |-> IF u \in Kept(c) THEN oversince[u] ELSE Unset]
  BY DEF reload_conf, Kept
<1> QED  BY <1>1, Times DEF TimersOK

\* SIGHUP and wake-up: with the flags of before or none.
Reloads == Reload \/ Wake
LEMMA ReloadIs ==
    ASSUME TypeOK, Reloads
    PROVE  \E st \in [Ups -> SUBSET Flags], lp \in [Ups -> 0..DeadTime + 1], c \in Confs :
              /\ \E changed : reload_conf(st, lp, c, changed)
              /\ \/ st = status /\ fresh' = [u \in Ups |-> u \in DOMAIN c.pv /\ fresh[u]]
                 \/ st = [u \in Ups |-> {}] /\ fresh' = [u \in Ups |-> FALSE]
<1>1. CASE Reload
  <2>1. PICK c \in Confs, changed \in SUBSET Monitored : reload_conf(status, lastpoll, c, changed)
    BY <1>1 DEF Reload
  <2>2. conf' = c
    BY <2>1 DEF reload_conf
  <2>3. fresh' = [u \in Ups |-> u \in DOMAIN c.pv /\ fresh[u]]
    BY <1>1, <2>2 DEF Reload, Monitored
  <2>4. status \in [Ups -> SUBSET Flags] /\ lastpoll \in [Ups -> 0..DeadTime + 1]
    BY DEF TypeOK, EntryOK, TimersOK
  <2> QED  BY <2>1, <2>3, <2>4
<1>2. CASE Wake
  <2> DEFINE st == [u \in Ups |-> {}]
             lp == [u \in Ups |-> 0]
  <2>1. PICK c \in Confs, changed \in SUBSET Monitored : reload_conf(st, lp, c, changed)
    BY <1>2 DEF Wake
  <2>2. st \in [Ups -> SUBSET Flags] /\ lp \in [Ups -> 0..DeadTime + 1]
    BY Times
  <2>3. fresh' = [u \in Ups |-> FALSE]
    BY <1>2 DEF Wake
  <2> QED  BY <2>1, <2>2, <2>3
<1> QED  BY <1>1, <1>2 DEF Reloads

LEMMA ConnectedType ==
    ASSUME EntryOK, NEW u \in Ups
    PROVE  Connected(u) \in SUBSET Flags /\ Connected(u) \subseteq status[u] \cup Session
BY DEF EntryOK, Connected, Session, Flags

LEMMA FlaggedType ==
    ASSUME NEW s \in SUBSET Flags, NEW w
    PROVE  Flagged(s, w) \in SUBSET Flags
BY DEF Flagged, Flags, Cleared, Session

\* ups_is_alive() and the first half of parse_status().
LEMMA AnswerEntry ==
    ASSUME TypeOK, NEW u \in Ups, NEW a \in Answers, PollAnswers(u, a)
    PROVE  LET said == Mentioned(a.words) IN
           \E left \in SUBSET Flags :
              /\ status' = [status EXCEPT ![u] = left]
              /\ kept' = [kept EXCEPT ![u] = kept[u] \cap said]
              /\ left \cap Cleared = status[u] \cap Cleared \cap said
              /\ "OB" \in left <=> "OB" \in status[u]
<1> DEFINE said == Mentioned(a.words)
           gone == {w \in Cleared \cap status[u] : w \notin said}
                    \cup {w \in {"ECO"} \cap status[u] : w \notin said /\ ~a.eco}
           left == (Connected(u) \ gone) \cup (IF a.eco THEN {"ECO"} ELSE {})
<1>1. /\ status' = [status EXCEPT ![u] = left]
      /\ kept' = [kept EXCEPT ![u] = kept[u] \cap said]
  BY DEF PollAnswers, StillKept
<1>2. EntryOK /\ Connected(u) \in SUBSET Flags
  BY ConnectedType DEF TypeOK
<1>3. left \in SUBSET Flags
  BY <1>2 DEF Flags
<1>4. Connected(u) = status[u] \/ Connected(u) = status[u] \cup {"LOGIN", "CLICONNECTED"}
  BY DEF Connected, Session
<1>5. \A w \in Cleared : w \in left <=> w \in status[u] /\ w \in said
  BY <1>4 DEF Cleared
<1>6. "OB" \in left <=> "OB" \in status[u]
  BY <1>4 DEF Cleared
<1> HIDE DEF left
<1>7. left \cap Cleared = status[u] \cap Cleared \cap said
  BY <1>5
<1> QED  BY <1>1, <1>3, <1>6, <1>7

\* A poll that brings no status.
Silent(u) == ConnectFails(u) \/ LoginFails(u) \/ PollRefused(u) \/ PollLost(u)
LEMMA SilentEntry ==
    ASSUME TypeOK, NEW u \in Ups, Silent(u)
    PROVE  /\ UNCHANGED <<conf, kept, timeVars, sleepval, pc, parseVars, history>>
           /\ todo' = todo \ {u}
           /\ comm' \in [Ups -> {"new", "gone", "ok"}] /\ fd' \in [Ups -> BOOLEAN]
           /\ \E s \in SUBSET Flags : /\ status' = [status EXCEPT ![u] = s]
                                      /\ s \ Session = status[u] \ Session
<1>1. EntryOK
  BY DEF TypeOK
<1>2. /\ UNCHANGED <<conf, kept, timeVars, sleepval, pc, parseVars, history>>
      /\ todo' = todo \ {u}
  BY DEF Silent, ConnectFails, LoginFails, PollRefused, PollLost, Polled
<1>3. comm' \in [Ups -> {"new", "gone", "ok"}] /\ fd' \in [Ups -> BOOLEAN]
  <2>1. comm' = comm \/ comm' = [comm EXCEPT ![u] = "gone"]
    BY DEF Silent, ConnectFails, LoginFails, PollRefused, PollLost
  <2>2. \E open \in BOOLEAN : fd' = [fd EXCEPT ![u] = open]
    BY DEF Silent, ConnectFails, LoginFails, PollRefused, PollLost
  <2> QED  BY <1>1, <2>1, <2>2 DEF EntryOK
<1>4. status[u] \in SUBSET Flags /\ Session \subseteq Flags /\ "CLICONNECTED" \in Session
  BY <1>1 DEF EntryOK, Flags, Session
<1>5. PICK s : status' = [status EXCEPT ![u] = s]
               /\ s \in {status[u], status[u] \cup Session, status[u] \cup {"CLICONNECTED"}, status[u] \ Session}
  <2>1. CASE ConnectFails(u)
    <3>1. status' = [status EXCEPT ![u] = status[u]]
      BY <1>1, <2>1 DEF ConnectFails, EntryOK
    <3> QED  BY <3>1
  <2>2. CASE LoginFails(u)
    BY <2>2 DEF LoginFails
  <2>3. CASE PollRefused(u)
    BY <2>3 DEF PollRefused, Connected
  <2>4. CASE PollLost(u)
    BY <2>4 DEF PollLost
  <2> QED  BY <2>1, <2>2, <2>3, <2>4 DEF Silent
<1>6. s \in SUBSET Flags /\ s \ Session = status[u] \ Session
  BY <1>4, <1>5
<1> QED  BY <1>2, <1>3, <1>5, <1>6

LEMMA StepEntryOK ==
    ASSUME TypeOK, [Next]_vars
    PROVE  EntryOK'
<1>1. EntryOK /\ PlaceOK /\ TimersOK /\ Monitored \subseteq Ups
  BY MonitoredUps DEF TypeOK, EntryOK
<1>2. CASE UNCHANGED vars \/ StartPolling \/ ParseDone \/ AbortPolling \/ AllPolled \/ EndOfCycle
           \/ Tick \/ Terminated
  <2>1. UNCHANGED <<conf, status, comm, kept, fd>>
    BY <1>2 DEF vars, upsVars, StartPolling, ParseDone, AbortPolling, AllPolled, EndOfCycle, Tick,
             Terminated
  <2> QED  BY <1>1, <2>1 DEF EntryOK
<1>3. CASE Reloads
  <2>1. PICK st \in [Ups -> SUBSET Flags], lp \in [Ups -> 0..DeadTime + 1], c \in Confs :
            \E changed : reload_conf(st, lp, c, changed)
    BY <1>3, ReloadIs
  <2>2. PICK changed : reload_conf(st, lp, c, changed)
    BY <2>1
  <2>3. /\ conf' = c
        /\ status' \in [Ups -> SUBSET Flags]
        /\ comm' \in [Ups -> {"new", "gone", "ok"}]
        /\ kept' \in [Ups -> SUBSET {"OFF", "BYPASS", "ALARM", "OVER"}]
        /\ fd' \in [Ups -> BOOLEAN]
    BY <1>1, <2>2, ReloadEntries
  <2> QED  BY <2>3 DEF EntryOK
<1>4. CASE WakeUnread
  BY <1>1, <1>4 DEF WakeUnread, EntryOK
<1>5. ASSUME NEW u \in Ups, Silent(u) PROVE EntryOK'
  BY <1>1, <1>5, SilentEntry DEF EntryOK
<1>6. ASSUME NEW u \in Ups, NEW a \in Answers, PollAnswers(u, a) PROVE EntryOK'
  <2>1. PICK left \in SUBSET Flags : /\ status' = [status EXCEPT ![u] = left]
                                     /\ kept' = [kept EXCEPT ![u] = kept[u] \cap Mentioned(a.words)]
    BY <1>6, AnswerEntry
  <2>2. /\ conf' = conf /\ comm' = [comm EXCEPT ![u] = "ok"]
        /\ \E open \in BOOLEAN : fd' = [fd EXCEPT ![u] = open]
    BY <1>6 DEF PollAnswers
  <2> QED  BY <1>1, <2>1, <2>2 DEF EntryOK
<1>7. CASE ParseWord
  <2>1. cur \in Ups /\ UNCHANGED <<conf, comm, fd>>
    BY <1>1, <1>7 DEF ParseWord, PlaceOK
  <2>2. status' \in [Ups -> SUBSET Flags]
    <3>1. Flagged(status[cur], Head(words)) \in SUBSET Flags
      BY <1>1, <2>1, FlaggedType DEF EntryOK
    <3>2. status' = [status EXCEPT ![cur] = Flagged(status[cur], Head(words))]
      BY <1>7 DEF ParseWord
    <3> QED  BY <1>1, <3>1, <3>2 DEF EntryOK
  <2>3. kept' \in [Ups -> SUBSET {"OFF", "BYPASS", "ALARM", "OVER"}]
    <3>1. PICK k : /\ kept' = [kept EXCEPT ![cur] = k]
                   /\ \/ k = kept[cur]
                      \/ k = kept[cur] \cup {Head(words)} /\ Keeps(status[cur], Head(words), offsince[cur])
      BY <1>7 DEF ParseWord
    <3>2. Keeps(status[cur], Head(words), offsince[cur]) => Head(words) \in {"OFF", "BYPASS", "ALARM", "OVER"}
      BY DEF Keeps
    <3>3. kept[cur] \in SUBSET {"OFF", "BYPASS", "ALARM", "OVER"}
      BY <1>1, <2>1 DEF EntryOK
    <3>4. k \in SUBSET {"OFF", "BYPASS", "ALARM", "OVER"}
      BY <3>1, <3>2, <3>3
    <3> QED  BY <1>1, <3>1, <3>4 DEF EntryOK
  <2> QED  BY <1>1, <2>1, <2>2, <2>3 DEF EntryOK
<1>8. CASE Recalc
  <2>1. \A u \in Ups : Promoted(u) \in SUBSET Flags
    BY <1>1 DEF EntryOK, Promoted, Flags, Cleared
  <2>2. /\ UNCHANGED <<conf, comm, kept, fd>>
        /\ status' = [u \in Ups |-> IF u \in Monitored THEN Promoted(u) ELSE status[u]]
    BY <1>8 DEF Recalc
  <2> QED  BY <1>1, <2>1, <2>2 DEF EntryOK
<1> QED  BY <1>2, <1>3, <1>4, <1>5, <1>6, <1>7, <1>8 DEF Next, Loop, PollStep, Reloads, Silent

LEMMA OlderType ==
    ASSUME NEW f, NEW cap \in Nat, NEW lo \in {0, Unset}, f \in [Ups -> lo..cap]
    PROVE  Older(f, cap) \in [Ups -> lo..cap] /\ \A u \in Ups : Older(f, cap)[u] >= f[u]
BY Times DEF Older

LEMMA StepTimersOK ==
    ASSUME TypeOK, [Next]_vars
    PROVE  TimersOK'
<1>1. EntryOK /\ PlaceOK /\ TimersOK
  BY DEF TypeOK
<1>2. CASE UNCHANGED vars \/ StartPolling \/ ParseDone \/ AbortPolling \/ AllPolled \/ EndOfCycle
           \/ Terminated \/ \E u \in Ups : Silent(u)
  <2>1. UNCHANGED timeVars
    BY <1>2, SilentEntry DEF vars, upsVars, timeVars, StartPolling, ParseDone, AbortPolling, AllPolled,
             EndOfCycle, Terminated
  <2> QED  BY <1>1, <2>1 DEF TimersOK, timeVars
<1>3. CASE Reloads
  <2>1. PICK st \in [Ups -> SUBSET Flags], lp \in [Ups -> 0..DeadTime + 1], c \in Confs :
            \E changed : reload_conf(st, lp, c, changed)
    BY <1>3, ReloadIs
  <2>2. PICK changed : reload_conf(st, lp, c, changed)
    BY <2>1
  <2> QED  BY <1>1, <2>2, ReloadTimers
<1>4. CASE WakeUnread
  BY <1>1, <1>4, Times DEF WakeUnread, TimersOK
<1>5. ASSUME NEW u \in Ups, NEW a \in Answers, PollAnswers(u, a) PROVE TimersOK'
  BY <1>1, <1>5, Times DEF PollAnswers, TimersOK
<1>6. CASE ParseWord
  <2>1. cur \in Ups /\ UNCHANGED <<lastpoll, oblbsince>>
    BY <1>1, <1>6, MonitoredUps DEF ParseWord, PlaceOK, EntryOK
  <2>2. lastnoncrit' \in [Ups -> 0..HostSync + 1]
    BY <1>1, <1>6, <2>1, Times DEF ParseWord, TimersOK, update_crittimer
  <2>3. offsince' \in [Ups -> Unset..Positive(OffDuration) + 1]
    BY <1>1, <1>6, <2>1, Times DEF ParseWord, TimersOK
  <2>4. oversince' \in [Ups -> Unset..Positive(OverDuration)]
    BY <1>1, <1>6, <2>1, Times DEF ParseWord, TimersOK
  <2> QED  BY <1>1, <2>1, <2>2, <2>3, <2>4 DEF TimersOK
<1>7. CASE Recalc
  <2>1. oblbsince' \in [Ups -> Unset..OblbDuration]
    BY <1>1, <1>7, Times DEF Recalc, TimersOK
  <2> QED  BY <1>1, <1>7, <2>1 DEF Recalc, TimersOK
<1>8. CASE Tick
  <2>1. lastpoll' \in [Ups -> 0..DeadTime + 1] /\ lastnoncrit' \in [Ups -> 0..HostSync + 1]
    BY <1>1, <1>8, Times, OlderType DEF Tick, TimersOK
  <2>2. offsince' \in [Ups -> Unset..Positive(OffDuration) + 1]
    BY <1>1, <1>8, Times, OlderType DEF Tick, TimersOK
  <2>3. oblbsince' \in [Ups -> Unset..OblbDuration] /\ oversince' \in [Ups -> Unset..Positive(OverDuration)]
    BY <1>1, <1>8, Times, OlderType DEF Tick, TimersOK
  <2> QED  BY <2>1, <2>2, <2>3 DEF TimersOK
<1> QED  BY <1>2, <1>3, <1>4, <1>5, <1>6, <1>7, <1>8 DEF Next, Loop, PollStep, Reloads, Silent

LEMMA StepPlaceOK ==
    ASSUME TypeOK, [Next]_vars
    PROVE  PlaceOK'
<1>1. PlaceOK /\ EntryOK
  BY DEF TypeOK
<1>2. CASE UNCHANGED vars \/ StartPolling \/ AbortPolling \/ AllPolled \/ EndOfCycle \/ Terminated
           \/ Tick \/ WakeUnread
  <2>1. /\ UNCHANGED <<sleepval, parseVars, conf>>
        /\ \/ UNCHANGED pc /\ UNCHANGED todo
           \/ pc # "parse" /\ pc' \in {"top", "poll", "recalc"} /\ todo' \subseteq Monitored
    BY <1>1, <1>2 DEF vars, StartPolling, AbortPolling, AllPolled, EndOfCycle, Terminated, Tick,
             WakeUnread, PlaceOK
  <2> QED  BY <1>1, <2>1 DEF PlaceOK, parseVars, Monitored
<1>3. CASE Reloads
  <2>1. PICK c \in Confs : /\ conf' = c /\ UNCHANGED <<sleepval, parseVars>>
                           /\ pc' \in {"poll", "exit"} /\ todo' \subseteq DOMAIN c.pv
    BY <1>3 DEF Reloads, Reload, Wake, reload_conf
  <2>2. pc = "top"
    BY <1>3 DEF Reloads, Reload, Wake
  <2> QED  BY <1>1, <2>1, <2>2 DEF PlaceOK, parseVars, Monitored
<1>4. ASSUME NEW u \in Ups, Silent(u) PROVE PlaceOK'
  <2>1. UNCHANGED <<sleepval, parseVars, conf, pc>> /\ todo' = todo \ {u} /\ pc = "poll"
    BY <1>4, SilentEntry DEF Silent, ConnectFails, LoginFails, PollRefused, PollLost, Polls
  <2> QED  BY <1>1, <2>1 DEF PlaceOK, parseVars, Monitored
<1>5. ASSUME NEW u \in Ups, NEW a \in Answers, PollAnswers(u, a) PROVE PlaceOK'
  <2>1. /\ u \in todo /\ pc' = "parse" /\ cur' = u /\ line' = a.words /\ UNCHANGED <<todo, conf>>
    BY <1>5 DEF PollAnswers, Polls
  <2>2. sleepval' \in {"normal", "alert", "gcd"}
    BY <1>1, <1>5 DEF PollAnswers, try_restore_pollfreq, PlaceOK
  <2> QED  BY <1>1, <2>1, <2>2 DEF PlaceOK, Monitored
<1>6. CASE ParseWord
  <2>1. /\ pc = "parse" /\ UNCHANGED <<pc, todo, cur, line, conf>>
    BY <1>6 DEF ParseWord
  <2>2. sleepval' \in {"normal", "alert", "gcd"}
    BY <1>1, <1>6 DEF ParseWord, try_restore_pollfreq, PlaceOK
  <2> QED  BY <1>1, <2>1, <2>2 DEF PlaceOK, Monitored
<1>7. CASE ParseDone
  BY <1>1, <1>7 DEF ParseDone, PlaceOK, Monitored
<1>8. CASE Recalc
  <2>1. sleepval' \in {"normal", "alert", "gcd"}
    BY <1>1, <1>8 DEF Recalc, NewPace, PlaceOK
  <2>2. /\ UNCHANGED <<todo, parseVars, conf>> /\ pc' \in {"shutdown", "sleep"} /\ pc = "recalc"
    BY <1>8 DEF Recalc
  <2> QED  BY <1>1, <2>1, <2>2 DEF PlaceOK, parseVars, Monitored
<1> QED  BY <1>2, <1>3, <1>4, <1>5, <1>6, <1>7, <1>8 DEF Next, Loop, PollStep, Reloads, Silent

LEMMA StepHeardOK ==
    ASSUME TypeOK, [Next]_vars
    PROVE  HeardOK'
<1>1. PlaceOK /\ EntryOK /\ HeardOK
  BY DEF TypeOK
<1>2. CASE UNCHANGED <<history, conf>>
  BY <1>1, <1>2 DEF HeardOK, history, Monitored
<1>3. CASE UNCHANGED vars \/ StartPolling \/ AbortPolling \/ AllPolled \/ EndOfCycle \/ Terminated
           \/ Tick \/ ParseWord \/ Recalc \/ (\E u \in Ups : Silent(u))
           \/ \E u \in Ups, a \in Answers : PollAnswers(u, a)
  BY <1>2, <1>3, SilentEntry DEF vars, history, StartPolling, AbortPolling, AllPolled, EndOfCycle,
           Terminated, Tick, ParseWord, Recalc, PollAnswers
<1>4. CASE Reloads
  <2>1. PICK st \in [Ups -> SUBSET Flags], lp \in [Ups -> 0..DeadTime + 1], c \in Confs :
              /\ \E changed : reload_conf(st, lp, c, changed)
              /\ \/ fresh' = [u \in Ups |-> u \in DOMAIN c.pv /\ fresh[u]]
                 \/ fresh' = [u \in Ups |-> FALSE]
    BY <1>4, ReloadIs
  <2>2. conf' = c /\ heard' = [u \in Ups |-> IF u \in Kept(c) THEN heard[u] ELSE <<>>]
    BY <2>1 DEF reload_conf, Kept
  <2> QED  BY <1>1, <2>1, <2>2 DEF HeardOK, Monitored
<1>5. CASE WakeUnread
  BY <1>1, <1>5 DEF WakeUnread, HeardOK
<1>6. CASE ParseDone
  BY <1>1, <1>6 DEF ParseDone, PlaceOK, HeardOK, Monitored
<1> QED  BY <1>3, <1>4, <1>5, <1>6 DEF Next, Loop, PollStep, Reloads, Silent

LEMMA StepTypeOK ==
    ASSUME TypeOK, [Next]_vars
    PROVE  TypeOK'
BY StepEntryOK, StepTimersOK, StepPlaceOK, StepHeardOK DEF TypeOK

-----------------------------------------------------------------------------
(* The words of a status and the flags *)

LEMMA NextWord ==
    ASSUME NEW S, NEW l \in Seq(S), l # <<>>
    PROVE  Head(l) \in S /\ Tail(l) \in Seq(S) /\ Mentioned(l) = {Head(l)} \cup Mentioned(Tail(l))
<1>1. Head(l) \in S /\ Tail(l) \in Seq(S) /\ Head(l) = l[1] /\ Len(l) \in Nat \ {0}
  OBVIOUS
<1>2. /\ DOMAIN l = 1..Len(l) /\ DOMAIN Tail(l) = 1..(Len(l) - 1)
      /\ \A i \in 1..(Len(l) - 1) : Tail(l)[i] = l[i + 1]
  OBVIOUS
<1>3. Mentioned(Tail(l)) \subseteq Mentioned(l) /\ Head(l) \in Mentioned(l)
  BY <1>1, <1>2 DEF Mentioned
<1>4. ASSUME NEW i \in 1..Len(l) PROVE l[i] \in {Head(l)} \cup Mentioned(Tail(l))
  <2>1. CASE i = 1
    BY <1>1, <2>1
  <2>2. CASE i # 1
    <3>1. i - 1 \in 1..(Len(l) - 1) /\ Tail(l)[i - 1] = l[i]
      BY <1>1, <1>2, <2>2
    <3> QED  BY <1>2, <3>1 DEF Mentioned
  <2> QED  BY <2>1, <2>2
<1>5. Mentioned(l) \subseteq {Head(l)} \cup Mentioned(Tail(l))
  BY <1>2, <1>4 DEF Mentioned
<1> QED  BY <1>1, <1>3, <1>5

LEMMA AllMentioned ==
    ASSUME NEW a \in Answers
    PROVE  a.words \in Seq(Mentioned(a.words)) /\ a.words # <<>>
BY AnswerAssumption DEF Mentioned

LEMMA NoneMentioned == Mentioned(<<>>) = {}
BY DEF Mentioned

LEMMA FlaggedIs ==
    ASSUME NEW s, NEW w
    PROVE  /\ \A x \in Cleared : x \in Flagged(s, w) <=> x \in s \/ x = w
           /\ "OB" \in Flagged(s, w) <=> w = "OB" \/ ("OB" \in s /\ w # "OL")
<1>1. CASE w = "OL"
  BY <1>1 DEF Flagged, Cleared
<1>2. CASE w = "OB"
  BY <1>2 DEF Flagged, Cleared
<1>3. CASE w \in Cleared \cup {"ECO"}
  <2>1. Flagged(s, w) = s \cup {w} /\ w # "OB" /\ w # "OL"
    BY <1>3 DEF Flagged, Cleared
  <2> QED  BY <2>1
<1>4. CASE w \notin {"OL", "OB"} \cup Cleared \cup {"ECO"}
  BY <1>4 DEF Flagged
<1> QED  BY <1>1, <1>2, <1>3, <1>4

LEMMA StepParsing ==
    ASSUME IInv, [Next]_vars
    PROVE  Parsing'
<1>1. TypeOK /\ PlaceOK /\ EntryOK /\ HeardOK /\ Parsing /\ Monitored \subseteq Ups
  BY MonitoredUps DEF IInv, TypeOK, EntryOK
<1>2. CASE UNCHANGED vars
  BY <1>1, <1>2 DEF vars, upsVars, parseVars, history, Parsing
<1>3. CASE pc' # "parse"
  BY <1>3 DEF Parsing
<1>4. ASSUME NEW u \in Ups, NEW a \in Answers, PollAnswers(u, a) PROVE Parsing'
  <2> DEFINE said == Mentioned(a.words)
  <2>1. PICK left \in SUBSET Flags :
              /\ status' = [status EXCEPT ![u] = left]
              /\ kept' = [kept EXCEPT ![u] = kept[u] \cap said]
              /\ left \cap Cleared = status[u] \cap Cleared \cap said
              /\ "OB" \in left <=> "OB" \in status[u]
    BY <1>1, <1>4, AnswerEntry
  <2>2. /\ cur' = u /\ line' = a.words /\ words' = a.words /\ UNCHANGED <<heard, fresh>> /\ pc = "poll"
    BY <1>4 DEF PollAnswers, Polls, history
  <2>3. status'[u] = left /\ kept'[u] \subseteq said
    BY <1>1, <2>1 DEF EntryOK
  <2>4. Remembered(u)
    BY <1>1, <2>2, UpsAssumption DEF IInv, PlaceOK
  <2>5. ASSUME LowLine(heard[u]), fresh[u], LowLine(a.words) PROVE {"OB", "LB"} \subseteq left
    <3>1. "LB" \in Cleared
      BY DEF Cleared
    <3>2. "LB" \in status[u] /\ "OB" \in status[u] /\ "LB" \in said
      BY <2>4, <2>5, <3>1 DEF Remembered, LowLine
    <3> QED  BY <2>1, <3>1, <3>2
  <2>6. a.words \in Seq(said)
    BY AllMentioned
  <2> HIDE DEF said
  <2>7. said = Mentioned(a.words)
    BY DEF said
  <2> QED  BY <2>1, <2>2, <2>3, <2>5, <2>6, <2>7 DEF Parsing
<1>5. CASE ParseWord
  <2> DEFINE s == status[cur]
             w == Head(words)
             said == Mentioned(line)
             done == said \ Mentioned(words)
             left == Flagged(s, w)
  <2>1. pc = "parse" /\ words # <<>> /\ words' = Tail(words) /\ UNCHANGED <<pc, cur, line, heard, fresh>>
    BY <1>5 DEF ParseWord, history
  <2>2. cur \in Ups
    BY <1>1, <2>1 DEF PlaceOK
  <2>3. /\ words \in Seq(said)
        /\ s \cap Cleared \subseteq said /\ kept[cur] \subseteq said
        /\ Cleared \cap done \subseteq s
        /\ "OB" \in done /\ "OL" \notin said => "OB" \in s
        /\ "OL" \in done /\ "OB" \notin said => "OB" \notin s
        /\ LowLine(heard[cur]) /\ fresh[cur] /\ LowLine(line) => {"OB", "LB"} \subseteq s
    BY <1>1, <2>1 DEF Parsing
  <2>4. w \in said /\ Tail(words) \in Seq(said) /\ Mentioned(words) = {w} \cup Mentioned(Tail(words))
    BY <2>1, <2>3, NextWord
  <2>5. status'[cur] = left /\ kept'[cur] \subseteq kept[cur] \cup {w}
    BY <1>1, <1>5, <2>2 DEF ParseWord, EntryOK
  <2>6. /\ \A x \in Cleared : x \in left <=> x \in s \/ x = w
        /\ "OB" \in left <=> w = "OB" \/ ("OB" \in s /\ w # "OL")
    BY FlaggedIs
  <2>7. LowLine(line) => "OL" \notin said
    BY DEF LowLine
  <2>8. "LB" \in Cleared
    BY DEF Cleared
  <2> DEFINE done1 == said \ Mentioned(Tail(words))
  <2> HIDE DEF s, w, said, left
  <2>9. done1 \subseteq done \cup {w}
    BY <2>4
  <2> HIDE DEF done, done1
  <2>10. /\ left \cap Cleared \subseteq said /\ kept'[cur] \subseteq said
         /\ Cleared \cap done1 \subseteq left
         /\ "OB" \in done1 /\ "OL" \notin said => "OB" \in left
         /\ "OL" \in done1 /\ "OB" \notin said => "OB" \notin left
         /\ LowLine(heard[cur]) /\ fresh[cur] /\ LowLine(line) => {"OB", "LB"} \subseteq left
    <3>1. left \cap Cleared \subseteq said /\ kept'[cur] \subseteq said
      BY <2>3, <2>4, <2>5, <2>6
    <3>2. Cleared \cap done1 \subseteq left
      BY <2>3, <2>6, <2>9
    <3>3. /\ "OB" \in done1 /\ "OL" \notin said => "OB" \in left
          /\ "OL" \in done1 /\ "OB" \notin said => "OB" \notin left
      BY <2>3, <2>4, <2>6, <2>9
    <3>4. LowLine(heard[cur]) /\ fresh[cur] /\ LowLine(line) => {"OB", "LB"} \subseteq left
      BY <2>3, <2>4, <2>6, <2>7, <2>8
    <3> QED  BY <3>1, <3>2, <3>3, <3>4
  <2> QED  BY <2>1, <2>4, <2>5, <2>10 DEF Parsing, done1, said
<1>6. pc' = "parse" => \/ UNCHANGED vars \/ ParseWord
                       \/ \E u \in Ups, a \in Answers : PollAnswers(u, a)
  BY DEF Next, Loop, PollStep, StartPolling, Reload, Wake, WakeUnread, reload_conf, ParseDone,
      AbortPolling, AllPolled, Recalc, EndOfCycle, Tick, Terminated, ConnectFails, LoginFails,
      PollRefused, PollLost, Polls, Polled
<1> QED  BY <1>2, <1>3, <1>4, <1>5, <1>6

-----------------------------------------------------------------------------
(* What is remembered of a status *)

\* The flags Remembered() is about.
Told == Cleared \cup {"OB"}

LEMMA Retained ==
    ASSUME NEW u, Remembered(u), heard'[u] = heard[u], kept'[u] = kept[u], fresh'[u] => fresh[u],
           \A w \in Told : w \in status'[u] => w \in status[u] \/ w = "LB",
           fresh'[u] => \A w \in Told : w \in status[u] => w \in status'[u]
    PROVE  Remembered(u)'
<1>1. Alarming \subseteq Told /\ "LB" \notin Alarming /\ "CAL" \in Told /\ "OB" \in Told
  BY DEF Alarming, Told, Cleared
<1>2. Fine(heard'[u]) => status'[u] \cap Alarming = {} /\ kept'[u] = {}
  BY <1>1 DEF Remembered
<1>3. ASSUME fresh'[u]
      PROVE  /\ Cleared \cap Mentioned(heard'[u]) \subseteq status'[u]
             /\ "CAL" \in status'[u] => "CAL" \in Mentioned(heard'[u])
             /\ "OB" \in Mentioned(heard'[u]) /\ "OL" \notin Mentioned(heard'[u]) => "OB" \in status'[u]
  BY <1>1, <1>3 DEF Remembered, Told
<1> QED  BY <1>2, <1>3 DEF Remembered

LEMMA NothingHeard ==
    ASSUME NEW u, heard'[u] = <<>>, kept'[u] = {}, ~fresh'[u], status'[u] \cap Alarming = {}
    PROVE  Remembered(u)'
BY DEF Remembered

LEMMA StepRemembered ==
    ASSUME IInv, [Next]_vars, NEW u \in Ups, cur' # u
    PROVE  Remembered(u)'
<1>1. TypeOK /\ EntryOK /\ PlaceOK /\ HeardOK /\ Parsing /\ Monitored \subseteq Ups
  BY MonitoredUps DEF IInv, TypeOK, EntryOK
<1>2. cur # u => Remembered(u)
  BY DEF IInv
<1>3. "PRIMARY" \notin Told /\ Told \cap Session = {} /\ Told \subseteq Flags
  BY DEF Told, Cleared, Session, Flags
<1>4. CASE /\ cur # u /\ heard'[u] = heard[u] /\ fresh'[u] = fresh[u]
           /\ status'[u] = status[u] /\ kept'[u] = kept[u]
  BY <1>2, <1>4, Retained
<1>5. CASE UNCHANGED vars \/ StartPolling \/ AbortPolling \/ AllPolled \/ EndOfCycle \/ Terminated \/ Tick
  <2>1. UNCHANGED <<status, kept, heard, fresh, cur>>
    BY <1>5 DEF vars, upsVars, parseVars, history, StartPolling, AbortPolling, AllPolled, EndOfCycle,
             Terminated, Tick
  <2> QED  BY <1>4, <2>1
<1>6. ASSUME NEW v \in Ups, NEW a \in Answers, PollAnswers(v, a) PROVE Remembered(u)'
  <2>1. v # u /\ cur # u /\ UNCHANGED <<heard, fresh>>
    BY <1>1, <1>6, UpsAssumption DEF PollAnswers, Polls, PlaceOK, history
  <2>2. status'[u] = status[u] /\ kept'[u] = kept[u]
    BY <1>1, <1>6, <2>1 DEF PollAnswers, EntryOK
  <2> QED  BY <1>4, <2>1, <2>2
<1>7. CASE ParseWord
  <2>1. cur # u /\ UNCHANGED <<heard, fresh>>
    BY <1>7 DEF ParseWord, history
  <2>2. status'[u] = status[u] /\ kept'[u] = kept[u]
    BY <1>1, <1>7, <2>1 DEF ParseWord, EntryOK
  <2> QED  BY <1>4, <2>1, <2>2
<1>8. CASE ParseDone
  <2>1. /\ pc = "parse" /\ words = <<>> /\ UNCHANGED <<status, kept>>
        /\ heard' = [heard EXCEPT ![cur] = line] /\ fresh' = [fresh EXCEPT ![cur] = TRUE]
    BY <1>8 DEF ParseDone, upsVars
  <2>2. CASE cur # u
    <3>1. heard'[u] = heard[u] /\ fresh'[u] = fresh[u]
      BY <1>1, <2>1, <2>2 DEF HeardOK
    <3> QED  BY <1>4, <2>1, <2>2, <3>1
  <2>3. CASE cur = u
    <3> DEFINE said == Mentioned(line)
    <3>1. heard'[u] = line /\ fresh'[u] = TRUE /\ status'[u] = status[u] /\ kept'[u] = kept[u]
      BY <1>1, <2>1, <2>3 DEF HeardOK
    <3>2. /\ status[u] \cap Cleared \subseteq said /\ kept[u] \subseteq said /\ Cleared \cap said \subseteq status[u]
          /\ "OB" \in said /\ "OL" \notin said => "OB" \in status[u]
          /\ "OL" \in said /\ "OB" \notin said => "OB" \notin status[u]
      BY <1>1, <2>1, <2>3, NoneMentioned DEF Parsing
    <3>3. line # <<>>
      BY <1>1, <2>1, AllMentioned DEF PlaceOK
    <3>4. kept[u] \subseteq Alarming
      BY <1>1 DEF EntryOK, Alarming
    <3>5. Alarming \subseteq Cleared \cup {"OB"} /\ "CAL" \in Cleared /\ "OB" \in Alarming
      BY DEF Alarming, Cleared
    <3>6. ASSUME Fine(line) PROVE status[u] \cap Alarming = {} /\ kept[u] = {}
      <4>1. "OL" \in said /\ said \cap Alarming = {}
        BY <3>3, <3>6 DEF Fine
      <4> HIDE DEF said
      <4> QED  BY <3>2, <3>4, <3>5, <4>1
    <3>7. "CAL" \in status[u] => "CAL" \in said
      BY <3>2, <3>5
    <3> QED  BY <3>1, <3>2, <3>6, <3>7 DEF Remembered
  <2> QED  BY <2>2, <2>3
<1>9. ASSUME NEW v \in Ups, Silent(v) PROVE Remembered(u)'
  <2>1. PICK s \in SUBSET Flags : status' = [status EXCEPT ![v] = s] /\ s \ Session = status[v] \ Session
    BY <1>1, <1>9, SilentEntry
  <2>2. UNCHANGED <<kept, heard, fresh, cur>>
    BY <1>1, <1>9, SilentEntry DEF parseVars, history
  <2>3. \A w \in Told : w \in status'[u] <=> w \in status[u]
    <3>1. CASE u = v
      <4>1. status'[u] \ Session = status[u] \ Session
        BY <1>1, <2>1, <3>1 DEF EntryOK
      <4> QED  BY <1>3, <4>1
    <3>2. CASE u # v
      BY <1>1, <2>1, <3>2 DEF EntryOK
    <3> QED  BY <3>1, <3>2
  <2> QED  BY <1>2, <2>2, <2>3, Retained
<1>10. CASE Recalc
  <2>1. UNCHANGED <<kept, heard, fresh, cur>>
    BY <1>10 DEF Recalc, parseVars, history
  <2>2. status'[u] = status[u] \/ status'[u] = Promoted(u)
    BY <1>10 DEF Recalc
  <2>3. \A w : /\ w \in status'[u] => w \in status[u] \/ w = "LB"
               /\ w \in status[u] => w \in status'[u]
    BY <2>2 DEF Promoted
  <2> QED  BY <1>2, <2>1, <2>3, Retained
<1>11. CASE WakeUnread
  <2>1. UNCHANGED <<kept, heard, cur>> /\ ~fresh'[u] /\ status'[u] \subseteq status[u]
    BY <1>11 DEF WakeUnread, parseVars
  <2> QED  BY <1>2, <2>1, Retained
<1>12. CASE Reloads
  <2>1. PICK st \in [Ups -> SUBSET Flags], lp \in [Ups -> 0..DeadTime + 1], c \in Confs :
              /\ \E changed : reload_conf(st, lp, c, changed)
              /\ \/ st = status /\ fresh' = [v \in Ups |-> v \in DOMAIN c.pv /\ fresh[v]]
                 \/ st = [v \in Ups |-> {}] /\ fresh' = [v \in Ups |-> FALSE]
    BY <1>1, <1>12, ReloadIs
  <2>2. PICK changed : reload_conf(st, lp, c, changed)
    BY <2>1
  <2>3. /\ \A v \in Kept(c) :
                 v \in Ups => /\ \A w \in Flags : w \notin Session \cup {"PRIMARY"} =>
                                        (w \in status'[v] <=> w \in st[v])
                              /\ kept'[v] = kept[v] /\ heard'[v] = heard[v]
        /\ \A v \in Ups \ Kept(c) : /\ status'[v] \subseteq {"PRIMARY"} /\ kept'[v] = {}
                                    /\ heard'[v] = <<>>
    BY <1>1, <2>2, ReloadEntries
  <2>4. cur' = cur
    BY <2>2 DEF reload_conf, parseVars
  <2>5. CASE u \in Kept(c)
    <3>1. \A w \in Told : w \in status'[u] <=> w \in st[u]
      BY <1>3, <2>3, <2>5
    <3>2. /\ fresh'[u] => fresh[u] /\ st[u] = status[u]
          /\ \A w \in Told : w \in st[u] => w \in status[u]
      BY <2>1
    <3>3. kept'[u] = kept[u] /\ heard'[u] = heard[u]
      BY <2>3, <2>5
    <3> QED  BY <1>2, <2>4, <3>1, <3>2, <3>3, Retained
  <2>6. CASE u \notin Kept(c)
    <3>1. ~fresh'[u]
      BY <1>1, <2>1, <2>6 DEF HeardOK, Kept
    <3>2. status'[u] \cap Alarming = {}
      BY <2>3, <2>6 DEF Alarming
    <3> QED  BY <2>3, <2>6, <3>1, <3>2, NothingHeard
  <2> QED  BY <2>5, <2>6
<1> QED  BY <1>5, <1>6, <1>7, <1>8, <1>9, <1>10, <1>11, <1>12 DEF Next, Loop, PollStep, Reloads, Silent

-----------------------------------------------------------------------------
(* The decision of recalc() *)

LEMMA FineIsHealthy ==
    ASSUME NEW u \in Ups, EntryOK, Remembered(u), Fine(heard[u])
    PROVE  ~is_ups_critical(u)
<1>1. \A w \in Alarming : w \notin status[u] /\ w \notin kept[u]
  BY DEF Remembered
<1>2. /\ "FSD" \notin status[u] /\ "OB" \notin status[u]
      /\ \A w \in {"CAL", "OFF", "BYPASS", "ALARM", "OVER"} : w \notin status[u] /\ w \notin kept[u]
  BY <1>1 DEF Alarming
<1>3. ~AssumedDead(u)
  BY <1>2 DEF AssumedDead
<1>4. ~LowOnBattery(u)
  BY <1>2 DEF LowOnBattery, Promoted
<1> QED  BY <1>2, <1>3, <1>4 DEF is_ups_critical, CriticalAtOnce

LEMMA DoomedIsCritical ==
    ASSUME NEW u \in Ups, EntryOK, Remembered(u), Doomed(u)
    PROVE  is_ups_critical(u)
<1> DEFINE said == Mentioned(heard[u])
<1>1. /\ Cleared \cap said \subseteq status[u]
      /\ "CAL" \in status[u] => "CAL" \in said
      /\ "OB" \in said /\ "OL" \notin said => "OB" \in status[u]
  BY DEF Remembered, Doomed
<1>2. \/ "FSD" \in said
      \/ comm[u] = "gone" /\ \/ said \cap {"BYPASS", "CAL"} # {}
                             \/ "ALARM" \in said /\ AlarmCritical
                             \/ "OFF" \in said /\ OffDuration >= 0
      \/ /\ OblbDuration = 0
         /\ "OB" \in said /\ said \cap {"OL", "CAL"} = {}
         /\ "LB" \in said \/ lastpoll[u] > DeadTime
         /\ "PRIMARY" \in status[u] \/ lastnoncrit[u] > HostSync
  BY DEF Doomed
<1> HIDE DEF said
<1>3. \A w \in {"FSD", "BYPASS", "CAL", "ALARM", "OFF", "LB"} : w \in said => w \in status[u]
  BY <1>1 DEF Cleared
<1>4. CASE "FSD" \in said
  BY <1>3, <1>4 DEF is_ups_critical, CriticalAtOnce
<1>5. CASE comm[u] = "gone" /\ \/ said \cap {"BYPASS", "CAL"} # {}
                               \/ "ALARM" \in said /\ AlarmCritical
                               \/ "OFF" \in said /\ OffDuration >= 0
  <2>1. AssumedDead(u)
    BY <1>3, <1>5 DEF AssumedDead
  <2> QED  BY <1>5, <2>1 DEF is_ups_critical, CriticalAtOnce
<1>6. CASE /\ OblbDuration = 0
           /\ "OB" \in said /\ said \cap {"OL", "CAL"} = {}
           /\ "LB" \in said \/ lastpoll[u] > DeadTime
           /\ "PRIMARY" \in status[u] \/ lastnoncrit[u] > HostSync
  <2>1. "OB" \in status[u] /\ "CAL" \notin status[u]
    BY <1>1, <1>6
  <2>2. LowOnBattery(u)
    BY <1>3, <1>6, <2>1 DEF LowOnBattery, Promoted
  <2> QED  BY <1>6, <2>1, <2>2 DEF is_ups_critical, OblbElapsed
<1> QED  BY <1>2, <1>4, <1>5, <1>6

\* recalc() runs when no status is being parsed.
LEMMA AllRemembered == IInv /\ pc = "recalc" => \A u \in Ups : Remembered(u)
BY UpsAssumption DEF IInv, TypeOK, PlaceOK

LEMMA HealthyPower ==
    ASSUME IInv, NEW S, S \subseteq Healthy
    PROVE  Power(conf, S) <= Power(conf, Healthy) /\ Power(conf, S) \in Nat /\ Power(conf, Healthy) \in Nat
<1>1. Weighted(conf, Monitored) /\ Healthy \subseteq Monitored
  BY MonitoredUps DEF IInv, TypeOK, EntryOK, Healthy
<1>2. Weighted(conf, Healthy)
  BY <1>1, FS_Subset DEF Weighted
<1> QED  BY <1>2, PowerGrows

LEMMA PerilPower ==
    ASSUME IInv, pc = "recalc"
    PROVE  LET S == {u \in Monitored : ~Doomed(u)} IN
           Power(conf, Healthy) <= Power(conf, S) /\ Power(conf, S) \in Nat /\ Power(conf, Healthy) \in Nat
<1> DEFINE S == {u \in Monitored : ~Doomed(u)}
<1>1. EntryOK /\ Monitored \subseteq Ups /\ Weighted(conf, Monitored)
  BY MonitoredUps DEF IInv, TypeOK, EntryOK
<1>2. Healthy \in SUBSET S
  BY <1>1, AllRemembered, DoomedIsCritical DEF Healthy
<1>3. Weighted(conf, S)
  BY <1>1, FS_Subset DEF Weighted
<1> HIDE DEF S
<1>4. Power(conf, Healthy) <= Power(conf, S) /\ Power(conf, S) \in Nat /\ Power(conf, Healthy) \in Nat
  BY <1>2, <1>3, PowerGrows
<1> QED  BY <1>4 DEF S

LEMMA MinSupplies == conf \in Confs => conf.minsupplies \in Nat
BY ConfAssumption

LEMMA StepJustified ==
    ASSUME IInv, [Next]_vars
    PROVE  ShutdownJustified'
<1>1. CASE UNCHANGED vars
  BY <1>1 DEF IInv, ShutdownJustified, vars, history, Monitored
<1>2. CASE Recalc /\ TooFewSupplies
  <2> DEFINE S == {u \in Monitored : Fine(heard[u])}
  <2>1. UNCHANGED <<conf, heard>> /\ pc = "recalc"
    BY <1>2 DEF Recalc, history
  <2>2. EntryOK /\ Monitored \subseteq Ups /\ conf.minsupplies \in Nat
    BY MonitoredUps, MinSupplies DEF IInv, TypeOK, EntryOK
  <2>3. S \subseteq Healthy
    BY <2>1, <2>2, AllRemembered, FineIsHealthy DEF Healthy
  <2>4. Power(conf, S) < conf.minsupplies
    <3> HIDE DEF S
    <3>1. /\ Power(conf, S) <= Power(conf, Healthy) /\ Power(conf, S) \in Nat /\ Power(conf, Healthy) \in Nat
      BY <2>3, HealthyPower
    <3>2. Power(conf, Healthy) < conf.minsupplies
      BY <1>2 DEF TooFewSupplies
    <3> QED  BY <2>2, <3>1, <3>2
  <2>5. {u \in Monitored' : Fine(heard'[u])} = S
    BY <2>1 DEF Monitored
  <2> QED  BY <2>1, <2>4, <2>5 DEF ShutdownJustified
<1>3. CASE pc' # "shutdown"
  BY <1>3 DEF ShutdownJustified
<1>4. pc' = "shutdown" => UNCHANGED vars \/ (Recalc /\ TooFewSupplies)
  BY DEF Next, Loop, PollStep, StartPolling, Reload, Wake, WakeUnread, reload_conf, ParseWord, ParseDone,
      AbortPolling, AllPolled, Recalc, EndOfCycle, Tick, Terminated, ConnectFails, LoginFails,
      PollRefused, PollLost, PollAnswers, Polls, Polled
<1> QED  BY <1>1, <1>2, <1>3, <1>4

LEMMA InitIInv == Init => IInv
<1> SUFFICES ASSUME Init PROVE IInv
  OBVIOUS
<1>1. EntryOK
  <2>1. \A u \in Ups : RoleFlag(conf, u) \subseteq Flags
    BY RoleIsFlag DEF Flags
  <2> QED  BY <2>1 DEF Init, EntryOK
<1>2. TimersOK
  BY Times DEF Init, TimersOK
<1>3. PlaceOK /\ HeardOK
  BY DEF Init, PlaceOK, HeardOK
<1>4. Parsing /\ ShutdownJustified
  BY DEF Init, Parsing, ShutdownJustified
<1>5. ASSUME NEW u \in Ups PROVE Remembered(u)
  <2>1. status[u] \subseteq {"PRIMARY"} /\ kept[u] = {} /\ ~fresh[u]
    BY RoleIsFlag DEF Init
  <2> QED  BY <2>1 DEF Remembered, Alarming
<1> QED  BY <1>1, <1>2, <1>3, <1>4, <1>5 DEF IInv, TypeOK

LEMMA StepIInv == IInv /\ [Next]_vars => IInv'
<1> SUFFICES ASSUME IInv, [Next]_vars PROVE IInv'
  OBVIOUS
<1>1. TypeOK'
  BY StepTypeOK DEF IInv
<1>2. \A u \in Ups : cur' # u => Remembered(u)'
  BY StepRemembered
<1> QED  BY <1>1, <1>2, StepParsing, StepJustified DEF IInv

LEMMA Invariance == Spec => []IInv
BY InitIInv, StepIInv, PTL DEF Spec

\* No needless shutdown.  Whatever the UPSes have said before and however
\* polls, lost connections, reloads and wake-ups followed each other, recalc()
\* calls forceshutdown() only if the UPSes whose last status was a plain OL,
\* together with those never heard, provide less than MINSUPPLIES.
THEOREM NoNeedlessShutdown == Spec => [](TypeOK /\ ShutdownJustified)
<1>1. IInv => TypeOK /\ ShutdownJustified
  BY DEF IInv
<1> QED  BY <1>1, Invariance, PTL

\* No missed shutdown.  recalc() never lets upsmon go on to sleep() when the
\* UPSes that are not in peril, by their last status and the silence since,
\* provide less than MINSUPPLIES.
THEOREM NoMissedShutdown == Spec => NoSleepInPeril
<1> DEFINE A == pc = "recalc" /\ pc' = "sleep" =>
                    Power(conf, {u \in Monitored : ~Doomed(u)}) >= conf.minsupplies
<1>1. IInv /\ [Next]_vars => [A]_vars
  <2> SUFFICES ASSUME IInv, Next, pc = "recalc", pc' = "sleep"
               PROVE  Power(conf, {u \in Monitored : ~Doomed(u)}) >= conf.minsupplies
    BY DEF vars
  <2> DEFINE S == {u \in Monitored : ~Doomed(u)}
  <2>1. Recalc
    BY DEF Next, Loop, PollStep, StartPolling, Reload, Wake, WakeUnread, ParseWord, ParseDone,
        AbortPolling, AllPolled, EndOfCycle, Tick, Terminated, vars, ConnectFails, LoginFails,
        PollRefused, PollLost, PollAnswers, Polls
  <2>2. ~(Power(conf, Healthy) < conf.minsupplies)
    BY <2>1 DEF Recalc, TooFewSupplies
  <2>3. Power(conf, Healthy) <= Power(conf, S) /\ Power(conf, S) \in Nat /\ Power(conf, Healthy) \in Nat
    BY PerilPower
  <2>4. conf.minsupplies \in Nat
    BY MinSupplies DEF IInv, TypeOK, EntryOK
  <2> HIDE DEF S
  <2>5. Power(conf, S) >= conf.minsupplies
    BY <2>2, <2>3, <2>4
  <2> QED  BY <2>5 DEF S
<1> QED  BY <1>1, Invariance, PTL DEF Spec, NoSleepInPeril

\* A secondary's patience is not renewed: while one status after the other says
\* OB LB and not CAL, no step of any action, and no word that parse_status()
\* passes to update_crittimer(), sets lastnoncrit back.
THEOREM PatienceIsNotRenewed == Spec => CritTimerAges
<1> DEFINE A == \A u \in Ups :
                   /\ LowLine(heard[u]) /\ fresh[u] /\ fresh'[u]
                   /\ (cur = u => LowLine(line))
                   => lastnoncrit'[u] >= lastnoncrit[u]
<1>1. IInv /\ [Next]_vars => [A]_vars
  <2> SUFFICES ASSUME IInv, Next, NEW u \in Ups, LowLine(heard[u]), fresh[u], fresh'[u],
                      cur = u => LowLine(line)
               PROVE  lastnoncrit'[u] >= lastnoncrit[u]
    BY DEF vars
  <2>1. TypeOK /\ TimersOK /\ EntryOK /\ PlaceOK /\ HeardOK /\ Parsing
    BY DEF IInv, TypeOK
  <2>2. lastnoncrit[u] \in Nat
    BY <2>1, Times DEF TimersOK
  <2>3. CASE lastnoncrit' = lastnoncrit
    BY <2>2, <2>3
  <2>4. CASE ParseWord
    <3>1. pc = "parse" /\ words # <<>> /\ lastnoncrit' = [lastnoncrit EXCEPT ![cur] =
                              update_crittimer(Flagged(status[cur], Head(words)), lastnoncrit[cur])]
      BY <2>4 DEF ParseWord
    <3>2. CASE cur # u
      BY <2>1, <2>2, <3>1, <3>2 DEF TimersOK
    <3>3. CASE cur = u
      <4> DEFINE s == status[u]
                 w == Head(words)
                 said == Mentioned(line)
      <4>1. words \in Seq(said) /\ s \cap Cleared \subseteq said /\ {"OB", "LB"} \subseteq s
        BY <2>1, <3>1, <3>3 DEF Parsing
      <4>2. w \in said
        BY <3>1, <4>1, NextWord
      <4>3. "OL" \notin said /\ "CAL" \notin said
        BY <3>3 DEF LowLine
      <4>4. "CAL" \in Cleared /\ "LB" \in Cleared
        BY DEF Cleared
      <4> HIDE DEF s, w, said
      <4>5. {"OB", "LB"} \subseteq Flagged(s, w) /\ "CAL" \notin Flagged(s, w)
        BY <4>1, <4>2, <4>3, <4>4, FlaggedIs
      <4>6. update_crittimer(Flagged(s, w), lastnoncrit[u]) = lastnoncrit[u]
        BY <4>5 DEF update_crittimer
      <4>7. lastnoncrit'[u] = lastnoncrit[u]
        BY <2>1, <3>1, <3>3, <4>6 DEF TimersOK, s, w
      <4> QED  BY <2>2, <4>7
    <3> QED  BY <3>2, <3>3
  <2>5. CASE Reloads
    <3>1. PICK st \in [Ups -> SUBSET Flags], lp \in [Ups -> 0..DeadTime + 1], c \in Confs :
              /\ \E changed : reload_conf(st, lp, c, changed)
              /\ \/ st = status /\ fresh' = [v \in Ups |-> v \in DOMAIN c.pv /\ fresh[v]]
                 \/ st = [v \in Ups |-> {}] /\ fresh' = [v \in Ups |-> FALSE]
      BY <2>1, <2>5, ReloadIs
    <3>2. PICK changed : reload_conf(st, lp, c, changed)
      BY <3>1
    <3>3. u \in Kept(c)
      BY <2>1, <3>1 DEF HeardOK, Kept
    <3>4. lastnoncrit'[u] = lastnoncrit[u]
      BY <2>1, <3>2, <3>3, ReloadEntries
    <3> QED  BY <2>2, <3>4
  <2>6. CASE Tick
    BY <2>1, <2>6, Times, OlderType DEF Tick, TimersOK
  <2>7. CASE \E v \in Ups : Silent(v)
    BY <2>1, <2>3, <2>7, SilentEntry DEF timeVars
  <2>8. CASE StartPolling \/ WakeUnread \/ ParseDone \/ AbortPolling \/ AllPolled \/ Recalc
             \/ EndOfCycle \/ Terminated \/ \E v \in Ups, a \in Answers : PollAnswers(v, a)
    <3>1. lastnoncrit' = lastnoncrit
      BY <2>8 DEF StartPolling, WakeUnread, ParseDone, AbortPolling, AllPolled, Recalc, EndOfCycle,
               Terminated, PollAnswers, vars, upsVars, timeVars
    <3> QED  BY <2>3, <3>1
  <2> QED  BY <2>4, <2>5, <2>6, <2>7, <2>8 DEF Next, Loop, PollStep, Reloads, Silent
<1> QED  BY <1>1, Invariance, PTL DEF Spec, CritTimerAges

-----------------------------------------------------------------------------
(* The processes: module UpsmonLoop, for every combination of its options. *)
(* The privileged parent acts only on a decision of the child, and never   *)
(* mistakes the child's end for one.                                       *)

\* Where a decision of the child can be found: in the place it has reached,
\* in the byte it wrote, or in what the parent made of that byte.
Traces ==
    /\ place \in {"shutdown", "linger"} => decided
    /\ pipe = "byte" => decided

\* The pipe is closed by the child's exit only, so an end of file can be read
\* only once the child writes no more.
ClosedByExit == pipe = "closed" => place = "exit"

\* CommandOnlyWhenDecided is not inductive: the parent acts on a byte, and the
\* byte is written two steps after the decision.
LoopInv == LoopTypeOK /\ Traces /\ ClosedByExit /\ CommandOnlyWhenDecided

LEMMA InitLoop == LoopInit => LoopInv
BY DEF LoopInit, LoopInv, LoopTypeOK, Traces, ClosedByExit, CommandOnlyWhenDecided

\* What the child does keeps the invariant.
LEMMA ChildLoop == ASSUME LoopInv, Child \/ RecalcCritical \/ FatalReload PROVE LoopInv'
<1> USE DEF LoopInv, LoopTypeOK, Traces, ClosedByExit, CommandOnlyWhenDecided,
            Goes, flags
<1>1. CASE LoopBegins
  BY <1>1 DEF LoopBegins
<1>2. CASE LoopEnds
  BY <1>2 DEF LoopEnds, Leaves
<1>3. CASE HonourFsd
  BY <1>3 DEF HonourFsd
<1>4. CASE \E to \in {"poll", "doze"} : NoFsd(to)
  <2>1. CASE NoFsd("poll")
    BY <2>1 DEF NoFsd
  <2>2. CASE NoFsd("doze")
    BY <2>2 DEF NoFsd
  <2>3. QED
    BY <1>4, <2>1, <2>2
<1>5. CASE DozeEnds
  BY <1>5 DEF DozeEnds, Leaves
<1>6. CASE RecalcFine \/ AbandonPolling \/ Rest
  BY <1>6 DEF RecalcFine, AbandonPolling, Rest
<1>7. CASE RecalcCritical
  BY <1>7 DEF RecalcCritical
<1>8. CASE end_loop_cycle
  BY <1>8 DEF end_loop_cycle
<1>9. CASE doshutdown
  BY <1>9 DEF doshutdown
<1>10. CASE LingerEnds
  BY <1>10 DEF LingerEnds, Leaves
<1>11. CASE FatalReload
  BY <1>11 DEF FatalReload, Leaves
<1>12. QED
  BY <1>1, <1>2, <1>3, <1>4, <1>5, <1>6, <1>7, <1>8, <1>9, <1>10, <1>11 DEF Child

LEMMA StepLoop == LoopInv /\ [LoopNext]_loopVars => LoopInv'
<1> SUFFICES ASSUME LoopInv, [LoopNext]_loopVars PROVE LoopInv'
  OBVIOUS
<1> USE DEF LoopInv, LoopTypeOK, Traces, ClosedByExit, CommandOnlyWhenDecided, flags
<1>1. CASE Child \/ RecalcCritical \/ FatalReload
  BY <1>1, ChildLoop
<1>2. CASE ParentFlags \/ FlagFails
  BY <1>2 DEF ParentFlags, FlagFails, Read
<1>3. CASE ParentCalls \/ ParentLeaves \/ ParentDies
  BY <1>3 DEF ParentCalls, ParentLeaves, ParentDies, Read
<1>4. CASE set_exit_flag
  BY <1>4 DEF set_exit_flag, Runs
<1>5. CASE user_fsd
  BY <1>5 DEF user_fsd, Runs
<1>6. CASE set_reload_flag
  BY <1>6 DEF set_reload_flag, Runs
<1>7. CASE UNCHANGED loopVars
  BY <1>7 DEF loopVars
<1>8. QED
  BY <1>1, <1>2, <1>3, <1>4, <1>5, <1>6, <1>7 DEF LoopNext, Parent, BothGone

\* SHUTDOWNCMD is called, and POWERDOWNFLAG written, only after the child
\* decided for a shutdown, whatever signals, deaths and exits went before.
THEOREM CommandIsDecided == LoopSpec => [](LoopTypeOK /\ CommandOnlyWhenDecided)
<1>1. LoopInv => LoopTypeOK /\ CommandOnlyWhenDecided
  BY DEF LoopInv
<1>2. QED
  BY <1>1, InitLoop, StepLoop, PTL DEF LoopSpec

\* A decision is never lost: the child is about to write the byte, or the byte
\* is in the pipe and the parent waits for it or has acted on it, or the parent
\* is dead.
DecisionUnderWay ==
    decided => \/ place = "shutdown"
               \/ pipe = "byte" /\ parent \in {"waiting", "flagged", "called"}
               \/ parent = "dead"

\* What the parent has done tells what is in the pipe.
ParentHasRead ==
    /\ parent \in {"flagged", "called"} => pipe = "byte"
    /\ parent = "gone" => pipe = "closed"

LEMMA StepUnderWay ==
    ASSUME LoopInv, ParentHasRead, DecisionUnderWay, [LoopNext]_loopVars
    PROVE  ParentHasRead' /\ DecisionUnderWay'
<1> USE DEF LoopInv, LoopTypeOK, ClosedByExit, ParentHasRead, DecisionUnderWay, flags
<1>1. CASE LoopBegins \/ LoopEnds \/ HonourFsd
  BY <1>1 DEF LoopBegins, LoopEnds, HonourFsd, Goes, Leaves
<1>2. CASE \E to \in {"poll", "doze"} : NoFsd(to)
  BY <1>2 DEF NoFsd, Goes
<1>3. CASE DozeEnds \/ FatalReload
  BY <1>3 DEF DozeEnds, FatalReload, Goes, Leaves
<1>4. CASE RecalcFine \/ RecalcCritical \/ AbandonPolling \/ Rest \/ end_loop_cycle
  BY <1>4 DEF RecalcFine, RecalcCritical, AbandonPolling, Rest, end_loop_cycle, Goes
<1>5. CASE doshutdown \/ LingerEnds
  BY <1>5 DEF doshutdown, LingerEnds, Goes, Leaves
<1>6. CASE Parent \/ FlagFails \/ ParentDies
  BY <1>6 DEF Parent, ParentFlags, ParentCalls, ParentLeaves, FlagFails, ParentDies, Read
<1>7. CASE set_exit_flag \/ user_fsd \/ set_reload_flag
  BY <1>7 DEF set_exit_flag, user_fsd, set_reload_flag
<1>8. CASE UNCHANGED loopVars
  BY <1>8 DEF loopVars
<1>9. QED
  BY <1>1, <1>2, <1>3, <1>4, <1>5, <1>6, <1>7, <1>8 DEF LoopNext, Child, BothGone

\* Once the child has decided for a shutdown no signal, SIGTERM included, and no
\* exit of the child takes it back: the parent has the byte, will get it, or is
\* dead (the safety part of DecisionIsCarriedOut).
THEOREM DecisionIsNotLost == LoopSpec => []DecisionUnderWay
<1>1. LoopInit => LoopInv /\ ParentHasRead /\ DecisionUnderWay
  BY InitLoop DEF LoopInit, ParentHasRead, DecisionUnderWay
<1>2. QED
  BY <1>1, StepLoop, StepUnderWay, PTL DEF LoopSpec

-----------------------------------------------------------------------------
(* The whole: the monitor inside the loop (module UpsmonWhole).  Each part *)
(* keeps what was proved of it alone, and the reason for a shutdown is     *)
(* followed from the status of a UPS to the command of the parent.         *)

\* A step of the whole is, for each part, a step of its own or none.
LEMMA WholeStep == [WholeNext]_wholeVars => [Next]_vars /\ [LoopNext]_loopVars
<1> SUFFICES ASSUME [WholeNext]_wholeVars PROVE [Next]_vars /\ [LoopNext]_loopVars
  OBVIOUS
<1>1. NoFsd("poll") \/ NoFsd("doze") => LoopNext
  BY DEF LoopNext, Child
<1>2. CASE Cycle
  BY <1>1, <1>2 DEF Cycle, HonourHup, LoopNext, Child, Next, Loop
<1>3. CASE ReloadThenDoze
  BY <1>1, <1>3 DEF ReloadThenDoze, HonourHup, Next, Loop
<1>4. CASE DozeOver
  BY <1>4 DEF DozeOver, Next, Loop
<1>5. CASE CycleFatal
  BY <1>5 DEF CycleFatal, HonourHup, LoopNext, Next, Loop
<1>6. CASE Polling
  BY <1>6 DEF Polling, Next, Loop
<1>7. CASE Abandoned
  BY <1>7 DEF Abandoned, LoopNext, Child, Next, Loop
<1>8. CASE RecalcWhole
  BY <1>8 DEF RecalcWhole, LoopNext, Child, Next, Loop
<1>9. CASE Sleeps
  BY <1>9 DEF Sleeps, LoopNext, Child, Next, Loop
<1>10. CASE ChildAside
  BY <1>1, <1>10 DEF ChildAside, LoopNext, Child
<1>11. CASE ParentAside \/ OthersAside
  BY <1>11 DEF ParentAside, OthersAside, LoopNext
<1>12. CASE TimePasses
  BY <1>12 DEF TimePasses, Next
<1>13. CASE UNCHANGED wholeVars
  BY <1>13 DEF wholeVars
<1>14. QED
  BY <1>2, <1>3, <1>4, <1>5, <1>6, <1>7, <1>8, <1>9, <1>10, <1>11, <1>12, <1>13
     DEF WholeNext, ChildWhole

\* Put together, the monitor and the loop are still what modules Upsmon and
\* UpsmonLoop say of each alone: main() adds no step that one of them lacks, so
\* every safety property proved of either holds of upsmon.
THEOREM WholeImplements == WholeSpec => Spec /\ LoopSpec
<1>1. WholeInit => Init /\ LoopInit
  BY DEF WholeInit
<1>2. QED
  BY <1>1, WholeStep, PTL DEF WholeSpec, Spec, LoopSpec

\* The monitor is where the loop takes it to be.
Placed ==
    /\ place \in {"while", "top", "end"} => pc = "top"
    /\ place = "doze" => pc \in {"top", "poll"}
    /\ place = "poll" => pc \in {"poll", "parse", "recalc"}
    /\ place = "rest" => pc = "sleep"

\* A decision has one of two reasons, and keeps it: "upsmon -c fsd", or
\* forceshutdown() called by recalc().
Reason == decided => userfsd \/ pc = "shutdown"

\* forceshutdown() does not return, so the monitor stays where it called it.
LEMMA ShutdownStays == ASSUME pc = "shutdown", [Next]_vars PROVE pc' = "shutdown"
<1>1. CASE UNCHANGED vars
  BY <1>1 DEF vars
<1>2. ASSUME Loop \/ Tick PROVE FALSE
  <2>1. ~(StartPolling \/ Reload \/ Wake \/ WakeUnread)
    BY DEF StartPolling, Reload, Wake, WakeUnread
  <2>2. ~(PollStep \/ ParseWord \/ ParseDone \/ AbortPolling \/ AllPolled)
    BY DEF PollStep, ConnectFails, LoginFails, PollRefused, PollLost, PollAnswers, Polls,
           ParseWord, ParseDone, AbortPolling, AllPolled
  <2>3. ~(Recalc \/ EndOfCycle \/ Tick)
    BY DEF Recalc, EndOfCycle, Tick
  <2>4. QED
    BY <1>2, <2>1, <2>2, <2>3 DEF Loop
<1>3. QED
  BY <1>1, <1>2 DEF Next, Terminated

\* A pending FSD stays pending.
LEMMA FsdStays == ASSUME userfsd = TRUE, [LoopNext]_loopVars PROVE userfsd' = TRUE
<1> USE DEF flags
<1>1. CASE Child
  BY <1>1 DEF Child, LoopBegins, LoopEnds, HonourFsd, NoFsd, DozeEnds, RecalcFine, AbandonPolling,
              Rest, end_loop_cycle, doshutdown, LingerEnds
<1>2. CASE RecalcCritical \/ FatalReload
  BY <1>2 DEF RecalcCritical, FatalReload
<1>3. CASE Parent \/ FlagFails \/ ParentDies
  BY <1>3 DEF Parent, ParentFlags, ParentCalls, ParentLeaves, FlagFails, ParentDies, Read
<1>4. CASE set_exit_flag \/ user_fsd \/ set_reload_flag
  BY <1>4 DEF set_exit_flag, user_fsd, set_reload_flag
<1>5. CASE UNCHANGED loopVars
  BY <1>5 DEF loopVars
<1>6. QED
  BY <1>1, <1>2, <1>3, <1>4, <1>5 DEF LoopNext, BothGone

LEMMA StepReason == ASSUME LoopTypeOK, LoopTypeOK', Reason, [WholeNext]_wholeVars PROVE Reason'
<1>1. [Next]_vars /\ [LoopNext]_loopVars
  BY WholeStep
<1>2. (userfsd => userfsd') /\ (pc = "shutdown" => pc' = "shutdown")
  BY <1>1, FsdStays, ShutdownStays DEF LoopTypeOK
<1>3. CASE decided' = decided
  BY <1>2, <1>3 DEF Reason
<1>4. CASE HonourFsd
  BY <1>4 DEF HonourFsd, flags, Reason
<1>5. CASE RecalcWhole
  BY <1>3, <1>5 DEF RecalcWhole, RecalcFine, Reason
<1>6. ASSUME ~HonourFsd, ~RecalcWhole PROVE decided' = decided
  <2>1. CASE Cycle \/ ReloadThenDoze \/ CycleFatal
    BY <2>1 DEF Cycle, ReloadThenDoze, CycleFatal, NoFsd, DozeEnds, FatalReload
  <2>2. CASE DozeOver \/ Polling \/ TimePasses
    BY <2>2 DEF DozeOver, Polling, TimePasses, loopVars
  <2>3. CASE Abandoned \/ Sleeps
    BY <2>3 DEF Abandoned, Sleeps, AbandonPolling, Rest
  <2>4. CASE ChildAside
    BY <1>6, <2>4 DEF ChildAside, LoopBegins, LoopEnds, NoFsd, DozeEnds, end_loop_cycle, doshutdown, LingerEnds
  <2>5. CASE ParentAside
    BY <2>5 DEF ParentAside, Parent, ParentFlags, ParentCalls, ParentLeaves, Read
  <2>6. CASE OthersAside
    BY <2>6 DEF OthersAside, FlagFails, ParentDies, Read, set_exit_flag, user_fsd, set_reload_flag,
                BothGone, loopVars
  <2>7. CASE UNCHANGED wholeVars
    BY <2>7 DEF wholeVars, loopVars
  <2>8. QED
    BY <1>6, <2>1, <2>2, <2>3, <2>4, <2>5, <2>6, <2>7 DEF WholeNext, ChildWhole
<1>7. QED
  BY <1>3, <1>4, <1>5, <1>6

LEMMA StepPlaced == ASSUME LoopTypeOK, Placed, [WholeNext]_wholeVars PROVE Placed'
<1> USE DEF Placed
<1>1. CASE Cycle
  <2>1. place' = "poll" /\ pc' = "poll"
    BY <1>1 DEF Cycle, NoFsd, Goes
  <2>2. QED
    BY <2>1
<1>2. CASE ReloadThenDoze
  BY <1>2 DEF ReloadThenDoze, NoFsd, Goes
<1>3. CASE DozeOver
  BY <1>3 DEF DozeOver, AbortPolling, loopVars
<1>4. CASE CycleFatal
  BY <1>4 DEF CycleFatal, FatalReload, Goes
<1>5. CASE Polling
  <2>1. place' = "poll" /\ place = "poll"
    BY <1>5 DEF Polling, loopVars
  <2>2. pc' \in {"poll", "parse", "recalc"}
    BY <1>5, <2>1 DEF Polling, PollStep, ConnectFails, LoginFails, PollRefused, PollLost,
                      PollAnswers, Polled, ParseWord, ParseDone, AllPolled
  <2>3. QED
    BY <2>1, <2>2
<1>6. CASE Abandoned
  BY <1>6 DEF Abandoned, AbandonPolling, AbortPolling, Goes
<1>7. CASE RecalcWhole
  BY <1>7 DEF RecalcWhole, RecalcCritical, RecalcFine, Goes
<1>8. CASE Sleeps
  BY <1>8 DEF Sleeps, Rest, EndOfCycle, Goes
<1>9. CASE ChildAside
  <2>1. pc' = pc
    BY <1>9 DEF ChildAside, vars
  <2>2. QED
    BY <1>9, <2>1 DEF ChildAside, LoopBegins, LoopEnds, HonourFsd, NoFsd, DozeEnds,
                      end_loop_cycle, doshutdown, LingerEnds, Goes
<1>10. CASE ParentAside \/ OthersAside \/ TimePasses \/ UNCHANGED wholeVars
  <2>1. pc' = pc
    BY <1>10 DEF ParentAside, OthersAside, TimePasses, Tick, wholeVars, vars
  <2>2. place' = place
    BY <1>10 DEF ParentAside, Parent, ParentFlags, ParentCalls, ParentLeaves, Read, OthersAside,
                 FlagFails, ParentDies, set_exit_flag, user_fsd, set_reload_flag, BothGone,
                 TimePasses, wholeVars, loopVars
  <2>3. QED
    BY <2>1, <2>2
<1>11. QED
  BY <1>1, <1>2, <1>3, <1>4, <1>5, <1>6, <1>7, <1>8, <1>9, <1>10 DEF WholeNext, ChildWhole

\* What holds of upsmon as a whole: the invariants of its parts, and that the
\* two are in step.
WholeInv == IInv /\ LoopInv /\ Placed /\ Reason

LEMMA WholeInvariance == WholeSpec => []WholeInv
<1>1. WholeInit => WholeInv
  BY InitIInv, InitLoop DEF WholeInit, WholeInv, Init, LoopInit, Placed, Reason
<1>2. WholeInv /\ [WholeNext]_wholeVars => WholeInv'
  <2> SUFFICES ASSUME WholeInv, [WholeNext]_wholeVars PROVE WholeInv'
    OBVIOUS
  <2>1. IInv' /\ LoopInv'
    BY WholeStep, StepIInv, StepLoop DEF WholeInv
  <2>2. Placed' /\ Reason'
    BY <2>1, StepPlaced, StepReason DEF WholeInv, LoopInv
  <2>3. QED
    BY <2>1, <2>2 DEF WholeInv
<1>3. QED
  BY <1>1, <1>2, PTL DEF WholeSpec

\* The privileged parent calls SHUTDOWNCMD, or writes POWERDOWNFLAG, only if
\* "upsmon -c fsd" was received or the UPSes that are fine by their last status
\* do not provide MINSUPPLIES: no signal, exit, reload, sleep of the OS or lost
\* connection, in any order, makes upsmon shut the host down for nothing.
THEOREM WholeJustified == WholeSpec => [](CommandJustified /\ Placed)
<1>1. WholeInv => CommandJustified /\ Placed
  BY DEF WholeInv, IInv, LoopInv, CommandOnlyWhenDecided, Reason, ShutdownJustified, CommandJustified
<1>2. QED
  BY <1>1, WholeInvariance, PTL
=============================================================================
