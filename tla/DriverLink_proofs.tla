------------------------- MODULE DriverLink_proofs -------------------------
(***************************************************************************)
(* Proofs about DriverLink for any variables, values, rooms and numbers of *)
(* changes and failures: upsd's copy follows the driver's tree, and the    *)
(* verdict on it is the one of this connection.                            *)
(***************************************************************************)
EXTENDS DriverLink, FiniteSetTheorems, SequenceTheorems, TLAPS

\* No line of q is in the set A; the last line of q that is in A is in B.
NoneIn(q, A) == \A i \in 1..Len(q) : q[i] \notin A
LastIn(q, A, B) ==
    \E i \in 1..Len(q) : /\ q[i] \in A \cap B
                         /\ \A j \in 1..Len(q) : j > i => q[j] \notin A

About(v)  == {l \in Line : Touches(l, v)}
Truth(v)  == {l \in Line : Written(l) = tree[v]}
Verdicts  == {l \in Line : l.kind \in {"DATAOK", "DATASTALE"}}
Current   == {l \in Line : l.kind = IF dstale THEN "DATASTALE" ELSE "DATAOK"}
Dones     == {l \in Line : l.kind = "DUMPDONE"}

\* sstate_connect() has asked for the dump and the driver has not read that.
Pending == asked # <<>> /\ asked[1] = "DUMPALL"

\* The socket, the connection and the requests on it.
Sockets ==
    /\ conn = "none" <=> ~sock_fd
    /\ ~sock_fd => info = Empty
    /\ ~up => conn \in {"none", "closed"}
    /\ \A i \in 1..Len(asked) : i > 1 => asked[i] = "PING"

\* Before the driver accepts, nothing has been said on the connection.
Fresh ==
    conn = "backlog" => /\ wire = <<>> /\ Pending /\ ~dumpdone
                        /\ \A v \in Var : info[v] = IF v = Status THEN Wait ELSE None

\* The last line under way about v tells what the driver has; if there is none,
\* upsd has it already, or has nothing at all and the dump is to come.
Follows(v) ==
    \/ LastIn(UnderWay, About(v), Truth(v))
    \/ /\ NoneIn(UnderWay, About(v))
       /\ \/ info[v] = tree[v]
          \/ v = Status /\ info[v] = Wait /\ (tree[v] = None \/ Pending)
          \/ Pending /\ info[v] = None

Copied == Accepted => \A v \in Var : Follows(v)

\* DUMPDONE is not sent before the dump is asked for, and from then on the last
\* verdict under way is the driver's, or upsd knows it.
Judged ==
    Accepted => IF Pending THEN ~dumpdone /\ NoneIn(UnderWay, Dones)
                ELSE \/ LastIn(UnderWay, Verdicts, Current)
                     \/ NoneIn(UnderWay, Verdicts) /\ data_ok = ~dstale

IInv == TypeOK /\ Sockets /\ Fresh /\ Copied /\ Judged

-----------------------------------------------------------------------------
(* Queues of lines *)

\* More lines are written behind those under way.
LEMMA Behind ==
    ASSUME NEW L, NEW q \in Seq(L), NEW r \in Seq(L), NEW A, NEW B
    PROVE  /\ q \o r \in Seq(L)
           /\ LastIn(r, A, B) => LastIn(q \o r, A, B)
           /\ LastIn(q, A, B) /\ NoneIn(r, A) => LastIn(q \o r, A, B)
           /\ NoneIn(q, A) /\ NoneIn(r, A) => NoneIn(q \o r, A)
<1> DEFINE s == q \o r
<1>1. /\ s \in Seq(L) /\ Len(s) = Len(q) + Len(r) /\ Len(q) \in Nat /\ Len(r) \in Nat
      /\ \A i \in 1..Len(q) : i \in 1..Len(s) /\ s[i] = q[i]
      /\ \A i \in 1..Len(r) : i + Len(q) \in 1..Len(s) /\ s[i + Len(q)] = r[i]
      /\ \A i \in 1..Len(s) : i > Len(q) => i - Len(q) \in 1..Len(r) /\ s[i] = r[i - Len(q)]
  BY ConcatProperties
<1> HIDE DEF s
<1>2. ASSUME LastIn(r, A, B) PROVE LastIn(s, A, B)
  <2>1. PICK i \in 1..Len(r) : /\ r[i] \in A \cap B
                               /\ \A j \in 1..Len(r) : j > i => r[j] \notin A
    BY <1>2 DEF LastIn
  <2>2. i + Len(q) \in 1..Len(s) /\ s[i + Len(q)] \in A \cap B
    BY <1>1, <2>1
  <2>3. \A j \in 1..Len(s) : j > i + Len(q) => s[j] \notin A
    <3> SUFFICES ASSUME NEW j \in 1..Len(s), j > i + Len(q) PROVE s[j] \notin A
      OBVIOUS
    <3>1. j > Len(q) /\ j - Len(q) > i
      BY <1>1
    <3>2. j - Len(q) \in 1..Len(r) /\ s[j] = r[j - Len(q)]
      BY <1>1, <3>1
    <3> QED  BY <2>1, <3>1, <3>2
  <2> QED  BY <2>2, <2>3 DEF LastIn
<1>3. ASSUME LastIn(q, A, B), NoneIn(r, A) PROVE LastIn(s, A, B)
  <2>1. PICK i \in 1..Len(q) : /\ q[i] \in A \cap B
                               /\ \A j \in 1..Len(q) : j > i => q[j] \notin A
    BY <1>3 DEF LastIn
  <2>2. i \in 1..Len(s) /\ s[i] \in A \cap B
    BY <1>1, <2>1
  <2>3. \A j \in 1..Len(s) : j > i => s[j] \notin A
    <3> SUFFICES ASSUME NEW j \in 1..Len(s), j > i PROVE s[j] \notin A
      OBVIOUS
    <3>1. CASE j > Len(q)
      BY <3>1, <1>1, <1>3 DEF NoneIn
    <3>2. CASE j \in 1..Len(q)
      BY <3>2, <1>1, <2>1
    <3> QED  BY <3>1, <3>2, <1>1
  <2> QED  BY <2>2, <2>3 DEF LastIn
<1>4. ASSUME NoneIn(q, A), NoneIn(r, A) PROVE NoneIn(s, A)
  <2> SUFFICES ASSUME NEW j \in 1..Len(s) PROVE s[j] \notin A
    BY DEF NoneIn
  <2>1. CASE j > Len(q)
    BY <2>1, <1>1, <1>4 DEF NoneIn
  <2>2. CASE j \in 1..Len(q)
    BY <2>2, <1>1, <1>4 DEF NoneIn
  <2> QED  BY <2>1, <2>2, <1>1
<1> QED  BY <1>1, <1>2, <1>3, <1>4 DEF s

\* One line is taken from the front.
LEMMA Taken ==
    ASSUME NEW L, NEW q \in Seq(L), q # <<>>, NEW A, NEW B
    PROVE  /\ Tail(q) \in Seq(L) /\ Head(q) \in L
           /\ NoneIn(q, A) => Head(q) \notin A /\ NoneIn(Tail(q), A)
           /\ LastIn(q, A, B) => \/ LastIn(Tail(q), A, B)
                                 \/ Head(q) \in A \cap B /\ NoneIn(Tail(q), A)
<1>1. /\ Tail(q) \in Seq(L) /\ Head(q) \in L /\ Head(q) = q[1] /\ 1 \in 1..Len(q)
      /\ Len(q) \in Nat /\ Len(Tail(q)) = Len(q) - 1
      /\ \A i \in 1..Len(Tail(q)) : i + 1 \in 1..Len(q) /\ Tail(q)[i] = q[i + 1]
  OBVIOUS
<1>2. ASSUME NoneIn(q, A) PROVE Head(q) \notin A /\ NoneIn(Tail(q), A)
  BY <1>1, <1>2 DEF NoneIn
<1>3. ASSUME LastIn(q, A, B)
      PROVE  LastIn(Tail(q), A, B) \/ (Head(q) \in A \cap B /\ NoneIn(Tail(q), A))
  <2>1. PICK i \in 1..Len(q) : /\ q[i] \in A \cap B
                               /\ \A j \in 1..Len(q) : j > i => q[j] \notin A
    BY <1>3 DEF LastIn
  <2>2. CASE i = 1
    <3>1. \A j \in 1..Len(Tail(q)) : j + 1 > i
      BY <2>2, <1>1
    <3> QED  BY <2>1, <2>2, <1>1, <3>1 DEF NoneIn
  <2>3. CASE i # 1
    <3>1. i - 1 \in 1..Len(Tail(q)) /\ Tail(q)[i - 1] = q[i]
      BY <2>3, <1>1
    <3>2. \A j \in 1..Len(Tail(q)) : j > i - 1 => Tail(q)[j] \notin A
      <4> SUFFICES ASSUME NEW j \in 1..Len(Tail(q)), j > i - 1 PROVE Tail(q)[j] \notin A
        OBVIOUS
      <4>1. j + 1 \in 1..Len(q) /\ j + 1 > i /\ Tail(q)[j] = q[j + 1]
        BY <1>1
      <4> QED  BY <2>1, <4>1
    <3> DEFINE t == Tail(q)
               k == i - 1
    <3>3. k \in 1..Len(t) /\ t[k] \in A \cap B
      BY <2>1, <3>1
    <3>4. \A j \in 1..Len(t) : j > k => t[j] \notin A
      BY <3>2
    <3> HIDE DEF k, t
    <3>5. LastIn(t, A, B)
      BY <3>3, <3>4 DEF LastIn
    <3> QED  BY <3>5 DEF t
  <2> QED  BY <2>2, <2>3
<1> QED  BY <1>1, <1>2, <1>3

\* A single line.
LEMMA OneLine ==
    ASSUME NEW L, NEW l \in L, NEW A, NEW B
    PROVE  /\ <<l>> \in Seq(L)
           /\ l \in A \cap B => LastIn(<<l>>, A, B)
           /\ l \notin A => NoneIn(<<l>>, A)
BY DEF LastIn, NoneIn

LEMMA NoLine ==
    ASSUME NEW A
    PROVE  NoneIn(<<>>, A)
BY DEF NoneIn

\* Writing a line moves it from one part of the queue to the other; reading
\* takes the first line of it.
LEMMA Moved ==
    ASSUME NEW L, NEW w \in Seq(L), NEW o \in Seq(L)
    PROVE  /\ w \o o \in Seq(L)
           /\ o # <<>> => Append(w, Head(o)) \o Tail(o) = w \o o
           /\ w # <<>> => /\ w \o o # <<>> /\ Head(w \o o) = Head(w)
                          /\ Tail(w) \o o = Tail(w \o o)
<1>1. w \o o \in Seq(L) /\ Len(w \o o) = Len(w) + Len(o)
  BY ConcatProperties
<1>2. ASSUME o # <<>> PROVE Append(w, Head(o)) \o Tail(o) = w \o o
  <2>1. /\ Head(o) \in L /\ Tail(o) \in Seq(L) /\ Head(o) = o[1] /\ Len(Tail(o)) = Len(o) - 1
        /\ \A i \in 1..Len(Tail(o)) : Tail(o)[i] = o[i + 1]
    BY <1>2
  <2>2. /\ Append(w, Head(o)) \in Seq(L) /\ Len(Append(w, Head(o))) = Len(w) + 1
        /\ \A i \in 1..Len(w) : Append(w, Head(o))[i] = w[i]
        /\ Append(w, Head(o))[Len(w) + 1] = Head(o)
    BY <2>1
  <2> DEFINE a == Append(w, Head(o))
             t == Tail(o)
  <2> HIDE DEF a, t
  <2>3. /\ a \o t \in Seq(L) /\ Len(a \o t) = Len(w) + Len(o)
        /\ \A i \in 1..Len(a \o t) : (a \o t)[i] = IF i <= Len(a) THEN a[i] ELSE t[i - Len(a)]
    BY <2>1, <2>2, ConcatProperties DEF a, t
  <2>4. \A i \in 1..Len(w \o o) : (w \o o)[i] = IF i <= Len(w) THEN w[i] ELSE o[i - Len(w)]
    BY ConcatProperties
  <2>5. \A i \in 1..Len(a \o t) : (a \o t)[i] = (w \o o)[i]
    BY <1>1, <2>1, <2>2, <2>3, <2>4 DEF a, t
  <2> QED  BY <1>1, <2>3, <2>5, SeqEqual DEF a, t
<1>3. ASSUME w # <<>>
      PROVE  /\ w \o o # <<>> /\ Head(w \o o) = Head(w)
             /\ Tail(w) \o o = Tail(w \o o)
  <2>1. /\ Tail(w) \in Seq(L) /\ Head(w) = w[1] /\ Len(Tail(w)) = Len(w) - 1 /\ 1 \in 1..Len(w)
        /\ \A i \in 1..Len(Tail(w)) : Tail(w)[i] = w[i + 1]
    BY <1>3
  <2> DEFINE t == Tail(w)
             c == w \o o
  <2>2. \A i \in 1..Len(c) : c[i] = IF i <= Len(w) THEN w[i] ELSE o[i - Len(w)]
    BY ConcatProperties
  <2>3. /\ t \o o \in Seq(L) /\ Len(t \o o) = Len(t) + Len(o)
        /\ \A i \in 1..Len(t \o o) : (t \o o)[i] = IF i <= Len(t) THEN t[i] ELSE o[i - Len(t)]
    BY <2>1, ConcatProperties
  <2> HIDE DEF t, c
  <2>4. c \in Seq(L) /\ Len(c) = Len(w) + Len(o) /\ Len(w) \in Nat /\ Len(o) \in Nat
    BY <1>1 DEF c
  <2>5. c # <<>> /\ 1 \in 1..Len(c)
    BY <2>1, <2>4
  <2>6. /\ Head(c) = c[1] /\ Tail(c) \in Seq(L) /\ Len(Tail(c)) = Len(c) - 1
        /\ \A i \in 1..Len(Tail(c)) : Tail(c)[i] = c[i + 1]
    BY <2>4, <2>5
  <2>7. Len(t \o o) = Len(Tail(c))
    BY <2>1, <2>3, <2>4, <2>6 DEF t
  <2>8. \A i \in 1..Len(t \o o) : (t \o o)[i] = Tail(c)[i]
    BY <2>1, <2>2, <2>3, <2>4, <2>6, <2>7 DEF t
  <2>9. t \o o = Tail(c)
    BY <2>3, <2>6, <2>7, <2>8, SeqEqual
  <2> QED  BY <2>1, <2>2, <2>5, <2>6, <2>9 DEF c, t
<1> QED  BY <1>1, <1>2, <1>3

-----------------------------------------------------------------------------
(* The lines of a driver *)

\* What the lines are about and what they write.
LEMMA LineTypes ==
    /\ \A v \in Var, x \in Value : SETINFO(v, x) \in Line
    /\ \A v \in Var : DELINFO(v) \in Line
    /\ \A k \in {"DATAOK", "DATASTALE", "DUMPDONE", "PONG"} : Plain(k) \in Line
    /\ \A l \in Line : Written(l) \in Value \cup {None}
BY DEF Line, SETINFO, DELINFO, Plain, Written

LEMMA LineKinds ==
    /\ \A v, u \in Var, x \in Value : /\ Touches(SETINFO(v, x), u) <=> v = u
                                      /\ Written(SETINFO(v, x)) = x
                                      /\ SETINFO(v, x) \notin Verdicts /\ SETINFO(v, x) \notin Dones
    /\ \A v, u \in Var : /\ Touches(DELINFO(v), u) <=> v = u
                         /\ Written(DELINFO(v)) = None
                         /\ DELINFO(v) \notin Verdicts /\ DELINFO(v) \notin Dones
    /\ \A k \in {"DATAOK", "DATASTALE", "DUMPDONE", "PONG"} :
          /\ \A u \in Var : ~Touches(Plain(k), u)
          /\ Plain(k) \in Verdicts <=> k \in {"DATAOK", "DATASTALE"}
          /\ Plain(k) \in Dones <=> k = "DUMPDONE"
          /\ Plain(k).kind = k
BY DEF Line, SETINFO, DELINFO, Plain, Written, Touches, Verdicts, Dones

\* Every variable of the tree is in the dump, once and with its value.
LEMMA TreeLinesTell ==
    ASSUME tree \in [Var -> Value \cup {None}]
    PROVE  /\ TreeLines \in Seq(Line)
           /\ \A i \in 1..Len(TreeLines) : \E v \in Var : TreeLines[i] = SETINFO(v, tree[v])
                                                         /\ tree[v] \in Value
           /\ \A v \in Var : IF tree[v] = None THEN NoneIn(TreeLines, About(v))
                              ELSE LastIn(TreeLines, About(v), Truth(v))
<1> DEFINE S == {v \in Var : tree[v] # None}
           n == Cardinality(S)
           order == SetToSeq(S)
<1>1. IsFiniteSet(S)
  BY VarAssumption, FS_Subset
<1>2. n \in Nat /\ ExistsBijection(1..n, S)
  BY <1>1, FS_CardinalityType
<1>3. order \in [1..n -> S] /\ IsInjective(order)
  <2>1. \E f \in [1..n -> S] : IsInjective(f)
    BY <1>2 DEF ExistsBijection, Bijection, Injection
  <2> QED  BY <2>1 DEF SetToSeq
<1>4. \A v \in S : \E i \in 1..n : order[i] = v
  <2>1. order \in Injection(1..n, S)
    BY <1>3 DEF Injection
  <2>2. Cardinality(1..n) = n
    BY <1>2, FS_Interval
  <2>3. order \in Surjection(1..n, S)
    BY <1>1, <2>1, <2>2, FS_Injection
  <2> QED  BY <2>3 DEF Surjection
<1>5. TreeLines = [i \in DOMAIN order |-> SETINFO(order[i], tree[order[i]])]
  BY DEF TreeLines
<1> HIDE DEF S, n, order
<1>6. DOMAIN order = 1..n /\ \A i \in 1..n : order[i] \in S
  BY <1>3
<1>7. \A v \in S : v \in Var /\ tree[v] \in Value
  BY DEF S
<1>8. \A i \in 1..n : SETINFO(order[i], tree[order[i]]) \in Line
  BY <1>6, <1>7, LineTypes
<1>9. /\ TreeLines \in Seq(Line) /\ Len(TreeLines) = n
      /\ \A i \in 1..n : TreeLines[i] = SETINFO(order[i], tree[order[i]])
  <2>1. TreeLines = [i \in 1..n |-> SETINFO(order[i], tree[order[i]])]
    BY <1>5, <1>6
  <2>2. TreeLines \in [1..n -> Line]
    BY <2>1, <1>8
  <2>3. TreeLines \in Seq(Line) /\ Len(TreeLines) = n
    BY <2>2, <1>2
  <2> QED  BY <2>1, <2>3
<1>10. ASSUME NEW v \in Var, tree[v] = None PROVE NoneIn(TreeLines, About(v))
  <2>1. \A i \in 1..n : order[i] # v
    BY <1>6, <1>10 DEF S
  <2> QED  BY <1>6, <1>7, <1>9, <2>1, LineKinds DEF NoneIn, About
<1>11. ASSUME NEW v \in Var, tree[v] # None PROVE LastIn(TreeLines, About(v), Truth(v))
  <2>1. PICK i \in 1..n : order[i] = v
    BY <1>4, <1>11 DEF S
  <2>2. TreeLines[i] \in About(v) \cap Truth(v)
    BY <1>7, <1>6, <1>8, <1>9, <2>1, LineKinds DEF About, Truth
  <2>3. \A j \in 1..n : j > i => TreeLines[j] \notin About(v)
    <3> SUFFICES ASSUME NEW j \in 1..n, j > i PROVE TreeLines[j] \notin About(v)
      OBVIOUS
    <3>1. order[j] # v
      BY <1>2, <1>3, <1>6, <2>1 DEF IsInjective
    <3> QED  BY <1>6, <1>7, <1>9, <3>1, LineKinds DEF About
  <2> QED  BY <1>9, <2>2, <2>3 DEF LastIn
<1> QED  BY <1>6, <1>7, <1>9, <1>10, <1>11

\* The dump tells everything the driver knows and ends in DUMPDONE.
LEMMA DumpTells ==
    ASSUME tree \in [Var -> Value \cup {None}], dstale \in BOOLEAN
    PROVE  /\ DumpAll \in Seq(Line)
           /\ \A v \in Var : IF tree[v] = None THEN NoneIn(DumpAll, About(v))
                              ELSE LastIn(DumpAll, About(v), Truth(v))
           /\ LastIn(DumpAll, Verdicts, Current)
<1> DEFINE first == IF dstale THEN <<Plain("DATASTALE")>> ELSE <<>>
           third == IF dstale THEN <<>> ELSE <<Plain("DATAOK")>>
           last  == <<Plain("DUMPDONE")>>
<1>1. DumpAll = ((first \o TreeLines) \o third) \o last
  BY DEF DumpAll
<1>2. /\ first \in Seq(Line) /\ third \in Seq(Line) /\ last \in Seq(Line)
      /\ \A v \in Var : NoneIn(first, About(v)) /\ NoneIn(third, About(v)) /\ NoneIn(last, About(v))
  <2>1. \A k \in {"DATAOK", "DATASTALE", "DUMPDONE"} :
            /\ <<Plain(k)>> \in Seq(Line)
            /\ \A v \in Var : NoneIn(<<Plain(k)>>, About(v))
    <3> SUFFICES ASSUME NEW k \in {"DATAOK", "DATASTALE", "DUMPDONE"}, NEW v \in Var
                 PROVE  <<Plain(k)>> \in Seq(Line) /\ NoneIn(<<Plain(k)>>, About(v))
      BY LineTypes
    <3>1. Plain(k) \in Line
      BY LineTypes
    <3>2. Plain(k) \notin About(v)
      BY LineKinds DEF About
    <3> QED  BY <3>1, <3>2, OneLine
  <2> QED  BY <2>1, NoLine
<1>3. NoneIn(last, Verdicts) /\ NoneIn(TreeLines, Verdicts)
  <2>1. Plain("DUMPDONE") \notin Verdicts /\ Plain("DUMPDONE") \in Line
    BY LineKinds, LineTypes
  <2>2. NoneIn(TreeLines, Verdicts)
    BY TreeLinesTell, LineKinds DEF NoneIn
  <2> QED  BY <2>1, <2>2, OneLine
<1>4. IF dstale THEN LastIn(first, Verdicts, Current) /\ NoneIn(third, Verdicts)
                ELSE LastIn(third, Verdicts, Current)
  <2>1. CASE dstale
    <3>1. Plain("DATASTALE") \in Line /\ Plain("DATASTALE") \in Verdicts \cap Current
      BY <2>1, LineKinds, LineTypes DEF Current
    <3> QED  BY <2>1, <3>1, OneLine, NoLine
  <2>2. CASE ~dstale
    <3>1. Plain("DATAOK") \in Line /\ Plain("DATAOK") \in Verdicts \cap Current
      BY <2>2, LineKinds, LineTypes DEF Current
    <3> QED  BY <2>2, <3>1, OneLine
  <2> QED  BY <2>1, <2>2
<1> DEFINE two == first \o TreeLines
           three == two \o third
<1>5. TreeLines \in Seq(Line)
  BY TreeLinesTell
<1> HIDE DEF first, third, last
<1>6. two \in Seq(Line)
  BY <1>2, <1>5, Behind
<1> HIDE DEF two
<1>7. three \in Seq(Line)
  BY <1>2, <1>6, Behind
<1> HIDE DEF three
<1>8. DumpAll = three \o last
  BY <1>1 DEF two, three
<1>9. DumpAll \in Seq(Line)
  BY <1>2, <1>7, <1>8, Behind
<1>10. ASSUME NEW v \in Var
       PROVE  IF tree[v] = None THEN NoneIn(DumpAll, About(v))
              ELSE LastIn(DumpAll, About(v), Truth(v))
  <2>1. CASE tree[v] = None
    <3>1. NoneIn(two, About(v))
      BY <1>2, <1>5, <2>1, TreeLinesTell, Behind DEF two
    <3>2. NoneIn(three, About(v))
      BY <1>2, <1>6, <3>1, Behind DEF three
    <3> QED  BY <1>2, <1>7, <1>8, <2>1, <3>2, Behind
  <2>2. CASE tree[v] # None
    <3>1. LastIn(two, About(v), Truth(v))
      BY <1>2, <1>5, <2>2, TreeLinesTell, Behind DEF two
    <3>2. LastIn(three, About(v), Truth(v))
      BY <1>2, <1>6, <3>1, Behind DEF three
    <3> QED  BY <1>2, <1>7, <1>8, <2>2, <3>2, Behind
  <2> QED  BY <2>1, <2>2
<1>11. LastIn(DumpAll, Verdicts, Current)
  <2>1. CASE dstale
    <3>1. LastIn(two, Verdicts, Current)
      BY <1>2, <1>3, <1>4, <1>5, <2>1, Behind DEF two
    <3>2. LastIn(three, Verdicts, Current)
      BY <1>2, <1>4, <1>6, <2>1, <3>1, Behind DEF three
    <3> QED  BY <1>2, <1>3, <1>7, <1>8, <3>2, Behind
  <2>2. CASE ~dstale
    <3>1. LastIn(three, Verdicts, Current)
      BY <1>2, <1>4, <1>6, <2>2, Behind DEF three
    <3> QED  BY <1>2, <1>3, <1>7, <1>8, <3>1, Behind
  <2> QED  BY <2>1, <2>2
<1> QED  BY <1>9, <1>10, <1>11

-----------------------------------------------------------------------------
(* The requests and the first part of the invariant *)

\* Only the first request can be DUMPALL.
LEMMA PendingIsDump ==
    ASSUME LinkOK, Sockets
    PROVE  DumpUnderWay <=> Pending
<1>1. asked \in Seq({"DUMPALL", "PING"}) /\ DOMAIN asked = 1..Len(asked) /\ Len(asked) \in Nat
  BY DEF LinkOK
<1>2. ASSUME DumpUnderWay PROVE Pending
  <2>1. PICK i \in 1..Len(asked) : asked[i] = "DUMPALL"
    BY <1>1, <1>2 DEF DumpUnderWay
  <2>2. i = 1
    BY <1>1, <2>1 DEF Sockets
  <2> QED  BY <1>1, <2>1, <2>2 DEF Pending
<1>3. ASSUME Pending PROVE DumpUnderWay
  BY <1>1, <1>3 DEF Pending, DumpUnderWay
<1> QED  BY <1>2, <1>3

LEMMA PingsFollow ==
    ASSUME asked \in Seq({"DUMPALL", "PING"}), asked' = asked \/ asked' = Append(asked, "PING")
    PROVE  Pending <=> Pending'
<1>1. CASE asked' = asked
  BY <1>1 DEF Pending
<1>2. CASE asked' = Append(asked, "PING") /\ asked = <<>>
  <2>1. asked' = <<"PING">>
    BY <1>2
  <2>2. asked'[1] = "PING"
    BY <2>1
  <2> QED  BY <1>2, <2>2 DEF Pending
<1>3. CASE asked' = Append(asked, "PING") /\ asked # <<>>
  <2>1. asked'[1] = asked[1] /\ asked' # <<>>
    BY <1>3
  <2> QED  BY <1>3, <2>1 DEF Pending
<1> QED  BY <1>1, <1>2, <1>3

LEMMA InitIInv == Init => IInv
<1> SUFFICES ASSUME Init PROVE IInv
  OBVIOUS
<1>1. PingDue \in Nat
  BY AgeAssumption DEF PingDue
<1>2. Empty \in Tree /\ Empty \in [Var -> Value \cup {None}]
  BY DEF Empty, Tree
<1>3. DriverOK
  BY <1>2, ModesAssumption, PromptAssumption DEF Init, DriverOK
<1>4. LinkOK
  BY RoomAssumption DEF Init, LinkOK
<1>5. UpsdOK
  BY <1>2 DEF Init, UpsdOK
<1>6. ClocksOK
  BY <1>1, AgeAssumption, BoundAssumption DEF Init, ClocksOK, Elapsed
<1>7. Sockets /\ Fresh /\ Copied /\ Judged
  BY DEF Init, Sockets, Fresh, Copied, Judged, Accepted
<1> QED  BY <1>3, <1>4, <1>5, <1>6, <1>7 DEF IInv, TypeOK

LEMMA StepDriverOK ==
    ASSUME TypeOK, [Next]_vars
    PROVE  DriverOK'
<1>1. DriverOK /\ Empty \in [Var -> Value \cup {None}]
  BY DEF TypeOK, Empty
<1>2. <<>> \in Seq(Line) /\ \A l \in Line : <<l>> \in Seq(Line)
  BY OneLine
<1>3. CASE UNCHANGED vars
  BY <1>1, <1>3 DEF vars, driverVars, DriverOK
<1>4. CASE Driver
  <2>1. ASSUME NEW v \in Var, NEW x \in Value, dstate_setinfo(v, x) PROVE DriverOK'
    <3>1. <<SETINFO(v, x)>> \in Seq(Line)
      BY <1>2, LineTypes
    <3> QED  BY <1>1, <2>1, <3>1 DEF dstate_setinfo, send_to_all, DriverOK
  <2>2. ASSUME NEW v \in Var, dstate_delinfo(v) PROVE DriverOK'
    <3>1. <<DELINFO(v)>> \in Seq(Line)
      BY <1>2, LineTypes
    <3> QED  BY <1>1, <2>2, <3>1 DEF dstate_delinfo, send_to_all, DriverOK
  <2>3. CASE dstate_dataok \/ dstate_datastale
    <3>1. <<Plain("DATAOK")>> \in Seq(Line) /\ <<Plain("DATASTALE")>> \in Seq(Line)
      BY <1>2, LineTypes
    <3> QED  BY <1>1, <1>2, <2>3, <3>1 DEF dstate_dataok, dstate_datastale, send_to_all, DriverOK
  <2>4. CASE sock_connect
    BY <1>1, <2>4 DEF sock_connect, driverVars, DriverOK
  <2>5. CASE sock_arg
    <3>1. DumpAll \in Seq(Line)
      BY <1>1, DumpTells DEF DriverOK
    <3>2. <<Plain("PONG")>> \in Seq(Line)
      BY <1>2, LineTypes
    <3> QED  BY <1>1, <2>5, <3>1, <3>2 DEF sock_arg, DriverOK
  <2>6. CASE Write
    BY <1>1, <2>6 DEF Write, DriverOK
  <2>7. CASE WriteFails \/ WriteLost
    BY <1>1, <1>2, <2>7 DEF WriteFails, WriteLost, DriverOK
  <2>8. CASE Start
    BY <1>1, <2>8, ModesAssumption DEF Start, DriverOK
  <2> QED  BY <1>4, <2>1, <2>2, <2>3, <2>4, <2>5, <2>6, <2>7, <2>8 DEF Driver
<1>5. CASE Crash
  BY <1>1, <1>2, <1>5 DEF Crash, DriverOK
<1>6. CASE Server \/ SocketBreaks \/ Tick
  <2>1. UNCHANGED driverVars
    BY <1>6 DEF Server, SocketBreaks, Tick, CannotConnect, Connects, Judges, PingFails,
             sstate_readline, Hangup, NothingRead
  <2> QED  BY <1>1, <2>1 DEF driverVars, DriverOK
<1> QED  BY <1>3, <1>4, <1>5, <1>6 DEF Next

LEMMA StepLinkOK ==
    ASSUME TypeOK, [Next]_vars
    PROVE  LinkOK'
<1>1. LinkOK /\ out \in Seq(Line)
  BY DEF TypeOK, DriverOK
<1>2. /\ <<>> \in Seq(Line) /\ <<>> \in Seq({"DUMPALL", "PING"}) /\ Len(<<>>) = 0
      /\ <<"DUMPALL">> \in Seq({"DUMPALL", "PING"}) /\ Len(<<"DUMPALL">>) = 1
  OBVIOUS
<1>3. ASSUME UNCHANGED linkVars PROVE LinkOK'
  BY <1>1, <1>3 DEF linkVars, LinkOK
<1>4. ASSUME sstate_disconnect PROVE LinkOK'
  BY <1>2, <1>4, RoomAssumption DEF sstate_disconnect, LinkOK
<1>5. CASE UNCHANGED vars
  BY <1>3, <1>5 DEF vars
<1>6. CASE Driver
  <2>1. ASSUME NEW v \in Var, NEW x \in Value, dstate_setinfo(v, x) PROVE LinkOK'
    BY <1>3, <2>1 DEF dstate_setinfo
  <2>2. ASSUME NEW v \in Var, dstate_delinfo(v) PROVE LinkOK'
    BY <1>3, <2>2 DEF dstate_delinfo
  <2>3. CASE dstate_dataok \/ dstate_datastale \/ WriteLost \/ Start
    BY <1>3, <2>3 DEF dstate_dataok, dstate_datastale, WriteLost, Start
  <2>4. CASE sock_connect \/ WriteFails
    BY <1>1, <2>4 DEF sock_connect, WriteFails, LinkOK
  <2>5. CASE sock_arg
    <3>1. Tail(asked) \in Seq({"DUMPALL", "PING"}) /\ Len(Tail(asked)) <= Len(asked)
      BY <1>1, <2>5, HeadTailProperties, LenProperties DEF sock_arg, LinkOK
    <3> QED  BY <1>1, <2>5, <3>1, LenProperties, RoomAssumption DEF sock_arg, LinkOK
  <2>6. CASE Write
    BY <1>1, <2>6, RoomAssumption DEF Write, LinkOK
  <2> QED  BY <1>6, <2>1, <2>2, <2>3, <2>4, <2>5, <2>6 DEF Driver
<1>7. CASE Crash
  BY <1>1, <1>7 DEF Crash, LinkOK
<1>8. CASE CannotConnect \/ NothingRead \/ Tick
  BY <1>3, <1>8 DEF CannotConnect, NothingRead, Tick
<1>9. CASE Connects
  BY <1>2, <1>9, RoomAssumption DEF Connects, sstate_connect, LinkOK
<1>10. CASE Judges
  BY <1>1, <1>10, RoomAssumption DEF Judges, LinkOK
<1>11. CASE PingFails \/ Hangup \/ SocketBreaks
  BY <1>4, <1>11 DEF PingFails, Hangup, SocketBreaks
<1>12. CASE sstate_readline
  <2>1. Tail(wire) \in Seq(Line) /\ Len(Tail(wire)) <= Len(wire)
    BY <1>1, <1>12, HeadTailProperties, LenProperties DEF sstate_readline, LinkOK
  <2> QED  BY <1>1, <1>12, <2>1, LenProperties, RoomAssumption DEF sstate_readline, LinkOK
<1> QED  BY <1>5, <1>6, <1>7, <1>8, <1>9, <1>10, <1>11, <1>12 DEF Next, Server

LEMMA StepUpsdOK ==
    ASSUME TypeOK, [Next]_vars
    PROVE  UpsdOK' /\ ClocksOK'
<1>1. UpsdOK /\ ClocksOK /\ Empty \in Tree /\ PingDue \in Nat
  BY AgeAssumption DEF TypeOK, Empty, Tree, PingDue
<1>2. sstate_dead \in BOOLEAN
  BY DEF sstate_dead
<1>3. ASSUME sstate_disconnect PROVE sock_fd' \in BOOLEAN /\ info' \in Tree
  BY <1>1, <1>3 DEF sstate_disconnect
<1>4. CASE UNCHANGED vars
  BY <1>1, <1>4 DEF vars, upsdVars, UpsdOK, ClocksOK
<1>5. CASE Driver \/ Crash
  <2>1. UNCHANGED upsdVars
    BY <1>5 DEF Driver, Crash, dstate_setinfo, dstate_delinfo, dstate_dataok, dstate_datastale,
             sock_connect, sock_arg, Write, WriteFails, WriteLost, Start
  <2>2. /\ changes' = changes \/ (changes < MaxChanges /\ changes' = changes + 1)
        /\ failures' = failures \/ (failures < MaxFailures /\ failures' = failures + 1)
    BY <1>5 DEF Driver, Crash, dstate_setinfo, dstate_delinfo, dstate_dataok, dstate_datastale,
             sock_connect, sock_arg, Write, WriteFails, WriteLost, Start
  <2> QED  BY <1>1, <2>1, <2>2, BoundAssumption DEF upsdVars, UpsdOK, ClocksOK
<1>6. CASE CannotConnect \/ NothingRead
  BY <1>1, <1>6 DEF CannotConnect, NothingRead, UpsdOK, ClocksOK
<1>7. CASE Connects
  <2>1. [info EXCEPT ![Status] = Wait] \in Tree
    BY <1>1 DEF UpsdOK, Tree
  <2>2. UpsdOK'
    BY <1>1, <1>7, <2>1 DEF Connects, sstate_connect, UpsdOK
  <2>3. ClocksOK'
    BY <1>1, <1>7, AgeAssumption DEF Connects, sstate_connect, ClocksOK, Elapsed
  <2> QED  BY <2>2, <2>3
<1>8. CASE Judges
  BY <1>1, <1>2, <1>8 DEF Judges, UpsdOK, ClocksOK
<1>9. CASE PingFails \/ Hangup
  BY <1>1, <1>2, <1>3, <1>9 DEF PingFails, Hangup, UpsdOK, ClocksOK
<1>10. CASE SocketBreaks
  BY <1>1, <1>3, <1>10, BoundAssumption DEF SocketBreaks, UpsdOK, ClocksOK
<1>11. CASE sstate_readline
  <2>1. Head(wire) \in Line
    BY <1>11 DEF sstate_readline, TypeOK, LinkOK
  <2>2. Applied(info, Head(wire)) \in Tree
    BY <1>1, <2>1, LineTypes DEF Applied, Tree, UpsdOK
  <2>3. UpsdOK'
    BY <1>1, <1>11, <2>2 DEF sstate_readline, UpsdOK
  <2>4. ClocksOK'
    BY <1>1, <1>11, AgeAssumption DEF sstate_readline, ClocksOK, Elapsed
  <2> QED  BY <2>3, <2>4
<1>12. CASE Tick
  BY <1>1, <1>12, AgeAssumption DEF Tick, UpsdOK, ClocksOK, Elapsed
<1> QED  BY <1>4, <1>5, <1>6, <1>7, <1>8, <1>9, <1>10, <1>11, <1>12 DEF Next, Server

\* What a step does to the requests and to the copy before the driver accepts.
LEMMA StepSockets ==
    ASSUME TypeOK, Sockets, Fresh, [Next]_vars
    PROVE  Sockets' /\ Fresh'
<1>1. /\ asked \in Seq({"DUMPALL", "PING"}) /\ wire \in Seq(Line) /\ info \in Tree
      /\ sock_fd \in BOOLEAN /\ Len(asked) \in Nat
  BY DEF TypeOK, LinkOK, UpsdOK
<1>2. ASSUME UNCHANGED <<linkVars, sock_fd, info, dumpdone>>, up' = up
      PROVE  Sockets' /\ Fresh'
  BY <1>2 DEF linkVars, Sockets, Fresh, Pending
<1>3. ASSUME sstate_disconnect PROVE Sockets' /\ Fresh'
  BY <1>3 DEF sstate_disconnect, Sockets, Fresh
<1>4. CASE UNCHANGED vars
  BY <1>2, <1>4 DEF vars, upsdVars, driverVars
<1>5. CASE Driver
  <2>1. ASSUME NEW v \in Var, NEW x \in Value, dstate_setinfo(v, x) PROVE Sockets' /\ Fresh'
    BY <1>2, <2>1 DEF dstate_setinfo, upsdVars
  <2>2. ASSUME NEW v \in Var, dstate_delinfo(v) PROVE Sockets' /\ Fresh'
    BY <1>2, <2>2 DEF dstate_delinfo, upsdVars
  <2>3. CASE dstate_dataok \/ dstate_datastale \/ WriteLost
    BY <1>2, <2>3 DEF dstate_dataok, dstate_datastale, WriteLost, upsdVars
  <2>4. CASE sock_connect
    BY <2>4 DEF sock_connect, Idle, driverVars, upsdVars, Sockets, Fresh, Pending
  <2>5. CASE sock_arg
    <3>1. \A i \in 1..Len(Tail(asked)) : i + 1 \in 1..Len(asked) /\ Tail(asked)[i] = asked[i + 1]
      BY <1>1, <2>5 DEF sock_arg
    <3>2. \A i \in 1..Len(asked') : asked'[i] = "PING"
      <4> SUFFICES ASSUME NEW i \in 1..Len(Tail(asked)) PROVE Tail(asked)[i] = "PING"
        BY <2>5 DEF sock_arg
      <4> QED  BY <3>1 DEF Sockets
    <3>3. conn # "backlog" /\ conn' = conn /\ sock_fd' = sock_fd /\ info' = info /\ up' = up
      BY <2>5 DEF sock_arg, Accepted, upsdVars
    <3> QED  BY <3>2, <3>3 DEF Sockets, Fresh
  <2>6. CASE Write
    BY <2>6 DEF Write, Accepted, upsdVars, Sockets, Fresh
  <2>7. CASE WriteFails
    BY <2>7 DEF WriteFails, upsdVars, Sockets, Fresh
  <2>8. CASE Start
    BY <2>8 DEF Start, linkVars, upsdVars, Sockets, Fresh, Pending
  <2> QED  BY <1>5, <2>1, <2>2, <2>3, <2>4, <2>5, <2>6, <2>7, <2>8 DEF Driver
<1>6. CASE Crash
  BY <1>6 DEF Crash, upsdVars, Sockets, Fresh
<1>7. CASE CannotConnect \/ NothingRead \/ Tick
  BY <1>2, <1>7 DEF CannotConnect, NothingRead, Tick, driverVars
<1>8. CASE Connects
  <2>1. /\ conn' = "backlog" /\ wire' = <<>> /\ asked' = <<"DUMPALL">> /\ sock_fd' = TRUE
        /\ dumpdone' = FALSE /\ up' = TRUE
    BY <1>8 DEF Connects, sstate_connect, driverVars
  <2>2. \A v \in Var : info'[v] = IF v = Status THEN Wait ELSE None
    <3>1. info = Empty /\ info' = [info EXCEPT ![Status] = Wait]
      BY <1>8 DEF Connects, sstate_connect, Sockets
    <3> QED  BY <3>1 DEF Empty
  <2>3. Pending' /\ \A i \in 1..Len(asked') : i > 1 => asked'[i] = "PING"
    BY <2>1 DEF Pending
  <2> QED  BY <2>1, <2>2, <2>3 DEF Sockets, Fresh
<1>9. CASE Judges
  <2>1. \A i \in 1..Len(asked') : i > 1 => asked'[i] = "PING"
    BY <1>1, <1>9 DEF Judges, Sockets
  <2>2. Pending => Pending'
    BY <1>1, <1>9 DEF Judges, Pending
  <2> QED  BY <1>9, <2>1, <2>2 DEF Judges, driverVars, Sockets, Fresh
<1>10. CASE PingFails \/ Hangup \/ SocketBreaks
  BY <1>3, <1>10 DEF PingFails, Hangup, SocketBreaks
<1>11. CASE sstate_readline
  BY <1>11 DEF sstate_readline, driverVars, Sockets, Fresh
<1> QED  BY <1>4, <1>5, <1>6, <1>7, <1>8, <1>9, <1>10, <1>11 DEF Next, Server

-----------------------------------------------------------------------------
(* The copy follows the driver *)

LEMMA StepCopied ==
    ASSUME IInv, [Next]_vars
    PROVE  Copied'
<1> SUFFICES ASSUME Accepted', NEW v \in Var PROVE Follows(v)'
  BY DEF Copied
<1>1. /\ out \in Seq(Line) /\ wire \in Seq(Line) /\ UnderWay \in Seq(Line)
      /\ tree \in [Var -> Value \cup {None}] /\ info \in Tree /\ dstale \in BOOLEAN
      /\ asked \in Seq({"DUMPALL", "PING"})
  BY Moved DEF IInv, TypeOK, DriverOK, LinkOK, UpsdOK, UnderWay
<1>2. Accepted => Follows(v)
  BY DEF IInv, Copied
<1>3. ASSUME Accepted, UnderWay' = UnderWay, tree' = tree, info' = info, Pending => Pending'
      PROVE  Follows(v)'
  BY <1>2, <1>3 DEF Follows, Truth
\* The driver says something that is not about v.
<1>4. ASSUME NEW r \in Seq(Line), Accepted, out = <<>>, wire' = wire, out' = r,
             NoneIn(r, About(v)), tree'[v] = tree[v], info' = info, Pending => Pending'
      PROVE  Follows(v)'
  <2>1. UnderWay' = UnderWay \o r
    BY <1>1, <1>4, ConcatEmptySeq DEF UnderWay
  <2>2. Truth(v)' = Truth(v)
    BY <1>4 DEF Truth
  <2>3. /\ LastIn(UnderWay, About(v), Truth(v)) => LastIn(UnderWay \o r, About(v), Truth(v))
        /\ NoneIn(UnderWay, About(v)) => NoneIn(UnderWay \o r, About(v))
    BY <1>1, <1>4, Behind
  <2> QED  BY <1>2, <1>4, <2>1, <2>2, <2>3 DEF Follows
\* Its last word about v is the truth.
<1>5. ASSUME NEW r \in Seq(Line), out = <<>>, wire' = wire, out' = r,
             LastIn(r, About(v), Truth(v)')
      PROVE  Follows(v)'
  <2>1. UnderWay' = UnderWay \o r
    BY <1>1, <1>5, ConcatEmptySeq DEF UnderWay
  <2>2. LastIn(UnderWay \o r, About(v), Truth(v)')
    BY <1>1, <1>5, Behind
  <2> QED  BY <2>1, <2>2 DEF Follows
<1>6. CASE UNCHANGED vars
  <2>1. Accepted /\ UNCHANGED <<wire, out, tree, info, asked>>
    BY <1>6 DEF vars, driverVars, linkVars, upsdVars, Accepted
  <2> QED  BY <1>3, <2>1 DEF UnderWay, Pending
<1>7. CASE Driver
  <2>1. ASSUME NEW u \in Var, NEW x \in Value, dstate_setinfo(u, x) PROVE Follows(v)'
    <3>1. /\ Accepted /\ out = <<>> /\ wire' = wire /\ info' = info /\ asked' = asked
          /\ out' = <<SETINFO(u, x)>> /\ tree' = [tree EXCEPT ![u] = x]
      BY <2>1 DEF dstate_setinfo, Idle, send_to_all, linkVars, upsdVars, Accepted
    <3>2. SETINFO(u, x) \in Line
      BY LineTypes
    <3>3. CASE u = v
      <4>1. tree'[v] = x
        BY <1>1, <3>1, <3>3
      <4>2. SETINFO(u, x) \in About(v) \cap Truth(v)'
        BY <3>2, <3>3, <4>1, LineKinds DEF About, Truth
      <4> QED  BY <1>5, <3>1, <3>2, <4>2, OneLine
    <3>4. CASE u # v
      <4>1. SETINFO(u, x) \notin About(v) /\ tree'[v] = tree[v]
        BY <1>1, <3>1, <3>4, LineKinds DEF About
      <4> QED  BY <1>4, <3>1, <3>2, <4>1, OneLine DEF Pending
    <3> QED  BY <3>3, <3>4
  <2>2. ASSUME NEW u \in Var, dstate_delinfo(u) PROVE Follows(v)'
    <3>1. /\ Accepted /\ out = <<>> /\ wire' = wire /\ info' = info /\ asked' = asked
          /\ out' = <<DELINFO(u)>> /\ tree' = [tree EXCEPT ![u] = None]
      BY <2>2 DEF dstate_delinfo, Idle, send_to_all, linkVars, upsdVars, Accepted
    <3>2. DELINFO(u) \in Line
      BY LineTypes
    <3>3. CASE u = v
      <4>1. tree'[v] = None
        BY <1>1, <3>1, <3>3
      <4>2. DELINFO(u) \in About(v) \cap Truth(v)'
        BY <3>2, <3>3, <4>1, LineKinds DEF About, Truth
      <4> QED  BY <1>5, <3>1, <3>2, <4>2, OneLine
    <3>4. CASE u # v
      <4>1. DELINFO(u) \notin About(v) /\ tree'[v] = tree[v]
        BY <1>1, <3>1, <3>4, LineKinds DEF About
      <4> QED  BY <1>4, <3>1, <3>2, <4>1, OneLine DEF Pending
    <3> QED  BY <3>3, <3>4
  <2>3. CASE dstate_dataok \/ dstate_datastale
    <3>1. PICK k \in {"DATAOK", "DATASTALE"} :
             /\ Accepted /\ out = <<>> /\ wire' = wire /\ info' = info /\ asked' = asked
             /\ out' = <<Plain(k)>> /\ tree' = tree
      BY <2>3 DEF dstate_dataok, dstate_datastale, Idle, send_to_all, linkVars, upsdVars, Accepted
    <3>2. Plain(k) \in Line /\ Plain(k) \notin About(v)
      BY LineTypes, LineKinds DEF About
    <3> QED  BY <1>4, <3>1, <3>2, OneLine DEF Pending
  <2>4. CASE sock_connect
    <3>1. conn = "backlog" /\ out = <<>> /\ UNCHANGED <<out, wire, asked, tree, info>>
      BY <2>4 DEF sock_connect, Idle, driverVars, upsdVars
    <3>2. wire = <<>> /\ Pending /\ info[v] = IF v = Status THEN Wait ELSE None
      BY <3>1 DEF IInv, Fresh
    <3>3. UnderWay' = <<>>
      BY <3>1, <3>2 DEF UnderWay
    <3> QED  BY <3>1, <3>2, <3>3, NoLine DEF Follows, Pending
  <2>5. CASE sock_arg /\ Head(asked) = "PING"
    <3>1. /\ Accepted /\ out = <<>> /\ wire' = wire /\ info' = info
          /\ out' = <<Plain("PONG")>> /\ tree' = tree /\ ~Pending
      BY <1>1, <2>5 DEF sock_arg, Idle, upsdVars, Pending
    <3>2. Plain("PONG") \in Line /\ Plain("PONG") \notin About(v)
      BY LineTypes, LineKinds DEF About
    <3> QED  BY <1>4, <3>1, <3>2, OneLine
  <2>6. CASE sock_arg /\ Head(asked) = "DUMPALL"
    <3>1. /\ Accepted /\ out = <<>> /\ wire' = wire /\ info' = info
          /\ out' = DumpAll /\ tree' = tree
      BY <2>6 DEF sock_arg, Idle, upsdVars
    <3>2. DumpAll \in Seq(Line) /\ Truth(v)' = Truth(v)
      BY <1>1, <3>1, DumpTells DEF Truth
    <3>3. CASE tree[v] # None
      BY <1>1, <1>5, <3>1, <3>2, <3>3, DumpTells
    <3>4. CASE tree[v] = None
      <4>1. NoneIn(DumpAll, About(v))
        BY <1>1, <3>4, DumpTells
      <4>2. UnderWay' = UnderWay \o DumpAll
        BY <1>1, <3>1, ConcatEmptySeq DEF UnderWay
      <4>3. CASE LastIn(UnderWay, About(v), Truth(v))
        <5>1. LastIn(UnderWay \o DumpAll, About(v), Truth(v))
          BY <1>1, <3>2, <4>1, <4>3, Behind
        <5> QED  BY <3>2, <4>2, <5>1 DEF Follows
      <4>4. CASE /\ NoneIn(UnderWay, About(v))
                 /\ info[v] = None \/ (v = Status /\ info[v] = Wait)
        <5>1. NoneIn(UnderWay \o DumpAll, About(v))
          BY <1>1, <3>2, <4>1, <4>4, Behind
        <5> QED  BY <3>1, <3>4, <4>2, <4>4, <5>1 DEF Follows
      <4> QED  BY <1>2, <3>1, <3>4, <4>3, <4>4 DEF Follows
    <3> QED  BY <3>3, <3>4
  <2>7. CASE Write
    <3>1. /\ Accepted /\ UNCHANGED <<tree, info, asked>> /\ out # <<>>
          /\ wire' = Append(wire, Head(out)) /\ out' = Tail(out)
      BY <2>7 DEF Write, upsdVars
    <3>2. UnderWay' = UnderWay
      BY <1>1, <3>1, Moved DEF UnderWay
    <3> QED  BY <1>3, <3>1, <3>2 DEF Pending
  <2>8. CASE WriteFails \/ WriteLost \/ Start
    <3>1. ~Accepted'
      BY <2>8 DEF WriteFails, WriteLost, Start, linkVars, Accepted, IInv, Sockets
    <3> QED  BY <3>1
  <2>9. sock_arg => Head(asked) \in {"PING", "DUMPALL"}
    BY DEF sock_arg
  <2> QED  BY <1>7, <2>1, <2>2, <2>3, <2>4, <2>5, <2>6, <2>7, <2>8, <2>9 DEF Driver
<1>8. CASE Crash \/ Connects \/ PingFails \/ Hangup \/ SocketBreaks
  BY <1>8 DEF Crash, Connects, sstate_connect, PingFails, Hangup, SocketBreaks, sstate_disconnect,
           Accepted
<1>9. CASE CannotConnect \/ NothingRead \/ Tick \/ Judges
  <2>1. Accepted /\ UNCHANGED <<out, wire, tree, info>>
    BY <1>9 DEF CannotConnect, NothingRead, Tick, Judges, driverVars, linkVars, Accepted
  <2>2. Pending => Pending'
    <3>1. asked' = asked \/ asked' = Append(asked, "PING")
      BY <1>9 DEF CannotConnect, NothingRead, Tick, Judges, linkVars
    <3> QED  BY <1>1, <3>1, PingsFollow
  <2> QED  BY <1>3, <2>1, <2>2 DEF UnderWay
<1>10. CASE sstate_readline
  <2>1. /\ Accepted /\ UNCHANGED <<out, tree, asked>> /\ wire # <<>> /\ wire' = Tail(wire)
        /\ info' = Applied(info, Head(wire))
    BY <1>10 DEF sstate_readline, driverVars, Accepted
  <2>2. UnderWay # <<>> /\ UnderWay' = Tail(UnderWay) /\ Head(UnderWay) = Head(wire)
    BY <1>1, <2>1, Moved DEF UnderWay
  <2> DEFINE l == Head(wire)
  <2>3. /\ l \in Line
        /\ NoneIn(UnderWay, About(v)) => l \notin About(v) /\ NoneIn(Tail(UnderWay), About(v))
        /\ LastIn(UnderWay, About(v), Truth(v)) =>
              \/ LastIn(Tail(UnderWay), About(v), Truth(v))
              \/ l \in About(v) \cap Truth(v) /\ NoneIn(Tail(UnderWay), About(v))
    BY <1>1, <2>2, Taken
  <2> HIDE DEF l
  <2>4. info'[v] = IF l \in About(v) THEN Written(l) ELSE info[v]
    BY <2>1, <2>3 DEF Applied, About, l
  <2>5. CASE NoneIn(UnderWay, About(v))
    BY <1>2, <2>1, <2>2, <2>3, <2>4, <2>5 DEF Follows, Pending, NoneIn, LastIn
  <2>6. CASE LastIn(UnderWay, About(v), Truth(v))
    <3>1. CASE LastIn(Tail(UnderWay), About(v), Truth(v))
      BY <2>1, <2>2, <3>1 DEF Follows, Truth
    <3>2. CASE l \in About(v) \cap Truth(v) /\ NoneIn(Tail(UnderWay), About(v))
      BY <2>1, <2>2, <2>4, <3>2 DEF Follows, Truth
    <3> QED  BY <2>3, <2>6, <3>1, <3>2
  <2> QED  BY <1>2, <2>1, <2>5, <2>6 DEF Follows
<1> QED  BY <1>6, <1>7, <1>8, <1>9, <1>10 DEF Next, Server

-----------------------------------------------------------------------------
(* The verdict is the driver's *)

LEMMA StepJudged ==
    ASSUME IInv, [Next]_vars
    PROVE  Judged'
<1> DEFINE Told == \/ LastIn(UnderWay, Verdicts, Current)
                   \/ NoneIn(UnderWay, Verdicts) /\ data_ok = ~dstale
           Silent == ~dumpdone /\ NoneIn(UnderWay, Dones)
<1> SUFFICES ASSUME Accepted' PROVE IF Pending' THEN Silent' ELSE Told'
  BY DEF Judged
<1>1. /\ out \in Seq(Line) /\ wire \in Seq(Line) /\ UnderWay \in Seq(Line)
      /\ tree \in [Var -> Value \cup {None}] /\ dstale \in BOOLEAN /\ data_ok \in BOOLEAN
      /\ asked \in Seq({"DUMPALL", "PING"}) /\ dumpdone \in BOOLEAN
  BY Moved DEF IInv, TypeOK, DriverOK, LinkOK, UpsdOK, UnderWay
<1>2. Accepted => IF Pending THEN Silent ELSE Told
  BY DEF IInv, Judged
<1>3. ASSUME Accepted, UnderWay' = UnderWay, UNCHANGED <<dstale, data_ok, dumpdone>>,
             Pending <=> Pending'
      PROVE  IF Pending' THEN Silent' ELSE Told'
  BY <1>2, <1>3 DEF Current
\* The driver says something that is neither a verdict nor DUMPDONE.
<1>4. ASSUME NEW l \in Line, Accepted, out = <<>>, wire' = wire, out' = <<l>>, l \notin Verdicts,
             l \notin Dones, UNCHANGED <<dstale, data_ok, dumpdone>>, Pending <=> Pending'
      PROVE  IF Pending' THEN Silent' ELSE Told'
  <2>1. <<l>> \in Seq(Line) /\ NoneIn(<<l>>, Verdicts) /\ NoneIn(<<l>>, Dones)
    BY <1>4, OneLine
  <2>2. UnderWay' = UnderWay \o <<l>>
    BY <1>1, <1>4, ConcatEmptySeq DEF UnderWay
  <2>3. Current' = Current
    BY <1>4 DEF Current
  <2>4. /\ LastIn(UnderWay, Verdicts, Current) => LastIn(UnderWay \o <<l>>, Verdicts, Current)
        /\ NoneIn(UnderWay, Verdicts) => NoneIn(UnderWay \o <<l>>, Verdicts)
    BY <1>1, <2>1, Behind
  <2>5. NoneIn(UnderWay, Dones) => NoneIn(UnderWay \o <<l>>, Dones)
    BY <1>1, <2>1, Behind
  <2> QED  BY <1>2, <1>4, <2>2, <2>3, <2>4, <2>5
<1>5. CASE UNCHANGED vars
  <2>1. Accepted /\ UNCHANGED <<wire, out, dstale, data_ok, dumpdone, asked>>
    BY <1>5 DEF vars, driverVars, linkVars, upsdVars, Accepted
  <2> QED  BY <1>3, <2>1 DEF UnderWay, Pending
<1>6. CASE Driver
  <2>1. ASSUME NEW v \in Var, NEW x \in Value, dstate_setinfo(v, x)
        PROVE  IF Pending' THEN Silent' ELSE Told'
    <3>1. /\ Accepted /\ out = <<>> /\ wire' = wire /\ UNCHANGED <<dstale, data_ok, dumpdone, asked>>
          /\ out' = <<SETINFO(v, x)>>
      BY <2>1 DEF dstate_setinfo, Idle, send_to_all, linkVars, upsdVars, Accepted
    <3>2. SETINFO(v, x) \in Line /\ SETINFO(v, x) \notin Verdicts /\ SETINFO(v, x) \notin Dones
      BY LineTypes, LineKinds
    <3> QED  BY <1>4, <3>1, <3>2 DEF Pending
  <2>2. ASSUME NEW v \in Var, dstate_delinfo(v)
        PROVE  IF Pending' THEN Silent' ELSE Told'
    <3>1. /\ Accepted /\ out = <<>> /\ wire' = wire /\ UNCHANGED <<dstale, data_ok, dumpdone, asked>>
          /\ out' = <<DELINFO(v)>>
      BY <2>2 DEF dstate_delinfo, Idle, send_to_all, linkVars, upsdVars, Accepted
    <3>2. DELINFO(v) \in Line /\ DELINFO(v) \notin Verdicts /\ DELINFO(v) \notin Dones
      BY LineTypes, LineKinds
    <3> QED  BY <1>4, <3>1, <3>2 DEF Pending
  <2>3. CASE dstate_dataok \/ dstate_datastale
    <3>1. PICK k \in {"DATAOK", "DATASTALE"} :
             /\ Accepted /\ out = <<>> /\ wire' = wire /\ UNCHANGED <<dumpdone, asked>>
             /\ out' = <<Plain(k)>> /\ k = IF dstale' THEN "DATASTALE" ELSE "DATAOK"
      BY <2>3 DEF dstate_dataok, dstate_datastale, Idle, send_to_all, linkVars, upsdVars, Accepted
    <3>2. /\ Plain(k) \in Line /\ Plain(k) \notin Dones
          /\ Plain(k) \in Verdicts \cap Current'
      BY <3>1, LineTypes, LineKinds DEF Current
    <3>3. /\ <<Plain(k)>> \in Seq(Line) /\ NoneIn(<<Plain(k)>>, Dones)
          /\ LastIn(<<Plain(k)>>, Verdicts, Current')
      BY <3>2, OneLine
    <3>4. UnderWay' = UnderWay \o <<Plain(k)>>
      BY <1>1, <3>1, ConcatEmptySeq DEF UnderWay
    <3>5. LastIn(UnderWay \o <<Plain(k)>>, Verdicts, Current')
      BY <1>1, <3>3, Behind
    <3>6. NoneIn(UnderWay, Dones) => NoneIn(UnderWay \o <<Plain(k)>>, Dones)
      BY <1>1, <3>3, Behind
    <3> QED  BY <1>2, <3>1, <3>4, <3>5, <3>6 DEF Pending
  <2>4. CASE sock_connect
    <3>1. conn = "backlog" /\ out = <<>> /\ UNCHANGED <<out, wire, asked, dumpdone>>
      BY <2>4 DEF sock_connect, Idle, driverVars, upsdVars
    <3>2. wire = <<>> /\ Pending /\ ~dumpdone
      BY <3>1 DEF IInv, Fresh
    <3>3. UnderWay' = <<>>
      BY <3>1, <3>2 DEF UnderWay
    <3> QED  BY <3>1, <3>2, <3>3, NoLine DEF Pending
  <2>5. CASE sock_arg
    <3>1. \A i \in 1..Len(Tail(asked)) : i + 1 \in 1..Len(asked) /\ Tail(asked)[i] = asked[i + 1]
      BY <1>1, <2>5 DEF sock_arg
    <3>2. ~Pending'
      <4> SUFFICES ASSUME Tail(asked) # <<>> PROVE Tail(asked)[1] = "PING"
        BY <2>5 DEF sock_arg, Pending
      <4>1. 1 \in 1..Len(Tail(asked))
        BY <1>1, <2>5 DEF sock_arg
      <4> QED  BY <3>1, <4>1 DEF IInv, Sockets
    <3>3. CASE Head(asked) = "PING"
      <4>1. /\ Accepted /\ out = <<>> /\ wire' = wire /\ UNCHANGED <<dstale, data_ok, dumpdone>>
            /\ out' = <<Plain("PONG")>> /\ ~Pending
        BY <1>1, <2>5, <3>3 DEF sock_arg, Idle, upsdVars, Pending
      <4>2. Plain("PONG") \in Line /\ Plain("PONG") \notin Verdicts /\ Plain("PONG") \notin Dones
        BY LineTypes, LineKinds
      <4> QED  BY <1>4, <3>2, <4>1, <4>2
    <3>4. CASE Head(asked) = "DUMPALL"
      <4>1. out = <<>> /\ wire' = wire /\ out' = DumpAll /\ dstale' = dstale
        BY <2>5, <3>4 DEF sock_arg, Idle
      <4>2. DumpAll \in Seq(Line) /\ LastIn(DumpAll, Verdicts, Current)
        BY <1>1, DumpTells
      <4>3. UnderWay' = UnderWay \o DumpAll /\ Current' = Current
        BY <1>1, <4>1, ConcatEmptySeq DEF UnderWay, Current
      <4>4. LastIn(UnderWay \o DumpAll, Verdicts, Current)
        BY <1>1, <4>2, Behind
      <4> QED  BY <3>2, <4>3, <4>4
    <3> QED  BY <2>5, <3>3, <3>4 DEF sock_arg
  <2>6. CASE Write
    <3>1. /\ Accepted /\ UNCHANGED <<dstale, data_ok, dumpdone, asked>> /\ out # <<>>
          /\ wire' = Append(wire, Head(out)) /\ out' = Tail(out)
      BY <2>6 DEF Write, upsdVars
    <3>2. UnderWay' = UnderWay
      BY <1>1, <3>1, Moved DEF UnderWay
    <3> QED  BY <1>3, <3>1, <3>2 DEF Pending
  <2>7. CASE WriteFails \/ WriteLost \/ Start
    <3>1. ~Accepted'
      BY <2>7 DEF WriteFails, WriteLost, Start, linkVars, Accepted, IInv, Sockets
    <3> QED  BY <3>1
  <2> QED  BY <1>6, <2>1, <2>2, <2>3, <2>4, <2>5, <2>6, <2>7 DEF Driver
<1>7. CASE Crash \/ Connects \/ PingFails \/ Hangup \/ SocketBreaks
  BY <1>7 DEF Crash, Connects, sstate_connect, PingFails, Hangup, SocketBreaks, sstate_disconnect,
           Accepted
<1>8. CASE CannotConnect \/ NothingRead \/ Tick \/ Judges
  <2>1. Accepted /\ UNCHANGED <<out, wire, dstale, data_ok, dumpdone>>
    BY <1>8 DEF CannotConnect, NothingRead, Tick, Judges, driverVars, linkVars, Accepted
  <2>2. Pending <=> Pending'
    <3>1. asked' = asked \/ asked' = Append(asked, "PING")
      BY <1>8 DEF CannotConnect, NothingRead, Tick, Judges, linkVars
    <3> QED  BY <1>1, <3>1, PingsFollow
  <2> QED  BY <1>3, <2>1, <2>2 DEF UnderWay
<1>9. CASE sstate_readline
  <2> DEFINE l == Head(wire)
  <2>1. /\ Accepted /\ UNCHANGED <<out, dstale, asked>> /\ wire # <<>> /\ wire' = Tail(wire)
        /\ dumpdone' = (dumpdone \/ l.kind = "DUMPDONE")
        /\ data_ok' = IF l.kind \in {"DATAOK", "DATASTALE"} THEN l.kind = "DATAOK" ELSE data_ok
    BY <1>9 DEF sstate_readline, driverVars, Accepted
  <2>2. UnderWay # <<>> /\ UnderWay' = Tail(UnderWay) /\ Head(UnderWay) = l
    BY <1>1, <2>1, Moved DEF UnderWay
  <2>3. /\ l \in Line
        /\ NoneIn(UnderWay, Verdicts) => l \notin Verdicts /\ NoneIn(Tail(UnderWay), Verdicts)
        /\ LastIn(UnderWay, Verdicts, Current) =>
              \/ LastIn(Tail(UnderWay), Verdicts, Current)
              \/ l \in Verdicts \cap Current /\ NoneIn(Tail(UnderWay), Verdicts)
    BY <1>1, <2>2, Taken
  <2>4. NoneIn(UnderWay, Dones) => l \notin Dones /\ NoneIn(Tail(UnderWay), Dones)
    BY <1>1, <2>2, Taken
  <2> HIDE DEF l
  <2>5. Current' = Current /\ (Pending' <=> Pending)
    BY <2>1 DEF Current, Pending
  <2>6. CASE Pending
    BY <1>2, <2>1, <2>2, <2>3, <2>4, <2>5, <2>6 DEF Dones
  <2>7. CASE ~Pending /\ NoneIn(UnderWay, Verdicts) /\ data_ok = ~dstale
    BY <2>1, <2>2, <2>3, <2>5, <2>7 DEF Verdicts
  <2>8. CASE ~Pending /\ LastIn(UnderWay, Verdicts, Current)
    <3>1. CASE LastIn(Tail(UnderWay), Verdicts, Current)
      BY <2>2, <2>5, <2>8, <3>1
    <3>2. CASE l \in Verdicts \cap Current /\ NoneIn(Tail(UnderWay), Verdicts)
      <4>1. data_ok' = ~dstale'
        BY <1>1, <2>1, <3>2 DEF Verdicts, Current
      <4> QED  BY <2>2, <2>5, <2>8, <3>2, <4>1
    <3> QED  BY <2>3, <2>8, <3>1, <3>2
  <2> QED  BY <1>2, <2>1, <2>6, <2>7, <2>8
<1> QED  BY <1>5, <1>6, <1>7, <1>8, <1>9 DEF Next, Server

-----------------------------------------------------------------------------
(* The theorems *)

LEMMA StepIInv == IInv /\ [Next]_vars => IInv'
<1> SUFFICES ASSUME IInv, [Next]_vars PROVE IInv'
  OBVIOUS
<1>1. TypeOK'
  BY StepDriverOK, StepLinkOK, StepUpsdOK DEF IInv, TypeOK
<1>2. Sockets' /\ Fresh'
  BY StepSockets DEF IInv
<1> QED  BY <1>1, <1>2, StepCopied, StepJudged DEF IInv

\* The largest member of a nonempty set of positions.
LEMMA LastPosition ==
    ASSUME NEW S, NEW i \in S, \A j \in S : i >= j, S \subseteq Nat
    PROVE  Max(S) = i
<1>1. \E x \in S : \A y \in S : x >= y
  OBVIOUS
<1>2. Max(S) \in S /\ \A y \in S : Max(S) >= y
  BY <1>1 DEF Max
<1>3. i >= Max(S) /\ Max(S) >= i /\ i \in Nat /\ Max(S) \in Nat
  BY <1>2
<1> QED  BY <1>3

LEMMA CopyFollows == IInv => CopyFollowsDriver
<1> SUFFICES ASSUME IInv, Accepted, ~DumpUnderWay, NEW v \in Var
             PROVE  \/ Arriving[v] = tree[v]
                    \/ v = Status /\ tree[v] = None /\ Arriving[v] = Wait
  BY DEF CopyFollowsDriver, IsCopy
<1>1. ~Pending
  BY PendingIsDump DEF IInv, TypeOK
<1>2. UnderWay \in Seq(Line) /\ DOMAIN UnderWay = 1..Len(UnderWay) /\ Len(UnderWay) \in Nat
  BY Moved DEF IInv, TypeOK, DriverOK, LinkOK, UnderWay
<1>3. Arriving[v] = IF LinesAbout(v) = {} THEN info[v]
                    ELSE Written(UnderWay[Max(LinesAbout(v))])
  BY DEF Arriving
<1>4. \A i \in 1..Len(UnderWay) : UnderWay[i] \in About(v) <=> i \in LinesAbout(v)
  BY <1>2 DEF About, LinesAbout
<1>5. LinesAbout(v) \subseteq 1..Len(UnderWay)
  BY <1>2 DEF LinesAbout
<1>6. CASE LastIn(UnderWay, About(v), Truth(v))
  <2>1. PICK i \in 1..Len(UnderWay) :
           /\ UnderWay[i] \in About(v) \cap Truth(v)
           /\ \A j \in 1..Len(UnderWay) : j > i => UnderWay[j] \notin About(v)
    BY <1>6 DEF LastIn
  <2>2. i \in LinesAbout(v) /\ LinesAbout(v) \subseteq Nat /\ \A j \in LinesAbout(v) : i >= j
    BY <1>2, <1>4, <1>5, <2>1
  <2>3. Max(LinesAbout(v)) = i
    BY <2>2, LastPosition
  <2> QED  BY <1>3, <2>1, <2>2, <2>3 DEF Truth
<1>7. CASE NoneIn(UnderWay, About(v))
  <2>1. LinesAbout(v) = {}
    BY <1>4, <1>5, <1>7 DEF NoneIn
  <2> QED  BY <1>1, <1>3, <1>6, <2>1 DEF IInv, Copied, Follows
<1> QED  BY <1>6, <1>7 DEF IInv, Copied, Follows

LEMMA VerdictHolds == IInv => VerdictIsCurrent
<1> SUFFICES ASSUME IInv, Accepted, dumpdone, wire = <<>>, out = <<>>
             PROVE  data_ok = ~dstale
  BY DEF VerdictIsCurrent
<1>1. UnderWay = <<>>
  BY DEF UnderWay
<1> QED  BY <1>1 DEF IInv, Judged, LastIn

\* For any variables, values and rooms of the socket, however often the driver
\* changes its data, restarts or loses its connection: once it has answered
\* DUMPALL, the lines under way turn upsd's copy into the driver's tree
\* (st_tree_dump_conn(), send_to_all(), parse_args()).
THEOREM CopyIsFaithful == Spec => [](TypeOK /\ CopyFollowsDriver)
<1>1. IInv => TypeOK /\ CopyFollowsDriver
  BY CopyFollows DEF IInv
<1> QED  BY <1>1, InitIInv, StepIInv, PTL DEF Spec

\* For the same instances: after DUMPDONE, with nothing under way, upsd's data_ok
\* is the driver's word on this connection (sstate_connect(), sock_arg()).
THEOREM VerdictIsTheDrivers == Spec => []VerdictIsCurrent
BY VerdictHolds, InitIInv, StepIInv, PTL DEF Spec
=============================================================================
