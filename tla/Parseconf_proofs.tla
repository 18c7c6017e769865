-------------------------- MODULE Parseconf_proofs --------------------------
(***************************************************************************)
(* Proofs about Parseconf for texts of any length over any characters, any *)
(* words sent and any limits: words and lines stay within their limits,    *)
(* nothing of a word is left when the next one begins, a message is        *)
(* received as the words it was made of, and any text as ParseconfText     *)
(* describes it.  A table of the first parts of a FlattenSeq() and the     *)
(* least number of a set take the place of induction over sequences.       *)
(***************************************************************************)
EXTENDS ParseconfText, FiniteSetTheorems, SequenceTheorems, TLAPS

States == {"FINDWORDSTART", "FINDEOL", "QUOTECOLLECT", "QC_LITERAL",
           "COLLECT", "COLLECTLITERAL", "ENDOFLINE"}

InLimits(ctx) ==
    /\ ArgLimit # 0 => Len(ctx.args) <= ArgLimit
    /\ WordLenLimit # 0 => /\ Len(ctx.word) <= WordLenLimit
                           /\ \A i \in 1..Len(ctx.args) : Len(ctx.args[i]) <= WordLenLimit

IsContext(ctx) == ctx \in [state : States, word : Seq(Letter), args : Seq(Seq(Letter))]

\* A context between two characters.
Good(ctx) ==
    /\ IsContext(ctx) /\ InLimits(ctx)
    /\ ctx.state \in {"FINDWORDSTART", "FINDEOL", "ENDOFLINE"} => ctx.word = <<>>

-----------------------------------------------------------------------------
(* The state machine *)

LEMMA AddcharFits ==
    ASSUME NEW w \in Seq(Letter), NEW ch \in Letter, WordLenLimit # 0 => Len(w) <= WordLenLimit
    PROVE  /\ addchar(w, ch) \in Seq(Letter)
           /\ WordLenLimit # 0 => Len(addchar(w, ch)) <= WordLenLimit
<1>1. WordLenLimit \in Nat
  BY LimitAssumption
<1> QED  BY <1>1 DEF addchar

LEMMA GotoGood ==
    ASSUME NEW ctx, Good(ctx), NEW next \in States,
           next \in {"FINDWORDSTART", "FINDEOL", "ENDOFLINE"} => ctx.word = <<>>
    PROVE  Good(Goto(ctx, next)) /\ Goto(ctx, next).word = ctx.word
BY DEF Good, IsContext, InLimits, Goto

LEMMA KeepGood ==
    ASSUME NEW ctx, IsContext(ctx), InLimits(ctx), NEW ch \in Letter, NEW next \in States
    PROVE  IsContext(Keep(ctx, ch, next)) /\ InLimits(Keep(ctx, ch, next)) /\ Keep(ctx, ch, next).state = next
<1> DEFINE w == addchar(ctx.word, ch)
<1>1. w \in Seq(Letter) /\ (WordLenLimit # 0 => Len(w) <= WordLenLimit)
  BY AddcharFits DEF IsContext, InLimits
<1> HIDE DEF w
<1>2. Keep(ctx, ch, next) = [ctx EXCEPT !.state = next, !.word = w]
  BY DEF Keep, w
<1>3. /\ IsContext(Keep(ctx, ch, next)) /\ Keep(ctx, ch, next).state = next
      /\ Keep(ctx, ch, next).word = w /\ Keep(ctx, ch, next).args = ctx.args
  BY <1>1, <1>2 DEF IsContext
<1> QED  BY <1>1, <1>3 DEF InLimits

\* Whatever the limit, the word that ended is no longer there.
LEMMA EndGood ==
    ASSUME NEW ctx, IsContext(ctx), InLimits(ctx), NEW next \in States
    PROVE  Good(endofword(ctx, next)) /\ endofword(ctx, next).word = <<>>
<1> DEFINE a == endofword(ctx, next).args
<1>1. ctx.args \in Seq(Seq(Letter)) /\ ctx.word \in Seq(Letter) /\ ArgLimit \in Nat /\ WordLenLimit \in Nat
  BY LimitAssumption DEF IsContext
<1>2. a = IF ArgLimit # 0 /\ Len(ctx.args) >= ArgLimit THEN ctx.args ELSE Append(ctx.args, ctx.word)
  BY DEF endofword
<1>3. a \in Seq(Seq(Letter)) /\ (ArgLimit # 0 => Len(a) <= ArgLimit)
  BY <1>1, <1>2 DEF InLimits
<1>4. ASSUME WordLenLimit # 0, NEW i \in 1..Len(a) PROVE Len(a[i]) <= WordLenLimit
  <2>1. a[i] = ctx.word \/ (i \in 1..Len(ctx.args) /\ a[i] = ctx.args[i])
    BY <1>1, <1>2
  <2> QED  BY <1>4, <2>1 DEF InLimits
<1>5. endofword(ctx, next) = [state |-> next, word |-> <<>>, args |-> a]
  BY DEF endofword
<1>6. <<>> \in Seq(Letter) /\ Len(<<>>) = 0
  OBVIOUS
<1> HIDE DEF a
<1> QED  BY <1>1, <1>3, <1>4, <1>5, <1>6 DEF Good, IsContext, InLimits

LEMMA StartGood ==
    ASSUME NEW ctx, Good(ctx), ctx.word = <<>>, NEW ch \in Letter
    PROVE  Good(findwordstart(ctx, ch))
<1>1. \A next \in States : Good(Goto(ctx, next))
  BY GotoGood
<1>2. Good(Keep(ctx, ch, "COLLECT")) /\ Good(endofword(Keep(ctx, ch, "COLLECT"), "FINDWORDSTART"))
  BY KeepGood, EndGood DEF Good, States
<1> QED  BY <1>1, <1>2 DEF findwordstart, States, Letter, Blank, Escape

LEMMA CharGood ==
    ASSUME NEW ctx, Good(ctx), ctx.state # "ENDOFLINE", NEW ch \in Letter
    PROVE  Good(parse_char(ctx, ch))
<1>1. \A next \in {"QUOTECOLLECT", "QC_LITERAL", "COLLECT", "COLLECTLITERAL"} : Good(Goto(ctx, next))
  BY GotoGood DEF States
<1>2. \A next \in {"QUOTECOLLECT", "COLLECT"} : Good(Keep(ctx, ch, next))
  BY KeepGood DEF Good, States
<1>3. \A next \in States : Good(endofword(ctx, next)) /\ endofword(ctx, next).word = <<>>
  BY EndGood DEF Good
<1>4. ctx.state \in States
  BY DEF Good, IsContext
<1>5. CASE ctx.state = "FINDWORDSTART"
  <2>1. ctx.word = <<>>
    BY <1>5 DEF Good
  <2> QED  BY <1>5, <2>1, StartGood DEF parse_char
<1>6. CASE ctx.state = "FINDEOL"
  <2>1. ctx.word = <<>>
    BY <1>6 DEF Good
  <2>2. Good(Goto(ctx, "ENDOFLINE")) /\ Good(Goto(ctx, "FINDEOL"))
    BY <2>1, GotoGood DEF States
  <2> QED  BY <1>6, <2>2 DEF parse_char, findeol
<1>7. CASE ctx.state = "QUOTECOLLECT"
  BY <1>1, <1>2, <1>3, <1>7 DEF parse_char, quotecollect, States
<1>8. CASE ctx.state = "QC_LITERAL"
  BY <1>2, <1>8 DEF parse_char, qc_literal
<1>9. CASE ctx.state = "COLLECT"
  <2>1. Good(findwordstart(endofword(ctx, "FINDWORDSTART"), ch))
    BY <1>3, StartGood DEF States
  <2> QED  BY <1>1, <1>2, <1>3, <1>9, <2>1 DEF parse_char, collect, States, Letter, Blank, Escape
<1>10. CASE ctx.state = "COLLECTLITERAL"
  BY <1>2, <1>10 DEF parse_char, collectliteral
<1> QED  BY <1>4, <1>5, <1>6, <1>7, <1>8, <1>9, <1>10 DEF States

\* A finished line is followed by a fresh context.
LEMMA ContextGood ==
    ASSUME TypeOK, WordsStartEmpty
    PROVE  Good(Context) /\ Context.state # "ENDOFLINE" /\ Good(TiedOff)
<1>1. DOMAIN args = 1..Len(args)
  BY DEF TypeOK
<1>2. InLimits([state |-> state, word |-> word, args |-> args])
  BY <1>1 DEF TypeOK, ToSet, InLimits
<1>3. CASE state = "ENDOFLINE"
  <2>1. Context = [state |-> "FINDWORDSTART", word |-> <<>>, args |-> <<>>]
    BY <1>3 DEF Context, WordsStartEmpty
  <2>2. <<>> \in Seq(Letter) /\ <<>> \in Seq(Seq(Letter)) /\ Len(<<>>) = 0 /\ ArgLimit \in Nat /\ WordLenLimit \in Nat
    BY LimitAssumption
  <2>3. Good(Context)
    BY <2>1, <2>2 DEF Good, IsContext, InLimits, States
  <2> QED  BY <2>1, <2>3 DEF TiedOff
<1>4. CASE state # "ENDOFLINE"
  <2>1. Context = [state |-> state, word |-> word, args |-> args]
    BY <1>4 DEF Context
  <2>2. Good(Context)
    BY <1>2, <2>1 DEF Good, IsContext, TypeOK, States, WordsStartEmpty
  <2>3. Good(endofword(Context, Context.state))
    BY <2>2, EndGood DEF Good, IsContext
  <2> QED  BY <1>4, <2>1, <2>2, <2>3 DEF TiedOff
<1> QED  BY <1>3, <1>4

LEMMA GoodIsTyped ==
    ASSUME NEW ctx, Good(ctx)
    PROVE  /\ ctx.state \in States /\ ctx.word \in Seq(Letter) /\ ctx.args \in Seq(Seq(Letter))
           /\ ArgLimit # 0 => Len(ctx.args) <= ArgLimit
           /\ WordLenLimit # 0 => \A w \in ToSet(ctx.args) \cup {ctx.word} : Len(w) <= WordLenLimit
<1>1. IsContext(ctx) /\ InLimits(ctx)
  BY DEF Good
<1>2. ctx.args \in Seq(Seq(Letter))
  BY <1>1 DEF IsContext
<1>3. DOMAIN ctx.args = 1..Len(ctx.args)
  BY <1>2
<1> QED  BY <1>1, <1>2, <1>3 DEF IsContext, InLimits, ToSet

IInv == TypeOK /\ WordsStartEmpty

LEMMA StepIInv == IInv /\ [Next]_vars => IInv'
<1> SUFFICES ASSUME IInv, [Next]_vars PROVE IInv'
  OBVIOUS
<1>1. TypeOK /\ WordsStartEmpty
  BY DEF IInv
<1>2. ASSUME NEW ctx, Good(ctx), state' = ctx.state, word' = ctx.word, args' = ctx.args,
             out' = out \/ out' = Append(out, ctx.args), UNCHANGED input,
             over' \in BOOLEAN, pos' \in 0..Len(text)
      PROVE  IInv'
  <2>1. out' \in Seq(Seq(Seq(Letter)))
    <3> DEFINE T == Seq(Seq(Letter))
    <3>1. out \in Seq(T) /\ ctx.args \in T
      BY <1>1, <1>2, GoodIsTyped DEF TypeOK
    <3> HIDE DEF T
    <3>2. out' \in Seq(T)
      BY <1>2, <3>1
    <3> QED  BY <3>2 DEF T
  <2>2. TypeOK'
    BY <1>1, <1>2, <2>1, GoodIsTyped DEF TypeOK, input, States
  <2>3. WordsStartEmpty'
    BY <1>2 DEF WordsStartEmpty, Good
  <2> QED  BY <2>2, <2>3 DEF IInv
<1>3. CASE Feed
  <2> DEFINE ctx == parse_char(Context, text[pos + 1])
  <2>1. text[pos + 1] \in Letter /\ pos + 1 \in 0..Len(text)
    BY <1>1, <1>3 DEF TypeOK, Feed
  <2>2. Good(ctx)
    BY <1>1, <2>1, ContextGood, CharGood
  <2> HIDE DEF ctx
  <2>3. /\ state' = ctx.state /\ word' = ctx.word /\ args' = ctx.args
        /\ out' = out \/ out' = Append(out, ctx.args)
        /\ over' \in BOOLEAN /\ pos' = pos + 1 /\ UNCHANGED input
    BY <1>3 DEF Feed, ctx
  <2> QED  BY <1>2, <2>1, <2>2, <2>3
<1>4. CASE LineEnds \/ (FileEnds /\ Context.args # <<>>)
  <2>1. Good(TiedOff)
    BY <1>1, ContextGood
  <2>2. /\ state' = TiedOff.state /\ word' = TiedOff.word /\ args' = TiedOff.args
        /\ out' = Append(out, TiedOff.args)
        /\ over' \in BOOLEAN /\ pos' = pos /\ UNCHANGED input
    BY <1>4 DEF LineEnds, FileEnds
  <2> QED  BY <1>1, <1>2, <2>1, <2>2 DEF TypeOK
<1>5. CASE UNCHANGED vars \/ NothingMore \/ (FileEnds /\ Context.args = <<>>)
  <2>1. UNCHANGED <<input, pos, state, word, args, out>> /\ (over' = TRUE \/ over' = over)
    BY <1>5 DEF vars, NothingMore, FileEnds
  <2> QED  BY <1>1, <2>1 DEF IInv, TypeOK, WordsStartEmpty, input
<1> QED  BY <1>3, <1>4, <1>5 DEF Next

-----------------------------------------------------------------------------
(* What FlattenSeq() returns *)

LEMMA LeastNumber ==
    ASSUME NEW T, T \subseteq Nat, T # {}
    PROVE  \E n \in T : \A m \in T : n <= m
<1>1. \E n \in T : \A m \in T : ~(<<m, n>> \in OpToRel(<, Nat))
  BY NatLessThanWellFounded, WFMin
<1>2. \A m, n \in T : ~(<<m, n>> \in OpToRel(<, Nat)) => n <= m
  BY DEF OpToRel
<1> QED  BY <1>1, <1>2

\* f[i] is what the first i sequences make when they are joined.
Joined(seqs, f, n) ==
    f = [i \in 1..n |-> IF i = 1 THEN seqs[i] ELSE f[i - 1] \o seqs[i]]

LEMMA FlattenIs ==
    ASSUME NEW seqs, Len(seqs) # 0, NEW g, Joined(seqs, g, Len(seqs))
    PROVE  \E f : Joined(seqs, f, Len(seqs)) /\ FlattenSeq(seqs) = f[Len(seqs)]
BY DEF FlattenSeq, Joined

LEMMA JoinedTyped ==
    ASSUME NEW S, NEW seqs \in Seq(Seq(S)), NEW n \in 1..Len(seqs), NEW f, Joined(seqs, f, n)
    PROVE  f \in [1..n -> Seq(S)]
<1>1. ASSUME NEW i \in 1..n
      PROVE  /\ seqs[i] \in Seq(S)
             /\ i = 1 => f[i] = seqs[i]
             /\ i # 1 => i - 1 \in 1..n /\ f[i] = f[i - 1] \o seqs[i]
  <2>1. seqs[i] \in Seq(S) /\ (i # 1 => i - 1 \in 1..n)
    OBVIOUS
  <2>2. f[i] = IF i = 1 THEN seqs[i] ELSE f[i - 1] \o seqs[i]
    BY DEF Joined
  <2> QED  BY <2>1, <2>2
<1> DEFINE T == {i \in 1..n : f[i] \notin Seq(S)}
<1>2. ASSUME T # {} PROVE FALSE
  <2>1. PICK i \in T : \A m \in T : i <= m
    <3>1. T \subseteq Nat
      OBVIOUS
    <3> HIDE DEF T
    <3> QED  BY <1>2, <3>1, LeastNumber
  <2>2. i \in 1..n /\ f[i] \notin Seq(S)
    OBVIOUS
  <2>3. i # 1
    BY <1>1, <2>2
  <2>4. i - 1 \in 1..n /\ f[i] = f[i - 1] \o seqs[i] /\ seqs[i] \in Seq(S)
    BY <1>1, <2>2, <2>3
  <2>5. f[i - 1] \in Seq(S)
    BY <2>1, <2>2, <2>4
  <2> HIDE DEF T
  <2> QED  BY <2>2, <2>4, <2>5
<1>3. \A i \in 1..n : f[i] \in Seq(S)
  BY <1>2
<1>4. f = [i \in 1..n |-> IF i = 1 THEN seqs[i] ELSE f[i - 1] \o seqs[i]]
  BY DEF Joined
<1>5. DOMAIN f = 1..n /\ f = [i \in 1..n |-> f[i]]
  BY <1>4
<1> QED  BY <1>3, <1>5

LEMMA JoinedExists ==
    ASSUME NEW S, NEW seqs \in Seq(Seq(S)), Len(seqs) # 0
    PROVE  \E f : Joined(seqs, f, Len(seqs))
<1> DEFINE T == {n \in 1..Len(seqs) : ~\E f : Joined(seqs, f, n)}
<1>0. Len(seqs) \in 1..Len(seqs)
  OBVIOUS
<1>1. SUFFICES ASSUME T # {} PROVE FALSE
  BY <1>0
<1>2. PICK n \in T : \A m \in T : n <= m
  <2>1. T \subseteq Nat
    OBVIOUS
  <2> HIDE DEF T
  <2> QED  BY <1>1, <2>1, LeastNumber
<1>3. n \in 1..Len(seqs) /\ ~\E f : Joined(seqs, f, n)
  OBVIOUS
<1>4. CASE n = 1
  <2>1. Joined(seqs, [i \in 1..1 |-> seqs[i]], 1)
    BY DEF Joined
  <2> QED  BY <1>3, <1>4, <2>1
<1>5. CASE n # 1
  <2>1. n - 1 \in 1..Len(seqs) /\ ~(n <= n - 1)
    BY <1>0, <1>3, <1>5
  <2>2. PICK g : Joined(seqs, g, n - 1)
    BY <1>2, <2>1
  <2> DEFINE h == [i \in 1..n |-> IF i = n THEN g[n - 1] \o seqs[n] ELSE g[i]]
  <2>3. \A i \in 1..(n - 1) : g[i] = IF i = 1 THEN seqs[i] ELSE g[i - 1] \o seqs[i]
    BY <2>2 DEF Joined
  <2>4. ASSUME NEW i \in 1..n PROVE h[i] = IF i = 1 THEN seqs[i] ELSE h[i - 1] \o seqs[i]
    <3>1. CASE i = n
      <4>1. n - 1 \in 1..n /\ h[n - 1] = g[n - 1]
        BY <1>3, <1>5
      <4> QED  BY <1>5, <3>1, <4>1
    <3>2. CASE i # n
      <4>1. i \in 1..(n - 1) /\ h[i] = g[i] /\ (i # 1 => h[i - 1] = g[i - 1])
        BY <1>3, <3>2
      <4> QED  BY <2>3, <4>1
    <3> QED  BY <3>1, <3>2
  <2>5. h = [i \in 1..n |-> h[i]]
    OBVIOUS
  <2>6. Joined(seqs, h, n)
    <3> HIDE DEF h
    <3> QED  BY <2>4, <2>5 DEF Joined
  <2> QED  BY <1>3, <2>6
<1> QED  BY <1>4, <1>5

\* J[k] is what the first k sequences make, J[0] being empty.
IsTable(S, seqs, J) ==
    /\ J \in [0..Len(seqs) -> Seq(S)]
    /\ J[0] = <<>> /\ J[Len(seqs)] = FlattenSeq(seqs)
    /\ \A k \in 1..Len(seqs) : J[k] = J[k - 1] \o seqs[k]

LEMMA TableExists ==
    ASSUME NEW S, NEW seqs \in Seq(Seq(S))
    PROVE  \E J : IsTable(S, seqs, J)
<1>0. Len(seqs) \in Nat /\ <<>> \in Seq(S)
  OBVIOUS
<1>1. CASE Len(seqs) = 0
  <2>1. seqs = <<>>
    BY <1>1
  <2>2. FlattenSeq(seqs) = <<>>
    BY <1>1, <2>1 DEF FlattenSeq
  <2>3. IsTable(S, seqs, [k \in 0..0 |-> <<>>])
    BY <1>0, <1>1, <2>2 DEF IsTable
  <2> QED  BY <2>3
<1>2. CASE Len(seqs) # 0
  <2> DEFINE n == Len(seqs)
  <2>1. PICK f : Joined(seqs, f, n) /\ FlattenSeq(seqs) = f[n]
    BY <1>2, JoinedExists, FlattenIs
  <2>2. n \in 1..n /\ n \in Nat \ {0}
    BY <1>2
  <2>3. f \in [1..n -> Seq(S)]
    BY <2>1, <2>2, JoinedTyped
  <2> DEFINE J == [k \in 0..n |-> IF k = 0 THEN <<>> ELSE f[k]]
  <2>4. J \in [0..n -> Seq(S)] /\ J[0] = <<>> /\ J[n] = f[n]
    <3> HIDE DEF n
    <3>1. \A k \in 0..n : (IF k = 0 THEN <<>> ELSE f[k]) \in Seq(S)
      BY <1>0, <2>2, <2>3
    <3> QED  BY <2>2, <3>1
  <2>5. ASSUME NEW k \in 1..n PROVE J[k] = J[k - 1] \o seqs[k]
    <3>1. f[k] = IF k = 1 THEN seqs[k] ELSE f[k - 1] \o seqs[k]
      BY <2>1 DEF Joined
    <3>2. k - 1 \in 0..n /\ k \in 0..n /\ seqs[k] \in Seq(S)
      OBVIOUS
    <3>3. J[k] = f[k] /\ J[k - 1] = IF k = 1 THEN <<>> ELSE f[k - 1]
      BY <3>2
    <3>4. <<>> \o seqs[k] = seqs[k]
      BY <3>2
    <3> QED  BY <3>1, <3>3, <3>4
  <2> HIDE DEF J
  <2> QED  BY <2>1, <2>4, <2>5 DEF IsTable
<1> QED  BY <1>1, <1>2

LEMMA FlattenTyped ==
    ASSUME NEW S, NEW seqs \in Seq(Seq(S))
    PROVE  FlattenSeq(seqs) \in Seq(S)
<1>1. PICK J : IsTable(S, seqs, J)
  BY TableExists
<1>2. Len(seqs) \in 0..Len(seqs)
  OBVIOUS
<1> QED  BY <1>1, <1>2 DEF IsTable

\* Lengths add up, and the sequence added is at the end.
Adds(seqs, J, k) ==
    /\ Len(J[k]) = Len(J[k - 1]) + Len(seqs[k])
    /\ \A j \in 1..Len(J[k - 1]) : J[k][j] = J[k - 1][j]
    /\ \A j \in 1..Len(seqs[k]) : J[k][Len(J[k - 1]) + j] = seqs[k][j]

LEMMA TableStep ==
    ASSUME NEW S, NEW seqs \in Seq(Seq(S)), NEW J, IsTable(S, seqs, J)
    PROVE  \A k \in 1..Len(seqs) : Adds(seqs, J, k)
<1> TAKE k \in 1..Len(seqs)
<1>1. k - 1 \in 0..Len(seqs) /\ k \in 0..Len(seqs) /\ seqs[k] \in Seq(S)
  OBVIOUS
<1>2. J[k] \in Seq(S) /\ J[k - 1] \in Seq(S) /\ J[k] = J[k - 1] \o seqs[k]
  BY <1>1 DEF IsTable
<1> DEFINE a == J[k - 1]
           b == seqs[k]
<1>3. a \in Seq(S) /\ b \in Seq(S) /\ J[k] = a \o b
  BY <1>1, <1>2
<1> HIDE DEF a, b
<1>4. /\ Len(a \o b) = Len(a) + Len(b)
      /\ \A j \in 1..Len(a) : (a \o b)[j] = a[j]
      /\ \A j \in 1..Len(b) : (a \o b)[Len(a) + j] = b[j]
  BY <1>3
<1> QED  BY <1>3, <1>4 DEF a, b, Adds

\* What is made first stays in front.
Leads(a, b) == Len(a) <= Len(b) /\ \A j \in 1..Len(a) : b[j] = a[j]

LEMMA TablePrefix ==
    ASSUME NEW S, NEW seqs \in Seq(Seq(S)), NEW J, IsTable(S, seqs, J)
    PROVE  \A k \in 0..Len(seqs) : Leads(J[k], FlattenSeq(seqs))
<1> DEFINE n == Len(seqs)
           whole == FlattenSeq(seqs)
           Ahead(k) == Leads(J[k], whole)
           T == {d \in 0..n : ~Ahead(n - d)}
<1>0. n \in Nat /\ J[n] = whole /\ whole \in Seq(S) /\ Len(whole) \in Nat
  BY FlattenTyped DEF IsTable
<1>1. SUFFICES ASSUME T = {} PROVE \A k \in 0..n : Ahead(k)
  <2>1. ASSUME T # {} PROVE FALSE
    <3>1. PICK d \in T : \A e \in T : d <= e
      <4>1. T \subseteq Nat
        BY <1>0
      <4> HIDE DEF T
      <4> QED  BY <2>1, <4>1, LeastNumber
    <3>2. d \in 0..n /\ ~Ahead(n - d)
      OBVIOUS
    <3>3. Ahead(n)
      BY <1>0 DEF Leads
    <3>4. d # 0
      <4> HIDE DEF Ahead
      <4>1. n - 0 = n
        BY <1>0
      <4> QED  BY <3>2, <3>3, <4>1
    <3> DEFINE k == n - d + 1
    <3>5. k \in 1..n /\ d - 1 \in 0..n /\ n - (d - 1) = k /\ k - 1 = n - d /\ ~(d <= d - 1)
      BY <1>0, <3>2, <3>4
    <3>6. Ahead(k)
      <4> HIDE DEF Ahead, k
      <4> QED  BY <3>1, <3>5
    <3> HIDE DEF k, n
    <3>7. Adds(seqs, J, k) /\ seqs[k] \in Seq(S) /\ J[k - 1] \in Seq(S) /\ J[k] \in Seq(S)
      <4>1. k \in 1..Len(seqs) /\ k - 1 \in 0..Len(seqs) /\ k \in 0..Len(seqs)
        BY <1>0, <3>5 DEF n
      <4>2. Adds(seqs, J, k)
        BY <4>1, TableStep, Zenon
      <4>3. seqs[k] \in Seq(S)
        BY <4>1
      <4>4. J[k - 1] \in Seq(S) /\ J[k] \in Seq(S)
        BY <4>1 DEF IsTable
      <4> QED  BY <4>2, <4>3, <4>4
    <3>8. Len(J[k - 1]) \in Nat /\ Len(seqs[k]) \in Nat /\ Len(J[k]) \in Nat
      BY <3>7
    <3> HIDE DEF whole
    <3>9. /\ Len(J[k]) = Len(J[k - 1]) + Len(seqs[k])
          /\ \A j \in 1..Len(J[k - 1]) : J[k][j] = J[k - 1][j]
      BY <3>7 DEF Adds
    <3>10. Len(J[k - 1]) <= Len(J[k]) /\ \A j \in 1..Len(J[k - 1]) : j \in 1..Len(J[k])
      <4>1. \A x, y, z \in Nat : x = y + z => y <= x /\ \A j \in 1..y : j \in 1..x
        OBVIOUS
      <4> QED  BY <3>8, <3>9, <4>1, Zenon
    <3>11. Ahead(k - 1)
      <4>1. ASSUME NEW j \in 1..Len(J[k - 1]) PROVE whole[j] = J[k - 1][j]
        BY <3>6, <3>9, <3>10 DEF Leads
      <4>2. Len(J[k - 1]) <= Len(whole)
        <5>1. \A x, y, z \in Nat : x <= y /\ y <= z => x <= z
          OBVIOUS
        <5> QED  BY <1>0, <3>6, <3>8, <3>10, <5>1, Zenon DEF Leads
      <4> QED  BY <4>1, <4>2 DEF Leads
    <3> HIDE DEF Ahead
    <3> QED  BY <3>2, <3>5, <3>11
  <2> QED  BY <2>1
<1>2. ASSUME NEW k \in 0..n PROVE Ahead(k)
  <2>1. n - k \in 0..n /\ n - (n - k) = k
    BY <1>0
  <2> HIDE DEF Ahead
  <2> QED  BY <1>1, <2>1
<1> QED  BY <1>2

\* Where the characters of the k-th sequence are.
Located(S, seqs, J, k) ==
    /\ J[k] \in Seq(S) /\ J[k - 1] \in Seq(S) /\ seqs[k] \in Seq(S)
    /\ Len(J[k]) = Len(J[k - 1]) + Len(seqs[k])
    /\ \A j \in 1..Len(seqs[k]) :
          /\ Len(J[k - 1]) + j <= Len(FlattenSeq(seqs))
          /\ FlattenSeq(seqs)[Len(J[k - 1]) + j] = seqs[k][j]

LEMMA TableChar ==
    ASSUME NEW S, NEW seqs \in Seq(Seq(S)), NEW J, IsTable(S, seqs, J)
    PROVE  \A k \in 1..Len(seqs) : Located(S, seqs, J, k)
<1> TAKE k \in 1..Len(seqs)
<1>1. k \in 0..Len(seqs) /\ k - 1 \in 0..Len(seqs) /\ seqs[k] \in Seq(S)
  OBVIOUS
<1>2. J[k] \in Seq(S) /\ J[k - 1] \in Seq(S)
  BY <1>1 DEF IsTable
<1>3. Adds(seqs, J, k)
  BY TableStep, Zenon
<1>4. Len(J[k - 1]) \in Nat /\ Len(seqs[k]) \in Nat /\ Len(J[k]) \in Nat /\ Len(FlattenSeq(seqs)) \in Nat
  BY <1>1, <1>2, FlattenTyped
<1>5. Leads(J[k], FlattenSeq(seqs))
  BY <1>1, TablePrefix, Zenon
<1>6. ASSUME NEW j \in 1..Len(seqs[k])
      PROVE  /\ Len(J[k - 1]) + j <= Len(FlattenSeq(seqs))
             /\ FlattenSeq(seqs)[Len(J[k - 1]) + j] = seqs[k][j]
  <2>1. Len(J[k - 1]) + j \in 1..Len(J[k]) /\ Len(J[k - 1]) + j <= Len(J[k])
    <3>1. Len(J[k]) = Len(J[k - 1]) + Len(seqs[k])
      BY <1>3 DEF Adds
    <3>2. \A x, y, z \in Nat : x = y + z => \A i \in 1..z : y + i \in 1..x /\ y + i <= x
      OBVIOUS
    <3> QED  BY <1>4, <3>1, <3>2, Zenon
  <2>2. J[k][Len(J[k - 1]) + j] = seqs[k][j]
    BY <1>3 DEF Adds
  <2> QED  BY <1>4, <1>5, <2>1, <2>2 DEF Leads
<1> QED  BY <1>1, <1>2, <1>3, <1>6 DEF Adds, Located

-----------------------------------------------------------------------------
(* What pconf_encode() returns *)

LEMMA MaxIn ==
    ASSUME NEW n \in Nat, NEW T, T \subseteq 0..n, T # {}
    PROVE  Max(T) \in T /\ \A y \in T : Max(T) >= y
<1> DEFINE U == {d \in 0..n : n - d \in T}
<1>1. U \subseteq Nat /\ U # {}
  <2>1. PICK x \in T : TRUE
    OBVIOUS
  <2>2. n - x \in 0..n /\ n - (n - x) = x
    OBVIOUS
  <2>3. n - x \in U
    BY <2>2
  <2>4. U \subseteq Nat
    OBVIOUS
  <2> HIDE DEF U
  <2> QED  BY <2>3, <2>4
<1>2. PICK d \in U : \A e \in U : d <= e
  <2> HIDE DEF U
  <2> QED  BY <1>1, LeastNumber
<1>3. n - d \in T
  OBVIOUS
<1>4. ASSUME NEW y \in T PROVE n - d >= y
  <2>1. n - y \in U
    <3>1. n - y \in 0..n /\ n - (n - y) = y
      OBVIOUS
    <3> QED  BY <3>1
  <2>2. d <= n - y /\ d \in 0..n /\ y \in 0..n
    BY <1>2, <2>1
  <2> QED  BY <2>2
<1> QED  BY <1>3, <1>4 DEF Max

Escapes(w, n) == {i \in 1..n : w[i] \in Escape}
Codes(w) == [i \in 1..Max(Fitting(w)) |-> Coded(w[i])]

LEMMA EscapesFinite ==
    ASSUME NEW w, NEW n \in Nat
    PROVE  IsFiniteSet(Escapes(w, n)) /\ Cardinality(Escapes(w, n)) \in Nat
<1>1. IsFiniteSet(1..n)
  BY FS_Interval
<1>2. Escapes(w, n) \subseteq 1..n
  BY DEF Escapes
<1>3. IsFiniteSet(Escapes(w, n))
  BY <1>1, <1>2, FS_Subset
<1> QED  BY <1>3, FS_CardinalityType

LEMMA FittingIs ==
    ASSUME NEW w \in Seq(Letter)
    PROVE  /\ Max(Fitting(w)) \in 0..Len(w)
           /\ Max(Fitting(w)) < Len(w) => Max(Fitting(w)) + 1 \notin Fitting(w)
<1>1. Len(w) \in Nat /\ Fitting(w) \subseteq 0..Len(w)
  BY DEF Fitting
<1>2. 0 \in Fitting(w)
  <2>1. {i \in 1..0 : w[i] \in Escape} = {}
    OBVIOUS
  <2>2. Cardinality({i \in 1..0 : w[i] \in Escape}) = 0
    BY <2>1, FS_EmptySet
  <2>3. 0 \in 0..Len(w) /\ 0 + 0 <= EncodeRoom - 1
    BY <1>1, RoomAssumption
  <2> QED  BY <2>2, <2>3 DEF Fitting
<1> DEFINE m == Max(Fitting(w))
<1>3. m \in Fitting(w) /\ \A y \in Fitting(w) : m >= y
  BY <1>1, <1>2, MaxIn
<1> HIDE DEF m
<1>4. m \in 0..Len(w) /\ ~(m >= m + 1)
  BY <1>1, <1>3
<1>5. m + 1 \notin Fitting(w)
  BY <1>3, <1>4
<1> QED  BY <1>4, <1>5 DEF m

LEMMA CodedTyped ==
    ASSUME NEW ch \in Letter
    PROVE  Coded(ch) \in Seq(Letter)
<1>1. "backslash" \in Letter
  BY DEF Letter, Escape
<1> QED  BY <1>1 DEF Coded

LEMMA EncodeTyped ==
    ASSUME NEW w \in Seq(Letter)
    PROVE  /\ Codes(w) \in Seq(Seq(Letter)) /\ Len(Codes(w)) = Max(Fitting(w))
           /\ pconf_encode(w) = FlattenSeq(Codes(w)) /\ pconf_encode(w) \in Seq(Letter)
<1> DEFINE m == Max(Fitting(w))
<1>1. m \in 0..Len(w) /\ Len(w) \in Nat
  BY FittingIs
<1> HIDE DEF m
<1>2. \A i \in 1..m : w[i] \in Letter
  BY <1>1
<1>3. \A i \in 1..m : Coded(w[i]) \in Seq(Letter)
  BY <1>2, CodedTyped
<1>4. [i \in 1..m |-> Coded(w[i])] \in Seq(Seq(Letter)) /\ Len([i \in 1..m |-> Coded(w[i])]) = m
  <2> DEFINE T == Seq(Letter)
             C(i) == Coded(w[i])
  <2>1. \A i \in 1..m : C(i) \in T
    BY <1>3
  <2>2. m \in Nat
    BY <1>1
  <2> HIDE DEF T, C
  <2>3. [i \in 1..m |-> C(i)] \in Seq(T) /\ Len([i \in 1..m |-> C(i)]) = m
    BY <2>1, <2>2
  <2> QED  BY <2>3 DEF T, C
<1>5. Codes(w) \in Seq(Seq(Letter)) /\ Len(Codes(w)) = m
  BY <1>4 DEF Codes, m
<1>6. pconf_encode(w) = FlattenSeq(Codes(w))
  BY DEF pconf_encode, Codes
<1> QED  BY <1>5, <1>6, FlattenTyped DEF m

\* The length of what is written: each escape takes one character more.
LEMMA CodeLength ==
    ASSUME NEW w \in Seq(Letter), NEW J, IsTable(Letter, Codes(w), J)
    PROVE  \A k \in 0..Max(Fitting(w)) : Len(J[k]) = k + Cardinality(Escapes(w, k))
<1> DEFINE m == Max(Fitting(w))
           Counted(k) == Len(J[k]) = k + Cardinality(Escapes(w, k))
           T == {k \in 0..m : ~Counted(k)}
<1>1. m \in Nat /\ m <= Len(w) /\ Len(w) \in Nat
  BY FittingIs
<1>2. Codes(w) \in Seq(Seq(Letter)) /\ Len(Codes(w)) = m
  BY EncodeTyped
<1>3. Counted(0)
  <2>1. Escapes(w, 0) = {} /\ J[0] = <<>>
    BY DEF Escapes, IsTable
  <2>2. Cardinality(Escapes(w, 0)) = 0 /\ Len(J[0]) = 0
    BY <2>1, FS_EmptySet
  <2> QED  BY <2>2
<1>4. ASSUME NEW k \in 1..m, Counted(k - 1) PROVE Counted(k)
  <2>1. k \in 1..Len(Codes(w))
    BY <1>2
  <2>2. Adds(Codes(w), J, k)
    BY <1>2, <2>1, TableStep, Zenon
  <2>3. Len(J[k]) = Len(J[k - 1]) + Len(Coded(w[k]))
    <3>1. Codes(w)[k] = Coded(w[k])
      BY DEF Codes
    <3> QED  BY <2>2, <3>1 DEF Adds
  <2>4. k - 1 \in Nat /\ k \in Nat /\ k \in 1..k /\ k \notin 1..(k - 1)
    BY <1>1
  <2>5. IsFiniteSet(Escapes(w, k - 1)) /\ Cardinality(Escapes(w, k - 1)) \in Nat
    BY <2>4, EscapesFinite
  <2>6. CASE w[k] \in Escape
    <3>1. Escapes(w, k) = Escapes(w, k - 1) \cup {k} /\ k \notin Escapes(w, k - 1)
      BY <1>1, <2>4, <2>6 DEF Escapes
    <3>2. Cardinality(Escapes(w, k)) = Cardinality(Escapes(w, k - 1)) + 1
      BY <2>5, <3>1, FS_AddElement
    <3>3. Len(Coded(w[k])) = 2
      BY <2>6 DEF Coded
    <3> QED  BY <1>4, <2>3, <2>4, <2>5, <3>2, <3>3
  <2>7. CASE w[k] \notin Escape
    <3>1. Escapes(w, k) = Escapes(w, k - 1)
      BY <1>1, <2>4, <2>7 DEF Escapes
    <3>2. Len(Coded(w[k])) = 1
      BY <2>7 DEF Coded
    <3> QED  BY <1>4, <2>3, <2>4, <2>5, <3>1, <3>2
  <2> QED  BY <2>6, <2>7
<1> HIDE DEF m, Counted
<1>5. ASSUME T # {} PROVE FALSE
  <2>1. PICK k \in T : \A i \in T : k <= i
    <3>1. T \subseteq Nat
      BY <1>1
    <3> HIDE DEF T
    <3> QED  BY <1>5, <3>1, LeastNumber
  <2>2. k \in 0..m /\ ~Counted(k) /\ k # 0
    BY <1>3
  <2>3. k \in 1..m /\ k - 1 \in 0..m /\ ~(k <= k - 1)
    BY <1>1, <2>2
  <2>4. Counted(k - 1)
    BY <2>1, <2>3
  <2> QED  BY <1>4, <2>2, <2>3, <2>4
<1>6. \A k \in 0..m : Counted(k)
  BY <1>5
<1> QED  BY <1>6 DEF m, Counted

\* If a character was left out there was hardly any room left.
LEMMA OutOfRoom ==
    ASSUME NEW w \in Seq(Letter), Max(Fitting(w)) # Len(w)
    PROVE  Len(pconf_encode(w)) >= EncodeRoom - 2
<1> DEFINE m == Max(Fitting(w))
<1>1. m \in 0..Len(w) /\ (m < Len(w) => m + 1 \notin Fitting(w)) /\ Len(w) \in Nat
  BY FittingIs
<1>2. m \in Nat /\ m \in 0..m /\ m + 1 \in 0..Len(w) /\ m + 1 \notin Fitting(w) /\ m + 1 \in Nat
  <2> HIDE DEF m
  <2>1. m # Len(w)
    BY DEF m
  <2> QED  BY <1>1, <2>1
<1>3. Codes(w) \in Seq(Seq(Letter)) /\ Len(Codes(w)) = m /\ pconf_encode(w) = FlattenSeq(Codes(w))
  BY EncodeTyped
<1>4. PICK J : IsTable(Letter, Codes(w), J)
  BY <1>3, TableExists
<1>5. Len(J[m]) = m + Cardinality(Escapes(w, m)) /\ J[m] = pconf_encode(w)
  <2>1. J[m] = pconf_encode(w)
    BY <1>3, <1>4 DEF IsTable
  <2> QED  BY <1>2, <1>4, <2>1, CodeLength, Zenon
<1> HIDE DEF m
<1>6. ~(m + 1 + Cardinality(Escapes(w, m + 1)) <= EncodeRoom - 1)
  BY <1>2 DEF Fitting, Escapes
<1>7. Cardinality(Escapes(w, m + 1)) <= Cardinality(Escapes(w, m)) + 1
  <2>1. IsFiniteSet(Escapes(w, m)) /\ Cardinality(Escapes(w, m)) \in Nat
    BY <1>2, EscapesFinite
  <2>2. Escapes(w, m + 1) \in {Escapes(w, m), Escapes(w, m) \cup {m + 1}}
    BY <1>2 DEF Escapes
  <2>3. m + 1 \notin Escapes(w, m)
    BY <1>2 DEF Escapes
  <2>4. Cardinality(Escapes(w, m) \cup {m + 1}) = Cardinality(Escapes(w, m)) + 1
    BY <2>1, <2>3, FS_AddElement
  <2>5. CASE Escapes(w, m + 1) = Escapes(w, m)
    BY <2>1, <2>5
  <2>6. CASE Escapes(w, m + 1) = Escapes(w, m) \cup {m + 1}
    <3>1. Cardinality(Escapes(w, m + 1)) = Cardinality(Escapes(w, m)) + 1
      BY <2>4, <2>6, Zenon
    <3> QED  BY <2>1, <3>1
  <2> QED  BY <2>2, <2>5, <2>6
<1>8. Cardinality(Escapes(w, m)) \in Nat /\ Cardinality(Escapes(w, m + 1)) \in Nat
  BY <1>2, EscapesFinite
<1>9. m + Cardinality(Escapes(w, m)) >= EncodeRoom - 2
  BY <1>2, <1>6, <1>7, <1>8, RoomAssumption
<1> QED  BY <1>5, <1>9

-----------------------------------------------------------------------------
(* A message and the first state *)

\* What is written for the i-th word.
Part(words, i) == (IF i > 1 THEN <<"space">> ELSE <<>>) \o Quoted(words[i])
Parts(words) == [i \in 1..Len(words) |-> Part(words, i)]

LEMMA MessageTyped ==
    ASSUME NEW words \in Seq(Seq(Letter))
    PROVE  /\ Parts(words) \in Seq(Seq(Letter)) /\ Len(Parts(words)) = Len(words)
           /\ Message(words) = FlattenSeq(Parts(words)) \o <<"nl">>
           /\ Message(words) \in Seq(Letter)
<1>1. <<"space">> \in Seq(Letter) /\ <<"quote">> \in Seq(Letter) /\ <<"nl">> \in Seq(Letter) /\ <<>> \in Seq(Letter)
  BY DEF Letter, Blank, Escape
<1>2. ASSUME NEW i \in 1..Len(words) PROVE Part(words, i) \in Seq(Letter)
  <2>1. words[i] \in Seq(Letter)
    OBVIOUS
  <2>2. pconf_encode(words[i]) \in Seq(Letter)
    BY <2>1, EncodeTyped
  <2>3. Quoted(words[i]) \in Seq(Letter)
    BY <1>1, <2>2 DEF Quoted
  <2> QED  BY <1>1, <2>3 DEF Part
<1>3. Parts(words) \in Seq(Seq(Letter)) /\ Len(Parts(words)) = Len(words)
  <2> DEFINE T == Seq(Letter)
             n == Len(words)
  <2>1. n \in Nat /\ \A i \in 1..n : Part(words, i) \in T
    BY <1>2
  <2> HIDE DEF T, n
  <2>2. [i \in 1..n |-> Part(words, i)] \in Seq(T) /\ Len([i \in 1..n |-> Part(words, i)]) = n
    BY <2>1
  <2> QED  BY <2>2 DEF T, n, Parts
<1>4. Message(words) = FlattenSeq(Parts(words)) \o <<"nl">>
  BY DEF Message, Parts, Part
<1>5. FlattenSeq(Parts(words)) \in Seq(Letter)
  BY <1>3, FlattenTyped
<1> QED  BY <1>1, <1>3, <1>4, <1>5

LEMMA UpToTyped ==
    ASSUME NEW S, NEW n \in Nat
    PROVE  SeqsUpTo(S, n) \subseteq Seq(S)
BY DEF SeqsUpTo

LEMMA InitIInv == Init => IInv
<1> SUFFICES ASSUME Init PROVE IInv
  OBVIOUS
<1>1. MaxText \in Nat /\ MaxWords \in Nat /\ MaxWord \in Nat /\ ArgLimit \in Nat /\ WordLenLimit \in Nat
  BY LimitAssumption
<1>2. Seq(Char) \subseteq Seq(Letter) /\ Seq(Seq(Char)) \subseteq Seq(Seq(Letter))
  BY CharAssumption
<1>3. sent \in Seq(Seq(Char)) /\ text \in Seq(Letter)
  <2>1. CASE sent = <<>> /\ text \in SeqsUpTo(Char, MaxText)
    BY <1>1, <1>2, <2>1, UpToTyped
  <2>2. CASE sent \in SeqsUpTo(SeqsUpTo(Char, MaxWord), MaxWords) \ {<<>>} /\ text = Message(sent)
    <3>1. SeqsUpTo(Char, MaxWord) \subseteq Seq(Char)
      BY <1>1, UpToTyped
    <3>2. sent \in Seq(SeqsUpTo(Char, MaxWord))
      BY <1>1, <2>2, UpToTyped
    <3>3. sent \in Seq(Seq(Char))
      BY <3>1, <3>2
    <3> QED  BY <1>2, <2>2, <3>3, MessageTyped
  <2> QED  BY <2>1, <2>2 DEF Init
<1>4. /\ feed \in {"file", "line", "char"} /\ pos = 0 /\ state = "FINDWORDSTART"
      /\ word = <<>> /\ args = <<>> /\ out = <<>> /\ over = FALSE
  BY DEF Init
<1>5. <<>> \in Seq(Letter) /\ <<>> \in Seq(Seq(Letter)) /\ <<>> \in Seq(Seq(Seq(Letter))) /\ Len(<<>>) = 0
  OBVIOUS
<1>6. 0 \in 0..Len(text) /\ ToSet(<<>>) = {}
  BY <1>3 DEF ToSet
<1>7. /\ feed \in {"file", "line", "char"} /\ over \in BOOLEAN
      /\ sent \in Seq(Seq(Char)) /\ text \in Seq(Letter) /\ pos \in 0..Len(text)
      /\ word \in Seq(Letter) /\ args \in Seq(Seq(Letter)) /\ out \in Seq(Seq(Seq(Letter)))
  BY <1>3, <1>4, <1>5, <1>6
<1>8. ArgLimit # 0 => Len(args) <= ArgLimit
  BY <1>1, <1>4, <1>5
<1>9. \A w \in ToSet(args) \cup {word} : w = <<>>
  BY <1>4, <1>6
<1>10. WordLenLimit # 0 => \A w \in ToSet(args) \cup {word} : Len(w) <= WordLenLimit
  BY <1>1, <1>5, <1>9
<1> QED  BY <1>4, <1>7, <1>8, <1>10 DEF IInv, TypeOK, WordsStartEmpty

-----------------------------------------------------------------------------
(* Where things are in a message *)

Table(S, seqs) == CHOOSE J : IsTable(S, seqs, J)

LEMMA TableIs ==
    ASSUME NEW S, NEW seqs \in Seq(Seq(S))
    PROVE  IsTable(S, seqs, Table(S, seqs))
BY TableExists DEF Table

\* Characters before the part of word i + 1, and, within the code of w, before
\* that of its character k + 1.
Offset(words, i) == Len(Table(Letter, Parts(words))[i])
CodeOffset(w, k) == Len(Table(Letter, Codes(w))[k])
Spaces(i) == IF i > 1 THEN 1 ELSE 0

LEMMA PartIs ==
    ASSUME NEW words \in Seq(Seq(Letter)), NEW i \in 1..Len(words)
    PROVE  LET enc == pconf_encode(words[i])
               part == Part(words, i)
           IN  /\ part \in Seq(Letter) /\ Len(enc) \in Nat
               /\ Len(part) = Spaces(i) + 2 + Len(enc)
               /\ i > 1 => part[1] = "space"
               /\ part[Spaces(i) + 1] = "quote"
               /\ \A j \in 1..Len(enc) : part[Spaces(i) + 1 + j] = enc[j]
               /\ part[Spaces(i) + 2 + Len(enc)] = "quote"
<1> DEFINE enc == pconf_encode(words[i])
           q == <<"quote">> \o enc \o <<"quote">>
<1>1. words[i] \in Seq(Letter) /\ i \in Nat
  OBVIOUS
<1>2. enc \in Seq(Letter)
  BY <1>1, EncodeTyped
<1>3. "space" \in Letter /\ "quote" \in Letter
  BY DEF Letter, Blank, Escape
<1> HIDE DEF enc
<1>4. Len(enc) \in Nat
  BY <1>2
<1>5. /\ q \in Seq(Letter) /\ Len(q) = Len(enc) + 2 /\ q[1] = "quote" /\ q[Len(enc) + 2] = "quote"
      /\ \A j \in 1..Len(enc) : q[1 + j] = enc[j]
  BY <1>2, <1>3
<1>6. Part(words, i) = (IF i > 1 THEN <<"space">> ELSE <<>>) \o q
  BY DEF Part, Quoted, enc
<1> HIDE DEF q
<1>7. CASE i > 1
  <2>1. /\ <<"space">> \o q \in Seq(Letter) /\ Len(<<"space">> \o q) = Len(q) + 1
        /\ (<<"space">> \o q)[1] = "space"
        /\ \A j \in 1..Len(q) : (<<"space">> \o q)[1 + j] = q[j]
    BY <1>3, <1>5
  <2> DEFINE part == Part(words, i)
  <2>2. part = <<"space">> \o q /\ Spaces(i) = 1
    BY <1>6, <1>7 DEF Spaces
  <2> HIDE DEF part
  <2>3. /\ part \in Seq(Letter) /\ Len(part) = Len(enc) + 3 /\ part[1] = "space"
        /\ \A j \in 1..(Len(enc) + 2) : part[1 + j] = q[j]
    BY <1>4, <1>5, <2>1, <2>2
  <2>4. /\ part[2] = "quote" /\ part[3 + Len(enc)] = "quote"
    <3>1. 1 \in 1..(Len(enc) + 2) /\ Len(enc) + 2 \in 1..(Len(enc) + 2) /\ 1 + (Len(enc) + 2) = 3 + Len(enc) /\ 1 + 1 = 2
      BY <1>4
    <3>2. part[1 + 1] = q[1] /\ part[1 + (Len(enc) + 2)] = q[Len(enc) + 2]
      BY <2>3, <3>1
    <3> QED  BY <1>5, <3>1, <3>2
  <2>5. ASSUME NEW j \in 1..Len(enc) PROVE part[2 + j] = enc[j]
    <3>1. 1 + j \in 1..(Len(enc) + 2) /\ 1 + (1 + j) = 2 + j
      BY <1>4
    <3>2. part[1 + (1 + j)] = q[1 + j]
      BY <2>3, <3>1
    <3> QED  BY <1>5, <3>1, <3>2
  <2>6. /\ Spaces(i) + 2 + Len(enc) = Len(enc) + 3 /\ Spaces(i) + 1 = 2
        /\ Spaces(i) + 2 + Len(enc) = 3 + Len(enc)
    BY <1>4, <2>2
  <2> QED  BY <1>4, <2>3, <2>4, <2>5, <2>6 DEF enc, part
<1>8. CASE ~(i > 1)
  <2> DEFINE part == Part(words, i)
  <2>1. part = q /\ Spaces(i) = 0
    <3>1. <<>> \o q = q
      BY <1>5
    <3> QED  BY <1>6, <1>8, <3>1 DEF Spaces
  <2>2. /\ Spaces(i) + 2 + Len(enc) = Len(enc) + 2 /\ Spaces(i) + 1 = 1
    BY <1>4, <2>1
  <2> HIDE DEF part
  <2> QED  BY <1>4, <1>5, <1>8, <2>1, <2>2 DEF enc, part
<1> QED  BY <1>7, <1>8

\* The text of a message, position by position.
LEMMA TextIs ==
    ASSUME NEW words \in Seq(Seq(Letter))
    PROVE  LET msg == Message(words)
               n == Len(words)
           IN  /\ Offset(words, 0) = 0
               /\ \A i \in 0..n : Offset(words, i) \in Nat
               /\ Len(msg) = Offset(words, n) + 1 /\ msg[Offset(words, n) + 1] = "nl"
               /\ \A i \in 1..n :
                     /\ Offset(words, i) = Offset(words, i - 1) + Len(Part(words, i))
                     /\ \A j \in 1..Len(Part(words, i)) :
                           /\ Offset(words, i - 1) + j < Len(msg)
                           /\ msg[Offset(words, i - 1) + j] = Part(words, i)[j]
<1> DEFINE n == Len(words)
           J == Table(Letter, Parts(words))
           flat == FlattenSeq(Parts(words))
           msg == Message(words)
<1>1. /\ Parts(words) \in Seq(Seq(Letter)) /\ Len(Parts(words)) = n /\ n \in Nat
      /\ msg = flat \o <<"nl">>
  BY MessageTyped
<1>2. IsTable(Letter, Parts(words), J)
  BY <1>1, TableIs
<1>3. flat \in Seq(Letter) /\ Len(flat) \in Nat
  BY <1>1, FlattenTyped
<1>4. \A i \in 0..n : J[i] \in Seq(Letter) /\ Offset(words, i) = Len(J[i]) /\ Offset(words, i) \in Nat
  <2> TAKE i \in 0..n
  <2>1. Offset(words, i) = Len(J[i])
    BY DEF Offset
  <2> HIDE DEF J, n
  <2>2. J[i] \in Seq(Letter)
    BY <1>1, <1>2 DEF IsTable
  <2> QED  BY <2>1, <2>2
<1>5. J[0] = <<>> /\ J[n] = flat /\ 0 \in 0..n /\ n \in 0..n
  BY <1>1, <1>2 DEF IsTable
<1>6. Offset(words, 0) = 0 /\ Offset(words, n) = Len(flat)
  BY <1>4, <1>5
<1> HIDE DEF flat
<1>7. /\ Len(msg) = Len(flat) + 1 /\ msg[Len(flat) + 1] = "nl"
      /\ \A j \in 1..Len(flat) : msg[j] = flat[j]
  <2>1. "nl" \in Letter
    BY DEF Letter
  <2> QED  BY <1>1, <1>3, <2>1
<1>8. ASSUME NEW i \in 1..n
      PROVE  /\ Offset(words, i) = Offset(words, i - 1) + Len(Part(words, i))
             /\ \A j \in 1..Len(Part(words, i)) :
                           /\ Offset(words, i - 1) + j < Len(msg)
                           /\ msg[Offset(words, i - 1) + j] = Part(words, i)[j]
  <2>1. i \in 1..Len(Parts(words)) /\ Parts(words)[i] = Part(words, i)
    BY <1>1 DEF Parts
  <2>2. /\ Len(J[i]) = Len(J[i - 1]) + Len(Parts(words)[i])
        /\ \A j \in 1..Len(Parts(words)[i]) :
              Len(J[i - 1]) + j <= Len(flat) /\ flat[Len(J[i - 1]) + j] = Parts(words)[i][j]
    <3>1. Located(Letter, Parts(words), J, i)
      BY <1>1, <1>2, <2>1, TableChar, Zenon
    <3> QED  BY <3>1 DEF Located, flat
  <2>3. i \in 0..n /\ i - 1 \in 0..n
    BY <1>1
  <2>4. Offset(words, i) = Len(J[i]) /\ Offset(words, i - 1) = Len(J[i - 1]) /\ Offset(words, i - 1) \in Nat
    BY <1>4, <2>3
  <2>5. ASSUME NEW j \in 1..Len(Part(words, i))
        PROVE  Offset(words, i - 1) + j < Len(msg) /\ msg[Offset(words, i - 1) + j] = Part(words, i)[j]
    <3>1. Offset(words, i - 1) + j <= Len(flat) /\ flat[Offset(words, i - 1) + j] = Part(words, i)[j]
      BY <2>1, <2>2, <2>4
    <3>2. j \in Nat \ {0}
      <4>1. Part(words, i) \in Seq(Letter)
        BY <1>1, PartIs
      <4> QED  BY <4>1
    <3>3. Offset(words, i - 1) + j \in 1..Len(flat) /\ Offset(words, i - 1) + j < Len(msg)
      BY <1>3, <1>7, <2>4, <3>1, <3>2
    <3> QED  BY <1>7, <3>1, <3>3
  <2> QED  BY <2>1, <2>2, <2>4, <2>5
<1> QED  BY <1>1, <1>4, <1>6, <1>7, <1>8

\* The code of a word, position by position.
LEMMA CodeIs ==
    ASSUME NEW w \in Seq(Letter)
    PROVE  LET m == Max(Fitting(w))
               enc == pconf_encode(w)
           IN  /\ m \in 0..Len(w)
               /\ CodeOffset(w, 0) = 0 /\ CodeOffset(w, m) = Len(enc)
               /\ \A k \in 0..m : CodeOffset(w, k) \in Nat
               /\ \A k \in 1..m :
                     /\ w[k] \in Letter
                     /\ CodeOffset(w, k) = CodeOffset(w, k - 1) + Len(Coded(w[k]))
                     /\ \A j \in 1..Len(Coded(w[k])) :
                           /\ CodeOffset(w, k - 1) + j \in 1..Len(enc)
                           /\ enc[CodeOffset(w, k - 1) + j] = Coded(w[k])[j]
<1> DEFINE m == Max(Fitting(w))
           enc == pconf_encode(w)
           J == Table(Letter, Codes(w))
<1>1. /\ Codes(w) \in Seq(Seq(Letter)) /\ Len(Codes(w)) = m
      /\ enc = FlattenSeq(Codes(w)) /\ enc \in Seq(Letter)
  BY EncodeTyped
<1>2. m \in 0..Len(w) /\ m \in Nat /\ Len(w) \in Nat
  BY FittingIs
<1>3. IsTable(Letter, Codes(w), J)
  BY <1>1, TableIs
<1>4. \A k \in 0..m : CodeOffset(w, k) = Len(J[k])
  BY DEF CodeOffset
<1> HIDE DEF J, m, enc
<1>5. \A k \in 0..m : CodeOffset(w, k) \in Nat
  <2> TAKE k \in 0..m
  <2>1. J[k] \in Seq(Letter)
    BY <1>1, <1>3 DEF IsTable
  <2> QED  BY <1>4, <2>1
<1>6. CodeOffset(w, 0) = 0 /\ CodeOffset(w, m) = Len(enc)
  <2>1. J[0] = <<>> /\ J[m] = enc /\ 0 \in 0..m /\ m \in 0..m
    BY <1>1, <1>2, <1>3 DEF IsTable
  <2> QED  BY <1>4, <2>1
<1>7. ASSUME NEW k \in 1..m
      PROVE  /\ w[k] \in Letter
             /\ CodeOffset(w, k) = CodeOffset(w, k - 1) + Len(Coded(w[k]))
             /\ \A j \in 1..Len(Coded(w[k])) :
                           /\ CodeOffset(w, k - 1) + j \in 1..Len(enc)
                           /\ enc[CodeOffset(w, k - 1) + j] = Coded(w[k])[j]
  <2>1. k \in 1..Len(Codes(w)) /\ k \in 0..m /\ k - 1 \in 0..m /\ k \in 1..Len(w)
    BY <1>1, <1>2
  <2>2. Codes(w)[k] = Coded(w[k])
    BY DEF Codes, m
  <2>3. Located(Letter, Codes(w), J, k)
    BY <1>1, <1>3, <2>1, TableChar, Zenon
  <2>4. w[k] \in Letter
    BY <2>1
  <2>5. CodeOffset(w, k) = Len(J[k]) /\ CodeOffset(w, k - 1) = Len(J[k - 1]) /\ CodeOffset(w, k - 1) \in Nat
    BY <1>4, <1>5, <2>1
  <2>6. CodeOffset(w, k) = CodeOffset(w, k - 1) + Len(Coded(w[k]))
    BY <2>2, <2>3, <2>5 DEF Located
  <2>7. ASSUME NEW j \in 1..Len(Coded(w[k]))
        PROVE  /\ CodeOffset(w, k - 1) + j \in 1..Len(enc)
               /\ enc[CodeOffset(w, k - 1) + j] = Coded(w[k])[j]
    <3>1. CodeOffset(w, k - 1) + j <= Len(enc) /\ enc[CodeOffset(w, k - 1) + j] = Coded(w[k])[j]
      BY <1>1, <2>2, <2>3, <2>5 DEF Located
    <3>2. Len(Coded(w[k])) \in Nat
      BY <2>4, CodedTyped
    <3> QED  BY <1>1, <2>5, <3>1, <3>2
  <2> QED  BY <2>4, <2>6, <2>7
<1> QED  BY <1>2, <1>5, <1>6, <1>7 DEF m, enc

-----------------------------------------------------------------------------
(* What is collected of a word *)

Letters(w) == [i \in 1..Len(w) |-> IF w[i] \in Control THEN <<>> ELSE <<w[i]>>]

\* What can be printed of the first k characters.
PrintableTo(w, k) == Table(Letter, Letters(w))[k]

LEMMA PrintableIs ==
    ASSUME NEW w \in Seq(Letter)
    PROVE  /\ Printable(w) \in Seq(Letter)
           /\ PrintableTo(w, 0) = <<>> /\ PrintableTo(w, Len(w)) = Printable(w)
           /\ \A k \in 0..Len(w) : PrintableTo(w, k) \in Seq(Letter) /\ Leads(PrintableTo(w, k), Printable(w))
           /\ \A k \in 1..Len(w) :
                 PrintableTo(w, k) = IF w[k] \in Control THEN PrintableTo(w, k - 1)
                                     ELSE Append(PrintableTo(w, k - 1), w[k])
<1> DEFINE n == Len(w)
           J == Table(Letter, Letters(w))
<1>1. n \in Nat /\ \A i \in 1..n : w[i] \in Letter
  OBVIOUS
<1>2. Letters(w) \in Seq(Seq(Letter)) /\ Len(Letters(w)) = n
  <2> DEFINE T == Seq(Letter)
             L(i) == IF w[i] \in Control THEN <<>> ELSE <<w[i]>>
  <2>1. \A i \in 1..n : L(i) \in T
    BY <1>1
  <2> HIDE DEF T, L, n
  <2>2. [i \in 1..n |-> L(i)] \in Seq(T) /\ Len([i \in 1..n |-> L(i)]) = n
    BY <1>1, <2>1
  <2> QED  BY <2>2 DEF T, L, n, Letters
<1>3. Printable(w) = FlattenSeq(Letters(w)) /\ Printable(w) \in Seq(Letter)
  BY <1>2, FlattenTyped DEF Printable, Letters
<1>4. IsTable(Letter, Letters(w), J)
  BY <1>2, TableIs
<1>5. \A k : PrintableTo(w, k) = J[k]
  BY DEF PrintableTo
<1> HIDE DEF J, n
<1>6. J \in [0..n -> Seq(Letter)] /\ J[0] = <<>> /\ J[n] = Printable(w)
  BY <1>2, <1>3, <1>4 DEF IsTable
<1>7. \A k \in 0..n : Leads(J[k], Printable(w))
  BY <1>2, <1>3, <1>4, TablePrefix, Zenon
<1>8. ASSUME NEW k \in 1..n
      PROVE  J[k] = IF w[k] \in Control THEN J[k - 1] ELSE Append(J[k - 1], w[k])
  <2>1. J[k] = J[k - 1] \o Letters(w)[k]
    BY <1>2, <1>4 DEF IsTable
  <2>2. Letters(w)[k] = IF w[k] \in Control THEN <<>> ELSE <<w[k]>>
    BY DEF Letters, n
  <2>3. J[k - 1] \in Seq(Letter) /\ w[k] \in Letter
    <3>1. k - 1 \in 0..n
      BY <1>1
    <3> QED  BY <1>1, <1>6, <3>1
  <2>4. J[k - 1] \o <<>> = J[k - 1] /\ J[k - 1] \o <<w[k]>> = Append(J[k - 1], w[k])
    BY <2>3
  <2> QED  BY <2>1, <2>2, <2>4
<1> QED  BY <1>3, <1>5, <1>6, <1>7, <1>8 DEF n

\* got is what was collected of the first k characters of w.
Collected(got, w, k) ==
    /\ Leads(got, PrintableTo(w, k))
    /\ got = PrintableTo(w, k) \/ (WordLenLimit # 0 /\ Len(got) = WordLenLimit)

LEMMA CollectsNothing ==
    ASSUME NEW w \in Seq(Letter)
    PROVE  Collected(<<>>, w, 0)
<1>1. PrintableTo(w, 0) = <<>>
  BY PrintableIs
<1> QED  BY <1>1 DEF Collected, Leads

LEMMA CollectsOne ==
    ASSUME NEW w \in Seq(Letter), NEW k \in 1..Len(w), NEW got \in Seq(Letter),
           WordLenLimit # 0 => Len(got) <= WordLenLimit, Collected(got, w, k - 1)
    PROVE  Collected(addchar(got, w[k]), w, k)
<1> DEFINE p == PrintableTo(w, k - 1)
           ch == w[k]
<1>1. /\ p \in Seq(Letter) /\ ch \in Letter
      /\ PrintableTo(w, k) = IF ch \in Control THEN p ELSE Append(p, ch)
  <2>1. k - 1 \in 0..Len(w)
    OBVIOUS
  <2> QED  BY <2>1, PrintableIs
<1>2. Leads(got, p) /\ (got = p \/ (WordLenLimit # 0 /\ Len(got) = WordLenLimit)) /\ WordLenLimit \in Nat
  BY LimitAssumption DEF Collected
<1> HIDE DEF p, ch
<1>3. CASE ch \in Control
  <2>1. addchar(got, ch) = got
    BY <1>3 DEF addchar
  <2> QED  BY <1>1, <1>2, <1>3, <2>1 DEF Collected, ch
<1>4. CASE ch \notin Control /\ WordLenLimit # 0 /\ Len(got) >= WordLenLimit
  <2>1. addchar(got, ch) = got /\ Len(got) = WordLenLimit
    BY <1>2, <1>4 DEF addchar
  <2>2. Leads(got, Append(p, ch))
    BY <1>1, <1>2 DEF Leads
  <2> QED  BY <1>1, <1>4, <2>1, <2>2 DEF Collected, ch
<1>5. CASE ch \notin Control /\ ~(WordLenLimit # 0 /\ Len(got) >= WordLenLimit)
  <2>1. got = p
    BY <1>2, <1>5
  <2>2. addchar(got, ch) = Append(p, ch)
    BY <1>5, <2>1 DEF addchar
  <2>3. Leads(Append(p, ch), Append(p, ch))
    BY <1>1 DEF Leads
  <2> QED  BY <1>1, <1>5, <2>2, <2>3 DEF Collected, ch
<1> QED  BY <1>3, <1>4, <1>5

LEMMA CollectsAll ==
    ASSUME NEW w \in Seq(Letter), NEW got \in Seq(Letter), Collected(got, w, Max(Fitting(w)))
    PROVE  Arrived(got, w)
<1> DEFINE m == Max(Fitting(w))
           p == PrintableTo(w, m)
           all == Printable(w)
<1>1. m \in 0..Len(w)
  BY FittingIs
<1>2. /\ all \in Seq(Letter) /\ p \in Seq(Letter) /\ Leads(p, all)
      /\ m = Len(w) => p = all
  BY <1>1, PrintableIs
<1>3. Leads(got, p) /\ (got = p \/ (WordLenLimit # 0 /\ Len(got) = WordLenLimit))
  BY DEF Collected
<1>4. m # Len(w) => Len(pconf_encode(w)) >= EncodeRoom - 2
  BY OutOfRoom
<1> HIDE DEF m, p, all
<1>5. Len(got) \in Nat /\ Len(p) \in Nat /\ Len(all) \in Nat
  BY <1>2
<1>6. Len(got) <= Len(all) /\ \A j \in 1..Len(got) : got[j] = all[j]
  BY <1>3, <1>2, <1>5 DEF Leads
<1>7. IsPrefix(got, all)
  <2>1. SubSeq(got, 1, Len(got)) = SubSeq(all, 1, Len(got))
    BY <1>2, <1>5, <1>6
  <2> QED  BY <1>6, <2>1 DEF IsPrefix
<1> QED  BY <1>2, <1>3, <1>4, <1>7 DEF Arrived, all

-----------------------------------------------------------------------------
(* Reading a message *)

\* The words of the line that are there after i of them were sent.
Count(i) == IF ArgLimit # 0 /\ i > ArgLimit THEN ArgLimit ELSE i
Have(line, i) ==
    /\ Len(line) = Count(i)
    /\ \A j \in 1..Len(line) : Arrived(line[j], sent[j])

\* i words were read, and perhaps the space after them.
Between(i) ==
    /\ state = "FINDWORDSTART" /\ Have(args, i)
    /\ \/ pos = Offset(sent, i)
       \/ i > 0 /\ i < Len(sent) /\ pos = Offset(sent, i) + 1

\* k characters of word i were read, and perhaps an escape.
Start(i, k) == Offset(sent, i - 1) + Spaces(i) + 1 + CodeOffset(sent[i], k)
Inside(i, k) ==
    /\ Have(args, i - 1) /\ Collected(word, sent[i], k)
    /\ \/ state = "QUOTECOLLECT" /\ pos = Start(i, k)
       \/ /\ state = "QC_LITERAL" /\ pos = Start(i, k) + 1
          /\ k < Max(Fitting(sent[i])) /\ sent[i][k + 1] \in Escape

\* The line was returned.
Returned ==
    /\ state = "ENDOFLINE" /\ pos = Len(text) /\ (feed = "line" => over)
    /\ out = <<args>> /\ Have(args, Len(sent))

Reading ==
    /\ ~over /\ out = <<>>
    /\ \/ \E i \in 0..Len(sent) : Between(i)
       \/ \E i \in 1..Len(sent) : \E k \in 0..Max(Fitting(sent[i])) : Inside(i, k)

Sending == sent # <<>> => text = Message(sent) /\ (Reading \/ Returned)

LEMMA SentTyped ==
    ASSUME TypeOK
    PROVE  sent \in Seq(Seq(Letter)) /\ \A i \in 1..Len(sent) : sent[i] \in Seq(Letter)
BY CharAssumption DEF TypeOK

\* A word that has arrived is one more, as far as the limit goes.
LEMMA HaveMore ==
    ASSUME TypeOK, NEW i \in 1..Len(sent), Have(args, i - 1), Arrived(word, sent[i]), NEW next
    PROVE  Have(endofword([state |-> state, word |-> word, args |-> args], next).args, i)
<1> DEFINE a == endofword([state |-> state, word |-> word, args |-> args], next).args
<1>1. a = IF ArgLimit # 0 /\ Len(args) >= ArgLimit THEN args ELSE Append(args, word)
  BY DEF endofword
<1>2. args \in Seq(Seq(Letter)) /\ word \in Seq(Letter) /\ ArgLimit \in Nat /\ i \in Nat
  BY LimitAssumption DEF TypeOK
<1>3. Len(args) = Count(i - 1) /\ \A j \in 1..Len(args) : Arrived(args[j], sent[j])
  BY DEF Have
<1> HIDE DEF a
<1>4. CASE ArgLimit # 0 /\ Len(args) >= ArgLimit
  <2>1. Len(args) = Count(i)
    BY <1>2, <1>3, <1>4 DEF Count
  <2> QED  BY <1>1, <1>3, <1>4, <2>1 DEF Have, a
<1>5. CASE ~(ArgLimit # 0 /\ Len(args) >= ArgLimit)
  <2>1. Len(args) = i - 1 /\ Count(i) = i
    BY <1>2, <1>3, <1>5 DEF Count
  <2>2. a = Append(args, word)
    BY <1>1, <1>5
  <2>3. Len(a) = i /\ a[i] = word /\ \A j \in 1..(i - 1) : a[j] = args[j]
    BY <1>2, <2>1, <2>2
  <2>4. ASSUME NEW j \in 1..Len(a) PROVE Arrived(a[j], sent[j])
    <3>1. CASE j = i
      BY <2>3, <3>1
    <3>2. CASE j # i
      <4>1. j \in 1..Len(args)
        BY <1>2, <2>1, <2>3, <3>2
      <4> QED  BY <1>3, <2>1, <2>3, <4>1
    <3> QED  BY <3>1, <3>2
  <2> QED  BY <2>1, <2>3, <2>4 DEF Have, a
<1> QED  BY <1>4, <1>5

\* One character of a message.
Reads(ch, ctx) ==
    /\ text[pos + 1] = ch /\ pos' = pos + 1 /\ UNCHANGED <<feed, sent, text>>
    /\ state' = ctx.state /\ word' = ctx.word /\ args' = ctx.args
    /\ out' = IF ctx.state = "ENDOFLINE" THEN Append(out, ctx.args) ELSE out
    /\ over' = (ctx.state = "ENDOFLINE" /\ feed = "line")

Here == [state |-> state, word |-> word, args |-> args]

LEMMA FeedReads ==
    ASSUME Feed, state # "ENDOFLINE"
    PROVE  Reads(text[pos + 1], parse_char(Here, text[pos + 1]))
BY DEF Feed, Reads, Here, Context, input

\* Between words, at the end, or before a word.
LEMMA StepBetween ==
    ASSUME IInv, sent # <<>>, text = Message(sent), ~over, out = <<>>,
           NEW i \in 0..Len(sent), Between(i), Feed
    PROVE  Reading' \/ Returned'
<1>1. TypeOK /\ WordsStartEmpty /\ sent \in Seq(Seq(Letter)) /\ state = "FINDWORDSTART" /\ word = <<>>
  BY SentTyped DEF IInv, WordsStartEmpty, Between
<1> DEFINE n == Len(sent)
<1>2. /\ n \in Nat /\ \A j \in 0..n : Offset(sent, j) \in Nat
      /\ Len(text) = Offset(sent, n) + 1 /\ text[Offset(sent, n) + 1] = "nl"
      /\ \A j \in 1..n : /\ Offset(sent, j) = Offset(sent, j - 1) + Len(Part(sent, j))
                         /\ \A c \in 1..Len(Part(sent, j)) :
                                 text[Offset(sent, j - 1) + c] = Part(sent, j)[c]
  BY <1>1, TextIs
<1>3. Reads(text[pos + 1], findwordstart(Here, text[pos + 1]))
  BY <1>1, FeedReads DEF parse_char, Here
<1> HIDE DEF n
<1>4. CASE i = n /\ pos = Offset(sent, i)
  <2>1. text[pos + 1] = "nl"
    BY <1>2, <1>4
  <2>2. findwordstart(Here, "nl") = Goto(Here, "ENDOFLINE")
    BY DEF findwordstart, Blank
  <2>3. /\ state' = "ENDOFLINE" /\ args' = args /\ out' = Append(out, args) /\ pos' = pos + 1
        /\ over' = (feed = "line") /\ UNCHANGED <<feed, sent, text>>
    BY <1>3, <2>1, <2>2 DEF Reads, Goto, Here
  <2>4. out' = <<args>>
    BY <2>3
  <2>5. Have(args, n)
    BY <1>4 DEF Between
  <2>6. Returned'
    BY <1>2, <1>4, <2>3, <2>4, <2>5 DEF Returned, Have, n
  <2> QED  BY <2>6
<1>5. CASE i # n /\ i > 0 /\ pos = Offset(sent, i)
  <2>1. i + 1 \in 1..n /\ i + 1 > 1 /\ (i + 1) - 1 = i /\ i < n /\ i \in Nat
    BY <1>2, <1>5 DEF n
  <2>2. Part(sent, i + 1)[1] = "space" /\ 1 \in 1..Len(Part(sent, i + 1))
    <3>1. /\ Len(Part(sent, i + 1)) = Spaces(i + 1) + 2 + Len(pconf_encode(sent[i + 1]))
          /\ Len(pconf_encode(sent[i + 1])) \in Nat /\ Part(sent, i + 1)[1] = "space"
      BY <1>1, <2>1, PartIs DEF n
    <3> QED  BY <2>1, <3>1 DEF Spaces
  <2>3. text[pos + 1] = "space"
    BY <1>2, <1>5, <2>1, <2>2
  <2>4. findwordstart(Here, "space") = Goto(Here, "FINDWORDSTART")
    BY DEF findwordstart, Blank
  <2>5. /\ state' = "FINDWORDSTART" /\ args' = args /\ out' = out /\ pos' = pos + 1
        /\ ~over' /\ UNCHANGED <<feed, sent, text>>
    BY <1>3, <2>3, <2>4 DEF Reads, Goto, Here
  <2>6. Between(i)'
    BY <1>5, <2>1, <2>5 DEF Between, Have, n
  <2> QED  BY <2>5, <2>6 DEF Reading
<1>6. CASE i # n /\ (i = 0 \/ pos = Offset(sent, i) + 1)
  <2>1. i + 1 \in 1..n /\ (i + 1) - 1 = i /\ i \in Nat /\ i + 1 \in 1..Len(sent)
    BY <1>2, <1>6 DEF n
  <2>2. pos + 1 = Offset(sent, i) + Spaces(i + 1) + 1
    BY <1>2, <1>6, <2>1 DEF Between, Spaces
  <2> DEFINE w == sent[i + 1]
  <2>3. w \in Seq(Letter)
    BY <1>1, <2>1 DEF n
  <2>4. /\ Part(sent, i + 1)[Spaces(i + 1) + 1] = "quote"
        /\ Spaces(i + 1) + 1 \in 1..Len(Part(sent, i + 1))
    <3>1. /\ Len(Part(sent, i + 1)) = Spaces(i + 1) + 2 + Len(pconf_encode(sent[i + 1]))
          /\ Len(pconf_encode(sent[i + 1])) \in Nat /\ Part(sent, i + 1)[Spaces(i + 1) + 1] = "quote"
      BY <1>1, <2>1, PartIs
    <3> QED  BY <3>1 DEF Spaces
  <2>5. text[pos + 1] = "quote"
    <3>1. text[Offset(sent, i) + (Spaces(i + 1) + 1)] = "quote"
      BY <1>2, <2>1, <2>4
    <3>2. Offset(sent, i) + (Spaces(i + 1) + 1) = pos + 1
      BY <1>2, <2>2 DEF Spaces, n
    <3> QED  BY <3>1, <3>2
  <2>6. findwordstart(Here, "quote") = Goto(Here, "QUOTECOLLECT")
    BY DEF findwordstart, Blank
  <2>7. /\ state' = "QUOTECOLLECT" /\ args' = args /\ word' = <<>> /\ out' = out /\ pos' = pos + 1
        /\ ~over' /\ UNCHANGED <<feed, sent, text>>
    BY <1>1, <1>3, <2>5, <2>6 DEF Reads, Goto, Here
  <2>8. CodeOffset(w, 0) = 0 /\ 0 \in 0..Max(Fitting(w))
    BY <2>3, CodeIs
  <2>9. Start(i + 1, 0) = pos + 1
    BY <1>2, <2>1, <2>2, <2>8 DEF Start, Spaces, n
  <2>10. Collected(<<>>, w, 0)
    BY <2>3, CollectsNothing
  <2>11. Inside(i + 1, 0)'
    BY <2>1, <2>7, <2>9, <2>10 DEF Inside, Between, Have, Start, Collected
  <2> QED  BY <2>1, <2>7, <2>8, <2>11 DEF Reading
<1> QED  BY <1>2, <1>4, <1>5, <1>6 DEF Between, n

\* Within a word: a character, an escape, what it stands for, or the end.
LEMMA StepInside ==
    ASSUME IInv, sent # <<>>, text = Message(sent), ~over, out = <<>>,
           NEW i \in 1..Len(sent), NEW k \in 0..Max(Fitting(sent[i])), Inside(i, k), Feed
    PROVE  Reading'
<1> DEFINE n == Len(sent)
           w == sent[i]
           m == Max(Fitting(w))
           enc == pconf_encode(w)
           base == Offset(sent, i - 1) + Spaces(i) + 1
<1>1. TypeOK /\ sent \in Seq(Seq(Letter)) /\ w \in Seq(Letter) /\ i - 1 \in 0..n /\ i \in 0..n /\ i \in 1..n /\ n \in Nat
  BY SentTyped DEF IInv
<1>2. /\ \A j \in 0..n : Offset(sent, j) \in Nat
      /\ Offset(sent, i) = Offset(sent, i - 1) + Len(Part(sent, i))
      /\ \A c \in 1..Len(Part(sent, i)) : text[Offset(sent, i - 1) + c] = Part(sent, i)[c]
  BY <1>1, TextIs
<1>3. /\ Len(enc) \in Nat /\ Len(Part(sent, i)) = Spaces(i) + 2 + Len(enc)
      /\ \A j \in 1..Len(enc) : Part(sent, i)[Spaces(i) + 1 + j] = enc[j]
      /\ Part(sent, i)[Spaces(i) + 2 + Len(enc)] = "quote"
  BY <1>1, PartIs
<1>4. /\ m \in 0..Len(w) /\ CodeOffset(w, m) = Len(enc)
      /\ \A j \in 0..m : CodeOffset(w, j) \in Nat
      /\ \A j \in 1..m : /\ w[j] \in Letter
                         /\ CodeOffset(w, j) = CodeOffset(w, j - 1) + Len(Coded(w[j]))
                         /\ \A c \in 1..Len(Coded(w[j])) :
                               /\ CodeOffset(w, j - 1) + c \in 1..Len(enc)
                               /\ enc[CodeOffset(w, j - 1) + c] = Coded(w[j])[c]
  BY <1>1, CodeIs
<1>5. /\ Have(args, i - 1) /\ Collected(word, w, k)
      /\ \/ state = "QUOTECOLLECT" /\ pos = Start(i, k)
         \/ state = "QC_LITERAL" /\ pos = Start(i, k) + 1 /\ k < m /\ w[k + 1] \in Escape
  BY DEF Inside
<1>6. Start(i, k) = base + CodeOffset(w, k) /\ Start(i, k + 1) = base + CodeOffset(w, k + 1)
  BY DEF Start
<1> HIDE DEF n, w, m, enc
<1>7. base \in Nat /\ Spaces(i) \in {0, 1}
  BY <1>1, <1>2 DEF Spaces
<1>8. k \in 0..m /\ k \in Nat /\ m \in Nat /\ Len(w) \in Nat
  BY <1>1, <1>4 DEF m, w
\* The text in terms of the code.
<1>9. ASSUME NEW c \in 1..Len(enc) PROVE text[base + c] = enc[c]
  <2>1. \A o, s, e \in Nat : \A d \in 1..e : s + 1 + d \in 1..(s + 2 + e) /\ o + (s + 1 + d) = (o + s + 1) + d
    OBVIOUS
  <2>2. Offset(sent, i - 1) \in Nat /\ Spaces(i) \in Nat /\ Len(enc) \in Nat
    BY <1>1, <1>2, <1>3 DEF Spaces
  <2>3. Spaces(i) + 1 + c \in 1..Len(Part(sent, i)) /\ Offset(sent, i - 1) + (Spaces(i) + 1 + c) = base + c
    BY <1>3, <2>1, <2>2, Zenon
  <2> QED  BY <1>2, <1>3, <2>3
<1>10. text[base + Len(enc) + 1] = "quote" /\ base + Len(enc) + 1 = Offset(sent, i)
  <2>0. \A o, s, e \in Nat : s + 2 + e \in 1..(s + 2 + e) /\ o + (s + 2 + e) = (o + s + 1) + e + 1
    OBVIOUS
  <2>3. Offset(sent, i - 1) \in Nat /\ Spaces(i) \in Nat /\ Len(enc) \in Nat
    BY <1>1, <1>2, <1>3 DEF Spaces
  <2>1. /\ Spaces(i) + 2 + Len(enc) \in 1..Len(Part(sent, i))
        /\ Offset(sent, i - 1) + (Spaces(i) + 2 + Len(enc)) = base + Len(enc) + 1
    BY <1>3, <2>0, <2>3, Zenon
  <2>2. text[base + Len(enc) + 1] = "quote"
    BY <1>2, <1>3, <2>1
  <2> QED  BY <1>2, <1>3, <2>1, <2>2
\* Once the next character of the word is added.
<1>11. ASSUME k < m, state' = "QUOTECOLLECT", word' = addchar(word, w[k + 1]), args' = args, out' = out,
              ~over', UNCHANGED <<feed, sent, text>>, pos' = Start(i, k + 1)
       PROVE  Reading'
  <2>1. k + 1 \in 1..Len(w) /\ (k + 1) - 1 = k /\ k + 1 \in 0..m
    BY <1>4, <1>8, <1>11
  <2>2. word \in Seq(Letter) /\ (WordLenLimit # 0 => Len(word) <= WordLenLimit)
    BY <1>1 DEF TypeOK
  <2>3. Collected(addchar(word, w[k + 1]), w, k + 1)
    BY <1>1, <1>5, <2>1, <2>2, CollectsOne
  <2>4. Inside(i, k + 1)'
    BY <1>5, <1>11, <2>3 DEF Inside, Have, Collected, Start, w
  <2>5. i \in 1..Len(sent') /\ k + 1 \in 0..Max(Fitting(sent'[i])) /\ out' = <<>>
    BY <1>11, <2>1 DEF m, w
  <2> QED  BY <1>11, <2>4, <2>5 DEF Reading
<1>12. CASE state = "QC_LITERAL"
  <2>1. pos = Start(i, k) + 1 /\ k < m /\ w[k + 1] \in Escape
    BY <1>5, <1>12
  <2>2. k + 1 \in 1..m /\ (k + 1) - 1 = k
    BY <1>8, <2>1
  <2>3. Coded(w[k + 1]) = <<"backslash", w[k + 1]>>
    BY <2>1 DEF Coded
  <2>4. Len(Coded(w[k + 1])) = 2 /\ Coded(w[k + 1])[2] = w[k + 1] /\ 2 \in 1..2
    BY <2>3
  <2>5. /\ CodeOffset(w, k + 1) = CodeOffset(w, k) + 2 /\ CodeOffset(w, k) \in Nat
        /\ CodeOffset(w, k) + 2 \in 1..Len(enc) /\ enc[CodeOffset(w, k) + 2] = w[k + 1]
    BY <1>4, <1>8, <2>2, <2>4
  <2>6. pos + 1 = base + (CodeOffset(w, k) + 2) /\ pos + 1 = Start(i, k + 1)
    BY <1>6, <1>7, <2>1, <2>5
  <2>7. text[pos + 1] = w[k + 1]
    BY <1>9, <2>5, <2>6
  <2>8. parse_char(Here, w[k + 1]) = Keep(Here, w[k + 1], "QUOTECOLLECT")
    BY <1>12 DEF parse_char, qc_literal, Here
  <2>9. Reads(w[k + 1], Keep(Here, w[k + 1], "QUOTECOLLECT"))
    BY <1>12, <2>7, <2>8, FeedReads
  <2>10. /\ state' = "QUOTECOLLECT" /\ word' = addchar(word, w[k + 1]) /\ args' = args /\ out' = out
         /\ ~over' /\ UNCHANGED <<feed, sent, text>> /\ pos' = Start(i, k + 1)
    BY <2>6, <2>9 DEF Reads, Keep, Here
  <2> QED  BY <1>11, <2>1, <2>10
<1>13. CASE state = "QUOTECOLLECT" /\ k # m
  <2>1. pos = Start(i, k) /\ k < m /\ k + 1 \in 1..m /\ (k + 1) - 1 = k
    BY <1>5, <1>8, <1>13
  <2>2. w[k + 1] \in Letter /\ CodeOffset(w, k) \in Nat
    BY <1>4, <1>8, <2>1
  <2>3. CASE w[k + 1] \in Escape
    <3>1. Len(Coded(w[k + 1])) = 2 /\ Coded(w[k + 1])[1] = "backslash" /\ 1 \in 1..2
      BY <2>3 DEF Coded
    <3>2. CodeOffset(w, k) + 1 \in 1..Len(enc) /\ enc[CodeOffset(w, k) + 1] = "backslash"
      BY <1>4, <2>1, <3>1
    <3>3. pos + 1 = base + (CodeOffset(w, k) + 1)
      BY <1>6, <1>7, <2>1, <2>2
    <3>4. text[pos + 1] = "backslash"
      BY <1>9, <3>2, <3>3
    <3>5. parse_char(Here, "backslash") = Goto(Here, "QC_LITERAL")
      BY <1>13 DEF parse_char, quotecollect, Here
    <3>6. Reads("backslash", Goto(Here, "QC_LITERAL"))
      BY <1>13, <3>4, <3>5, FeedReads
    <3>7. /\ state' = "QC_LITERAL" /\ word' = word /\ args' = args /\ out' = out
          /\ ~over' /\ UNCHANGED <<feed, sent, text>> /\ pos' = Start(i, k) + 1
      BY <2>1, <3>6 DEF Reads, Goto, Here
    <3>8. Inside(i, k)'
      BY <1>5, <2>1, <2>3, <3>7 DEF Inside, Have, Collected, Start, w, m
    <3>9. i \in 1..Len(sent') /\ k \in 0..Max(Fitting(sent'[i])) /\ out' = <<>>
      BY <3>7
    <3> QED  BY <3>7, <3>8, <3>9 DEF Reading
  <2>4. CASE w[k + 1] \notin Escape
    <3>1. Len(Coded(w[k + 1])) = 1 /\ Coded(w[k + 1])[1] = w[k + 1] /\ 1 \in 1..1
      BY <2>4 DEF Coded
    <3>2. /\ CodeOffset(w, k) + 1 \in 1..Len(enc) /\ enc[CodeOffset(w, k) + 1] = w[k + 1]
          /\ CodeOffset(w, k + 1) = CodeOffset(w, k) + 1
      BY <1>4, <2>1, <3>1
    <3>3. pos + 1 = base + (CodeOffset(w, k) + 1) /\ pos + 1 = Start(i, k + 1)
      BY <1>6, <1>7, <2>1, <2>2, <3>2
    <3>4. text[pos + 1] = w[k + 1]
      BY <1>9, <3>2, <3>3
    <3>5. parse_char(Here, w[k + 1]) = Keep(Here, w[k + 1], "QUOTECOLLECT")
      BY <1>13, <2>4 DEF parse_char, quotecollect, Here, Escape
    <3>6. Reads(w[k + 1], Keep(Here, w[k + 1], "QUOTECOLLECT"))
      BY <1>13, <3>4, <3>5, FeedReads
    <3>7. /\ state' = "QUOTECOLLECT" /\ word' = addchar(word, w[k + 1]) /\ args' = args /\ out' = out
          /\ ~over' /\ UNCHANGED <<feed, sent, text>> /\ pos' = Start(i, k + 1)
      BY <3>3, <3>6 DEF Reads, Keep, Here
    <3> QED  BY <1>11, <2>1, <3>7
  <2> QED  BY <2>3, <2>4
<1>14. CASE state = "QUOTECOLLECT" /\ k = m
  <2>1. pos + 1 = base + Len(enc) + 1 /\ pos + 1 = Offset(sent, i)
    BY <1>3, <1>4, <1>5, <1>6, <1>7, <1>10, <1>14
  <2>2. text[pos + 1] = "quote"
    BY <1>10, <2>1
  <2>3. parse_char(Here, "quote") = endofword(Here, "FINDWORDSTART")
    BY <1>14 DEF parse_char, quotecollect, Here
  <2>4. Reads("quote", endofword(Here, "FINDWORDSTART"))
    BY <1>14, <2>2, <2>3, FeedReads
  <2>5. /\ state' = "FINDWORDSTART" /\ args' = endofword(Here, "FINDWORDSTART").args /\ out' = out
        /\ ~over' /\ UNCHANGED <<feed, sent, text>> /\ pos' = Offset(sent, i)
    BY <2>1, <2>4 DEF Reads, endofword
  <2>6. Arrived(word, w)
    <3>1. word \in Seq(Letter) /\ Collected(word, w, Max(Fitting(w)))
      BY <1>1, <1>5, <1>14 DEF TypeOK, m
    <3> QED  BY <1>1, <3>1, CollectsAll
  <2>7. Have(args', i)
    BY <1>1, <1>5, <2>5, <2>6, HaveMore DEF Here, w
  <2>8. Between(i)'
    BY <2>5, <2>7 DEF Between, Have
  <2>9. i \in 0..Len(sent') /\ out' = <<>>
    BY <1>1, <2>5 DEF n
  <2> QED  BY <2>5, <2>8, <2>9 DEF Reading
<1> QED  BY <1>5, <1>12, <1>13, <1>14

\* The message does not end before its newline.
LEMMA MoreToRead ==
    ASSUME TypeOK, sent # <<>>, text = Message(sent), Reading
    PROVE  pos < Len(text)
<1> DEFINE n == Len(sent)
<1>1. sent \in Seq(Seq(Letter)) /\ n \in Nat /\ pos \in Nat /\ \A i \in 1..n : sent[i] \in Seq(Letter)
  BY SentTyped DEF TypeOK
<1>2. /\ \A i \in 0..n : Offset(sent, i) \in Nat
      /\ Len(text) = Offset(sent, n) + 1
      /\ \A i \in 1..n : \A j \in 1..Len(Part(sent, i)) : Offset(sent, i - 1) + j < Len(text)
  BY <1>1, TextIs
<1>3. \A i \in 1..n : /\ Len(pconf_encode(sent[i])) \in Nat
                      /\ Len(Part(sent, i)) = Spaces(i) + 2 + Len(pconf_encode(sent[i]))
  BY <1>1, PartIs
<1> HIDE DEF n
<1>4. ASSUME NEW i \in 0..n, Between(i) PROVE pos < Len(text)
  <2>1. CASE i = n
    <3>1. pos = Offset(sent, i)
      BY <1>1, <1>4, <2>1 DEF Between, n
    <3> QED  BY <1>1, <1>2, <2>1, <3>1
  <2>2. CASE i # n
    <3>1. i + 1 \in 1..n /\ (i + 1) - 1 = i
      BY <1>1, <2>2
    <3>2. 1 \in 1..Len(Part(sent, i + 1))
      BY <1>3, <3>1 DEF Spaces
    <3>3. Offset(sent, i) + 1 < Len(text)
      BY <1>2, <3>1, <3>2
    <3>4. pos = Offset(sent, i) \/ pos = Offset(sent, i) + 1
      BY <1>4 DEF Between
    <3> QED  BY <1>1, <1>2, <3>3, <3>4
  <2> QED  BY <2>1, <2>2
<1>5. ASSUME NEW i \in 1..n, NEW k \in 0..Max(Fitting(sent[i])), Inside(i, k) PROVE pos < Len(text)
  <2> DEFINE w == sent[i]
             m == Max(Fitting(w))
             enc == pconf_encode(w)
             o == Offset(sent, i - 1)
             c == CodeOffset(w, k)
             s == Spaces(i)
  <2>1. w \in Seq(Letter) /\ i - 1 \in 0..n
    BY <1>1
  <2>2. /\ m \in 0..Len(w) /\ CodeOffset(w, m) = Len(enc)
        /\ \A j \in 0..m : CodeOffset(w, j) \in Nat
        /\ \A j \in 1..m : /\ CodeOffset(w, j) = CodeOffset(w, j - 1) + Len(Coded(w[j]))
                           /\ \A d \in 1..Len(Coded(w[j])) : CodeOffset(w, j - 1) + d \in 1..Len(enc)
    BY <2>1, CodeIs
  <2>3. Len(enc) \in Nat /\ Len(Part(sent, i)) = s + 2 + Len(enc) /\ s \in Nat /\ o \in Nat /\ c \in Nat
    BY <1>2, <1>3, <2>1, <2>2 DEF Spaces
  <2>4. \/ pos = o + s + 1 + c
        \/ pos = o + s + 1 + c + 1 /\ k < m
    BY <1>5 DEF Inside, Start
  <2>5. k \in 0..m /\ m \in Nat /\ k \in Nat
    <3>1. Len(w) \in Nat
      BY <2>1
    <3> HIDE DEF m
    <3> QED  BY <2>2, <3>1 DEF m
  <2> HIDE DEF m, enc, w
  <2>6. c <= Len(enc) /\ (k < m => c + 1 <= Len(enc))
    <3>1. CASE k = m
      BY <2>2, <2>3, <3>1
    <3>2. CASE k # m
      <4>1. k + 1 \in 1..m /\ (k + 1) - 1 = k
        BY <2>5, <3>2
      <4>2. 1 \in 1..Len(Coded(w[k + 1]))
        BY DEF Coded
      <4>3. c + 1 \in 1..Len(enc)
        BY <2>2, <4>1, <4>2
      <4> QED  BY <2>3, <4>3
    <3> QED  BY <3>1, <3>2
  <2> HIDE DEF o, c, s
  <2>7. s + 2 + Len(enc) \in 1..Len(Part(sent, i))
    BY <2>3
  <2>8. o + (s + 2 + Len(enc)) < Len(text)
    BY <1>2, <2>7 DEF o
  <2>9. Len(text) \in Nat
    BY DEF TypeOK
  <2> QED  BY <2>3, <2>4, <2>6, <2>8, <2>9
<1> QED  BY <1>4, <1>5 DEF Reading, n

LEMMA InitSending == Init => Sending
<1> SUFFICES ASSUME Init, sent # <<>> PROVE text = Message(sent) /\ Reading
  BY DEF Sending
<1>1. text = Message(sent)
  BY DEF Init
<1>2. sent \in Seq(Seq(Letter))
  BY InitIInv, SentTyped DEF IInv
<1>3. Offset(sent, 0) = 0
  BY <1>2, TextIs
<1>4. Have(<<>>, 0)
  <2>1. ArgLimit \in Nat
    BY LimitAssumption
  <2>2. Count(0) = 0 /\ Len(<<>>) = 0
    BY <2>1 DEF Count
  <2> QED  BY <2>2 DEF Have
<1>5. Between(0)
  BY <1>3, <1>4 DEF Between, Init
<1>6. 0 \in 0..Len(sent)
  BY <1>2
<1> QED  BY <1>1, <1>5, <1>6 DEF Reading, Init

LEMMA StepSending == IInv /\ Sending /\ [Next]_vars => Sending'
<1> SUFFICES ASSUME IInv, Sending, [Next]_vars PROVE Sending'
  OBVIOUS
<1>2. UNCHANGED input /\ sent' = sent /\ text' = text /\ feed' = feed
  BY DEF Next, Feed, FileEnds, LineEnds, NothingMore, vars, input
<1> SUFFICES ASSUME sent # <<>> PROVE (Reading \/ Returned)'
  BY <1>2 DEF Sending
<1>1. TypeOK /\ text = Message(sent) /\ (Reading \/ Returned)
  BY DEF IInv, Sending
<1>3. CASE UNCHANGED vars
  BY <1>1, <1>2, <1>3 DEF vars, input, Reading, Returned, Between, Inside, Have, Start
<1>4. CASE Reading /\ Next
  <2>1. pos < Len(text) /\ pos \in Nat /\ Len(text) \in Nat
    BY <1>1, <1>4, MoreToRead DEF TypeOK
  <2>2. Feed
    BY <1>4, <2>1 DEF Next, FileEnds, LineEnds, NothingMore
  <2>3. ~over /\ out = <<>>
    BY <1>4 DEF Reading
  <2>4. ASSUME NEW i \in 0..Len(sent), Between(i) PROVE Reading' \/ Returned'
    BY <1>1, <2>2, <2>3, <2>4, StepBetween
  <2>5. ASSUME NEW i \in 1..Len(sent), NEW k \in 0..Max(Fitting(sent[i])), Inside(i, k) PROVE Reading'
    BY <1>1, <2>2, <2>3, <2>5, StepInside
  <2> QED  BY <1>2, <1>4, <2>4, <2>5 DEF Reading
<1>5. CASE Returned /\ Next
  <2>1. pos = Len(text) /\ Len(text) \in Nat /\ state = "ENDOFLINE" /\ (feed = "line" => over)
    BY <1>1, <1>5 DEF Returned, TypeOK
  <2>2. Context.args = <<>>
    BY <2>1 DEF Context
  <2>3. UNCHANGED <<state, pos, args, out>> /\ over'
    BY <1>5, <2>1, <2>2 DEF Next, Feed, FileEnds, LineEnds, NothingMore
  <2> QED  BY <1>2, <1>5, <2>3 DEF Returned, Have
<1> QED  BY <1>1, <1>3, <1>4, <1>5

\* When the caller is done the line it was given is the message.
LEMMA SendingArrives == IInv /\ Sending => MessagesArrive
<1> SUFFICES ASSUME IInv, Sending, over, sent # <<>>
             PROVE  /\ Len(out) = 1 /\ Len(out[1]) = Len(Within(sent))
                    /\ \A i \in 1..Len(out[1]) : Arrived(out[1][i], sent[i])
  BY DEF MessagesArrive
<1>1. Returned
  BY DEF Sending, Reading
<1>2. out = <<args>> /\ Len(args) = Count(Len(sent)) /\ \A i \in 1..Len(args) : Arrived(args[i], sent[i])
  BY <1>1 DEF Returned, Have
<1>3. Len(out) = 1 /\ out[1] = args
  BY <1>2
<1>4. Len(Within(sent)) = Count(Len(sent))
  <2>1. sent \in Seq(Seq(Letter)) /\ ArgLimit \in Nat
    BY SentTyped, LimitAssumption DEF IInv
  <2>2. CASE ArgLimit # 0 /\ Len(sent) > ArgLimit
    <3>1. Len(SubSeq(sent, 1, ArgLimit)) = ArgLimit
      BY <2>1, <2>2
    <3> QED  BY <2>2, <3>1 DEF Within, Count
  <2>3. CASE ~(ArgLimit # 0 /\ Len(sent) > ArgLimit)
    BY <2>3 DEF Within, Count
  <2> QED  BY <2>2, <2>3
<1> QED  BY <1>2, <1>3, <1>4

-----------------------------------------------------------------------------
(* Joining one more sequence *)

LEMMA FlattenNone == FlattenSeq(<<>>) = <<>>
BY DEF FlattenSeq

LEMMA FlattenMore ==
    ASSUME NEW S, NEW seqs \in Seq(Seq(S)), NEW x \in Seq(S)
    PROVE  FlattenSeq(Append(seqs, x)) = FlattenSeq(seqs) \o x
<1> DEFINE more == Append(seqs, x)
           n == Len(seqs)
<1>1. /\ more \in Seq(Seq(S)) /\ Len(more) = n + 1 /\ more[n + 1] = x /\ n \in Nat
      /\ \A k \in 1..n : more[k] = seqs[k]
  OBVIOUS
<1> HIDE DEF more, n
<1>2. PICK J : IsTable(S, more, J)
  BY <1>1, TableExists
<1>3. PICK K : IsTable(S, seqs, K)
  BY TableExists
<1>4. /\ J[0] = <<>> /\ J[n + 1] = FlattenSeq(more) /\ J[n + 1] = J[n] \o x
      /\ \A k \in 1..n : J[k] = J[k - 1] \o seqs[k]
  <2>1. /\ J[0] = <<>> /\ J[n + 1] = FlattenSeq(more)
        /\ \A k \in 1..(n + 1) : J[k] = J[k - 1] \o more[k]
    BY <1>1, <1>2 DEF IsTable
  <2>2. n + 1 \in 1..(n + 1) /\ (n + 1) - 1 = n /\ \A k \in 1..n : k \in 1..(n + 1)
    BY <1>1
  <2> QED  BY <1>1, <2>1, <2>2
<1>5. /\ K[0] = <<>> /\ K[n] = FlattenSeq(seqs)
      /\ \A k \in 1..n : K[k] = K[k - 1] \o seqs[k]
  BY <1>3 DEF IsTable, n
<1> DEFINE T == {k \in 0..n : J[k] # K[k]}
<1>6. ASSUME T # {} PROVE FALSE
  <2>1. PICK k \in T : \A j \in T : k <= j
    <3>1. T \subseteq Nat
      BY <1>1
    <3> HIDE DEF T
    <3> QED  BY <1>6, <3>1, LeastNumber
  <2>2. k \in 0..n /\ J[k] # K[k] /\ k # 0
    BY <1>4, <1>5
  <2>3. k \in 1..n /\ k - 1 \in 0..n /\ ~(k <= k - 1)
    BY <1>1, <2>2
  <2>4. J[k - 1] = K[k - 1]
    BY <2>1, <2>3
  <2> QED  BY <1>4, <1>5, <2>2, <2>3, <2>4
<1>7. J[n] = K[n]
  <2>1. n \in 0..n
    BY <1>1
  <2> QED  BY <1>6, <2>1
<1> QED  BY <1>4, <1>5, <1>7 DEF more

\* The parts of a list of sequences, from a on.
LEMMA PartTyped ==
    ASSUME NEW S, NEW G \in Seq(Seq(S)), NEW a \in Nat \ {0}, NEW b \in Nat, b <= Len(G)
    PROVE  SubSeq(G, a, b) \in Seq(Seq(S)) /\ FlattenSeq(SubSeq(G, a, b)) \in Seq(S)
<1>1. \A i \in a..b : G[i] \in Seq(S)
  OBVIOUS
<1>2. a \in Int /\ b \in Int
  OBVIOUS
<1>3. SubSeq(G, a, b) \in Seq(Seq(S))
  BY <1>1, <1>2, SubSeqProperties
<1> QED  BY <1>3, FlattenTyped

LEMMA PartStep ==
    ASSUME NEW S, NEW G \in Seq(Seq(S)), NEW a \in 1..Len(G), NEW b \in a..Len(G)
    PROVE  FlattenSeq(SubSeq(G, a, b)) = FlattenSeq(SubSeq(G, a, b - 1)) \o G[b]
<1>1. /\ a \in Nat \ {0} /\ b - 1 \in Nat /\ b - 1 <= Len(G) /\ b \in Nat /\ G[b] \in Seq(S)
  OBVIOUS
<1>2. SubSeq(G, a, b - 1) \in Seq(Seq(S))
  BY <1>1, PartTyped
<1>3. SubSeq(G, a, b) = SubSeq(G, a, b - 1) \o <<G[b]>>
  BY SubSeqRecursiveSecond
<1>4. SubSeq(G, a, b) = Append(SubSeq(G, a, b - 1), G[b])
  <2> DEFINE q == SubSeq(G, a, b - 1)
             T == Seq(S)
  <2>1. q \in Seq(T) /\ G[b] \in T
    BY <1>1, <1>2
  <2> HIDE DEF q, T
  <2>2. q \o <<G[b]>> = Append(q, G[b])
    BY <2>1
  <2> QED  BY <1>3, <2>2 DEF q
<1> QED  BY <1>1, <1>2, <1>4, FlattenMore

LEMMA PartNone ==
    ASSUME NEW G, NEW a \in Nat, NEW b \in Int, b < a
    PROVE  FlattenSeq(SubSeq(G, a, b)) = <<>>
<1>1. SubSeq(G, a, b) = <<>>
  BY SubSeqEmpty
<1> QED  BY <1>1, FlattenNone

\* Nothing is added where there is nothing.
LEMMA PartSpan ==
    ASSUME NEW S, NEW G \in Seq(Seq(S)), NEW a \in Nat \ {0},
           NEW m \in Nat, NEW n \in Nat, a - 1 <= m, m <= n, n <= Len(G),
           \A k \in (m + 1)..n : G[k] = <<>>
    PROVE  FlattenSeq(SubSeq(G, a, n)) = FlattenSeq(SubSeq(G, a, m))
<1> DEFINE F(k) == FlattenSeq(SubSeq(G, a, k))
           T == {k \in m..n : F(k) # F(m)}
<1>1. ASSUME NEW k \in (m + 1)..n PROVE F(k) = F(k - 1)
  <2>1. a \in 1..Len(G) /\ k \in a..Len(G) /\ k - 1 \in Nat /\ k - 1 <= Len(G)
    <3>1. Len(G) \in Nat
      OBVIOUS
    <3> QED  BY <3>1
  <2>2. F(k) = F(k - 1) \o G[k]
    BY <2>1, PartStep
  <2>3. F(k - 1) \in Seq(S)
    BY <2>1, PartTyped
  <2>4. G[k] = <<>>
    OBVIOUS
  <2> HIDE DEF F
  <2>5. F(k - 1) \o <<>> = F(k - 1)
    BY <2>3
  <2> QED  BY <2>2, <2>4, <2>5
<1> HIDE DEF F
<1>2. ASSUME T # {} PROVE FALSE
  <2>1. PICK k \in T : \A j \in T : k <= j
    <3>1. T \subseteq Nat
      OBVIOUS
    <3> HIDE DEF T
    <3> QED  BY <1>2, <3>1, LeastNumber
  <2>2. k \in m..n /\ F(k) # F(m) /\ k # m
    OBVIOUS
  <2>3. k \in (m + 1)..n /\ k - 1 \in m..n /\ ~(k <= k - 1)
    BY <2>2
  <2>4. F(k - 1) = F(m)
    BY <2>1, <2>3
  <2> QED  BY <1>1, <2>2, <2>3, <2>4
<1>3. n \in m..n
  OBVIOUS
<1>4. F(n) = F(m)
  BY <1>2, <1>3
<1> QED  BY <1>4 DEF F

-----------------------------------------------------------------------------
(* Escapes *)

LEMMA MinIn ==
    ASSUME NEW T, T \subseteq Nat, T # {}
    PROVE  Min(T) \in T /\ \A y \in T : Min(T) <= y
<1>1. \E n \in T : \A m \in T : n <= m
  BY LeastNumber
<1> QED  BY <1>1 DEF Min

LEMMA MinIs ==
    ASSUME NEW T, T \subseteq Nat, NEW n \in T, \A y \in T : n <= y
    PROVE  Min(T) = n
<1>1. Min(T) \in T /\ \A y \in T : Min(T) <= y
  BY MinIn
<1>2. Min(T) \in Nat /\ n \in Nat /\ Min(T) <= n /\ n <= Min(T)
  BY <1>1
<1> QED  BY <1>2

Run(s, from, k) == {j \in from..k : \A m \in j..(k - 1) : s[m] = "backslash"}

LEMMA EscapedRun ==
    ASSUME NEW s, NEW from \in Nat, NEW k \in Nat, from <= k
    PROVE  /\ Escaped(s, from, k) <=> (k - Min(Run(s, from, k))) % 2 = 1
           /\ Min(Run(s, from, k)) \in from..k
           /\ Min(Run(s, from, k)) \in Run(s, from, k)
           /\ \A j \in Run(s, from, k) : Min(Run(s, from, k)) <= j
<1>1. k \in Run(s, from, k) /\ Run(s, from, k) \subseteq from..k /\ Run(s, from, k) \subseteq Nat
  BY DEF Run
<1>2. Escaped(s, from, k) <=> (k - Min(Run(s, from, k))) % 2 = 1
  BY DEF Escaped, Run
<1> QED  BY <1>1, <1>2, MinIn

LEMMA EscapedFirst ==
    ASSUME NEW s, NEW from \in Nat
    PROVE  ~Escaped(s, from, from)
<1>1. Min(Run(s, from, from)) = from
  BY EscapedRun
<1> QED  BY <1>1, EscapedRun

LEMMA EscapedNext ==
    ASSUME NEW s, NEW from \in Nat, NEW k \in Nat, from <= k
    PROVE  Escaped(s, from, k + 1) <=> s[k] = "backslash" /\ ~Escaped(s, from, k)
<1> DEFINE m == Min(Run(s, from, k))
           n == Min(Run(s, from, k + 1))
<1>1. /\ Escaped(s, from, k) <=> (k - m) % 2 = 1
      /\ m \in from..k /\ m \in Run(s, from, k) /\ \A j \in Run(s, from, k) : m <= j
  BY EscapedRun
<1>2. /\ Escaped(s, from, k + 1) <=> (k + 1 - n) % 2 = 1
      /\ n \in from..(k + 1) /\ n \in Run(s, from, k + 1) /\ \A j \in Run(s, from, k + 1) : n <= j
  <2>1. PICK l \in Nat : l = k + 1
    OBVIOUS
  <2>2. /\ Escaped(s, from, l) <=> (l - Min(Run(s, from, l))) % 2 = 1
        /\ Min(Run(s, from, l)) \in from..l
        /\ Min(Run(s, from, l)) \in Run(s, from, l)
        /\ \A j \in Run(s, from, l) : Min(Run(s, from, l)) <= j
    BY <2>1, EscapedRun
  <2> QED  BY <2>1, <2>2
<1> HIDE DEF m, n
<1>3. CASE s[k] = "backslash"
  <2>1. m \in Run(s, from, k + 1)
    BY <1>1, <1>3 DEF Run
  <2>2. n <= m
    BY <1>2, <2>1
  <2>3. n \in Run(s, from, k)
    BY <1>1, <1>2, <2>2 DEF Run
  <2>4. n = m
    BY <1>1, <1>2, <2>2, <2>3
  <2> QED  BY <1>1, <1>2, <1>3, <2>4
<1>4. CASE s[k] # "backslash"
  <2>1. n = k + 1
    BY <1>2, <1>4 DEF Run
  <2> QED  BY <1>2, <1>4, <2>1
<1> QED  BY <1>3, <1>4

LEMMA FirstIs ==
    ASSUME NEW s, NEW from \in Nat, NEW stops, Len(s) \in Nat, from <= Len(s) + 1
    PROVE  /\ First(s, from, stops) \in from..(Len(s) + 1)
           /\ First(s, from, stops) <= Len(s) =>
                /\ s[First(s, from, stops)] \in stops
                /\ ~Escaped(s, from, First(s, from, stops))
           /\ \A k \in from..(First(s, from, stops) - 1) : ~(s[k] \in stops /\ ~Escaped(s, from, k))
<1> DEFINE T == {k \in from..Len(s) : s[k] \in stops /\ ~Escaped(s, from, k)} \cup {Len(s) + 1}
<1>1. First(s, from, stops) = Min(T) /\ T \subseteq Nat /\ T # {} /\ T \subseteq from..(Len(s) + 1)
  BY DEF First
<1>2. \A k \in from..Len(s) : s[k] \in stops /\ ~Escaped(s, from, k) => k \in T
  OBVIOUS
<1>3. \A k \in T : k <= Len(s) => s[k] \in stops /\ ~Escaped(s, from, k)
  OBVIOUS
<1> HIDE DEF T
<1>4. Min(T) \in T /\ \A y \in T : Min(T) <= y
  BY <1>1, MinIn
<1> DEFINE e == First(s, from, stops)
<1>5. e \in T /\ e \in from..(Len(s) + 1) /\ \A y \in T : e <= y
  BY <1>1, <1>4
<1> HIDE DEF e
<1>6. ASSUME NEW k \in from..(e - 1) PROVE ~(s[k] \in stops /\ ~Escaped(s, from, k))
  <2>1. k \in from..Len(s) /\ ~(e <= k)
    BY <1>5
  <2> QED  BY <1>2, <1>5, <2>1
<1>7. e <= Len(s) => s[e] \in stops /\ ~Escaped(s, from, e)
  BY <1>3, <1>5
<1> QED  BY <1>5, <1>6, <1>7 DEF e

-----------------------------------------------------------------------------
(* What is meant by the characters of a word *)

LEMMA ShownTyped ==
    ASSUME NEW s \in Seq(Letter), NEW from, NEW k \in 1..Len(s)
    PROVE  Shown(s, from, k) \in Seq(Letter)
<1>1. s[k] \in Letter
  OBVIOUS
<1> QED  BY <1>1 DEF Shown

Shows(s, from, to) == [k \in 1..(to + 1 - from) |-> Shown(s, from, from + k - 1)]

LEMMA ShowsTyped ==
    ASSUME NEW s \in Seq(Letter), NEW from \in Nat \ {0}, NEW to \in Nat, from <= to + 1, to <= Len(s)
    PROVE  Shows(s, from, to) \in Seq(Seq(Letter)) /\ Len(Shows(s, from, to)) = to + 1 - from
<1>1. ASSUME NEW k \in 1..(to + 1 - from) PROVE Shown(s, from, from + k - 1) \in Seq(Letter)
  <2>1. from + k - 1 \in 1..Len(s)
    OBVIOUS
  <2> QED  BY <2>1, ShownTyped
<1>2. to + 1 - from \in Nat
  OBVIOUS
<1> DEFINE n == to + 1 - from
           T == Seq(Letter)
<1>3. Shows(s, from, to) \in [1..n -> T]
  BY <1>1 DEF Shows
<1> HIDE DEF n, T
<1>4. Shows(s, from, to) \in Seq(T) /\ Len(Shows(s, from, to)) = n
  BY <1>2, <1>3 DEF n
<1> QED  BY <1>4 DEF n, T

LEMMA MeantIs ==
    ASSUME NEW s, NEW from, NEW to
    PROVE  Meant(s, from, to) = Cut(FlattenSeq(Shows(s, from, to)))
BY DEF Meant, Shows

LEMMA CutTyped ==
    ASSUME NEW w \in Seq(Letter)
    PROVE  Cut(w) \in Seq(Letter)
<1>1. WordLenLimit \in Nat
  BY LimitAssumption
<1> QED  BY <1>1 DEF Cut

LEMMA MeantTyped ==
    ASSUME NEW s \in Seq(Letter), NEW from \in Nat \ {0}, NEW to \in Nat, from <= to + 1, to <= Len(s)
    PROVE  Meant(s, from, to) \in Seq(Letter)
<1>1. FlattenSeq(Shows(s, from, to)) \in Seq(Letter)
  BY ShowsTyped, FlattenTyped
<1> QED  BY <1>1, MeantIs, CutTyped

LEMMA MeantNone ==
    ASSUME NEW s, NEW from \in Nat \ {0}
    PROVE  Meant(s, from, from - 1) = <<>>
<1>1. Shows(s, from, from - 1) = <<>>
  BY DEF Shows
<1>2. Cut(<<>>) = <<>>
  BY LimitAssumption DEF Cut
<1> QED  BY <1>1, <1>2, MeantIs, FlattenNone

\* Cutting what is cut already, with more behind it.
LEMMA CutAppend ==
    ASSUME NEW w \in Seq(Letter), NEW ch \in Letter, ch \notin Control
    PROVE  Cut(Append(w, ch)) = addchar(Cut(w), ch)
<1>1. WordLenLimit \in Nat /\ Len(w) \in Nat
  BY LimitAssumption
<1>2. CASE WordLenLimit = 0 \/ Len(w) < WordLenLimit
  BY <1>1, <1>2 DEF Cut, addchar
<1>3. CASE WordLenLimit # 0 /\ Len(w) = WordLenLimit
  <2>1. SubSeq(Append(w, ch), 1, WordLenLimit) = w /\ Len(Append(w, ch)) > WordLenLimit
    BY <1>1, <1>3
  <2> QED  BY <1>1, <1>3, <2>1 DEF Cut, addchar
<1>4. CASE WordLenLimit # 0 /\ Len(w) > WordLenLimit
  <2>1. Len(SubSeq(w, 1, WordLenLimit)) = WordLenLimit
    BY <1>1, <1>4
  <2>2. SubSeq(Append(w, ch), 1, WordLenLimit) = SubSeq(w, 1, WordLenLimit)
    BY <1>1, <1>4
  <2>3. Len(Append(w, ch)) > WordLenLimit
    BY <1>1, <1>4
  <2>4. Cut(Append(w, ch)) = SubSeq(w, 1, WordLenLimit) /\ Cut(w) = SubSeq(w, 1, WordLenLimit)
    BY <1>4, <2>2, <2>3 DEF Cut
  <2> QED  BY <1>1, <1>4, <2>1, <2>4 DEF addchar
<1> QED  BY <1>1, <1>2, <1>3, <1>4

LEMMA MeantMore ==
    ASSUME NEW s \in Seq(Letter), NEW from \in Nat \ {0}, NEW to \in Nat, from <= to + 1, to < Len(s)
    PROVE  Meant(s, from, to + 1) =
               IF s[to + 1] = "backslash" /\ ~Escaped(s, from, to + 1)
               THEN Meant(s, from, to) ELSE addchar(Meant(s, from, to), s[to + 1])
<1> DEFINE x == Shown(s, from, to + 1)
           F(k) == FlattenSeq(Shows(s, from, k))
<1>1. x \in Seq(Letter) /\ s[to + 1] \in Letter /\ to + 1 \in 1..Len(s)
  BY ShownTyped
<1>2. Shows(s, from, to) \in Seq(Seq(Letter)) /\ F(to) \in Seq(Letter)
  BY ShowsTyped, FlattenTyped
<1>3. Shows(s, from, to + 1) = Append(Shows(s, from, to), x)
  <2> DEFINE A == Shows(s, from, to)
             B == Shows(s, from, to + 1)
             n == to + 1 - from
             T == Seq(Letter)
  <2>1. A \in Seq(T) /\ B \in Seq(T) /\ Len(A) = n /\ Len(B) = n + 1 /\ n \in Nat /\ x \in T
    <3>1. to + 1 \in Nat /\ from <= (to + 1) + 1 /\ to + 1 <= Len(s) /\ (to + 1) + 1 - from = n + 1 /\ n \in Nat
      OBVIOUS
    <3>2. /\ Shows(s, from, to + 1) \in Seq(Seq(Letter))
          /\ Len(Shows(s, from, to + 1)) = (to + 1) + 1 - from
      BY <3>1, ShowsTyped
    <3>3. Shows(s, from, to) \in Seq(Seq(Letter)) /\ Len(Shows(s, from, to)) = n
      <4>1. to <= Len(s)
        OBVIOUS
      <4> QED  BY <4>1, ShowsTyped
    <3> QED  BY <1>1, <3>1, <3>2, <3>3
  <2>2. \A k \in 1..n : B[k] = A[k]
    BY DEF Shows
  <2>3. B[n + 1] = x
    <3>1. n + 1 \in 1..((to + 1) + 1 - from) /\ from + (n + 1) - 1 = to + 1
      OBVIOUS
    <3> QED  BY <3>1 DEF Shows
  <2> HIDE DEF A, B, n, T, x
  <2>4. B = Append(A, x)
    BY <2>1, <2>2, <2>3
  <2> QED  BY <2>4 DEF A, B
<1>4. F(to + 1) = F(to) \o x
  BY <1>1, <1>2, <1>3, FlattenMore
<1>5. Meant(s, from, to + 1) = Cut(F(to) \o x) /\ Meant(s, from, to) = Cut(F(to))
  BY <1>4, MeantIs
<1>6. /\ s[to + 1] \in Control \/ (s[to + 1] = "backslash" /\ ~Escaped(s, from, to + 1)) => x = <<>>
      /\ ~(s[to + 1] \in Control \/ (s[to + 1] = "backslash" /\ ~Escaped(s, from, to + 1))) => x = <<s[to + 1]>>
  BY DEF Shown
<1> HIDE DEF F, x
<1>7. F(to) \o <<>> = F(to) /\ F(to) \o <<s[to + 1]>> = Append(F(to), s[to + 1])
  BY <1>1, <1>2
<1>8. CASE s[to + 1] = "backslash" /\ ~Escaped(s, from, to + 1)
  BY <1>5, <1>6, <1>7, <1>8
<1>9. CASE s[to + 1] \in Control
  <2>1. addchar(Cut(F(to)), s[to + 1]) = Cut(F(to)) /\ s[to + 1] # "backslash"
    BY <1>9 DEF addchar, Control
  <2> QED  BY <1>5, <1>6, <1>7, <1>9, <2>1
<1>10. CASE s[to + 1] \notin Control /\ ~(s[to + 1] = "backslash" /\ ~Escaped(s, from, to + 1))
  <2>1. Cut(Append(F(to), s[to + 1])) = addchar(Cut(F(to)), s[to + 1])
    BY <1>1, <1>2, <1>10, CutAppend
  <2> QED  BY <1>5, <1>6, <1>7, <1>10, <2>1
<1> QED  BY <1>8, <1>9, <1>10

-----------------------------------------------------------------------------
(* Where items start *)

\* A word ends behind its beginning, with a character that may end it or with
\* the text, and not before.
Stops(s, i) == IF s[i] = "quote" THEN {"quote"} ELSE Blank \cup {"nl", "hash", "equals"}

LEMMA WordEndIs ==
    ASSUME NEW s \in Seq(Letter), NEW i \in 1..Len(s), IsWord(s, i), s[i] # "equals"
    PROVE  /\ WordStart(s, i) \in i..(i + 1) /\ WordStart(s, i) <= WordEnd(s, i)
           /\ WordEnd(s, i) \in (i + 1)..(Len(s) + 1)
           /\ WordEnd(s, i) <= Len(s) =>
                s[WordEnd(s, i)] \in Stops(s, i) /\ ~Escaped(s, WordStart(s, i), WordEnd(s, i))
           /\ \A k \in WordStart(s, i)..(WordEnd(s, i) - 1) :
                ~(s[k] \in Stops(s, i) /\ ~Escaped(s, WordStart(s, i), k))
           /\ After(s, i) = IF s[i] = "quote" THEN WordEnd(s, i) + 1 ELSE WordEnd(s, i)
<1>1. Len(s) \in Nat /\ i \in Nat /\ i + 1 \in Nat /\ i <= Len(s) + 1 /\ i + 1 <= Len(s) + 1
  OBVIOUS
<1>2. CASE s[i] = "quote"
  <2>1. /\ WordStart(s, i) = i + 1 /\ WordEnd(s, i) = First(s, i + 1, {"quote"})
        /\ Stops(s, i) = {"quote"} /\ After(s, i) = WordEnd(s, i) + 1
    BY <1>2 DEF WordStart, WordEnd, Stops, After, Blank
  <2>2. PICK m \in Nat : m = i + 1
    BY <1>1
  <2>3. m <= Len(s) + 1
    BY <1>1, <2>2
  <2>4. /\ First(s, m, {"quote"}) \in m..(Len(s) + 1)
        /\ First(s, m, {"quote"}) <= Len(s) =>
              /\ s[First(s, m, {"quote"})] \in {"quote"}
              /\ ~Escaped(s, m, First(s, m, {"quote"}))
        /\ \A k \in m..(First(s, m, {"quote"}) - 1) : ~(s[k] \in {"quote"} /\ ~Escaped(s, m, k))
    BY <1>1, <2>3, FirstIs
  <2>5. WordStart(s, i) = m /\ WordEnd(s, i) = First(s, m, {"quote"})
    BY <2>1, <2>2
  <2> QED  BY <1>1, <1>2, <2>1, <2>2, <2>4, <2>5
<1>3. CASE s[i] # "quote"
  <2> DEFINE stops == Blank \cup {"nl", "hash", "equals"}
  <2>1. /\ WordStart(s, i) = i /\ WordEnd(s, i) = First(s, i, stops)
        /\ Stops(s, i) = stops /\ s[i] \notin stops /\ After(s, i) = WordEnd(s, i)
    BY <1>3 DEF WordStart, WordEnd, Stops, After, IsWord, Blank
  <2> HIDE DEF stops
  <2>2. /\ First(s, i, stops) \in i..(Len(s) + 1)
        /\ First(s, i, stops) <= Len(s) =>
              /\ s[First(s, i, stops)] \in stops
              /\ ~Escaped(s, i, First(s, i, stops))
        /\ \A k \in i..(First(s, i, stops) - 1) : ~(s[k] \in stops /\ ~Escaped(s, i, k))
    BY <1>1, FirstIs
  <2>3. First(s, i, stops) # i
    BY <1>1, <2>1, <2>2
  <2> QED  BY <1>1, <1>3, <2>1, <2>2, <2>3
<1> QED  BY <1>2, <1>3

LEMMA CommentEnd ==
    ASSUME NEW s \in Seq(Letter), NEW i \in 1..Len(s), s[i] = "hash"
    PROVE  /\ After(s, i) \in (i + 1)..(Len(s) + 1)
           /\ After(s, i) <= Len(s) => s[After(s, i)] = "nl"
           /\ \A k \in i..(After(s, i) - 1) : s[k] # "nl"
<1> DEFINE T == {k \in i..Len(s) : s[k] = "nl"} \cup {Len(s) + 1}
           e == After(s, i)
<1>1. e = Min(T)
  BY DEF After, Blank
<1>2. T \subseteq Nat /\ T # {} /\ T \subseteq (i + 1)..(Len(s) + 1)
  OBVIOUS
<1>3. /\ \A k \in i..Len(s) : s[k] = "nl" => k \in T
      /\ \A k \in T : k <= Len(s) => s[k] = "nl"
  OBVIOUS
<1> HIDE DEF T
<1>4. e \in T /\ \A y \in T : e <= y
  BY <1>1, <1>2, MinIn
<1> HIDE DEF e
<1>5. e \in (i + 1)..(Len(s) + 1) /\ (e <= Len(s) => s[e] = "nl")
  BY <1>2, <1>3, <1>4
<1>6. ASSUME NEW k \in i..(e - 1) PROVE s[k] # "nl"
  <2>1. k \in i..Len(s) /\ ~(e <= k)
    BY <1>5
  <2> QED  BY <1>3, <1>4, <2>1
<1> QED  BY <1>5, <1>6 DEF e

LEMMA AfterIs ==
    ASSUME NEW s \in Seq(Letter), NEW i \in 1..Len(s)
    PROVE  /\ After(s, i) \in (i + 1)..(Len(s) + 2)
           /\ s[i] \in Blank \cup {"nl", "equals"} => After(s, i) = i + 1
           /\ IsWord(s, i) => WordEnd(s, i) \in i..After(s, i)
<1>0. Len(s) \in Nat
  OBVIOUS
<1>1. CASE s[i] \in Blank \cup {"nl"}
  <2>1. ~IsWord(s, i) /\ After(s, i) = i + 1
    BY <1>1 DEF After, IsWord, Blank
  <2> QED  BY <1>0, <2>1
<1>2. CASE s[i] = "equals"
  <2>1. After(s, i) = i + 1 /\ WordEnd(s, i) = i
    BY <1>2 DEF After, WordEnd, Blank
  <2> QED  BY <1>0, <2>1
<1>3. CASE s[i] = "hash"
  <2>1. ~IsWord(s, i) /\ s[i] \notin Blank \cup {"nl", "equals"}
    BY <1>3 DEF IsWord, Blank
  <2> QED  BY <1>0, <1>3, <2>1, CommentEnd
<1>4. CASE s[i] \notin Blank \cup {"nl", "equals", "hash"}
  <2>1. IsWord(s, i) /\ s[i] # "equals"
    BY <1>4 DEF IsWord
  <2>2. /\ WordEnd(s, i) \in (i + 1)..(Len(s) + 1)
        /\ After(s, i) = IF s[i] = "quote" THEN WordEnd(s, i) + 1 ELSE WordEnd(s, i)
    BY <2>1, WordEndIs
  <2> QED  BY <1>0, <1>4, <2>2
<1> QED  BY <1>1, <1>2, <1>3, <1>4

Reached(s, f, n) == f = [k \in 1..n |-> k = 1 \/ \E i \in 1..(k - 1) : After(s, i) = k /\ f[i]]

LEMMA ReachedExists ==
    ASSUME NEW s, NEW len \in Nat \ {0}
    PROVE  \E f : Reached(s, f, len)
<1> DEFINE T == {n \in 1..len : ~\E f : Reached(s, f, n)}
<1>0. len \in 1..len
  OBVIOUS
<1>1. SUFFICES ASSUME T # {} PROVE FALSE
  BY <1>0
<1>2. PICK n \in T : \A m \in T : n <= m
  <2>1. T \subseteq Nat
    OBVIOUS
  <2> HIDE DEF T
  <2> QED  BY <1>1, <2>1, LeastNumber
<1>3. n \in 1..len /\ ~\E f : Reached(s, f, n)
  OBVIOUS
<1>4. CASE n = 1
  <2> DEFINE h == [k \in 1..1 |-> TRUE]
             V(k) == k = 1 \/ \E i \in 1..(k - 1) : After(s, i) = k /\ h[i]
  <2>0. \A k \in 1..1 : k = 1
    OBVIOUS
  <2>2. \A k \in 1..1 : V(k) = TRUE
    BY <2>0
  <2>1. Reached(s, h, 1)
    <3>1. h = [k \in 1..1 |-> V(k)]
      <4> HIDE DEF V
      <4> QED  BY <2>2
    <3> QED  BY <3>1 DEF Reached
  <2> QED  BY <1>3, <1>4, <2>1
<1>5. CASE n # 1
  <2>1. n - 1 \in 1..len /\ ~(n <= n - 1)
    BY <1>0, <1>3, <1>5
  <2>2. PICK g : Reached(s, g, n - 1)
    BY <1>2, <2>1
  <2> DEFINE e == \E i \in 1..(n - 1) : After(s, i) = n /\ g[i]
             h == [k \in 1..n |-> IF k = n THEN e ELSE g[k]]
             V(k) == k = 1 \/ \E i \in 1..(k - 1) : After(s, i) = k /\ h[i]
  <2>3. ASSUME NEW k \in 1..(n - 1)
        PROVE  g[k] = (k = 1 \/ \E i \in 1..(k - 1) : After(s, i) = k /\ g[i])
    BY <2>2 DEF Reached
  <2>4. \A i \in 1..(n - 1) : h[i] = g[i] /\ i \in 1..n
    <3> HIDE DEF e
    <3> QED  BY <1>3
  <2>5. ASSUME NEW k \in 1..n PROVE h[k] = V(k)
    <3>1. CASE k = n
      <4>1. h[k] = e
        BY <3>1
      <4> HIDE DEF h
      <4> QED  BY <1>5, <2>4, <3>1, <4>1
    <3>2. CASE k # n
      <4>1. k \in 1..(n - 1) /\ \A i \in 1..(k - 1) : i \in 1..(n - 1)
        BY <1>3, <3>2
      <4> HIDE DEF h
      <4>2. h[k] = g[k] /\ \A i \in 1..(k - 1) : h[i] = g[i]
        BY <2>4, <4>1
      <4> QED  BY <2>3, <4>1, <4>2
    <3> QED  BY <3>1, <3>2
  <2>6. h = [k \in 1..n |-> h[k]]
    OBVIOUS
  <2>7. Reached(s, h, n)
    <3> HIDE DEF h
    <3>1. [k \in 1..n |-> h[k]] = [k \in 1..n |-> V(k)]
      <4> HIDE DEF V
      <4> QED  BY <2>5
    <3> QED  BY <2>6, <3>1 DEF Reached
  <2> QED  BY <1>3, <2>7
<1> QED  BY <1>4, <1>5

LEMMA StartsAre ==
    ASSUME NEW s \in Seq(Letter)
    PROVE  /\ Starts(s) \subseteq 1..(Len(s) + 1) /\ 1 \in Starts(s)
           /\ \A i \in Starts(s) : i <= Len(s) /\ After(s, i) <= Len(s) + 1 => After(s, i) \in Starts(s)
           /\ \A k \in Starts(s) : k # 1 => \E i \in Starts(s) : i < k /\ After(s, i) = k
<1> DEFINE len == Len(s) + 1
           f == CHOOSE f : Reached(s, f, len)
<1>1. len \in Nat \ {0} /\ Len(s) \in Nat
  OBVIOUS
<1>2. Reached(s, f, len)
  <2> HIDE DEF len
  <2> QED  BY <1>1, ReachedExists
<1>3. Starts(s) = {k \in 1..len : f[k]}
  BY DEF Starts, Reached
<1> HIDE DEF f, len
<1>4. \A k \in 1..len : f[k] = (k = 1 \/ \E i \in 1..(k - 1) : After(s, i) = k /\ f[i])
  BY <1>2 DEF Reached
<1>5. 1 \in Starts(s) /\ Starts(s) \subseteq 1..len
  <2>1. 1 \in 1..len
    BY <1>1
  <2> QED  BY <1>3, <1>4, <2>1
<1>6. ASSUME NEW i \in Starts(s), i <= Len(s), After(s, i) <= Len(s) + 1 PROVE After(s, i) \in Starts(s)
  <2> DEFINE k == After(s, i)
  <2>1. i \in 1..Len(s) /\ f[i]
    BY <1>1, <1>3, <1>6
  <2>2. k \in (i + 1)..(Len(s) + 2)
    BY <2>1, AfterIs
  <2>3. k = After(s, i) /\ k <= Len(s) + 1
    BY <1>6
  <2> HIDE DEF k
  <2>4. k \in 1..len /\ i \in 1..(k - 1)
    BY <1>1, <2>1, <2>2, <2>3 DEF len
  <2> QED  BY <1>3, <1>4, <2>1, <2>3, <2>4
<1>7. ASSUME NEW k \in Starts(s), k # 1 PROVE \E i \in Starts(s) : i < k /\ After(s, i) = k
  <2>1. k \in 1..len /\ f[k]
    BY <1>3
  <2>2. PICK i \in 1..(k - 1) : After(s, i) = k /\ f[i]
    BY <1>4, <1>7, <2>1
  <2>3. i \in 1..len /\ i < k
    BY <1>1, <2>1
  <2> QED  BY <1>3, <2>2, <2>3
<1> QED  BY <1>5, <1>6, <1>7 DEF len

\* Nothing starts within an item.
LEMMA NoStarts ==
    ASSUME NEW s \in Seq(Letter), NEW i \in Starts(s), NEW k \in Starts(s), i < k
    PROVE  After(s, i) <= k
<1> DEFINE T == {n \in Starts(s) : \E j \in Starts(s) : j < n /\ ~(After(s, j) <= n)}
<1>1. /\ Starts(s) \subseteq 1..(Len(s) + 1) /\ Len(s) \in Nat
      /\ \A n \in Starts(s) : n # 1 => \E j \in Starts(s) : j < n /\ After(s, j) = n
  BY StartsAre
<1>2. ASSUME T # {} PROVE FALSE
  <2>1. PICK n \in T : \A m \in T : n <= m
    <3>1. T \subseteq Nat
      BY <1>1
    <3> HIDE DEF T
    <3> QED  BY <1>2, <3>1, LeastNumber
  <2>2. PICK j \in Starts(s) : j < n /\ ~(After(s, j) <= n)
    OBVIOUS
  <2>3. n \in Starts(s) /\ n \in Nat /\ j \in Nat /\ n # 1
    BY <1>1, <2>2
  <2>4. PICK l \in Starts(s) : l < n /\ After(s, l) = n
    BY <1>1, <2>3
  <2>5. l \in Nat /\ After(s, j) \in Nat
    <3>1. j \in 1..Len(s)
      BY <1>1, <2>2
    <3>2. After(s, j) \in (j + 1)..(Len(s) + 2)
      BY <3>1, AfterIs
    <3> QED  BY <1>1, <3>2
  <2>6. CASE l = j
    BY <2>2, <2>3, <2>4, <2>6
  <2>7. CASE l < j
    <3>1. j \in T
      BY <2>2, <2>3, <2>4, <2>5, <2>7
    <3> QED  BY <2>1, <2>2, <2>3, <3>1
  <2>8. CASE l > j
    <3>1. l \notin T
      BY <2>1, <2>3, <2>4, <2>5
    <3>2. After(s, j) <= l
      BY <2>3, <2>5, <2>8, <3>1
    <3> QED  BY <2>2, <2>3, <2>4, <2>5, <3>2
  <2> QED  BY <2>3, <2>5, <2>6, <2>7, <2>8
<1> QED  BY <1>2

-----------------------------------------------------------------------------
(* Lines *)

LEMMA WordsAre ==
    ASSUME NEW s \in Seq(Letter)
    PROVE  /\ Words(s) \subseteq 1..Len(s) /\ Newlines(s) \subseteq 1..Len(s) /\ Len(s) \in Nat
           /\ \A i \in 1..Len(s) : i \in Words(s) <=> i \in Starts(s) /\ IsWord(s, i)
           /\ \A i \in 1..Len(s) : i \in Newlines(s) <=> i \in Starts(s) /\ s[i] = "nl"
           /\ \A i \in Words(s) : i \notin Newlines(s)
<1>1. Starts(s) \subseteq 1..(Len(s) + 1) /\ Len(s) \in Nat
  BY StartsAre
<1> QED  BY <1>1 DEF Words, Newlines, IsWord

LEMMA WordAtTyped ==
    ASSUME NEW s \in Seq(Letter), NEW i \in Words(s)
    PROVE  WordAt(s, i) \in Seq(Letter)
<1>1. i \in 1..Len(s) /\ IsWord(s, i) /\ Len(s) \in Nat
  BY WordsAre
<1>2. CASE s[i] = "equals"
  BY <1>2 DEF WordAt, Letter
<1>3. CASE s[i] # "equals"
  <2> DEFINE from == WordStart(s, i)
             to == WordEnd(s, i) - 1
  <2>1. from \in i..(i + 1) /\ from <= WordEnd(s, i) /\ WordEnd(s, i) \in (i + 1)..(Len(s) + 1)
    BY <1>1, <1>3, WordEndIs
  <2>2. from \in Nat \ {0} /\ to \in Nat /\ from <= to + 1 /\ to <= Len(s)
    BY <1>1, <2>1
  <2>3. WordAt(s, i) = Meant(s, from, to)
    BY <1>3 DEF WordAt
  <2> HIDE DEF from, to
  <2> QED  BY <2>2, <2>3, MeantTyped
<1> QED  BY <1>2, <1>3

LEMMA EntriesTyped ==
    ASSUME NEW s \in Seq(Letter)
    PROVE  /\ Entries(s) \in Seq(Seq(Seq(Letter))) /\ Len(Entries(s)) = Len(s)
           /\ \A i \in 1..Len(s) : Entries(s)[i] = IF i \in Complete(s) THEN <<WordAt(s, i)>> ELSE <<>>
<1> DEFINE E(i) == IF i \in Complete(s) THEN <<WordAt(s, i)>> ELSE <<>>
           n == Len(s)
           T == Seq(Seq(Letter))
<1>1. Entries(s) = [i \in 1..n |-> E(i)] /\ n \in Nat
  BY DEF Entries
<1>2. ASSUME NEW i \in 1..n PROVE E(i) \in T
  <2>1. CASE i \in Complete(s)
    <3>1. WordAt(s, i) \in Seq(Letter)
      BY <2>1, WordAtTyped DEF Complete
    <3> DEFINE L == Seq(Letter)
               w == WordAt(s, i)
    <3>2. w \in L
      BY <3>1
    <3> HIDE DEF L, w
    <3>3. <<w>> \in Seq(L)
      BY <3>2
    <3> QED  BY <2>1, <3>3 DEF w, L
  <2>2. CASE i \notin Complete(s)
    BY <2>2
  <2> QED  BY <2>1, <2>2
<1> HIDE DEF n, T, E
<1>3. Entries(s) \in Seq(T) /\ Len(Entries(s)) = n /\ \A i \in 1..n : Entries(s)[i] = E(i)
  BY <1>1, <1>2
<1> QED  BY <1>3 DEF n, T, E

\* The line that goes up to k starts behind the newline before.
LEMMA BeginIs ==
    ASSUME NEW s \in Seq(Letter), NEW k \in 1..(Len(s) + 1)
    PROVE  /\ Begin(s, k) \in 1..k
           /\ \A j \in Newlines(s) : j < k => j < Begin(s, k)
<1> DEFINE T == {0} \cup {j \in Newlines(s) : j < k}
<1>1. Newlines(s) \subseteq 1..Len(s) /\ Len(s) \in Nat
  BY WordsAre
<1>2. T \subseteq 0..(k - 1) /\ T # {} /\ k - 1 \in Nat
  BY <1>1
<1>3. \A j \in Newlines(s) : j < k => j \in T
  OBVIOUS
<1>4. Begin(s, k) = Max(T) + 1
  BY DEF Begin
<1> HIDE DEF T
<1>5. Max(T) \in T /\ \A y \in T : Max(T) >= y
  BY <1>2, MaxIn
<1>6. Max(T) \in 0..(k - 1)
  BY <1>2, <1>5
<1>7. ASSUME NEW j \in Newlines(s), j < k PROVE j < Begin(s, k)
  <2>1. Max(T) >= j /\ j \in Nat
    BY <1>1, <1>3, <1>5, <1>7
  <2> QED  BY <1>4, <1>6, <2>1
<1> QED  BY <1>4, <1>6, <1>7

LEMMA LineTyped ==
    ASSUME NEW s \in Seq(Letter), NEW k \in 1..(Len(s) + 1)
    PROVE  LineTo(s, k) \in Seq(Seq(Letter))
<1> DEFINE a == Begin(s, k)
           b == k - 1
           L == Seq(Letter)
<1>1. /\ a \in Nat \ {0} /\ b \in Nat /\ b <= Len(Entries(s)) /\ Entries(s) \in Seq(Seq(L))
  <2>1. Begin(s, k) \in 1..k /\ Len(Entries(s)) = Len(s) /\ Len(s) \in Nat /\ Entries(s) \in Seq(Seq(L))
    BY BeginIs, EntriesTyped
  <2> QED  BY <2>1
<1>2. LineTo(s, k) = FlattenSeq(SubSeq(Entries(s), a, b))
  BY DEF LineTo, WordsIn
<1> HIDE DEF a, b, L
<1>3. FlattenSeq(SubSeq(Entries(s), a, b)) \in Seq(L)
  BY <1>1, PartTyped
<1> QED  BY <1>2, <1>3 DEF L

LEMMA WithinTyped ==
    ASSUME NEW words \in Seq(Seq(Letter))
    PROVE  Within(words) \in Seq(Seq(Letter))
<1> DEFINE L == Seq(Letter)
<1>1. words \in Seq(L) /\ ArgLimit \in Nat
  BY LimitAssumption
<1> HIDE DEF L
<1>2. Within(words) \in Seq(L)
  BY <1>1 DEF Within
<1> QED  BY <1>2 DEF L

LEMMA LineEntriesTyped ==
    ASSUME NEW s \in Seq(Letter)
    PROVE  /\ LineEntries(s) \in Seq(Seq(Seq(Seq(Letter)))) /\ Len(LineEntries(s)) = Len(s)
           /\ \A k \in 1..Len(s) :
                LineEntries(s)[k] = IF k \in Newlines(s) THEN <<Within(LineTo(s, k))>> ELSE <<>>
<1> DEFINE E(i) == IF i \in Newlines(s) THEN <<Within(LineTo(s, i))>> ELSE <<>>
           n == Len(s)
           L == Seq(Seq(Letter))
<1>1. LineEntries(s) = [i \in 1..n |-> E(i)] /\ n \in Nat
  BY DEF LineEntries
<1>2. ASSUME NEW i \in 1..n PROVE E(i) \in Seq(L)
  <2> DEFINE w == Within(LineTo(s, i))
  <2>1. i \in 1..(Len(s) + 1)
    BY <1>1
  <2>2. w \in L
    BY <2>1, LineTyped, WithinTyped
  <2> HIDE DEF w, L
  <2>3. <<w>> \in Seq(L) /\ <<>> \in Seq(L)
    BY <2>2
  <2> QED  BY <2>3 DEF w
<1> HIDE DEF n, L, E
<1>3. LineEntries(s) \in Seq(Seq(L)) /\ Len(LineEntries(s)) = n /\ \A i \in 1..n : LineEntries(s)[i] = E(i)
  <2> DEFINE T == Seq(L)
  <2>1. LineEntries(s) = [i \in 1..n |-> E(i)] /\ \A i \in 1..n : E(i) \in T
    BY <1>1, <1>2
  <2> HIDE DEF T
  <2>2. LineEntries(s) \in Seq(T) /\ Len(LineEntries(s)) = n /\ \A i \in 1..n : LineEntries(s)[i] = E(i)
    BY <1>1, <2>1
  <2> QED  BY <2>2 DEF T
<1> QED  BY <1>3 DEF n, L, E

\* The lines that end before k.
LinesBefore(s, k) == FlattenSeq(SubSeq(LineEntries(s), 1, k - 1))

\* From the start of an item that is no newline to its end.
LEMMA ItemPassed ==
    ASSUME NEW s \in Seq(Letter), NEW i \in Starts(s), i <= Len(s), s[i] # "nl",
           NEW j \in (i + 1)..(Len(s) + 1), j <= After(s, i)
    PROVE  /\ LinesBefore(s, j) = LinesBefore(s, i)
           /\ LineTo(s, j) = LineTo(s, i) \o Entries(s)[i]
           /\ \A k \in Newlines(s) : k < j => k < i
           /\ \A k \in Words(s) : k < j => k <= i
<1> DEFINE L == Seq(Letter)
           M == Seq(Seq(Letter))
           E == Entries(s)
           G == LineEntries(s)
           n == Len(s)
           b == Begin(s, i)
<1>1. n \in Nat /\ i \in 1..n /\ j \in 1..(n + 1) /\ i < j /\ i \in 1..(Len(s) + 1)
  BY StartsAre
<1>2. ASSUME NEW k \in (i + 1)..(j - 1) PROVE k \notin Starts(s)
  <2>1. ASSUME k \in Starts(s) PROVE FALSE
    <3>1. i < k /\ k < j /\ k \in Nat
      BY <1>1
    <3>2. After(s, i) <= k /\ After(s, i) \in (i + 1)..(Len(s) + 2)
      BY <1>1, <2>1, <3>1, NoStarts, AfterIs
    <3> QED  BY <1>1, <3>1, <3>2
  <2> QED  BY <2>1
<1>3. /\ \A k \in Newlines(s) : k < j => k < i
      /\ \A k \in Words(s) : k < j => k <= i
  <2>1. /\ \A k \in Newlines(s) : k \in 1..n /\ k \in Starts(s) /\ s[k] = "nl"
        /\ \A k \in Words(s) : k \in 1..n /\ k \in Starts(s)
    BY WordsAre
  <2> HIDE DEF n
  <2> QED  BY <1>1, <1>2, <2>1
<1>4. E \in Seq(Seq(L)) /\ Len(E) = n /\ \A k \in (i + 1)..(j - 1) : E[k] = <<>>
  <2>1. ASSUME NEW k \in (i + 1)..(j - 1) PROVE k \notin Complete(s) /\ k \in 1..n
    BY <1>1, <1>2 DEF Complete, Words
  <2> QED  BY <2>1, EntriesTyped
<1>5. G \in Seq(Seq(M)) /\ Len(G) = n /\ \A k \in i..(j - 1) : G[k] = <<>>
  <2>1. ASSUME NEW k \in i..(j - 1) PROVE k \notin Newlines(s) /\ k \in 1..n
    <3>1. k \in 1..n /\ k < j /\ ~(k < i)
      BY <1>1
    <3> QED  BY <1>3, <3>1
  <2> QED  BY <2>1, LineEntriesTyped
<1>6. b \in 1..i /\ Begin(s, j) = b
  <2>1. b \in 1..i
    BY <1>1, BeginIs
  <2>2. {k \in Newlines(s) : k < j} = {k \in Newlines(s) : k < i}
    <3>1. \A k \in Newlines(s) : k \in Nat
      BY WordsAre
    <3> QED  BY <1>1, <1>3, <3>1
  <2> QED  BY <2>1, <2>2 DEF Begin
<1>7. /\ LinesBefore(s, j) = FlattenSeq(SubSeq(G, 1, j - 1)) /\ LinesBefore(s, i) = FlattenSeq(SubSeq(G, 1, i - 1))
      /\ LineTo(s, j) = FlattenSeq(SubSeq(E, b, j - 1)) /\ LineTo(s, i) = FlattenSeq(SubSeq(E, b, i - 1))
  BY <1>6 DEF LinesBefore, LineTo, WordsIn
<1> HIDE DEF L, M, E, G, n, b
<1>8. FlattenSeq(SubSeq(G, 1, j - 1)) = FlattenSeq(SubSeq(G, 1, i - 1))
  <2>1. /\ 1 \in Nat \ {0} /\ i - 1 \in Nat /\ j - 1 \in Nat /\ 1 - 1 <= i - 1
        /\ i - 1 <= j - 1 /\ j - 1 <= Len(G) /\ \A k \in ((i - 1) + 1)..(j - 1) : G[k] = <<>>
    BY <1>1, <1>5
  <2> QED  BY <1>5, <2>1, PartSpan, Zenon
<1>9. FlattenSeq(SubSeq(E, b, j - 1)) = FlattenSeq(SubSeq(E, b, i))
  <2>1. /\ b \in Nat \ {0} /\ i \in Nat /\ j - 1 \in Nat /\ b - 1 <= i
        /\ i <= j - 1 /\ j - 1 <= Len(E) /\ \A k \in (i + 1)..(j - 1) : E[k] = <<>>
    BY <1>1, <1>4, <1>6
  <2> QED  BY <1>4, <2>1, PartSpan, Zenon
<1>10. FlattenSeq(SubSeq(E, b, i)) = FlattenSeq(SubSeq(E, b, i - 1)) \o E[i]
  <2>1. b \in 1..Len(E) /\ i \in b..Len(E)
    BY <1>1, <1>4, <1>6
  <2> QED  BY <1>4, <2>1, PartStep, Zenon
<1> QED  BY <1>3, <1>7, <1>8, <1>9, <1>10 DEF E

LEMMA NewlinePassed ==
    ASSUME NEW s \in Seq(Letter), NEW i \in Newlines(s)
    PROVE  /\ i + 1 \in Starts(s) /\ i \in 1..Len(s)
           /\ LinesBefore(s, i + 1) = Append(LinesBefore(s, i), Within(LineTo(s, i)))
           /\ LineTo(s, i + 1) = <<>>
           /\ LinesBefore(s, i) \in Seq(Seq(Seq(Letter)))
<1> DEFINE M == Seq(Seq(Letter))
           G == LineEntries(s)
           n == Len(s)
           w == Within(LineTo(s, i))
<1>1. i \in 1..n /\ n \in Nat /\ i \in Starts(s) /\ s[i] = "nl"
  BY WordsAre
<1>2. After(s, i) = i + 1
  BY <1>1, AfterIs
<1>3. i + 1 \in Starts(s)
  BY <1>1, <1>2, StartsAre
<1>4. G \in Seq(Seq(M)) /\ Len(G) = n /\ G[i] = <<w>> /\ w \in M
  <2>1. i \in 1..(Len(s) + 1)
    BY <1>1
  <2>2. w \in M
    BY <2>1, LineTyped, WithinTyped
  <2> QED  BY <1>1, <2>2, LineEntriesTyped
<1>5. LineTo(s, i + 1) = <<>>
  <2>1. i + 1 \in 1..(Len(s) + 1)
    BY <1>1
  <2>2. Begin(s, i + 1) \in 1..(i + 1) /\ i < Begin(s, i + 1)
    <3>1. PICK k \in 1..(Len(s) + 1) : k = i + 1
      BY <2>1
    <3>2. Begin(s, k) \in 1..k /\ (i < k => i < Begin(s, k))
      BY BeginIs
    <3> QED  BY <1>1, <3>1, <3>2
  <2>3. Begin(s, i + 1) = i + 1 /\ i + 1 \in Nat /\ i \in Int /\ i < i + 1 /\ (i + 1) - 1 = i
    BY <1>1, <2>2
  <2>4. LineTo(s, i + 1) = FlattenSeq(SubSeq(Entries(s), i + 1, i))
    BY <2>3 DEF LineTo, WordsIn
  <2>5. FlattenSeq(SubSeq(Entries(s), i + 1, i)) = <<>>
    BY <2>3, PartNone, Zenon
  <2> QED  BY <2>4, <2>5
<1>6. /\ LinesBefore(s, i + 1) = FlattenSeq(SubSeq(G, 1, i))
      /\ LinesBefore(s, i) = FlattenSeq(SubSeq(G, 1, i - 1))
  <2>1. (i + 1) - 1 = i
    BY <1>1
  <2> QED  BY <2>1 DEF LinesBefore
<1> HIDE DEF M, G, n, w
<1>7. FlattenSeq(SubSeq(G, 1, i)) = FlattenSeq(SubSeq(G, 1, i - 1)) \o G[i]
  <2>1. 1 \in 1..Len(G) /\ i \in 1..Len(G)
    BY <1>1, <1>4
  <2> QED  BY <1>4, <2>1, PartStep, Zenon
<1>8. FlattenSeq(SubSeq(G, 1, i - 1)) \in Seq(M)
  <2>1. 1 \in Nat \ {0} /\ i - 1 \in Nat /\ i - 1 <= Len(G)
    BY <1>1, <1>4
  <2> QED  BY <1>4, <2>1, PartTyped, Zenon
<1> DEFINE f == FlattenSeq(SubSeq(G, 1, i - 1))
<1>9. f \o <<w>> = Append(f, w)
  <2>1. f \in Seq(M) /\ w \in M
    BY <1>4, <1>8
  <2> HIDE DEF f
  <2> QED  BY <2>1
<1> QED  BY <1>1, <1>3, <1>4, <1>5, <1>6, <1>7, <1>8, <1>9 DEF M, w, n

-----------------------------------------------------------------------------
(* Lines that are kept within the limit *)

LEMMA WithinAppend ==
    ASSUME NEW words \in Seq(Seq(Letter)), NEW w \in Seq(Letter), NEW next,
           NEW ctx, ctx.args = Within(words), ctx.word = w
    PROVE  endofword(ctx, next).args = Within(Append(words, w))
<1> DEFINE L == Seq(Letter)
<1>1. words \in Seq(L) /\ w \in L /\ ArgLimit \in Nat /\ Len(words) \in Nat
  BY LimitAssumption
<1>2. endofword(ctx, next).args =
          IF ArgLimit # 0 /\ Len(Within(words)) >= ArgLimit THEN Within(words) ELSE Append(Within(words), w)
  BY DEF endofword
<1> HIDE DEF L
<1>3. Len(Append(words, w)) = Len(words) + 1
  BY <1>1
<1>4. CASE ArgLimit = 0 \/ Len(words) < ArgLimit
  BY <1>1, <1>2, <1>3, <1>4 DEF Within
<1>5. CASE ArgLimit # 0 /\ Len(words) = ArgLimit
  <2>1. SubSeq(Append(words, w), 1, ArgLimit) = words
    BY <1>1, <1>5
  <2>2. Within(words) = words /\ Within(Append(words, w)) = words
    BY <1>1, <1>3, <1>5, <2>1 DEF Within
  <2> QED  BY <1>1, <1>2, <1>5, <2>2
<1>6. CASE ArgLimit # 0 /\ Len(words) > ArgLimit
  <2>1. /\ SubSeq(Append(words, w), 1, ArgLimit) = SubSeq(words, 1, ArgLimit)
        /\ Len(SubSeq(words, 1, ArgLimit)) = ArgLimit
    BY <1>1, <1>6
  <2>2. Within(Append(words, w)) = SubSeq(words, 1, ArgLimit) /\ Within(words) = SubSeq(words, 1, ArgLimit)
    BY <1>1, <1>3, <1>6, <2>1 DEF Within
  <2> QED  BY <1>1, <1>2, <1>6, <2>1, <2>2
<1> QED  BY <1>1, <1>4, <1>5, <1>6

LEMMA WithinNone ==
    ASSUME NEW words \in Seq(Seq(Letter))
    PROVE  Within(words) = <<>> <=> words = <<>>
<1> DEFINE L == Seq(Letter)
<1>1. words \in Seq(L) /\ ArgLimit \in Nat /\ Len(words) \in Nat
  BY LimitAssumption
<1> HIDE DEF L
<1>2. CASE ArgLimit # 0 /\ Len(words) > ArgLimit
  <2>1. Len(SubSeq(words, 1, ArgLimit)) = ArgLimit /\ Len(<<>>) = 0
    BY <1>1, <1>2
  <2>2. Within(words) = SubSeq(words, 1, ArgLimit)
    BY <1>2 DEF Within
  <2> DEFINE v == Within(words)
  <2>3. Len(v) # 0 /\ Len(words) # 0
    BY <1>1, <1>2, <2>1, <2>2
  <2> HIDE DEF v
  <2> QED  BY <2>1, <2>3 DEF v
<1>3. CASE ~(ArgLimit # 0 /\ Len(words) > ArgLimit)
  BY <1>3 DEF Within
<1> QED  BY <1>2, <1>3

-----------------------------------------------------------------------------
(* Where the state machine is in a text *)

\* Within the word that starts at i, what was read up to p is what it means so far.
InWord(s, p, i, ctx) ==
    /\ i \in Words(s) /\ s[i] # "equals" /\ WordEnd(s, i) > p
    /\ ctx.word = Meant(s, WordStart(s, i), p)
    /\ ctx.state = IF s[i] = "quote"
                   THEN IF Escaped(s, WordStart(s, i), p + 1) THEN "QC_LITERAL" ELSE "QUOTECOLLECT"
                   ELSE IF Escaped(s, WordStart(s, i), p + 1) THEN "COLLECTLITERAL" ELSE "COLLECT"

\* Within the comment that starts at i.
InComment(s, p, i, ctx) ==
    /\ s[i] = "hash" /\ \A k \in i..p : s[k] # "nl"
    /\ ctx.state = "FINDEOL" /\ ctx.word = <<>>

\* The item at i is being read, or is the next; the words before it are complete.
InItem(s, p, i, ctx) ==
    /\ i \in Starts(s) /\ \A k \in Words(s) : k < i => WordEnd(s, k) <= p
    /\ ctx.args = Within(LineTo(s, i))
    /\ \/ i = p + 1 /\ ctx.state = "FINDWORDSTART" /\ ctx.word = <<>>
       \/ i <= p /\ (InWord(s, p, i, ctx) \/ InComment(s, p, i, ctx))

\* After the character at q the machine is in the item at i or the next one of
\* the same line, or the line has ended.
Advances(s, q, i, ctx) ==
    \/ /\ ctx.state # "ENDOFLINE"
       /\ \E j \in 1..(Len(s) + 1) :
            /\ InItem(s, q, j, ctx) /\ LinesBefore(s, j) = LinesBefore(s, i)
            /\ \A k \in Newlines(s) : k >= i => k >= j
    \/ /\ ctx.state = "ENDOFLINE" /\ ctx.word = <<>>
       /\ q \in Newlines(s) /\ ctx.args = Within(LineTo(s, q))
       /\ LinesBefore(s, q) = LinesBefore(s, i)
       /\ \A k \in Newlines(s) : k >= i => k >= q
       /\ \A k \in Words(s) : k <= q => WordEnd(s, k) <= q

LEMMA AdvancesFrom ==
    ASSUME NEW s \in Seq(Letter), NEW q, NEW i \in Starts(s), NEW j \in Starts(s), NEW ctx,
           LinesBefore(s, j) = LinesBefore(s, i), \A k \in Newlines(s) : k >= i => k >= j,
           Advances(s, q, j, ctx)
    PROVE  Advances(s, q, i, ctx)
<1>1. CASE ctx.state = "ENDOFLINE"
  BY <1>1 DEF Advances
<1>2. CASE ctx.state # "ENDOFLINE"
  <2>1. PICK l \in 1..(Len(s) + 1) :
            /\ InItem(s, q, l, ctx) /\ LinesBefore(s, l) = LinesBefore(s, j)
            /\ \A k \in Newlines(s) : k >= j => k >= l
    BY <1>2 DEF Advances
  <2> QED  BY <1>2, <2>1 DEF Advances
<1> QED  BY <1>1, <1>2

LEMMA ItemDone ==
    ASSUME NEW s \in Seq(Letter), NEW i \in Starts(s), i <= Len(s), s[i] # "nl",
           NEW j, j = After(s, i), j <= Len(s) + 1
    PROVE  /\ j \in Starts(s) /\ j \in (i + 1)..(Len(s) + 1)
           /\ LinesBefore(s, j) = LinesBefore(s, i)
           /\ \A k \in Newlines(s) : k >= i => k >= j
           /\ \A k \in Words(s) : k < j => k <= i
           /\ LineTo(s, j) = IF i \in Complete(s) THEN Append(LineTo(s, i), WordAt(s, i)) ELSE LineTo(s, i)
<1>1. i \in 1..Len(s) /\ Len(s) \in Nat /\ i \in 1..(Len(s) + 1)
  BY StartsAre
<1>2. j \in Starts(s)
  BY StartsAre
<1>3. j \in (i + 1)..(Len(s) + 1) /\ j <= After(s, i)
  <2>1. j \in (i + 1)..(Len(s) + 2)
    BY <1>1, AfterIs
  <2> QED  BY <1>1, <2>1
<1>4. /\ LinesBefore(s, j) = LinesBefore(s, i)
      /\ LineTo(s, j) = LineTo(s, i) \o Entries(s)[i]
      /\ \A k \in Newlines(s) : k < j => k < i
      /\ \A k \in Words(s) : k < j => k <= i
  BY <1>3, ItemPassed
<1>5. \A k \in Newlines(s) : k >= i => k >= j
  <2>1. \A k \in Newlines(s) : k \in Nat
    BY WordsAre
  <2> QED  BY <1>1, <1>3, <1>4, <2>1
<1>6. Entries(s)[i] = IF i \in Complete(s) THEN <<WordAt(s, i)>> ELSE <<>>
  BY <1>1, EntriesTyped
<1> DEFINE L == Seq(Letter)
           f == LineTo(s, i)
           w == WordAt(s, i)
<1>7. f \in Seq(L) /\ (i \in Complete(s) => w \in L)
  BY <1>1, LineTyped, WordAtTyped DEF Complete
<1> HIDE DEF L, f, w
<1>8. f \o <<>> = f /\ (i \in Complete(s) => f \o <<w>> = Append(f, w))
  BY <1>7
<1> QED  BY <1>2, <1>3, <1>4, <1>5, <1>6, <1>8 DEF f, w

LEMMA StartStep ==
    ASSUME NEW s \in Seq(Letter), NEW q \in 1..Len(s), q \in Starts(s),
           \A k \in Words(s) : k < q => WordEnd(s, k) <= q,
           NEW ctx, IsContext(ctx), ctx.word = <<>>, ctx.args = Within(LineTo(s, q))
    PROVE  Advances(s, q, q, findwordstart(ctx, s[q]))
<1> DEFINE r == findwordstart(ctx, s[q])
<1>0. Len(s) \in Nat /\ q \in Nat /\ q \in 1..(Len(s) + 1) /\ s[q] \in Letter
  OBVIOUS
<1>1. ASSUME NEW next \in States
      PROVE  /\ Goto(ctx, next).state = next /\ Goto(ctx, next).word = <<>>
             /\ Goto(ctx, next).args = Within(LineTo(s, q))
  BY DEF Goto, IsContext
<1>2. ASSUME NEW j \in 1..(Len(s) + 1), InItem(s, q, j, r), LinesBefore(s, j) = LinesBefore(s, q),
             \A k \in Newlines(s) : k >= q => k >= j, r.state # "ENDOFLINE"
      PROVE  Advances(s, q, q, r)
  BY <1>2 DEF Advances
<1> DEFINE k0 == Keep(ctx, s[q], "COLLECT")
<1>3. /\ k0.word = addchar(<<>>, s[q]) /\ k0.state = "COLLECT" /\ k0.args = Within(LineTo(s, q))
      /\ IsContext(k0)
  <2>1. <<>> \in Seq(Letter) /\ addchar(<<>>, s[q]) \in Seq(Letter)
    BY <1>0 DEF addchar
  <2> QED  BY <2>1 DEF Keep, IsContext, States
<1> HIDE DEF r, k0
<1>4. CASE s[q] = "nl"
  <2>1. r = Goto(ctx, "ENDOFLINE")
    BY <1>4 DEF r, findwordstart, Blank
  <2>2. q \in Newlines(s) /\ q \notin Words(s)
    BY <1>4, WordsAre
  <2>3. r.state = "ENDOFLINE" /\ r.word = <<>> /\ r.args = Within(LineTo(s, q))
    BY <1>1, <2>1 DEF States
  <2>4. \A k \in Words(s) : k <= q => WordEnd(s, k) <= q
    <3>1. \A k \in Words(s) : k \in Nat
      BY WordsAre
    <3> QED  BY <1>0, <2>2, <3>1
  <2> QED  BY <2>2, <2>3, <2>4 DEF Advances, r
<1>5. CASE s[q] = "hash"
  <2>1. r = Goto(ctx, "FINDEOL")
    BY <1>5 DEF r, findwordstart, Blank
  <2>2. r.state = "FINDEOL" /\ r.word = <<>> /\ r.args = Within(LineTo(s, q))
    BY <1>1, <2>1 DEF States
  <2>3. InComment(s, q, q, r)
    BY <1>0, <1>5, <2>2 DEF InComment
  <2>4. InItem(s, q, q, r)
    BY <1>0, <2>2, <2>3 DEF InItem
  <2> QED  BY <1>0, <1>2, <2>2, <2>4 DEF r
<1>6. CASE s[q] \in Blank
  <2>1. r = Goto(ctx, "FINDWORDSTART")
    BY <1>6 DEF r, findwordstart, Blank
  <2>2. r.state = "FINDWORDSTART" /\ r.word = <<>> /\ r.args = Within(LineTo(s, q))
    BY <1>1, <2>1 DEF States
  <2>3. After(s, q) = q + 1 /\ q + 1 <= Len(s) + 1 /\ s[q] # "nl" /\ ~IsWord(s, q) /\ q <= Len(s)
    BY <1>0, <1>6, AfterIs DEF Blank, IsWord
  <2>4. q \notin Complete(s) /\ q \notin Words(s)
    BY <2>3 DEF Complete, Words
  <2>5. PICK j : j = q + 1
    OBVIOUS
  <2>6. /\ j \in Starts(s) /\ j \in (q + 1)..(Len(s) + 1)
        /\ LinesBefore(s, j) = LinesBefore(s, q)
        /\ \A k \in Newlines(s) : k >= q => k >= j
        /\ \A k \in Words(s) : k < j => k <= q
        /\ LineTo(s, j) = LineTo(s, q)
    BY <2>3, <2>4, <2>5, ItemDone
  <2>7. InItem(s, q, j, r)
    <3>1. \A k \in Words(s) : k < j => WordEnd(s, k) <= q
      <4>1. \A k \in Words(s) : k \in Nat
        BY WordsAre
      <4> QED  BY <1>0, <2>4, <2>6, <4>1
    <3> QED  BY <2>2, <2>5, <2>6, <3>1 DEF InItem
  <2> QED  BY <1>0, <1>2, <2>2, <2>6, <2>7 DEF r
<1>7. CASE s[q] = "equals"
  <2>1. r = endofword(k0, "FINDWORDSTART")
    BY <1>7 DEF r, k0, findwordstart, Blank
  <2>2. k0.word = <<"equals">>
    <3>1. WordLenLimit \in Nat /\ Len(<<>>) = 0
      BY LimitAssumption
    <3>2. addchar(<<>>, "equals") = Append(<<>>, "equals")
      BY <3>1 DEF addchar, Control
    <3> QED  BY <1>3, <1>7, <3>2
  <2>3. /\ After(s, q) = q + 1 /\ q + 1 <= Len(s) + 1 /\ s[q] # "nl" /\ IsWord(s, q) /\ q <= Len(s)
        /\ WordEnd(s, q) = q /\ WordAt(s, q) = <<"equals">>
    BY <1>0, <1>7, AfterIs DEF Blank, IsWord, WordEnd, WordAt
  <2>4. q \in Complete(s) /\ q \in Words(s)
    BY <2>3 DEF Complete, Words
  <2>5. PICK j : j = q + 1
    OBVIOUS
  <2>6. /\ j \in Starts(s) /\ j \in (q + 1)..(Len(s) + 1)
        /\ LinesBefore(s, j) = LinesBefore(s, q)
        /\ \A k \in Newlines(s) : k >= q => k >= j
        /\ \A k \in Words(s) : k < j => k <= q
        /\ LineTo(s, j) = Append(LineTo(s, q), <<"equals">>)
    BY <2>3, <2>4, <2>5, ItemDone
  <2>7. r.state = "FINDWORDSTART" /\ r.word = <<>> /\ r.args = Within(LineTo(s, j))
    <3>1. LineTo(s, q) \in Seq(Seq(Letter)) /\ <<"equals">> \in Seq(Letter)
      BY <1>0, <2>3, LineTyped, WordAtTyped, <2>4
    <3>2. r.args = Within(Append(LineTo(s, q), <<"equals">>))
      BY <1>3, <2>1, <2>2, <3>1, WithinAppend
    <3> QED  BY <2>1, <2>6, <3>2 DEF endofword
  <2>8. InItem(s, q, j, r)
    <3>1. \A k \in Words(s) : k < j => WordEnd(s, k) <= q
      <4>1. \A k \in Words(s) : k \in Nat
        BY WordsAre
      <4> QED  BY <1>0, <2>3, <2>6, <4>1
    <3> QED  BY <2>5, <2>6, <2>7, <3>1 DEF InItem
  <2> QED  BY <1>0, <1>2, <2>6, <2>7, <2>8 DEF r
<1>8. CASE s[q] \notin Blank \cup {"nl", "hash", "equals"}
  <2>1. IsWord(s, q) /\ s[q] # "equals" /\ q \in Words(s)
    BY <1>8, WordsAre DEF IsWord
  <2>2. WordEnd(s, q) > q /\ WordStart(s, q) \in Nat
    <3>1. WordEnd(s, q) \in (q + 1)..(Len(s) + 1) /\ WordStart(s, q) \in q..(q + 1)
      BY <2>1, WordEndIs
    <3> QED  BY <1>0, <3>1
  <2>3. InWord(s, q, q, r) /\ r.args = Within(LineTo(s, q)) /\ r.state # "ENDOFLINE"
    <3>1. CASE s[q] = "quote"
      <4>1. r = Goto(ctx, "QUOTECOLLECT")
        BY <3>1 DEF r, findwordstart, Blank
      <4>2. r.state = "QUOTECOLLECT" /\ r.word = <<>> /\ r.args = Within(LineTo(s, q))
        BY <1>1, <4>1 DEF States
      <4>3. PICK m \in Nat \ {0} : m = q + 1
        BY <1>0
      <4>4. WordStart(s, q) = m /\ m - 1 = q
        BY <1>0, <3>1, <4>3 DEF WordStart
      <4>5. Meant(s, m, m - 1) = <<>> /\ ~Escaped(s, m, m)
        BY MeantNone, EscapedFirst
      <4>6. Meant(s, WordStart(s, q), q) = <<>> /\ ~Escaped(s, WordStart(s, q), q + 1)
        BY <4>3, <4>4, <4>5
      <4> QED  BY <2>1, <2>2, <3>1, <4>2, <4>6 DEF InWord
    <3>2. CASE s[q] # "quote"
      <4>1. WordStart(s, q) = q /\ q \in Nat \ {0} /\ q - 1 \in Nat /\ q <= (q - 1) + 1 /\ q - 1 < Len(s) /\ (q - 1) + 1 = q
        BY <1>0, <3>2 DEF WordStart
      <4>2. ~Escaped(s, q, q) /\ Meant(s, q, q - 1) = <<>>
        BY <4>1, EscapedFirst, MeantNone
      <4>3. Meant(s, q, q) = IF s[q] = "backslash" THEN <<>> ELSE addchar(<<>>, s[q])
        <5>1. PICK t \in Nat : t = q - 1
          BY <4>1
        <5>2. Meant(s, q, t + 1) =
                 IF s[t + 1] = "backslash" /\ ~Escaped(s, q, t + 1) THEN Meant(s, q, t)
                 ELSE addchar(Meant(s, q, t), s[t + 1])
          BY <4>1, <5>1, MeantMore
        <5>3. t + 1 = q
          BY <4>1, <5>1
        <5> QED  BY <4>2, <5>1, <5>2, <5>3
      <4>4. Escaped(s, q, q + 1) <=> s[q] = "backslash"
        <5>1. q \in Nat /\ q <= q
          BY <4>1
        <5> QED  BY <4>2, <5>1, EscapedNext, Zenon
      <4>5. CASE s[q] = "backslash"
        <5>1. r = Goto(ctx, "COLLECTLITERAL")
          BY <4>5 DEF r, findwordstart, Blank
        <5>2. r.state = "COLLECTLITERAL" /\ r.word = <<>> /\ r.args = Within(LineTo(s, q))
          BY <1>1, <5>1 DEF States
        <5> QED  BY <2>1, <2>2, <3>2, <4>1, <4>3, <4>4, <4>5, <5>2 DEF InWord
      <4>6. CASE s[q] # "backslash"
        <5>1. r = k0
          BY <1>8, <3>2, <4>6 DEF r, k0, findwordstart, Blank
        <5> QED  BY <1>3, <2>1, <2>2, <3>2, <4>1, <4>3, <4>4, <4>6, <5>1 DEF InWord
      <4> QED  BY <4>5, <4>6
    <3> QED  BY <3>1, <3>2
  <2>4. InItem(s, q, q, r)
    BY <1>0, <2>3 DEF InItem
  <2> QED  BY <1>0, <1>2, <2>3, <2>4 DEF r
<1> QED  BY <1>4, <1>5, <1>6, <1>7, <1>8 DEF r

LEMMA EndIsContext ==
    ASSUME NEW ctx, IsContext(ctx), NEW next \in States
    PROVE  IsContext(endofword(ctx, next))
<1> DEFINE L == Seq(Letter)
           a == endofword(ctx, next).args
<1>1. ctx.args \in Seq(L) /\ ctx.word \in L
  BY DEF IsContext
<1>2. a \in Seq(L)
  <2>1. a = ctx.args \/ a = Append(ctx.args, ctx.word)
    BY DEF endofword
  <2> HIDE DEF a, L
  <2> QED  BY <1>1, <2>1
<1>3. endofword(ctx, next) = [state |-> next, word |-> <<>>, args |-> a]
  BY DEF endofword
<1>4. <<>> \in Seq(Letter)
  OBVIOUS
<1> HIDE DEF a
<1> QED  BY <1>2, <1>3, <1>4 DEF IsContext, L

LEMMA WordStep ==
    ASSUME NEW s \in Seq(Letter), NEW p \in Nat, NEW q \in 1..Len(s), q = p + 1,
           NEW i \in Starts(s), i <= p, \A k \in Words(s) : k < i => WordEnd(s, k) <= p,
           NEW ctx, IsContext(ctx), ctx.args = Within(LineTo(s, i)), InWord(s, p, i, ctx)
    PROVE  Advances(s, q, i, parse_char(ctx, s[q]))
<1> DEFINE from == WordStart(s, i)
           e == WordEnd(s, i)
           r == parse_char(ctx, s[q])
           esc == Escaped(s, from, q)
<1>0. /\ Len(s) \in Nat /\ q \in Nat /\ s[q] \in Letter /\ i \in 1..Len(s) /\ i \in 1..(Len(s) + 1)
      /\ i \in Words(s) /\ IsWord(s, i) /\ s[i] # "equals" /\ s[i] # "nl" /\ \A k \in Words(s) : k \in Nat
  BY WordsAre, StartsAre DEF InWord, IsWord
<1>1. /\ e > p /\ ctx.word = Meant(s, from, p)
      /\ s[i] = "quote" /\ esc => ctx.state = "QC_LITERAL"
      /\ s[i] = "quote" /\ ~esc => ctx.state = "QUOTECOLLECT"
      /\ s[i] # "quote" /\ esc => ctx.state = "COLLECTLITERAL"
      /\ s[i] # "quote" /\ ~esc => ctx.state = "COLLECT"
  BY DEF InWord
<1>2. /\ from \in i..(i + 1) /\ from <= e /\ e \in (i + 1)..(Len(s) + 1)
      /\ e <= Len(s) => s[e] \in Stops(s, i) /\ ~Escaped(s, from, e)
      /\ \A k \in from..(e - 1) : ~(s[k] \in Stops(s, i) /\ ~Escaped(s, from, k))
      /\ After(s, i) = IF s[i] = "quote" THEN e + 1 ELSE e
  BY <1>0, WordEndIs
<1> HIDE DEF from, e, r, esc
<1>3. from \in Nat \ {0} /\ from <= q /\ from <= p + 1 /\ p < Len(s) /\ e >= q /\ e \in Nat
  BY <1>0, <1>1, <1>2
<1>4. e = q <=> s[q] \in Stops(s, i) /\ ~esc
  <2>1. CASE e = q
    BY <1>0, <1>2, <2>1 DEF esc
  <2>2. CASE e # q
    <3>1. q \in from..(e - 1)
      BY <1>0, <1>3, <2>2
    <3> QED  BY <1>2, <2>2, <3>1 DEF esc
  <2> QED  BY <2>1, <2>2
<1>5. Meant(s, from, q) =
          IF s[q] = "backslash" /\ ~esc THEN ctx.word ELSE addchar(ctx.word, s[q])
  <2>1. Meant(s, from, p + 1) =
            IF s[p + 1] = "backslash" /\ ~Escaped(s, from, p + 1)
            THEN Meant(s, from, p) ELSE addchar(Meant(s, from, p), s[p + 1])
    BY <1>3, MeantMore
  <2> QED  BY <1>1, <2>1 DEF esc
<1>6. Escaped(s, from, q + 1) <=> s[q] = "backslash" /\ ~esc
  BY <1>0, <1>3, EscapedNext, Zenon DEF esc
<1>7. /\ \A next \in States : /\ Goto(ctx, next).state = next /\ Goto(ctx, next).word = ctx.word
                              /\ Goto(ctx, next).args = ctx.args
      /\ \A next \in States : /\ Keep(ctx, s[q], next).state = next
                              /\ Keep(ctx, s[q], next).word = addchar(ctx.word, s[q])
                              /\ Keep(ctx, s[q], next).args = ctx.args
  BY DEF Goto, Keep, IsContext
<1>8. CASE e # q
  <2>1. ~(s[q] \in Stops(s, i) /\ ~esc) /\ e > q
    BY <1>0, <1>3, <1>4, <1>8
  <2>2. /\ r.args = ctx.args /\ r.word = Meant(s, from, q) /\ r.state # "ENDOFLINE"
        /\ r.state = IF s[i] = "quote"
                     THEN IF Escaped(s, from, q + 1) THEN "QC_LITERAL" ELSE "QUOTECOLLECT"
                     ELSE IF Escaped(s, from, q + 1) THEN "COLLECTLITERAL" ELSE "COLLECT"
    <3>1. CASE esc
      <4>1. CASE s[i] = "quote"
        <5>1. r = Keep(ctx, s[q], "QUOTECOLLECT")
          BY <1>1, <3>1, <4>1 DEF r, parse_char, qc_literal
        <5> QED  BY <1>5, <1>6, <1>7, <3>1, <4>1, <5>1 DEF States
      <4>2. CASE s[i] # "quote"
        <5>1. r = Keep(ctx, s[q], "COLLECT")
          BY <1>1, <3>1, <4>2 DEF r, parse_char, collectliteral
        <5> QED  BY <1>5, <1>6, <1>7, <3>1, <4>2, <5>1 DEF States
      <4> QED  BY <4>1, <4>2
    <3>2. CASE ~esc /\ s[q] = "backslash"
      <4>1. CASE s[i] = "quote"
        <5>1. r = Goto(ctx, "QC_LITERAL")
          BY <1>1, <3>2, <4>1 DEF r, parse_char, quotecollect
        <5> QED  BY <1>5, <1>6, <1>7, <3>2, <4>1, <5>1 DEF States
      <4>2. CASE s[i] # "quote"
        <5>1. r = Goto(ctx, "COLLECTLITERAL")
          BY <1>1, <3>2, <4>2 DEF r, parse_char, collect, Blank
        <5> QED  BY <1>5, <1>6, <1>7, <3>2, <4>2, <5>1 DEF States
      <4> QED  BY <4>1, <4>2
    <3>3. CASE ~esc /\ s[q] # "backslash"
      <4>1. CASE s[i] = "quote"
        <5>1. r = Keep(ctx, s[q], "QUOTECOLLECT")
          BY <1>1, <2>1, <3>3, <4>1 DEF r, parse_char, quotecollect, Stops
        <5> QED  BY <1>5, <1>6, <1>7, <3>3, <4>1, <5>1 DEF States
      <4>2. CASE s[i] # "quote"
        <5>1. r = Keep(ctx, s[q], "COLLECT")
          BY <1>1, <2>1, <3>3, <4>2 DEF r, parse_char, collect, Blank, Stops
        <5> QED  BY <1>5, <1>6, <1>7, <3>3, <4>2, <5>1 DEF States
      <4> QED  BY <4>1, <4>2
    <3> QED  BY <3>1, <3>2, <3>3
  <2>3. InWord(s, q, i, r)
    BY <1>0, <2>1, <2>2 DEF InWord, from, e
  <2>4. InItem(s, q, i, r)
    <3>1. \A k \in Words(s) : k < i => WordEnd(s, k) <= q
      <4>1. \A k \in Words(s) : WordEnd(s, k) \in Int
        <5> TAKE k \in Words(s)
        <5>1. k \in 1..Len(s) /\ IsWord(s, k)
          BY WordsAre
        <5>2. After(s, k) \in (k + 1)..(Len(s) + 2) /\ WordEnd(s, k) \in k..After(s, k)
          BY <5>1, AfterIs
        <5> QED  BY <5>1, <5>2
      <4> QED  BY <1>0, <4>1
    <3>2. i <= q
      BY <1>0
    <3> QED  BY <2>2, <2>3, <3>1, <3>2 DEF InItem
  <2> QED  BY <1>0, <2>2, <2>4 DEF Advances, r
<1>9. CASE e = q
  <2>1. i \in Complete(s) /\ s[q] \in Stops(s, i) /\ ~esc
    BY <1>0, <1>4, <1>9 DEF Complete, e
  <2>2. WordAt(s, i) = ctx.word
    <3>1. e - 1 = p
      BY <1>0, <1>9
    <3> QED  BY <1>0, <1>1, <3>1 DEF WordAt, from, e
  <2> DEFINE c == endofword(ctx, "FINDWORDSTART")
  <2>3. /\ IsContext(c) /\ c.word = <<>> /\ c.state = "FINDWORDSTART"
        /\ c.args = Within(Append(LineTo(s, i), ctx.word))
    <3>1. LineTo(s, i) \in Seq(Seq(Letter)) /\ ctx.word \in Seq(Letter)
      BY <1>0, LineTyped DEF IsContext
    <3>2. c.args = Within(Append(LineTo(s, i), ctx.word))
      BY <3>1, WithinAppend
    <3>3. IsContext(c)
      BY EndIsContext DEF States
    <3> QED  BY <3>2, <3>3 DEF endofword
  <2>4. PICK j : j = After(s, i)
    OBVIOUS
  <2>5. j = IF s[i] = "quote" THEN q + 1 ELSE q
    BY <1>2, <1>9, <2>4
  <2>6. /\ j \in Starts(s) /\ j \in (i + 1)..(Len(s) + 1)
        /\ LinesBefore(s, j) = LinesBefore(s, i)
        /\ \A k \in Newlines(s) : k >= i => k >= j
        /\ \A k \in Words(s) : k < j => k <= i
        /\ LineTo(s, j) = Append(LineTo(s, i), WordAt(s, i))
    <3>1. j <= Len(s) + 1 /\ i <= Len(s)
      BY <1>0, <2>5
    <3> QED  BY <1>0, <2>1, <2>4, <3>1, ItemDone
  <2>7. \A k \in Words(s) : k < j => WordEnd(s, k) <= q
    <3> TAKE k \in Words(s)
    <3>1. CASE k = i
      BY <1>9, <1>0, <3>1 DEF e
    <3>2. CASE k # i /\ k < j
      <4>1. k \in 1..Len(s) /\ IsWord(s, k)
        BY WordsAre
      <4>2. After(s, k) \in (k + 1)..(Len(s) + 2) /\ WordEnd(s, k) \in k..After(s, k)
        BY <4>1, AfterIs
      <4>3. k < i
        BY <1>0, <2>6, <3>2
      <4>4. WordEnd(s, k) <= p /\ WordEnd(s, k) \in Int
        BY <4>1, <4>2, <4>3
      <4> QED  BY <1>0, <4>4
    <3> QED  BY <3>1, <3>2
  <2>8. c.args = Within(LineTo(s, j))
    BY <2>2, <2>3, <2>6
  <2>9. CASE s[i] = "quote"
    <3>1. r = c
      BY <1>1, <2>1, <2>9 DEF r, parse_char, quotecollect, Stops
    <3> HIDE DEF c
    <3>2. InItem(s, q, j, r)
      BY <2>3, <2>5, <2>6, <2>7, <2>8, <2>9, <3>1 DEF InItem
    <3>3. j \in 1..(Len(s) + 1)
      BY <1>0, <2>6
    <3> QED  BY <2>3, <2>6, <3>1, <3>2, <3>3 DEF Advances, r
  <2>10. CASE s[i] # "quote"
    <3>1. r = findwordstart(c, s[q])
      <4>1. s[q] \in Blank \cup {"nl", "hash", "equals"} /\ ctx.state = "COLLECT"
        BY <1>1, <2>1, <2>10 DEF Stops
      <4>2. r = collect(ctx, s[q])
        BY <4>1 DEF r, parse_char
      <4>3. /\ endofword(ctx, "FINDEOL") = Goto(c, "FINDEOL")
            /\ endofword(ctx, "ENDOFLINE") = Goto(c, "ENDOFLINE")
            /\ endofword(ctx, "FINDWORDSTART") = Goto(c, "FINDWORDSTART")
        <5> DEFINE a == IF ArgLimit # 0 /\ Len(ctx.args) >= ArgLimit
                        THEN ctx.args ELSE Append(ctx.args, ctx.word)
        <5>1. \A next : endofword(ctx, next) = [state |-> next, word |-> <<>>, args |-> a]
          BY DEF endofword
        <5> HIDE DEF a
        <5> QED  BY <5>1 DEF Goto
      <4> HIDE DEF c
      <4> QED  BY <4>1, <4>2, <4>3 DEF collect, findwordstart, Blank, c
    <3> HIDE DEF c
    <3>2. j = q
      BY <2>5, <2>10
    <3>3. Advances(s, q, q, findwordstart(c, s[q]))
      BY <2>3, <2>6, <2>7, <2>8, <3>2, StartStep
    <3> QED  BY <2>6, <3>1, <3>2, <3>3, AdvancesFrom DEF r
  <2> QED  BY <2>9, <2>10
<1> QED  BY <1>8, <1>9

LEMMA CommentStep ==
    ASSUME NEW s \in Seq(Letter), NEW p \in Nat, NEW q \in 1..Len(s), q = p + 1,
           NEW i \in Starts(s), i <= p, \A k \in Words(s) : k < i => WordEnd(s, k) <= p,
           NEW ctx, IsContext(ctx), ctx.args = Within(LineTo(s, i)), InComment(s, p, i, ctx)
    PROVE  Advances(s, q, i, parse_char(ctx, s[q]))
<1> DEFINE r == parse_char(ctx, s[q])
<1>0. /\ Len(s) \in Nat /\ q \in Nat /\ i \in 1..Len(s) /\ i \in 1..(Len(s) + 1) /\ i <= Len(s)
      /\ \A k \in Words(s) : k \in Nat
  BY WordsAre, StartsAre
<1>1. /\ s[i] = "hash" /\ s[i] # "nl" /\ ctx.state = "FINDEOL" /\ ctx.word = <<>>
      /\ \A k \in i..p : s[k] # "nl"
  BY DEF InComment
<1>2. r = Goto(ctx, IF s[q] = "nl" THEN "ENDOFLINE" ELSE "FINDEOL")
  BY <1>1 DEF parse_char, findeol
<1>3. \A next \in States : /\ Goto(ctx, next).state = next /\ Goto(ctx, next).word = ctx.word
                           /\ Goto(ctx, next).args = ctx.args
  BY DEF Goto, IsContext
<1> HIDE DEF r
<1>4. i \notin Words(s) /\ i \notin Complete(s)
  BY <1>1 DEF Complete, Words, IsWord
<1>5. \A k \in Words(s) : k < i => WordEnd(s, k) <= q
  <2> TAKE k \in Words(s)
  <2>1. k \in 1..Len(s) /\ IsWord(s, k)
    BY WordsAre
  <2>2. After(s, k) \in (k + 1)..(Len(s) + 2) /\ WordEnd(s, k) \in k..After(s, k)
    BY <2>1, AfterIs
  <2>3. WordEnd(s, k) \in Int
    BY <2>1, <2>2
  <2> QED  BY <1>0, <2>3
<1>6. CASE s[q] # "nl"
  <2>1. r.state = "FINDEOL" /\ r.word = <<>> /\ r.args = ctx.args
    BY <1>1, <1>2, <1>3, <1>6 DEF States
  <2>2. InComment(s, q, i, r)
    <3>1. \A k \in i..q : k \in i..p \/ k = q
      BY <1>0
    <3> QED  BY <1>1, <1>6, <2>1, <3>1 DEF InComment
  <2>3. InItem(s, q, i, r)
    BY <1>0, <1>5, <2>1, <2>2 DEF InItem
  <2> QED  BY <1>0, <2>1, <2>3 DEF Advances, r
<1>7. CASE s[q] = "nl"
  <2>1. q = After(s, i)
    <3> DEFINE e == After(s, i)
    <3>1. /\ e \in (i + 1)..(Len(s) + 1) /\ (e <= Len(s) => s[e] = "nl")
          /\ \A k \in i..(e - 1) : s[k] # "nl"
      BY <1>0, <1>1, CommentEnd
    <3> HIDE DEF e
    <3>2. ~(e < q)
      <4>1. e < q => e \in i..p /\ e <= Len(s)
        BY <1>0, <3>1
      <4> QED  BY <1>1, <3>1, <4>1
    <3>3. ~(e > q)
      <4>1. e > q => q \in i..(e - 1)
        BY <1>0, <3>1
      <4> QED  BY <1>7, <3>1, <4>1
    <3>4. e = q
      BY <1>0, <3>1, <3>2, <3>3
    <3> QED  BY <3>4 DEF e
  <2>2. /\ q \in Starts(s)
        /\ LinesBefore(s, q) = LinesBefore(s, i)
        /\ \A k \in Newlines(s) : k >= i => k >= q
        /\ \A k \in Words(s) : k < q => k <= i
        /\ LineTo(s, q) = LineTo(s, i)
    <3>1. q <= Len(s) + 1
      BY <1>0
    <3> QED  BY <1>0, <1>1, <1>4, <2>1, <3>1, ItemDone
  <2>3. r = findwordstart(ctx, s[q])
    BY <1>2, <1>7 DEF findwordstart, Blank
  <2>4. \A k \in Words(s) : k < q => WordEnd(s, k) <= q
    BY <1>0, <1>4, <1>5, <2>2
  <2>5. Advances(s, q, q, findwordstart(ctx, s[q]))
    BY <1>1, <2>2, <2>4, StartStep
  <2> QED  BY <2>2, <2>3, <2>5, AdvancesFrom DEF r
<1> QED  BY <1>6, <1>7

LEMMA ReadStep ==
    ASSUME NEW s \in Seq(Letter), NEW p \in Nat, NEW q \in 1..Len(s), q = p + 1,
           NEW i, NEW ctx, IsContext(ctx), InItem(s, p, i, ctx)
    PROVE  Advances(s, q, i, parse_char(ctx, s[q]))
<1>1. /\ i \in Starts(s) /\ \A k \in Words(s) : k < i => WordEnd(s, k) <= p
      /\ ctx.args = Within(LineTo(s, i))
  BY DEF InItem
<1>2. CASE i <= p
  <2>1. InWord(s, p, i, ctx) \/ InComment(s, p, i, ctx)
    BY <1>2 DEF InItem
  <2> QED  BY <1>1, <1>2, <2>1, WordStep, CommentStep
<1>3. CASE ~(i <= p)
  <2>1. i = q /\ ctx.state = "FINDWORDSTART" /\ ctx.word = <<>>
    BY <1>3 DEF InItem
  <2>2. parse_char(ctx, s[q]) = findwordstart(ctx, s[q])
    BY <2>1 DEF parse_char
  <2>3. \A k \in Words(s) : k < q => WordEnd(s, k) <= q
    <3> TAKE k \in Words(s)
    <3>1. k \in 1..Len(s) /\ IsWord(s, k) /\ Len(s) \in Nat
      BY WordsAre
    <3>2. After(s, k) \in (k + 1)..(Len(s) + 2) /\ WordEnd(s, k) \in k..After(s, k)
      BY <3>1, AfterIs
    <3>3. WordEnd(s, k) \in Int
      BY <3>1, <3>2
    <3> QED  BY <1>1, <2>1, <3>3
  <2> QED  BY <1>1, <2>1, <2>2, <2>3, StartStep
<1> QED  BY <1>2, <1>3

-----------------------------------------------------------------------------
(* The end of a text *)

LEMMA AllLines ==
    ASSUME NEW s \in Seq(Letter)
    PROVE  LinesBefore(s, Len(s) + 1) = Lines(s)
<1> DEFINE M == Seq(Seq(Seq(Letter)))
           G == LineEntries(s)
<1>1. G \in Seq(M) /\ Len(G) = Len(s) /\ Len(s) \in Nat /\ (Len(s) + 1) - 1 = Len(s)
  BY LineEntriesTyped
<1>2. LinesBefore(s, Len(s) + 1) = FlattenSeq(SubSeq(G, 1, Len(G))) /\ Lines(s) = FlattenSeq(G)
  BY <1>1 DEF LinesBefore, Lines
<1> HIDE DEF M, G
<1>3. SubSeq(G, 1, Len(G)) = G
  BY <1>1, SubSeqFull
<1> QED  BY <1>2, <1>3

LEMMA NoLines ==
    ASSUME NEW s \in Seq(Letter), NEW k \in 1..(Len(s) + 1), \A j \in Newlines(s) : j >= k
    PROVE  LinesBefore(s, k) = <<>>
<1> DEFINE M == Seq(Seq(Letter))
           G == LineEntries(s)
<1>1. G \in Seq(Seq(M)) /\ Len(G) = Len(s) /\ Len(s) \in Nat
  BY LineEntriesTyped
<1>2. \A j \in 1..(k - 1) : G[j] = <<>>
  <2> TAKE j \in 1..(k - 1)
  <2>1. j \in 1..Len(s) /\ ~(j >= k)
    BY <1>1
  <2> QED  BY <2>1, LineEntriesTyped
<1>3. LinesBefore(s, k) = FlattenSeq(SubSeq(G, 1, k - 1))
  BY DEF LinesBefore
<1> HIDE DEF M, G
<1>4. FlattenSeq(SubSeq(G, 1, k - 1)) = FlattenSeq(SubSeq(G, 1, 0))
  <2>1. /\ 1 \in Nat \ {0} /\ 0 \in Nat /\ k - 1 \in Nat /\ 1 - 1 <= 0 /\ 0 <= k - 1 /\ k - 1 <= Len(G)
        /\ \A j \in (0 + 1)..(k - 1) : G[j] = <<>>
    BY <1>1, <1>2
  <2> QED  BY <1>1, <2>1, PartSpan, Zenon
<1>5. FlattenSeq(SubSeq(G, 1, 0)) = <<>>
  BY PartNone
<1> QED  BY <1>3, <1>4, <1>5

LEMMA TextEnd ==
    ASSUME NEW s \in Seq(Letter), NEW i, NEW ctx, InItem(s, Len(s), i, ctx)
    PROVE  /\ LinesBefore(s, i) = Lines(s) /\ LastWords(s) = LineTo(s, i)
           /\ Rest(s) = ctx.word /\ \A k \in Newlines(s) : k < i
<1>1. /\ i \in Starts(s) /\ i \in 1..(Len(s) + 1) /\ Len(s) \in Nat
      /\ \A k \in Words(s) : k < i => WordEnd(s, k) <= Len(s)
  BY StartsAre DEF InItem
<1>2. \A k \in Words(s) : k \in 1..Len(s) /\ k \in Starts(s) /\ IsWord(s, k)
  BY WordsAre
<1>3. \A k \in Words(s) : k < i => k \notin Unfinished(s)
  BY <1>1 DEF Unfinished, Complete
<1>4. CASE i = Len(s) + 1
  <2>1. ctx.word = <<>>
    BY <1>1, <1>4 DEF InItem
  <2>2. Unfinished(s) = {}
    BY <1>1, <1>2, <1>3, <1>4 DEF Unfinished
  <2>3. \A k \in Newlines(s) : k < i
    <3>1. Newlines(s) \subseteq 1..Len(s)
      BY WordsAre
    <3> QED  BY <1>1, <1>4, <3>1
  <2> QED  BY <1>4, <2>1, <2>2, <2>3, AllLines DEF LastWords, Rest
<1>5. CASE i # Len(s) + 1
  <2>1. i \in 1..Len(s) /\ i <= Len(s) /\ (InWord(s, Len(s), i, ctx) \/ InComment(s, Len(s), i, ctx))
    BY <1>1, <1>5 DEF InItem
  <2>2. /\ s[i] # "nl" /\ After(s, i) > Len(s) /\ i \notin Complete(s) /\ After(s, i) \in Nat
        /\ Unfinished(s) \subseteq {i} /\ Rest(s) = ctx.word
    <3>0. After(s, i) \in (i + 1)..(Len(s) + 2)
      BY <2>1, AfterIs
    <3>1. ASSUME After(s, i) > Len(s), NEW k \in Unfinished(s) PROVE k = i
      <4>1. k \in Words(s) /\ ~(k < i) /\ k \in 1..Len(s) /\ k \in Starts(s)
        BY <1>2, <1>3 DEF Unfinished
      <4>2. i < k => After(s, i) <= k
        BY <1>1, <4>1, NoStarts
      <4> QED  BY <1>1, <2>1, <3>0, <3>1, <4>1, <4>2
    <3>2. CASE InWord(s, Len(s), i, ctx)
      <4>1. i \in Words(s) /\ s[i] # "equals" /\ WordEnd(s, i) > Len(s) /\ ctx.word = Meant(s, WordStart(s, i), Len(s))
        BY <3>2 DEF InWord
      <4>2. IsWord(s, i) /\ s[i] # "nl"
        BY <1>2, <4>1 DEF IsWord
      <4>3. /\ WordEnd(s, i) \in (i + 1)..(Len(s) + 1)
            /\ After(s, i) = IF s[i] = "quote" THEN WordEnd(s, i) + 1 ELSE WordEnd(s, i)
        BY <2>1, <4>1, <4>2, WordEndIs
      <4>4. WordEnd(s, i) = Len(s) + 1 /\ WordEnd(s, i) - 1 = Len(s) /\ After(s, i) > Len(s) /\ ~(WordEnd(s, i) <= Len(s))
        BY <1>1, <4>1, <4>3
      <4>5. i \notin Complete(s) /\ i \in Unfinished(s)
        BY <4>1, <4>4 DEF Complete, Unfinished
      <4>6. Unfinished(s) = {i}
        BY <3>1, <4>4, <4>5
      <4>7. Max({i}) = i
        <5>1. Max({i}) \in {i}
          BY <2>1, MaxIn
        <5> QED  BY <5>1
      <4>8. WordAt(s, i) = ctx.word
        BY <4>1, <4>4 DEF WordAt
      <4> QED  BY <3>0, <4>2, <4>4, <4>5, <4>6, <4>7, <4>8 DEF Rest
    <3>3. CASE InComment(s, Len(s), i, ctx)
      <4>1. s[i] = "hash" /\ ctx.word = <<>> /\ \A k \in i..Len(s) : s[k] # "nl"
        BY <3>3 DEF InComment
      <4>2. After(s, i) > Len(s)
        <5>1. After(s, i) \in (i + 1)..(Len(s) + 1) /\ (After(s, i) <= Len(s) => s[After(s, i)] = "nl")
          BY <2>1, <4>1, CommentEnd
        <5> QED  BY <1>1, <4>1, <5>1
      <4>3. s[i] # "nl" /\ i \notin Words(s) /\ i \notin Complete(s)
        BY <4>1 DEF Complete, Words, IsWord
      <4>4. Unfinished(s) = {}
        BY <3>1, <4>2, <4>3 DEF Unfinished
      <4> QED  BY <3>0, <4>1, <4>2, <4>3, <4>4 DEF Rest
    <3> QED  BY <2>1, <3>2, <3>3
  <2>3. PICK j : j = Len(s) + 1
    OBVIOUS
  <2>4. j \in (i + 1)..(Len(s) + 1) /\ j <= After(s, i)
    BY <1>1, <2>1, <2>2, <2>3
  <2>5. /\ LinesBefore(s, j) = LinesBefore(s, i)
        /\ LineTo(s, j) = LineTo(s, i) \o Entries(s)[i]
        /\ \A k \in Newlines(s) : k < j => k < i
    BY <1>1, <2>1, <2>2, <2>4, ItemPassed
  <2>6. LineTo(s, i) \o Entries(s)[i] = LineTo(s, i)
    <3> DEFINE L == Seq(Letter)
               f == LineTo(s, i)
    <3>1. Entries(s)[i] = <<>> /\ f \in Seq(L)
      BY <1>1, <2>1, <2>2, EntriesTyped, LineTyped
    <3> HIDE DEF f, L
    <3> QED  BY <3>1 DEF f
  <2>7. \A k \in Newlines(s) : k < j
    <3>1. Newlines(s) \subseteq 1..Len(s)
      BY WordsAre
    <3> QED  BY <1>1, <2>3, <3>1
  <2> QED  BY <2>2, <2>3, <2>5, <2>6, <2>7, AllLines DEF LastWords
<1> QED  BY <1>4, <1>5

-----------------------------------------------------------------------------
(* What is read *)

\* The machine is in some item of the text; the lines before it were returned,
\* and pconf_line() has not seen a newline.
TextRead ==
    ~over =>
        \E i \in 1..(Len(text) + 1) :
            /\ InItem(text, pos, i, Context) /\ out = LinesBefore(text, i)
            /\ feed = "line" => \A k \in Newlines(text) : k >= i

TextInv == IInv /\ TextRead /\ ReadsAsDescribed

LEMMA InitTextInv == Init => TextInv
<1> SUFFICES ASSUME Init PROVE TextInv
  OBVIOUS
<1>1. IInv /\ text \in Seq(Letter) /\ pos = 0 /\ ~over /\ out = <<>>
  BY InitIInv DEF IInv, TypeOK, Init
<1>2. Context = [state |-> "FINDWORDSTART", word |-> <<>>, args |-> <<>>]
  BY DEF Init, Context
<1>3. 1 \in 1..(Len(text) + 1) /\ 1 \in Starts(text) /\ Len(text) \in Nat
  BY <1>1, StartsAre
<1>4. \A k \in Newlines(text) \cup Words(text) : k >= 1 /\ ~(k < 1)
  <2>1. Newlines(text) \cup Words(text) \subseteq 1..Len(text)
    BY <1>1, WordsAre
  <2> QED  BY <1>3, <2>1
<1>5. LinesBefore(text, 1) = <<>>
  BY <1>1, <1>3, <1>4, NoLines
<1>6. LineTo(text, 1) = <<>>
  <2>1. Begin(text, 1) = 1
    <3>1. Begin(text, 1) \in 1..1
      BY <1>1, <1>3, BeginIs
    <3> QED  BY <3>1
  <2>2. LineTo(text, 1) = FlattenSeq(SubSeq(Entries(text), 1, 0))
    BY <2>1 DEF LineTo, WordsIn
  <2> QED  BY <2>2, PartNone
<1>7. Within(LineTo(text, 1)) = <<>>
  <2>1. <<>> \in Seq(Seq(Letter))
    OBVIOUS
  <2> QED  BY <1>6, <2>1, WithinNone
<1>8. InItem(text, pos, 1, Context)
  BY <1>1, <1>2, <1>3, <1>4, <1>7 DEF InItem
<1>9. TextRead
  BY <1>1, <1>3, <1>4, <1>5, <1>8 DEF TextRead
<1> QED  BY <1>1, <1>9 DEF TextInv, ReadsAsDescribed

LEMMA TypedAgain ==
    ASSUME NEW ctx, IsContext(ctx)
    PROVE  ctx = [state |-> ctx.state, word |-> ctx.word, args |-> ctx.args]
BY DEF IsContext

LEMMA FeedTextInv ==
    ASSUME TextInv, Feed, IInv'
    PROVE  TextInv'
<1> DEFINE q == pos + 1
           r == parse_char(Context, text[q])
<1>1. /\ text \in Seq(Letter) /\ pos \in Nat /\ q \in 1..Len(text) /\ ~over /\ text[q] \in Letter
      /\ out \in Seq(Seq(Seq(Letter))) /\ TypeOK /\ WordsStartEmpty
  BY DEF TextInv, IInv, TypeOK, Feed
<1>2. PICK i \in 1..(Len(text) + 1) :
          /\ InItem(text, pos, i, Context) /\ out = LinesBefore(text, i)
          /\ feed = "line" => \A k \in Newlines(text) : k >= i
  BY <1>1 DEF TextInv, TextRead
<1>3. Good(Context) /\ Context.state # "ENDOFLINE" /\ Good(r)
  BY <1>1, ContextGood, CharGood
<1>4. /\ state' = r.state /\ word' = r.word /\ args' = r.args /\ text' = text /\ feed' = feed
      /\ out' = IF r.state = "ENDOFLINE" THEN Append(out, r.args) ELSE out
      /\ over' = (r.state = "ENDOFLINE" /\ feed = "line") /\ pos' = q
  BY DEF Feed, input
<1>5. Advances(text, q, i, r)
  <2> HIDE DEF r
  <2>1. IsContext(Context)
    BY <1>3 DEF Good
  <2> QED  BY <1>1, <1>2, <2>1, ReadStep DEF r
<1>6. r = [state |-> r.state, word |-> r.word, args |-> r.args]
  <2>1. IsContext(r)
    BY <1>3 DEF Good
  <2> HIDE DEF r
  <2> QED  BY <2>1, TypedAgain
<1> HIDE DEF r, q
<1>7. CASE r.state # "ENDOFLINE"
  <2>1. ~over' /\ Context' = r /\ out' = out
    BY <1>4, <1>6, <1>7 DEF Context
  <2>2. PICK j \in 1..(Len(text) + 1) :
            /\ InItem(text, q, j, r) /\ LinesBefore(text, j) = LinesBefore(text, i)
            /\ \A k \in Newlines(text) : k >= i => k >= j
    BY <1>5, <1>7 DEF Advances
  <2>3. TextRead'
    BY <1>2, <1>4, <2>1, <2>2 DEF TextRead
  <2> QED  BY <2>1, <2>3 DEF TextInv, ReadsAsDescribed
<1>8. CASE r.state = "ENDOFLINE"
  <2>1. /\ r.word = <<>> /\ q \in Newlines(text) /\ r.args = Within(LineTo(text, q))
        /\ LinesBefore(text, q) = LinesBefore(text, i)
        /\ \A k \in Newlines(text) : k >= i => k >= q
        /\ \A k \in Words(text) : k <= q => WordEnd(text, k) <= q
    BY <1>5, <1>8 DEF Advances
  <2>2. out' = Append(LinesBefore(text, q), Within(LineTo(text, q)))
    BY <1>2, <1>4, <1>8, <2>1
  <2>3. /\ q + 1 \in Starts(text) /\ out' = LinesBefore(text, q + 1)
        /\ LineTo(text, q + 1) = <<>>
    BY <1>1, <2>1, <2>2, NewlinePassed
  <2>4. CASE feed # "line"
    <3>1. ~over' /\ feed' # "line"
      BY <1>4, <2>4
    <3>2. Context' = [state |-> "FINDWORDSTART", word |-> <<>>, args |-> <<>>]
      BY <1>4, <1>8, <2>1 DEF Context
    <3>3. PICK j : j = q + 1
      OBVIOUS
    <3>4. \A k \in Words(text) : k < j => WordEnd(text, k) <= q
      <4>1. \A k \in Words(text) : k \in Nat
        BY <1>1, WordsAre
      <4> QED  BY <1>1, <2>1, <3>3, <4>1
    <3>5. Within(LineTo(text, j)) = <<>>
      <4>1. <<>> \in Seq(Seq(Letter))
        OBVIOUS
      <4> QED  BY <2>3, <3>3, <4>1, WithinNone
    <3>6. InItem(text, q, j, Context')
      BY <2>3, <3>2, <3>3, <3>4, <3>5 DEF InItem
    <3>7. j \in 1..(Len(text) + 1)
      BY <1>1, <3>3
    <3>8. TextRead'
      BY <1>4, <2>3, <3>1, <3>3, <3>6, <3>7 DEF TextRead
    <3> QED  BY <3>1, <3>8 DEF TextInv, ReadsAsDescribed
  <2>5. CASE feed = "line"
    <3>1. Newlines(text) \subseteq Nat /\ \A k \in Newlines(text) : q <= k /\ k >= q
      <4>1. Newlines(text) \subseteq 1..Len(text)
        BY <1>1, WordsAre
      <4> QED  BY <1>1, <1>2, <2>1, <2>5, <4>1
    <3>2. Min(Newlines(text)) = q
      BY <2>1, <3>1, MinIs
    <3>3. LinesBefore(text, q) = <<>>
      <4>1. q \in 1..(Len(text) + 1)
        BY <1>1
      <4> QED  BY <1>1, <3>1, <4>1, NoLines
    <3>4. out' = <<Within(LineTo(text, q))>>
      <4> DEFINE w == Within(LineTo(text, q))
      <4>1. out' = Append(<<>>, w)
        BY <2>2, <3>3
      <4> HIDE DEF w
      <4> QED  BY <4>1 DEF w
    <3>5. Newlines(text) # {} /\ over'
      BY <1>4, <1>8, <2>1, <2>5
    <3>6. ReadsAsDescribed'
      BY <1>4, <2>5, <3>2, <3>4, <3>5 DEF ReadsAsDescribed
    <3> QED  BY <3>5, <3>6 DEF TextInv, TextRead
  <2> QED  BY <2>4, <2>5
<1> QED  BY <1>7, <1>8

LEMMA EndTextInv ==
    ASSUME TextInv, FileEnds \/ LineEnds \/ NothingMore, IInv'
    PROVE  TextInv'
<1>1. /\ text \in Seq(Letter) /\ pos = Len(text) /\ ~over /\ TypeOK /\ WordsStartEmpty
      /\ text' = text /\ feed' = feed /\ over' = TRUE /\ out \in Seq(Seq(Seq(Letter)))
  BY DEF TextInv, IInv, TypeOK, FileEnds, LineEnds, NothingMore, input
<1>2. PICK i \in 1..(Len(text) + 1) :
          /\ InItem(text, pos, i, Context) /\ out = LinesBefore(text, i)
          /\ feed = "line" => \A k \in Newlines(text) : k >= i
  BY <1>1 DEF TextInv, TextRead
<1>3. /\ LinesBefore(text, i) = Lines(text) /\ LastWords(text) = LineTo(text, i)
      /\ Rest(text) = Context.word /\ \A k \in Newlines(text) : k < i
  BY <1>1, <1>2, TextEnd
<1>4. /\ Context.args = Within(LastWords(text)) /\ Context.word \in Seq(Letter)
      /\ LastWords(text) \in Seq(Seq(Letter)) /\ IsContext(Context)
  <2>1. Good(Context)
    BY <1>1, ContextGood
  <2> QED  BY <1>1, <1>2, <1>3, <2>1, LineTyped DEF InItem, Good, IsContext
<1>5. TiedOff.args = LastLine(text)
  <2>1. endofword(Context, Context.state).args = Within(Append(LastWords(text), Context.word))
    BY <1>4, WithinAppend
  <2> QED  BY <1>3, <1>4, <2>1 DEF TiedOff, LastLine
<1>6. LastLine(text) \in Seq(Seq(Letter))
  <2>1. Good(TiedOff)
    BY <1>1, ContextGood
  <2> QED  BY <1>5, <2>1 DEF Good, IsContext
<1>7. /\ out \o <<>> = out /\ out \o <<LastLine(text)>> = Append(out, LastLine(text))
      /\ out = Lines(text)
  <2> DEFINE M == Seq(Seq(Letter))
             l == LastLine(text)
  <2>1. out \in Seq(M) /\ l \in M
    BY <1>1, <1>6
  <2> HIDE DEF M, l
  <2>2. out \o <<>> = out /\ out \o <<l>> = Append(out, l)
    BY <2>1
  <2> QED  BY <1>2, <1>3, <2>2 DEF l
<1>8. CASE FileEnds
  <2>1. feed = "file" /\ (Context.args = <<>> <=> LastWords(text) = <<>>)
    BY <1>4, <1>8, WithinNone DEF FileEnds
  <2>2. out' = IF LastWords(text) = <<>> THEN out ELSE Append(out, LastLine(text))
    BY <1>5, <1>8, <2>1 DEF FileEnds
  <2>3. ReadsAsDescribed'
    BY <1>1, <1>7, <2>1, <2>2 DEF ReadsAsDescribed
  <2> QED  BY <1>1, <2>3 DEF TextInv, TextRead
<1>9. CASE LineEnds
  <2>1. feed = "line" /\ out' = Append(out, LastLine(text))
    BY <1>5, <1>9 DEF LineEnds
  <2>2. Newlines(text) = {}
    <3>1. \A k \in Newlines(text) : k >= i /\ k < i /\ k \in 1..Len(text)
      BY <1>1, <1>2, <1>3, <2>1, WordsAre
    <3> QED  BY <1>1, <1>2, <3>1
  <2>3. out = <<>>
    BY <1>1, <1>2, <2>2, NoLines
  <2>4. out' = <<LastLine(text)>>
    <3> DEFINE l == LastLine(text)
    <3>1. out' = Append(<<>>, l)
      BY <2>1, <2>3
    <3> HIDE DEF l
    <3> QED  BY <3>1 DEF l
  <2>5. ReadsAsDescribed'
    BY <1>1, <2>1, <2>2, <2>4 DEF ReadsAsDescribed
  <2> QED  BY <1>1, <2>5 DEF TextInv, TextRead
<1>10. CASE NothingMore
  <2>1. feed = "char" /\ out' = out
    BY <1>10 DEF NothingMore
  <2>2. ReadsAsDescribed'
    BY <1>1, <1>7, <2>1 DEF ReadsAsDescribed
  <2> QED  BY <1>1, <2>2 DEF TextInv, TextRead
<1> QED  BY <1>8, <1>9, <1>10

LEMMA StepTextInv == TextInv /\ [Next]_vars => TextInv'
<1> SUFFICES ASSUME TextInv, [Next]_vars PROVE TextInv'
  OBVIOUS
<1>1. IInv'
  BY StepIInv DEF TextInv
<1>2. CASE Feed
  BY <1>1, <1>2, FeedTextInv
<1>3. CASE FileEnds \/ LineEnds \/ NothingMore
  BY <1>1, <1>3, EndTextInv
<1>4. CASE UNCHANGED vars
  <2>1. UNCHANGED <<feed, sent, text, pos, state, word, args, out, over>>
    BY <1>4 DEF vars, input
  <2> QED  BY <1>1, <2>1 DEF TextInv, TextRead, ReadsAsDescribed, Context
<1> QED  BY <1>2, <1>3, <1>4 DEF Next

-----------------------------------------------------------------------------
(* Theorems *)

\* parse_char() and endofword(): in every text, however it is fed, the words of
\* a line and the characters of a word stay within their limits, and where a
\* word may begin nothing of an earlier one is left in the buffer.
THEOREM WordsAreClean == Spec => [](TypeOK /\ WordsStartEmpty)
<1>1. Init => IInv
  BY InitIInv
<1>2. IInv /\ [Next]_vars => IInv'
  BY StepIInv
<1>3. IInv => TypeOK /\ WordsStartEmpty
  BY DEF IInv
<1> QED  BY <1>1, <1>2, <1>3, PTL DEF Spec

\* pconf_encode() and parse_char() together: words of any characters, quoted by
\* the sender, are the words the receiver is given, up to what cannot be printed
\* and the ends that the limits and the sender's buffer cut off.
THEOREM MessagesComeThrough == Spec => []MessagesArrive
<1>1. Init => IInv /\ Sending
  BY InitIInv, InitSending
<1>2. IInv /\ Sending /\ [Next]_vars => (IInv /\ Sending)'
  BY StepIInv, StepSending
<1>3. IInv /\ Sending => MessagesArrive
  BY SendingArrives
<1> QED  BY <1>1, <1>2, <1>3, PTL DEF Spec

\* Whatever the text, its length, the limits and the way it is fed: the lines
\* and words returned are those the header of parseconf.c describes.
THEOREM TextsAreRead == Spec => []ReadsAsDescribed
<1>1. TextInv => ReadsAsDescribed
  BY DEF TextInv
<1> QED  BY <1>1, InitTextInv, StepTextInv, PTL DEF Spec
=============================================================================
