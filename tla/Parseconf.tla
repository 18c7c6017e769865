------------------------------ MODULE Parseconf ------------------------------
(***************************************************************************)
(* parseconf (common/parseconf.c): the state machine that splits every     *)
(* configuration file, every request to upsd and every line between upsd,  *)
(* the drivers and upssched into words, and pconf_encode(), with which the *)
(* sending side quotes a word.                                             *)
(*                                                                         *)
(* One context is fed one text, character by character, in one of the      *)
(* three ways the callers use: "file" (pconf_file_next() until it returns  *)
(* 0), "line" (one pconf_line()) or "char" (pconf_char()).  Characters are *)
(* the ones the code tells apart; "a" stands for all others.  Storage is   *)
(* as large as it has to be, so realloc() is left out.                     *)
(***************************************************************************)
EXTENDS Naturals, Sequences, SequencesExt, FiniteSetsExt

CONSTANTS
    Char,         \* characters of free texts
    MaxText,      \* bound: length of a free text
    MaxWords,     \* bound: words of a message
    MaxWord,      \* bound: length of a word before it is encoded
    ArgLimit,     \* ctx->arg_limit, 0 for none
    WordLenLimit, \* ctx->wordlen_limit, 0 for none
    EncodeRoom    \* destsize of pconf_encode()

Blank   == {"space", "tab"}         \* isspace() without the newline
Control == {"tab", "nl"}            \* below 0x20
Escape  == {"hash", "backslash", "quote"}  \* PCONF_ESCAPE
Letter  == {"a", "equals", "nl"} \cup Blank \cup Escape

ASSUME CharAssumption  == Char \subseteq Letter
ASSUME LimitAssumption == {ArgLimit, WordLenLimit, MaxText, MaxWords, MaxWord} \subseteq Nat
ASSUME RoomAssumption  == EncodeRoom \in Nat /\ EncodeRoom >= 2

VARIABLES
    feed,    \* how the text is fed
    sent,    \* the words text is made of, or <<>> if it is free
    text,    \* the input
    pos,     \* characters of it that were read
    state,   \* ctx->state
    word,    \* ctx->wordbuf
    args,    \* ctx->arglist
    out,     \* the words of the lines returned to the caller
    over     \* the caller is done

input == <<feed, sent, text>>
vars == <<input, pos, state, word, args, out, over>>

-----------------------------------------------------------------------------
(* pconf_encode() *)

\* Mutant: an escape may be left without its character.
EncodeLoose(w) ==
    FoldLeft(LAMBDA dest, ch :
                IF Len(dest) >= EncodeRoom - 1 THEN dest
                ELSE IF ch \in Escape /\ Len(dest) < EncodeRoom - 2 THEN dest \o <<"backslash", ch>>
                ELSE Append(dest, IF ch \in Escape THEN "backslash" ELSE ch),
             <<>>, w)

\* A character as it is sent, and the numbers of characters of w that fit, with
\* their escapes and a terminator.
Coded(ch) == IF ch \in Escape THEN <<"backslash", ch>> ELSE <<ch>>
Fitting(w) ==
    {n \in 0..Len(w) : n + Cardinality({i \in 1..n : w[i] \in Escape}) <= EncodeRoom - 1}

\* Once a character does not fit, with its escape, nothing more is copied.
pconf_encode(w) == FlattenSeq([i \in 1..Max(Fitting(w)) |-> Coded(w[i])])

\* How the callers send words: quoted, separated by spaces, ended by a newline.
Quoted(w) == <<"quote">> \o pconf_encode(w) \o <<"quote">>
Message(words) ==
    FlattenSeq([i \in 1..Len(words) |-> (IF i > 1 THEN <<"space">> ELSE <<>>) \o Quoted(words[i])])
    \o <<"nl">>

SeqsUpTo(S, n) == UNION {[1..k -> S] : k \in 0..n}

\* pconf_init(), and a text to read.
Init ==
    /\ feed \in {"file", "line", "char"}
    /\ \/ sent = <<>> /\ text \in SeqsUpTo(Char, MaxText)
       \/ /\ sent \in SeqsUpTo(SeqsUpTo(Char, MaxWord), MaxWords) \ {<<>>}
          /\ text = Message(sent)
    /\ pos = 0
    /\ state = "FINDWORDSTART" /\ word = <<>> /\ args = <<>>
    /\ out = <<>> /\ over = FALSE

-----------------------------------------------------------------------------
(* The state machine: a context is [state, word, args] *)

\* addchar(): what is not printable or beyond the limit is dropped.
addchar(w, ch) ==
    IF ch \in Control \/ (WordLenLimit # 0 /\ Len(w) >= WordLenLimit)
    THEN w ELSE Append(w, ch)

\* Mutant: the word that does not count any more is not cleared.
EndWithoutClearing(ctx, next) ==
    IF ArgLimit # 0 /\ Len(ctx.args) >= ArgLimit
    THEN [ctx EXCEPT !.state = next]
    ELSE [state |-> next, word |-> <<>>, args |-> Append(ctx.args, ctx.word)]

\* endofword(), and the state to go on with.
endofword(ctx, next) ==
    [state |-> next, word |-> <<>>,
     args |-> IF ArgLimit # 0 /\ Len(ctx.args) >= ArgLimit
              THEN ctx.args ELSE Append(ctx.args, ctx.word)]

Goto(ctx, next) == [ctx EXCEPT !.state = next]
Keep(ctx, ch, next) == [ctx EXCEPT !.state = next, !.word = addchar(@, ch)]

findwordstart(ctx, ch) ==
    CASE ch = "nl"     -> Goto(ctx, "ENDOFLINE")
      [] ch = "hash"   -> Goto(ctx, "FINDEOL")
      [] ch \in Blank  -> Goto(ctx, "FINDWORDSTART")
      [] ch = "backslash" -> Goto(ctx, "COLLECTLITERAL")
      [] ch = "quote"  -> Goto(ctx, "QUOTECOLLECT")
      [] ch = "equals" -> endofword(Keep(ctx, ch, "COLLECT"), "FINDWORDSTART")
      [] OTHER         -> Keep(ctx, ch, "COLLECT")

findeol(ctx, ch) == Goto(ctx, IF ch = "nl" THEN "ENDOFLINE" ELSE "FINDEOL")

quotecollect(ctx, ch) ==
    CASE ch = "quote" -> endofword(ctx, "FINDWORDSTART")
      [] ch = "backslash" -> Goto(ctx, "QC_LITERAL")
      [] OTHER        -> Keep(ctx, ch, "QUOTECOLLECT")

qc_literal(ctx, ch) == Keep(ctx, ch, "QUOTECOLLECT")

\* Mutant: "=" ends the word and is lost.
CollectDroppingEquals(ctx, ch) ==
    CASE ch = "hash"  -> endofword(ctx, "FINDEOL")
      [] ch = "nl"    -> endofword(ctx, "ENDOFLINE")
      [] ch \in Blank \cup {"equals"} -> endofword(ctx, "FINDWORDSTART")
      [] ch = "backslash" -> Goto(ctx, "COLLECTLITERAL")
      [] OTHER        -> Keep(ctx, ch, "COLLECT")

collect(ctx, ch) ==
    CASE ch = "hash"  -> endofword(ctx, "FINDEOL")
      [] ch = "nl"    -> endofword(ctx, "ENDOFLINE")
      [] ch \in Blank -> endofword(ctx, "FINDWORDSTART")
      [] ch = "equals" -> findwordstart(endofword(ctx, "FINDWORDSTART"), ch)
      [] ch = "backslash" -> Goto(ctx, "COLLECTLITERAL")
      [] OTHER        -> Keep(ctx, ch, "COLLECT")

\* An escaped newline joins lines: it is a control character, so not kept.
collectliteral(ctx, ch) == Keep(ctx, ch, "COLLECT")

parse_char(ctx, ch) ==
    CASE ctx.state = "FINDWORDSTART"  -> findwordstart(ctx, ch)
      [] ctx.state = "FINDEOL"        -> findeol(ctx, ch)
      [] ctx.state = "QUOTECOLLECT"   -> quotecollect(ctx, ch)
      [] ctx.state = "QC_LITERAL"     -> qc_literal(ctx, ch)
      [] ctx.state = "COLLECT"        -> collect(ctx, ch)
      [] ctx.state = "COLLECTLITERAL" -> collectliteral(ctx, ch)

\* pconf_char() and pconf_file_next() start over after a line.
Context == IF state = "ENDOFLINE"
           THEN [state |-> "FINDWORDSTART", word |-> word, args |-> <<>>]
           ELSE [state |-> state, word |-> word, args |-> args]

\* One character; a line that ends is returned, and pconf_line() looks at no
\* more than one.
Feed ==
    /\ ~over /\ pos < Len(text)
    /\ LET ctx == parse_char(Context, text[pos + 1])
       IN  /\ state' = ctx.state /\ word' = ctx.word /\ args' = ctx.args
           /\ out' = IF ctx.state = "ENDOFLINE" THEN Append(out, ctx.args) ELSE out
           /\ over' = (ctx.state = "ENDOFLINE" /\ feed = "line")
    /\ pos' = pos + 1
    /\ UNCHANGED input

\* A word that is not finished is tied off.
TiedOff == IF Context.word = <<>> THEN Context ELSE endofword(Context, Context.state)

\* The end of the file: words of a last line without a newline count only if
\* one of them was finished.
FileEnds ==
    /\ ~over /\ pos = Len(text) /\ feed = "file"
    /\ IF Context.args = <<>>
       THEN UNCHANGED <<state, word, args, out>>
       ELSE /\ state' = TiedOff.state /\ word' = TiedOff.word /\ args' = TiedOff.args
            /\ out' = Append(out, args')
    /\ over' = TRUE
    /\ UNCHANGED <<input, pos>>

\* The end of the string given to pconf_line(); it always returns a line.
LineEnds ==
    /\ ~over /\ pos = Len(text) /\ feed = "line"
    /\ state' = TiedOff.state /\ word' = TiedOff.word /\ args' = TiedOff.args
    /\ out' = Append(out, args')
    /\ over' = TRUE
    /\ UNCHANGED <<input, pos>>

\* No more characters for pconf_char(): it goes on waiting.
NothingMore ==
    /\ ~over /\ pos = Len(text) /\ feed = "char"
    /\ over' = TRUE
    /\ UNCHANGED <<input, pos, state, word, args, out>>

Next == Feed \/ FileEnds \/ LineEnds \/ NothingMore

Spec == Init /\ [][Next]_vars

-----------------------------------------------------------------------------
(* Properties *)

\* The words of a line that are kept.
Within(words) == IF ArgLimit # 0 /\ Len(words) > ArgLimit THEN SubSeq(words, 1, ArgLimit) ELSE words

\* Every variable keeps to its domain, and no line or word exceeds its limit.
TypeOK ==
    /\ feed \in {"file", "line", "char"} /\ over \in BOOLEAN
    /\ sent \in Seq(Seq(Char)) /\ text \in Seq(Letter) /\ pos \in 0..Len(text)
    /\ word \in Seq(Letter) /\ args \in Seq(Seq(Letter)) /\ out \in Seq(Seq(Seq(Letter)))
    /\ state \in {"FINDWORDSTART", "FINDEOL", "QUOTECOLLECT", "QC_LITERAL",
                  "COLLECT", "COLLECTLITERAL", "ENDOFLINE"}
    /\ ArgLimit # 0 => Len(args) <= ArgLimit
    /\ WordLenLimit # 0 => \A w \in ToSet(args) \cup {word} : Len(w) <= WordLenLimit

\* Whatever was dropped for a limit, left unquoted or escaped before, nothing
\* of an earlier word gets into a later one: a word starts out empty.
WordsStartEmpty ==
    state \in {"FINDWORDSTART", "FINDEOL", "ENDOFLINE"} => word = <<>>

\* What can be printed of a word, and what may be missing at its end when it
\* has arrived: what is beyond the limit, or did not fit when it was encoded.
Printable(w) == FlattenSeq([i \in 1..Len(w) |-> IF w[i] \in Control THEN <<>> ELSE <<w[i]>>])
Arrived(got, w) ==
    /\ IsPrefix(got, Printable(w))
    /\ \/ got = Printable(w)
       \/ WordLenLimit # 0 /\ Len(got) = WordLenLimit
       \/ Len(pconf_encode(w)) >= EncodeRoom - 2

\* A message arrives as the words it was made of: nothing in a word ends it
\* or the line early, not even where pconf_encode() ran out of room; what is
\* missing is unprintable, or at the end of a word or of the line, beyond the
\* limits.
MessagesArrive ==
    over /\ sent # <<>> =>
        /\ Len(out) = 1
        /\ Len(out[1]) = Len(Within(sent))
        /\ \A i \in 1..Len(out[1]) : Arrived(out[1][i], sent[i])
=============================================================================
