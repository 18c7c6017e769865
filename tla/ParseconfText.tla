--------------------------- MODULE ParseconfText ---------------------------
(***************************************************************************)
(* A second reading of the texts Parseconf is given, from what the header  *)
(* of common/parseconf.c says of them, to compare the state machine with.  *)
(* A text is a sequence of items: blanks, newlines, comments and words.    *)
(* Where an item ends and what it means depends on where it starts and on  *)
(* nothing before that; no state is carried along.                         *)
(***************************************************************************)
EXTENDS Parseconf

(* Items *)

\* The character at k is escaped: an odd number of backslashes, counted from
\* the beginning of its word, is right before it.
Escaped(s, from, k) ==
    LET run == {j \in from..k : \A m \in j..(k - 1) : s[m] = "backslash"}
    IN  (k - Min(run)) % 2 = 1

\* The first of these characters that is not escaped, or the end of the text.
First(s, from, stops) ==
    Min({k \in from..Len(s) : s[k] \in stops /\ ~Escaped(s, from, k)} \cup {Len(s) + 1})

\* What is written at from..to, without escapes and unprintable characters,
\* cut at the limit.
Shown(s, from, k) ==
    IF s[k] \in Control \/ (s[k] = "backslash" /\ ~Escaped(s, from, k)) THEN <<>> ELSE <<s[k]>>
Cut(w) == IF WordLenLimit # 0 /\ Len(w) > WordLenLimit THEN SubSeq(w, 1, WordLenLimit) ELSE w
Meant(s, from, to) == Cut(FlattenSeq([k \in 1..(to + 1 - from) |-> Shown(s, from, from + k - 1)]))

\* Quotes enclose a word; other words go up to a blank, a newline, a comment
\* or "=", which is a word of its own.
IsWord(s, i) == s[i] \notin Blank \cup {"nl", "hash"}
WordStart(s, i) == IF s[i] = "quote" THEN i + 1 ELSE i
WordEnd(s, i) ==
    CASE s[i] = "equals" -> i
      [] s[i] = "quote" -> First(s, i + 1, {"quote"})
      [] OTHER -> First(s, i, Blank \cup {"nl", "hash", "equals"})
WordAt(s, i) ==
    IF s[i] = "equals" THEN <<"equals">> ELSE Meant(s, WordStart(s, i), WordEnd(s, i) - 1)

\* Where the next item starts, for the one that starts at i.
After(s, i) ==
    CASE s[i] \in Blank \cup {"nl"} -> i + 1
      [] s[i] = "hash" -> Min({k \in i..Len(s) : s[k] = "nl"} \cup {Len(s) + 1})
      [] s[i] \in {"quote", "equals"} -> WordEnd(s, i) + 1
      [] OTHER -> WordEnd(s, i)
Starts(s) ==
    LET starts[k \in 1..(Len(s) + 1)] ==
            k = 1 \/ \E i \in 1..(k - 1) : After(s, i) = k /\ starts[i]
    IN  {k \in 1..(Len(s) + 1) : starts[k]}

-----------------------------------------------------------------------------
(* Lines *)

Newlines(s) == {k \in Starts(s) : k <= Len(s) /\ s[k] = "nl"}
Words(s) == {i \in Starts(s) : i <= Len(s) /\ IsWord(s, i)}

\* The complete words that start at a..b.
Complete(s) == {i \in Words(s) : WordEnd(s, i) <= Len(s)}
Entries(s) ==
    LET complete == Complete(s)
    IN  [i \in 1..Len(s) |-> IF i \in complete THEN <<WordAt(s, i)>> ELSE <<>>]
WordsIn(s, a, b) == FlattenSeq(SubSeq(Entries(s), a, b))

\* Where the line starts that goes up to k, and the words of it.
Begin(s, k) == Max({0} \cup {j \in Newlines(s) : j < k}) + 1
LineTo(s, k) == WordsIn(s, Begin(s, k), k - 1)

\* The lines that have their newline, without the words beyond the limit.
LineEntries(s) ==
    LET newlines == Newlines(s)
    IN  [k \in 1..Len(s) |-> IF k \in newlines THEN <<Within(LineTo(s, k))>> ELSE <<>>]
Lines(s) == FlattenSeq(LineEntries(s))

\* What follows the last newline: complete words, and what there is of another.
Unfinished(s) == Words(s) \ Complete(s)
Rest(s) == IF Unfinished(s) = {} THEN <<>> ELSE WordAt(s, Max(Unfinished(s)))
LastWords(s) == LineTo(s, Len(s) + 1)
LastLine(s) == Within(IF Rest(s) = <<>> THEN LastWords(s) ELSE Append(LastWords(s), Rest(s)))

-----------------------------------------------------------------------------
(* Properties *)

\* The state machine reads what the header of parseconf.c describes, however
\* it is fed: quotes, escapes, joined lines, comments and "=" in any order.
\* A last line without newline counts for a file if a word of it is complete;
\* pconf_line() reads no more than the first line.
ReadsAsDescribed ==
    over =>
        CASE feed = "char" -> out = Lines(text)
          [] feed = "file" ->
                out = Lines(text) \o (IF LastWords(text) = <<>> THEN <<>> ELSE <<LastLine(text)>>)
          [] feed = "line" ->
                out = <<IF Newlines(text) = {} THEN LastLine(text)
                        ELSE Within(LineTo(text, Min(Newlines(text))))>>

\* parseconf.c: "Lines normally end with a newline, but reaching EOF will also
\* force parsing on what's been scanned so far."
EofForcesParsing ==
    over /\ feed = "file" =>
        out = Lines(text) \o (IF LastLine(text) = <<>> THEN <<>> ELSE <<LastLine(text)>>)
=============================================================================
