------------------------------- MODULE Tools -------------------------------
(***************************************************************************)
(* The programs that read a stream in pieces (project01): grep.c with its  *)
(* matcher, wc.c and cat.c.  read() fills the room there is from a file    *)
(* and returns any piece of what is left from a pipe or the console (the   *)
(* input is "piped"); what a piece cuts in two is kept in the buffer, or   *)
(* lost.                                                                   *)
(***************************************************************************)
EXTENDS Integers, FiniteSets, Sequences, SequencesExt, FiniteSetsExt

CONSTANTS Inputs,      \* patterns of grep and texts, sequences of characters, and whether piped
          BufSize      \* sizeof(buf)

ASSUME ToolsBuffer == BufSize \in Nat /\ BufSize >= 2

VARIABLES tool,        \* the program that runs: "grep", "wc" or "cat"
          left,        \* what is still to be read
          tbuf,        \* buf[0..m-1]
          out,         \* what has been written: lines, counts or characters
          given,       \* the pattern, the whole input and whether it is piped
          dropped      \* history: characters read and thrown away before their newline

toolsvars == <<tool, left, tbuf, out, given, dropped>>

EndLine == "nl"
WcSpace == " "
NoCounts == [l |-> 0, w |-> 0, c |-> 0, inword |-> FALSE]

\* Before a program starts; then the one that the shell runs.
ToolsInit ==
  /\ tool = "none" /\ given = [re |-> <<>>, text |-> <<>>, piped |-> FALSE]
  /\ left = <<>> /\ tbuf = <<>> /\ out = <<>> /\ dropped = FALSE

ToolStarts == tool = "none" /\ \E input \in Inputs, t \in {"grep", "wc", "cat"} :
  /\ (t # "grep" => input.re = <<>>)
  /\ tool' = t /\ given' = input /\ left' = input.text
  /\ out' = IF t = "wc" THEN <<NoCounts>> ELSE <<>>
  /\ UNCHANGED <<tbuf, dropped>>

-----------------------------------------------------------------------------
(* The matcher *)

RECURSIVE Matchhere(_, _)
RECURSIVE Matchstar(_, _, _)
RECURSIVE MatchstarFirst(_, _, _)

\* Mutant: the longest run only.
MatchstarFirst(c, re, text) ==
  IF text # <<>> /\ (Head(text) = c \/ c = ".") THEN MatchstarFirst(c, re, Tail(text)) ELSE Matchhere(re, text)

Matchstar(c, re, text) ==
  \/ Matchhere(re, text)
  \/ text # <<>> /\ (Head(text) = c \/ c = ".") /\ Matchstar(c, re, Tail(text))

Matchhere(re, text) ==
  CASE re = <<>> -> TRUE
    [] Len(re) >= 2 /\ re[2] = "*" -> Matchstar(re[1], SubSeq(re, 3, Len(re)), text)
    [] re = <<"$">> -> text = <<>>
    [] OTHER -> text # <<>> /\ re[1] \in {".", text[1]} /\ Matchhere(Tail(re), Tail(text))

Suffixes2(text) == {SubSeq(text, i, Len(text)) : i \in 1..(Len(text) + 1)}
Match(re, text) ==
  IF re # <<>> /\ re[1] = "^" THEN Matchhere(Tail(re), text)
  ELSE \E rest \in Suffixes2(text) : Matchhere(re, rest)

-----------------------------------------------------------------------------
(* The programs *)

Newlines(t) == {i \in DOMAIN t : t[i] = EndLine}
LastNewline(t) == Max({0} \cup Newlines(t))
LinesOf(t) ==
  LET ends == SetToSortSeq(Newlines(t), <)
  IN [k \in DOMAIN ends |-> SubSeq(t, IF k = 1 THEN 1 ELSE ends[k - 1] + 1, ends[k] - 1)]
Take(n) == SubSeq(left, 1, n)
Drop(n) == left' = SubSeq(left, n + 1, Len(left))
Least(a, b) == IF a < b THEN a ELSE b

\* What stays in the buffer: after the last newline; without one, nothing.
KeptTail(t) == IF Newlines(t) = {} THEN <<>> ELSE SubSeq(t, LastNewline(t) + 1, Len(t))

\* How many characters read() may return into a buffer with room for so many.
Pieces(room) ==
  LET most == Least(room, Len(left))
  IN {n \in 1..most : given.piped \/ n = most}

\* m goes back to 0 where no newline is in the buffer, and what it holds is lost.
Grep == tool = "grep" /\ \E n \in Pieces(BufSize - Len(tbuf) - 1) :
  LET t == tbuf \o Take(n)
  IN /\ Drop(n)
     /\ out' = out \o SelectSeq(LinesOf(t), LAMBDA line : Match(given.re, line))
     /\ tbuf' = KeptTail(t)
     /\ dropped' = (dropped \/ Newlines(t) = {})
     /\ UNCHANGED <<tool, given>>

Spaces == {WcSpace, EndLine}
Counted(k, ch) == [l |-> k.l + (IF ch = EndLine THEN 1 ELSE 0), c |-> k.c + 1,
                   w |-> k.w + (IF ch \in Spaces \/ k.inword THEN 0 ELSE 1), inword |-> ch \notin Spaces]

Wc == tool = "wc" /\ \E n \in Pieces(BufSize) :
  /\ Drop(n) /\ out' = <<FoldLeft(Counted, out[1], Take(n))>>
  /\ UNCHANGED <<tool, tbuf, given, dropped>>

Cat == tool = "cat" /\ \E n \in Pieces(BufSize) :
  /\ Drop(n) /\ out' = out \o Take(n)
  /\ UNCHANGED <<tool, tbuf, given, dropped>>

ToolsNext == ToolStarts \/ Grep \/ Wc \/ Cat
ToolsSpec == ToolsInit /\ [][ToolsNext]_toolsvars

-----------------------------------------------------------------------------
(* The reference: a pattern is a sequence of items, each a character or a  *)
(* starred one, and matches where the line can be cut into their runs.     *)
RECURSIVE ItemsOf(_)
ItemsOf(re) ==
  IF re = <<>> THEN <<>>
  ELSE IF Len(re) >= 2 /\ re[2] = "*" THEN <<[c |-> re[1], star |-> TRUE]>> \o ItemsOf(SubSeq(re, 3, Len(re)))
  ELSE <<[c |-> re[1], star |-> FALSE]>> \o ItemsOf(Tail(re))
Anchored(re) == re # <<>> /\ re[1] = "^"
Ended(its) == its # <<>> /\ Last(its) = [c |-> "$", star |-> FALSE]
RunOf(item, run) == (item.star \/ Len(run) = 1) /\ \A i \in DOMAIN run : item.c \in {".", run[i]}
Matches(re, line) ==
  LET all == ItemsOf(IF Anchored(re) THEN Tail(re) ELSE re)
      items == IF Ended(all) THEN Front(all) ELSE all
      n == Len(items)
  IN \E cut \in [0..n -> 0..Len(line)] :
       /\ \A i \in 1..n : cut[i - 1] <= cut[i] /\ RunOf(items[i], SubSeq(line, cut[i - 1] + 1, cut[i]))
       /\ (Anchored(re) => cut[0] = 0) /\ (Ended(all) => cut[n] = Len(line))

(* grep prints the terminated lines that match, whole and in order: all of *)
(* a file's, wherever the buffer cuts it, as long as every line fits into  *)
(* the buffer with its newline; of a pipe or the console, those read so    *)
(* far, until a piece leaves the buffer without a newline: grep.c:29 then  *)
(* throws the beginning of a line away, however short the line.            *)
LinesThatMatch(t) == SelectSeq(LinesOf(t), LAMBDA line : Matches(given.re, line))
LinesFit == \A k \in DOMAIN LinesOf(given.text) : Len(LinesOf(given.text)[k]) + 1 < BufSize
GrepPrintsMatches ==
  LET t == given.text  read == SubSeq(t, 1, Len(t) - Len(left)) IN
  tool = "grep" =>
    /\ ~given.piped /\ LinesFit /\ left = <<>> => out = LinesThatMatch(t)
    /\ ~dropped => out = LinesThatMatch(read)

(* wc and cat do not depend on the pieces read() gives: a word that two    *)
(* pieces share is one word.                                               *)
PiecesAddUp ==
  LET t == given.text  read == SubSeq(t, 1, Len(t) - Len(left)) IN
  /\ (tool = "cat" => out \o left = t)
  /\ (tool = "wc" => /\ out[1].l = Cardinality(Newlines(read)) /\ out[1].c = Len(read)
                     /\ out[1].w = Cardinality({i \in DOMAIN read : read[i] \notin Spaces /\ (i = 1 \/ read[i - 1] \in Spaces)}))
=============================================================================
