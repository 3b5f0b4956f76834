---------------------------- MODULE ShellGrammar ----------------------------
(* What the parser of the shell is for: the grammar of lines, stated by    *)
(* splitting the tokens of a line, against the recursive descent of        *)
(* ShellParse.  Every line up to a length is parsed.                       *)
EXTENDS ShellParse

CONSTANTS ShLetters, ShLength

VARIABLES shline, shparse

shellvars == <<shline, shparse>>

GrammarInit ==
  /\ shline = <<>>
  /\ shparse = [done |-> FALSE, ok |-> FALSE, cmd |-> NoCmd, text |-> <<>>]
ParseLine(l) ==
  LET r == Parsecmd(l)
  IN  /\ ~shparse.done /\ shline' = l
      /\ shparse' = [done |-> TRUE, ok |-> r.ok, cmd |-> r.cmd,
                     text |-> [i \in 1 .. Len(l) |-> IF r.ok /\ i \in Nulterminate(r.cmd) THEN NUL ELSE l[i]]]
GrammarNext == \E l \in SeqOf(ShLetters, ShLength) : ParseLine(l)
GrammarSpec == GrammarInit /\ [][GrammarNext]_shellvars

-----------------------------------------------------------------------------
(* The reference.  A token is an operator or a word with its place.        *)
RECURSIVE TokensFrom(_, _)
TokensFrom(l, i) ==
  LET t == Gettoken(l, i)
  IN  IF t.tok = NUL THEN <<>> ELSE <<t>> \o TokensFrom(l, t.next)
TokIs(t, i, op) == t[i].tok = op
Ahead(t, i) == SubSeq(t, 1, i - 1)
Beyond(t, i) == SubSeq(t, i + 1, Len(t))
IsRedir(t, i) == t[i].tok \in {"<", ">", "+"}
FilePlaces(t) == {i \in 2 .. Len(t) : IsRedir(t, i - 1)}
IsSimple(t) ==
  /\ \A i \in 1 .. Len(t) : t[i].tok = "a" \/ IsRedir(t, i)
  /\ \A i \in 1 .. Len(t) : IsRedir(t, i) => i < Len(t) /\ TokIs(t, i + 1, "a")
PlaceOf(t, i) == <<t[i].q, t[i].eq>>
Redirected(cmd, t, from) ==
  FoldLeft(LAMBDA c, i : Redircmd(c, PlaceOf(t, i), IF TokIs(t, i - 1, "<") THEN 0 ELSE 1, ~TokIs(t, i - 1, "<")),
           cmd, SetToSortSeq({i \in FilePlaces(t) : i > from}, <))

RECURSIVE LineTrees(_), BackTrees(_), PipeTrees(_)
ExecTrees(t) ==
  LET words == SetToSortSeq({i \in 1 .. Len(t) : TokIs(t, i, "a") /\ i \notin FilePlaces(t)}, <)
      simple == IF IsSimple(t) /\ Len(words) < MAXARGS
                THEN {Redirected(Execcmd([w \in 1 .. Len(words) |-> PlaceOf(t, words[w])]), t, 1)} ELSE {}
      block(j) == IF TokIs(t, 1, "(") /\ TokIs(t, j, ")") /\ IsSimple(Beyond(t, j)) /\ FilePlaces(t) \cap (j + 1 .. Len(t)) = {i \in j + 1 .. Len(t) : TokIs(t, i, "a")}
                  THEN {Redirected(c, t, j + 1) : c \in LineTrees(SubSeq(t, 2, j - 1))} ELSE {}
  IN  simple \cup UNION {block(j) : j \in 2 .. Len(t)}
PipeTrees(t) ==
  ExecTrees(t) \cup UNION {{Pipecmd(a, b) : a \in ExecTrees(Ahead(t, i)), b \in PipeTrees(Beyond(t, i))} : i \in {j \in 1 .. Len(t) : TokIs(t, j, "|")}}
BackTrees(t) ==
  PipeTrees(t) \cup IF t # <<>> /\ TokIs(t, Len(t), "&") THEN {Backcmd(c) : c \in BackTrees(Front(t))} ELSE {}
LineTrees(t) ==
  BackTrees(t) \cup UNION {{Listcmd(a, b) : a \in BackTrees(Ahead(t, i)), b \in LineTrees(Beyond(t, i))} : i \in {j \in 1 .. Len(t) : TokIs(t, j, ";")}}

-----------------------------------------------------------------------------
(* The parser accepts the lines of the grammar, no more and no less, and   *)
(* gives the one tree they have.                                           *)
ParserMeetsGrammar ==
  shparse.done => LineTrees(TokensFrom(shline, 1)) = IF shparse.ok THEN {shparse.cmd} ELSE {}

(* After nulterminate() every word and file name, read as a C string, is   *)
(* the text it was parsed from: no NUL falls inside another word, and each *)
(* word is followed by one.                                                *)
RECURSIVE WordsOf(_)
WordsOf(cmd) ==
  CASE cmd.type = "EXEC" -> ToSet(cmd.argv)
    [] cmd.type = "REDIR" -> WordsOf(cmd.cmd) \cup {cmd.file}
    [] cmd.type \in {"PIPE", "LIST"} -> WordsOf(cmd.left) \cup WordsOf(cmd.right)
    [] cmd.type = "BACK" -> WordsOf(cmd.cmd)
StringAt(text, q) == SubSeq(text, q, FirstFrom(text, q, {NUL}, TRUE) - 1)
WordsTerminated ==
  shparse.done /\ shparse.ok =>
    \A w \in WordsOf(shparse.cmd) :
      /\ StringAt(shparse.text, w[1]) = SubSeq(shline, w[1], w[2] - 1)
      /\ w[1] < w[2] /\ \A i \in w[1] .. w[2] - 1 : shline[i] \notin Whitespace \cup Symbols
=============================================================================
