----------------------------- MODULE ShellParse -----------------------------
(* The parser of the shell (sh.c): a line, a sequence of characters, to a  *)
(* tree of commands.  A word is kept as the positions q and eq between     *)
(* which it stands in the line, as the parser keeps pointers into buf.     *)
EXTENDS Integers, SequencesExt

CONSTANTS MAXARGS

NUL == "0"
Whitespace == {" ", "nl"}
Symbols == {"<", "|", ">", "&", ";", "(", ")"}

CharAt(l, i) == IF i <= Len(l) THEN l[i] ELSE NUL
(* The first position from i on where a character is in S, or is not.      *)
FirstFrom(l, i, S, isin) == CHOOSE j \in i .. Len(l) + 1 :
  /\ j = Len(l) + 1 \/ (l[j] \in S) = isin
  /\ \A k \in i .. j - 1 : (l[k] \in S) # isin
Skip(l, i) == FirstFrom(l, i, Whitespace, FALSE)
(* Where the word at i ends.                                               *)
WordEnd(l, i) == FirstFrom(l, i, Whitespace \cup Symbols, TRUE)

\* The token at q, where c stands; it ends at eq.
TokenOf(l, c, q, eq) ==
  [tok |-> IF c = ">" /\ eq = q + 2 THEN "+" ELSE IF c = NUL \/ c \in Symbols THEN c ELSE "a",
   c |-> c, q |-> q, eq |-> eq, next |-> Skip(l, eq)]
TokenAt(l, c, q) ==
  TokenOf(l, c, q, IF c = NUL THEN q
                 ELSE IF c = ">" /\ CharAt(l, q + 1) = ">" THEN q + 2
                 ELSE IF c \in Symbols THEN q + 1 ELSE WordEnd(l, q))
Gettoken(l, i) == TokenAt(l, CharAt(l, Skip(l, i)), Skip(l, i))

(* What gettoken() returns from each position of the line, for the parsers *)
(* below.  peek() looks at the character the token begins with.            *)
Tokens(l) == [i \in 1 .. Len(l) + 1 |-> Gettoken(l, i)]
Peek(t, i, toks) == t[i].c \in toks

(* Constructors.                                                           *)
NoCmd == [type |-> "none"]
Execcmd(argv) == [type |-> "EXEC", argv |-> argv]
Redircmd(cmd, file, fd, create) == [type |-> "REDIR", cmd |-> cmd, file |-> file, fd |-> fd, create |-> create]
Pipecmd(left, right) == [type |-> "PIPE", left |-> left, right |-> right]
Listcmd(left, right) == [type |-> "LIST", left |-> left, right |-> right]
Backcmd(cmd) == [type |-> "BACK", cmd |-> cmd]

-----------------------------------------------------------------------------
(* Each parser returns the command, the position after it, and whether the *)
(* child is still alive: panic() exits.                                    *)
Parsed(cmd, i) == [ok |-> TRUE, cmd |-> cmd, pos |-> i]
ParsePanic == [ok |-> FALSE, cmd |-> NoCmd, pos |-> 0]

(* A command of two, if the second one parses.                             *)
Both(cmd, right) == IF right.ok THEN Parsed(cmd, right.pos) ELSE right

RECURSIVE Parseline(_, _), Parsepipe(_, _), Parseredirs(_, _, _), Parseargs(_, _, _), Around(_, _)

Redirection(cmd, op, file) ==
  Redircmd(cmd, <<file.q, file.eq>>, IF op.tok = "<" THEN 0 ELSE 1, op.tok # "<")
Parseredirs(cmd, t, i) ==
  IF ~Peek(t, i, {"<", ">"}) THEN Parsed(cmd, t[i].q)
  ELSE IF t[t[i].next].tok # "a" THEN ParsePanic      \* "missing file for redirection"
  ELSE Parseredirs(Redirection(cmd, t[i], t[t[i].next]), t, t[t[i].next].next)

(* The words of a command; redirections may stand between them and wrap    *)
(* the command, of which parseexec() keeps a pointer to add words to.      *)
Around(cmd, w) == IF cmd.type = "EXEC" THEN Execcmd(Append(cmd.argv, w)) ELSE [cmd EXCEPT !.cmd = Around(@, w)]

Parseargs(r, t, argc) ==
  IF ~r.ok \/ Peek(t, r.pos, {"|", ")", "&", ";", NUL}) THEN r
  ELSE IF t[r.pos].tok # "a" \/ argc + 1 >= MAXARGS THEN ParsePanic      \* "syntax", "too many args"
  ELSE Parseargs(Parseredirs(Around(r.cmd, <<t[r.pos].q, t[r.pos].eq>>), t, t[r.pos].next), t, argc + 1)

Blockend(inner, t) ==
  IF ~inner.ok \/ ~Peek(t, inner.pos, {")"}) THEN ParsePanic      \* "syntax - missing )"
  ELSE Parseredirs(inner.cmd, t, t[inner.pos].next)
Parseblock(t, i) == Blockend(Parseline(t, t[i].next), t)

Parseexec(t, i) ==
  IF Peek(t, i, {"("}) THEN Parseblock(t, i) ELSE Parseargs(Parseredirs(Execcmd(<<>>), t, i), t, 0)

Pipeline(left, t) ==
  IF left.ok /\ Peek(t, left.pos, {"|"})
  THEN LET right == Parsepipe(t, t[left.pos].next) IN Both(Pipecmd(left.cmd, right.cmd), right)
  ELSE left
Parsepipe(t, i) == Pipeline(Parseexec(t, i), t)

RECURSIVE Parseback(_, _)
Parseback(r, t) ==
  IF r.ok /\ Peek(t, r.pos, {"&"}) THEN Parseback(Parsed(Backcmd(r.cmd), t[r.pos].next), t) ELSE r

Listed(left, t) ==
  IF left.ok /\ Peek(t, left.pos, {";"})
  THEN LET right == Parseline(t, t[left.pos].next) IN Both(Listcmd(left.cmd, right.cmd), right)
  ELSE left
Parseline(t, i) == Listed(Parseback(Parsepipe(t, i), t), t)

Whole(r, t) == IF r.ok /\ t[r.pos].c # NUL THEN ParsePanic ELSE r      \* "leftovers"
Parsecmd(l) == Whole(Parseline(Tokens(l), 1), Tokens(l))

(* nulterminate(): the positions of the line it overwrites with NUL.       *)
RECURSIVE Nulterminate(_)
Nulterminate(cmd) ==
  CASE cmd.type = "EXEC" -> {w[2] : w \in ToSet(cmd.argv)}
    [] cmd.type = "REDIR" -> Nulterminate(cmd.cmd) \cup {cmd.file[2]}
    [] cmd.type \in {"PIPE", "LIST"} -> Nulterminate(cmd.left) \cup Nulterminate(cmd.right)
    [] cmd.type = "BACK" -> Nulterminate(cmd.cmd)
=============================================================================
