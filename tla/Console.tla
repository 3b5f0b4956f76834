------------------------------ MODULE Console ------------------------------
(***************************************************************************)
(* The console of project01/xv6-public (console.c): consoleintr() edits a  *)
(* line in input.buf between three unsigned indices and echoes it on the   *)
(* screen, consoleread() hands committed input to processes that sleep for *)
(* it, consolewrite() prints.                                              *)
(*                                                                         *)
(* A section under cons.lock is one action.  The serial line, to which     *)
(* consputc() sends the same bytes, is not modelled.  The characters that  *)
(* consoleintr() is given are those Keyboard makes; here any may come next.*)
(***************************************************************************)
EXTENDS Keyboard

CONSTANTS
  INPUT_BUF, ConsUInt,      \* 128 and 2^32
  Columns, Rows,            \* 80 and 25
  ConsProcs, Letters, ReadSizes

ASSUME ConsoleAssumption ==
  /\ {INPUT_BUF, ConsUInt} \subseteq Nat \ {0}
  /\ ConsUInt % INPUT_BUF = 0 /\ ConsUInt > INPUT_BUF
  /\ Columns \in Nat \ {0} /\ Rows \in Nat \ {0, 1}
  /\ Letters # {} /\ Letters \cap {"nl", "C-d", "C-u", "C-h"} = {}
  /\ ReadSizes \subseteq Nat \ {0}

VARIABLES
  input,   \* buf, r, w, e
  screen,  \* crt, the cells; pos, the cursor; panic
  echoed,  \* cells before the cursor that the line being edited has echoed
  cproc    \* pc, n and target of consoleread(), killed

consolevars == <<input, screen, echoed, cproc>>

NL == "nl"
EOT == "C-d"
KillLine == "C-u"
BackSpace == "C-h"
Blank == " "
Cells == 0 .. Rows * Columns
Sub(a, b) == (a - b) % ConsUInt

ConsoleInit ==
  /\ input = [buf |-> [i \in 0 .. INPUT_BUF - 1 |-> Blank], r |-> 0, w |-> 0, e |-> 0]
  /\ screen = [crt |-> [i \in Cells |-> Blank], pos |-> 0, panic |-> FALSE]
  /\ echoed = 0
  /\ cproc = [p \in ConsProcs |-> [pc |-> "out", n |-> 0, target |-> 0, killed |-> FALSE]]

-----------------------------------------------------------------------------
(* cgaputc(): the cell, the cursor, and the scroll of the last line.       *)

PutCell(s, c) ==
  CASE c = NL -> [s EXCEPT !.pos = @ + (Columns - (@ % Columns))]
    [] c = BackSpace -> [s EXCEPT !.pos = IF @ > 0 THEN @ - 1 ELSE 0]
    [] OTHER -> [s EXCEPT !.crt[s.pos] = c, !.pos = @ + 1]

Moved(s) ==
  [i \in Cells |-> IF i < (Rows - 2) * Columns THEN s.crt[i + Columns]
                   ELSE IF i >= s.pos - Columns /\ i < (Rows - 1) * Columns THEN Blank
                   ELSE s.crt[i]]
Scroll(s) == [s EXCEPT !.crt = Moved(s), !.pos = @ - Columns]

Cgaputc(s, c) ==
  LET put == PutCell(s, c)
      on == put.pos <= Rows * Columns
      up == IF put.pos \div Columns >= Rows - 1 THEN Scroll(put) ELSE put
  IN  IF on THEN [up EXCEPT !.crt[up.pos] = Blank] ELSE [put EXCEPT !.panic = TRUE]

Rub(s, k) ==
  LET rubbed[i \in 0 .. k] == IF i = 0 THEN s ELSE Cgaputc(rubbed[i - 1], BackSpace)
  IN  rubbed[k]

-----------------------------------------------------------------------------
(* consoleintr(), a character at a time.  Mutant: a full buffer is not     *)
(* committed.                                                              *)

Editing == Sub(input.e, input.w)
HasRoom == Sub(input.e, input.r) < INPUT_BUF
CommitsLine(c, e) == c = NL \/ c = EOT
Commits(c, e) == c = NL \/ c = EOT \/ e = (input.r + INPUT_BUF) % ConsUInt

(* Characters between e and r are not looked at and are forgotten.         *)
Forget(in) ==
  [in EXCEPT !.buf = [i \in DOMAIN @ |-> IF (i - in.r) % INPUT_BUF < Sub(in.e, in.r)
                                         THEN @[i] ELSE Blank]]

(* wakeup(&input.r).                                                       *)
Roused(pc) == IF pc = "asleep" THEN "woken" ELSE pc
ConsWoken(procs) == [p \in ConsProcs |-> [procs[p] EXCEPT !.pc = Roused(@)]]

Erase(k) ==
  /\ input' = Forget([input EXCEPT !.e = Sub(@, k)])
  /\ screen' = Rub(screen, k)
  /\ echoed' = IF echoed > k THEN echoed - k ELSE 0
  /\ UNCHANGED cproc

ConsErases(c) ==
  /\ Editing > 0
  /\ \/ c = BackSpace /\ Erase(1)
     \/ c = KillLine /\ Erase(Editing)

Types(c) ==
  LET e == (input.e + 1) % ConsUInt
  IN  /\ HasRoom
      /\ input' = [input EXCEPT !.buf[input.e % INPUT_BUF] = c, !.e = e,
                                !.w = IF Commits(c, e) THEN e ELSE @]
      /\ screen' = Cgaputc(screen, c)
      /\ echoed' = IF Commits(c, e) THEN 0 ELSE echoed + 1
      /\ cproc' = IF Commits(c, e) THEN ConsWoken(cproc) ELSE cproc

Consoleintr ==
  \/ \E c \in {BackSpace, KillLine} : ConsErases(c)
  \/ \E c \in Letters \cup {NL, EOT} : Types(c)

-----------------------------------------------------------------------------
(* consoleread(): up to n characters, a newline, or an end of file, which  *)
(* is left for the next call if something was read.                        *)

ConsRead(p) ==
  /\ cproc[p].pc = "out" /\ ~cproc[p].killed
  /\ \E n \in ReadSizes :
       cproc' = [cproc EXCEPT ![p] = [@ EXCEPT !.pc = "in", !.n = n, !.target = n]]
  /\ UNCHANGED <<input, screen, echoed>>

Unread == [i \in 1 .. Sub(input.w, input.r) |-> input.buf[(input.r + i - 1) % INPUT_BUF]]
Ends(i, n) == Unread[i] \in {NL, EOT} \/ i = n
Leaves(p) == [cproc EXCEPT ![p] = [@ EXCEPT !.pc = "out", !.n = 0, !.target = 0]]

ConsoleReads(p) ==
  LET n == cproc[p].n
      ends == {i \in DOMAIN Unread : Ends(i, n)}
      last == CHOOSE i \in ends : \A j \in ends : i <= j
      n1 == n - (last - 1)                  \* n when the last one is read
      k == IF Unread[last] = EOT /\ n1 < cproc[p].target THEN last - 1 ELSE last
  IN  /\ cproc[p].pc \in {"in", "woken"}
      /\ \/ /\ ends # {}
            /\ input' = Forget([input EXCEPT !.r = (@ + k) % ConsUInt])
            /\ cproc' = Leaves(p)
         \/ /\ ends = {}
            /\ input' = Forget([input EXCEPT !.r = input.w])
            /\ cproc' = IF cproc[p].killed THEN Leaves(p)
                        ELSE [cproc EXCEPT ![p] = [@ EXCEPT !.pc = "asleep",
                                                            !.n = n - Len(Unread)]]
      /\ UNCHANGED <<screen, echoed>>

ConsoleWrites ==
  /\ \E c \in {CHOOSE l \in Letters : TRUE, NL} : screen' = Cgaputc(screen, c)
  /\ echoed' = 0
  /\ UNCHANGED <<input, cproc>>

ConsKill(p) ==
  /\ ~cproc[p].killed
  /\ cproc' = [cproc EXCEPT ![p].killed = TRUE, ![p].pc = Roused(@)]
  /\ UNCHANGED <<input, screen, echoed>>

ConsoleNext ==
  Consoleintr \/ ConsoleWrites \/ \E p \in ConsProcs : ConsRead(p) \/ ConsoleReads(p) \/ ConsKill(p)

ConsoleSpec == ConsoleInit /\ [][ConsoleNext]_consolevars

-----------------------------------------------------------------------------
(* Properties.                                                             *)

(* r, w and e stay in this order and within one turn of the buffer, over   *)
(* any wrap, and a full buffer has something to read: typing is refused    *)
(* only while a reader is behind.                                          *)
IndicesOrdered ==
  /\ Sub(input.w, input.r) <= Sub(input.e, input.r)
  /\ Sub(input.e, input.r) <= INPUT_BUF
  /\ ~HasRoom => input.w # input.r

(* Nobody sleeps in consoleread() with input there, nor killed.            *)
ReadersAwake ==
  \A p \in ConsProcs : cproc[p].pc = "asleep" => input.r = input.w /\ ~cproc[p].killed

(* The cursor is on the screen above the line that scrolls, and before it  *)
(* stands the line being edited, also when it wrapped or was scrolled,     *)
(* back to where it began or other output broke it.                        *)
ScreenShowsLine ==
  /\ ~screen.panic /\ screen.pos < (Rows - 1) * Columns
  /\ \A k \in 1 .. echoed :
       k <= screen.pos => screen.crt[screen.pos - k] = input.buf[Sub(input.e, k) % INPUT_BUF]

(* console.c, kbd.c: r, w and e stay ordered, no reader of console input   *)
(* sleeps over a line, the screen shows the line being edited, and no      *)
(* modifier stays on when its key is up.                                   *)
ConsoleSafe == IndicesOrdered /\ ReadersAwake /\ ScreenShowsLine /\ NoModifierStuck
=============================================================================
