------------------------------ MODULE Printing ------------------------------
(***************************************************************************)
(* The two formatted outputs of project01, printf() of the programs        *)
(* (printf.c) and cprintf() of the kernel (console.c), which interpret the *)
(* same formats in different ways, and the reading of a number back        *)
(* (atoi() of ulib.c).  Integers have IntMod values; the letters of digits *)
(* above 9, upper case in one and lower case in the other, are left out.   *)
(***************************************************************************)
EXTENDS Integers, Sequences, SequencesExt, TLC

CONSTANTS IntMod,      \* 2^w
          Dec, Hex,    \* the two bases
          Formats,     \* the formats, sequences of characters
          Arguments    \* the sequences of arguments

ASSUME PrintingConstants == IntMod \in Nat /\ IntMod > 2 /\ {Dec, Hex} \subseteq 2..16

VARIABLES pfmt, pargs, \* the call
          printed,     \* what printf() has written, <<>> before the call
          cprinted,    \* the same of cprintf()
          calls        \* what has been called, and which of the two have returned

printingvars == <<pfmt, pargs, printed, cprinted, calls>>

PrintingInit == pfmt = <<>> /\ pargs = <<>> /\ printed = <<>> /\ cprinted = <<>> /\ calls = {}

-----------------------------------------------------------------------------
\* An argument word as an int and as a uint; digits are the numbers' values.
AsInt(x) == IF x >= IntMod \div 2 THEN x - IntMod ELSE x
RECURSIVE DigitsOf(_, _)
DigitsOf(x, base) == (IF x < base THEN <<>> ELSE DigitsOf(x \div base, base)) \o <<ToString(x % base)>>

\* x = -xx in a uint: the most negative int is its own magnitude.
Printint(x, base, sgn) ==
  IF sgn /\ AsInt(x) < 0 THEN <<"-">> \o DigitsOf((-x) % IntMod, base) ELSE DigitsOf(x, base)

\* A string argument: the null pointer or one text.
StringOf(x) == IF x = 0 THEN <<"(null)">> ELSE <<"text">>

\* Written, and the state is 0 again.
Puts(p, o) == [p EXCEPT !.pct = FALSE, !.out = @ \o o]

\* printf(): one character of the format, in the state after a plain one or a percent sign.
PrintfChar(p, ch) ==
  LET arg == Head(p.ap)
      takes(o) == [pct |-> FALSE, ap |-> Tail(p.ap), out |-> p.out \o o]
  IN IF ~p.pct THEN (IF ch = "%" THEN [p EXCEPT !.pct = TRUE] ELSE Puts(p, <<ch>>))
     ELSE CASE ch = "d" -> takes(Printint(arg, Dec, TRUE))
            [] ch \in {"x", "p"} -> takes(Printint(arg, Hex, FALSE))
            [] ch = "s" -> takes(StringOf(arg))
            [] ch = "c" -> takes(<<"char">>)
            [] ch = "%" -> Puts(p, <<"%">>)
            [] OTHER -> Puts(p, <<"%", ch>>)
PrintfOf(f, ap) == FoldLeft(PrintfChar, [pct |-> FALSE, ap |-> ap, out |-> <<>>], f).out

\* cprintf(): the character after a percent sign is taken with it.
RECURSIVE CprintfOf(_, _)
CprintfOf(f, ap) ==
  IF f = <<>> \/ f = <<"%">> THEN <<>>
  ELSE IF f[1] # "%" THEN <<f[1]>> \o CprintfOf(Tail(f), ap)
  ELSE LET rest == Tail(Tail(f)) IN
       CASE f[2] = "d" -> Printint(ap[1], Dec, TRUE) \o CprintfOf(rest, Tail(ap))
         [] f[2] \in {"x", "p"} -> Printint(ap[1], Hex, FALSE) \o CprintfOf(rest, Tail(ap))
         [] f[2] = "s" -> StringOf(ap[1]) \o CprintfOf(rest, Tail(ap))
         [] f[2] = "%" -> <<"%">> \o CprintfOf(rest, ap)
         [] OTHER -> <<"%", f[2]>> \o CprintfOf(rest, ap)

PrintCalled ==
  /\ calls = {} /\ pfmt' \in Formats /\ pargs' \in Arguments
  /\ calls' = {"called"} /\ UNCHANGED <<printed, cprinted>>
Returns(f) == "called" \in calls /\ f \notin calls /\ calls' = calls \cup {f} /\ UNCHANGED <<pfmt, pargs>>
Printf == Returns("printf") /\ printed' = PrintfOf(pfmt, pargs) /\ UNCHANGED cprinted
Cprintf == Returns("cprintf") /\ cprinted' = CprintfOf(pfmt, pargs) /\ UNCHANGED printed

\* atoi(): stops at the first character that is no digit, a sign among them.
RECURSIVE AtoiFrom(_, _)
AtoiFrom(s, n) ==
  IF s = <<>> \/ s[1] \notin {ToString(d) : d \in 0..(Dec - 1)} THEN n
  ELSE AtoiFrom(Tail(s), n * Dec + CHOOSE d \in 0..(Dec - 1) : ToString(d) = s[1])
Atoi(s) == AtoiFrom(s, 0) % IntMod

PrintingNext == PrintCalled \/ Printf \/ Cprintf
PrintingSpec == PrintingInit /\ [][PrintingNext]_printingvars

-----------------------------------------------------------------------------
(* The kernel and the programs print a format alike, but for %c, which     *)
(* cprintf() does not know (console.c:50, printf.c:38).                    *)
PrintersAgree == {"printf", "cprintf"} \subseteq calls /\ "c" \notin ToSet(pfmt) => printed = cprinted

(* A number printed with %d reads back as itself, at every width's edges:  *)
(* the sign, the most negative number, and 0.                              *)
NumbersReadBack ==
  "printf" \in calls /\ pfmt = <<"%", "d">> =>
    LET neg == AsInt(pargs[1]) < 0
    IN /\ neg <=> printed[1] = "-"
       /\ Atoi(IF neg THEN Tail(printed) ELSE printed) = (IF neg THEN (-pargs[1]) % IntMod ELSE pargs[1])
=============================================================================
