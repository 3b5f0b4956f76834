------------------------------ MODULE MCKernel ------------------------------
(***************************************************************************)
(* The instances of the modules about processes, devices, memory and user  *)
(* programs, in one state space: the variable part says which of them      *)
(* runs; the variables of the others stay 0, or as they begin.             *)
(***************************************************************************)
EXTENDS Pipe, Console, SysArgs, Memory, Buffers, Umalloc, Tools, Printing,
        ShellGrammar

\* Pipe: what the writers write.
MCTexts == {<<0>>, <<1, 0, 1>>}

\* Memory: a program file with one segment, with or without a page of bss.
MCPrograms == {<<[vaddr |-> 0, memsz |-> 1, filesz |-> 1], [vaddr |-> 0, memsz |-> 2, filesz |-> 1]>>}
MCSbrkArgs == {3, -4}

\* SysArgs: the first five bytes vary; the rest, the kernel's too, is not 0.
MCImages == {[a \in 0..15 |-> IF a < 5 THEN f[a] ELSE 1 + (a % 3)] : f \in [0..4 -> 0..2]}

\* Tools: every pattern on single lines; a few, and the programs without
\* one, on texts that the buffer or the pieces cut, from a file or a pipe.
Upto(S, n) == UNION {[1..k -> S] : k \in 0..n}
MCInputs ==
  [re : Upto({"a", "b", ".", "*", "^", "$"}, 3), text : {t \o <<"nl">> : t \in Upto({"a", "b"}, 3)},
   piped : {FALSE}]
  \cup [re : {<<>>, <<"a">>, <<"^", "$">>}, text : Upto({"a", "nl"}, 7) \cup Upto({"a", " ", "nl"}, 4),
         piped : BOOLEAN]

\* Printing: formats of up to four characters.
MCFormats == Upto({"a", "%", "d", "x", "s", "c"}, 4)
MCArguments == {<<n, 5, 0>> : n \in 0..15}

\* Buffers: nothing tells the blocks apart.
Symmetry == Permutations(Blknos)

VARIABLE part

UmallocAbsent ==
  /\ hdr = 0 /\ freep = 0 /\ brk = 0 /\ live = 0 /\ core = 0
ToolsAbsent ==
  /\ tool = 0 /\ left = 0 /\ tbuf = 0 /\ out = 0 /\ given = 0
  /\ dropped = 0
PrintingAbsent ==
  /\ pfmt = 0 /\ pargs = 0 /\ printed = 0 /\ cprinted = 0 /\ calls = 0
GrammarAbsent ==
  /\ shline = 0 /\ shparse = 0

KernelInit ==
  /\ part \in {"pipe", "console", "keyboard", "sysargs", "memory", "buffers",
       "umalloc", "tools", "printing", "grammar"}
  /\ PipeInit
  /\ ConsoleInit
  /\ KeyboardInit
  /\ SysArgsInit
  /\ MemoryInit /\ (part = "memory" \/ mpages = CHOOSE n \in MemPages : TRUE)
  /\ BuffersInit
  /\ IF part = "umalloc" THEN UmallocInit ELSE UmallocAbsent
  /\ IF part = "tools" THEN ToolsInit ELSE ToolsAbsent
  /\ IF part = "printing" THEN PrintingInit ELSE PrintingAbsent
  /\ IF part = "grammar" THEN GrammarInit ELSE GrammarAbsent

KernelNext ==
  /\ UNCHANGED part
  /\ IF part = "pipe" THEN PipeNext ELSE UNCHANGED pipevars
  /\ IF part = "console" THEN ConsoleNext ELSE UNCHANGED consolevars
  /\ IF part = "keyboard" THEN KeyboardNext ELSE UNCHANGED kbdvars
  /\ IF part = "sysargs" THEN SysArgsNext ELSE UNCHANGED sysargsvars
  /\ IF part = "memory" THEN MemoryNext ELSE UNCHANGED memvars
  /\ IF part = "buffers" THEN BuffersNext ELSE UNCHANGED buffervars
  /\ IF part = "umalloc" THEN UmallocNext ELSE UNCHANGED mallocvars
  /\ IF part = "tools" THEN ToolsNext ELSE UNCHANGED toolsvars
  /\ IF part = "printing" THEN PrintingNext ELSE UNCHANGED printingvars
  /\ IF part = "grammar" THEN GrammarNext ELSE UNCHANGED shellvars

kernelvars == <<part, pipevars, consolevars, kbdvars, sysargsvars,
    memvars, buffervars, mallocvars, toolsvars, printingvars, shellvars>>
KernelSpec == KernelInit /\ [][KernelNext]_kernelvars

-----------------------------------------------------------------------------
(* The properties of the programs, each where its part runs; those of the  *)
(* kernel are in the modules of their components.                          *)

(* umalloc.c, sh.c, grep.c, wc.c, cat.c, printf.c: no unit of the heap is  *)
(* lost or has two owners, and texts are parsed, matched and printed as    *)
(* their grammar, patterns and formats say.  wc and cat do not depend on   *)
(* the pieces read() gives, nor grep on where its buffer ends in a file;   *)
(* from a pipe grep is right until a piece without a newline comes.        *)
ProgramsRight ==
  /\ part = "umalloc" => EachUnitOnce /\ ListMerged
  /\ part = "grammar" => ParserMeetsGrammar /\ WordsTerminated
  /\ part = "tools" => GrepPrintsMatches /\ PiecesAddUp
  /\ part = "printing" => PrintersAgree /\ NumbersReadBack
=============================================================================
