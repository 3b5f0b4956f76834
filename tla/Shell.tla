------------------------------- MODULE Shell -------------------------------
(* The shell at work (main() and runcmd() of sh.c): the processes a line   *)
(* forks, their descriptors and the pipes between them.  A step is one     *)
(* system call, or several that only concern the process itself.  The      *)
(* programs it executes are external: each reads its standard input to the *)
(* end, writes once to its standard output and exits.  ShOrphans keeps a   *)
(* process free for the fork1() of main() (sh.c:167), which so never       *)
(* fails here; in the code its failure is a panic() that ends the shell,   *)
(* and init starts another one.                                            *)
EXTENDS ShellParse, FiniteSets

CONSTANTS
  ShLines,       \* lines typed, sequences of characters
  ShProcs,       \* bound: processes, 1 is the shell; with none free fork() fails
  ShPipes,       \* bound: pipes open at a time, with more pipe() fails
  ShOrphans      \* bound: processes left in the background when a line is typed

VARIABLES
  sh,            \* processes: pc, parent, cmd (a subtree), fds
  pipes          \* bytes in each pipe, 0 once its ends are closed

shvars == <<sh, pipes>>

ShProc == 1 .. ShProcs
Fds == 0 .. 4
Closed == [kind |-> "closed", id |-> 0]
Console == [kind |-> "console", id |-> 0]
FileObj == [kind |-> "file", id |-> 0]
PipeEnd(kind, p) == [kind |-> kind, id |-> p]
NoProcess == [pc |-> "free", parent |-> 0, cmd |-> NoCmd, line |-> <<>>, fds |-> [f \in Fds |-> Closed]]

ShellInit ==      \* main() has opened console three times
  /\ sh = [p \in ShProc |-> IF p = 1 THEN [NoProcess EXCEPT !.pc = "getcmd", !.fds = [f \in Fds |-> IF f < 3 THEN Console ELSE Closed]]
                            ELSE NoProcess]
  /\ pipes = [i \in 1 .. ShPipes |-> 0]

Running(pc, p) == sh[p].pc = pc
Run(cmd, p) == sh[p].pc = "runcmd" /\ sh[p].cmd.type = cmd
FreeProcs == {p \in ShProc : sh[p].pc = "free"}
Child == CHOOSE p \in FreeProcs : \A q \in FreeProcs : p <= q
OpenedIn(procs, obj) == {p \in ShProc : procs[p].pc \notin {"free", "zombie"} /\ \E f \in Fds : procs[p].fds[f] = obj}
Opened(obj) == OpenedIn(sh, obj)
OpenIn(procs) == {i \in 1 .. ShPipes : \E kind \in {"read", "write"} : OpenedIn(procs, PipeEnd(kind, i)) # {}}
PipesOf(procs) == [i \in 1 .. ShPipes |-> IF i \in OpenIn(procs) THEN pipes[i] ELSE 0]
Dup(fds, from, to) == [fds EXCEPT ![to] = fds[from]]
CloseAll(fds, S) == [f \in Fds |-> IF f \in S THEN Closed ELSE fds[f]]

(* exit(): descriptors close; children of the shell's children are         *)
(* adopted and reaped by init.                                             *)
ExitsIn(procs, p) ==
  [q \in ShProc |->
     IF q = p THEN IF procs[p].parent = 0 THEN NoProcess ELSE [NoProcess EXCEPT !.pc = "zombie", !.parent = procs[p].parent]
     ELSE IF procs[q].parent = p THEN IF procs[q].pc = "zombie" THEN NoProcess ELSE [procs[q] EXCEPT !.parent = 0]
     ELSE procs[q]]
Goes(procs) == sh' = procs /\ pipes' = PipesOf(procs)
Exits(p) == Goes(ExitsIn(sh, p))

(* fork1(): the child runs cmd with the descriptors in fds, its parent     *)
(* goes on at pc.  When fork() fails the parent panics, which is to exit.  *)
Fork1(p, cmd, fds, pc) ==
  IF FreeProcs = {} THEN Exits(p)
  ELSE /\ sh' = [sh EXCEPT ![Child] = [pc |-> "runcmd", parent |-> p, cmd |-> cmd, line |-> sh[p].line, fds |-> fds],
                           ![p].pc = pc]
       /\ UNCHANGED pipes

-----------------------------------------------------------------------------
IsCd(l) == Len(l) >= 3 /\ SubSeq(l, 1, 3) = <<"c", "d", " ">>

\* A line (the input does not end); the child, or the shell itself for cd,
\* deals with it.  Bound: ShOrphans, so that fork1() succeeds.
Getcmd(p) ==
  \E l \in ShLines :
    /\ Running("getcmd", p) /\ Cardinality({q \in ShProc \ {1} : sh[q].pc # "free"}) <= ShOrphans
    /\ IF IsCd(l) THEN UNCHANGED shvars
       ELSE /\ sh' = [sh EXCEPT ![Child] = [sh[p] EXCEPT !.pc = "parsecmd", !.parent = p, !.line = l], ![p].pc = "wait"]
            /\ UNCHANGED pipes

ParsedLine == [l \in ShLines |-> Parsecmd(l)]
ParsecmdStep(p) ==
  LET r == ParsedLine[sh[p].line]
  IN  /\ Running("parsecmd", p)
      /\ IF r.ok THEN sh' = [sh EXCEPT ![p].pc = "runcmd", ![p].cmd = r.cmd] /\ UNCHANGED pipes ELSE Exits(p)

Runexec(p) ==     \* exec() may fail
  /\ Run("EXEC", p)
  /\ \/ Exits(p)
     \/ /\ sh[p].cmd.argv # <<>>
        /\ sh' = [sh EXCEPT ![p].pc = "read", ![p].cmd = NoCmd] /\ UNCHANGED pipes

Runredir(p) ==    \* and so may open()
  /\ Run("REDIR", p)
  /\ \/ Exits(p)
     \/ /\ sh' = [sh EXCEPT ![p].fds[sh[p].cmd.fd] = FileObj, ![p].cmd = @.cmd] /\ UNCHANGED pipes

Runlist(p) == Run("LIST", p) /\ Fork1(p, sh[p].cmd.left, sh[p].fds, "list")
Runback(p) == Run("BACK", p) /\ Fork1(p, sh[p].cmd.cmd, sh[p].fds, "exit")

(* The two ends of the pipe take the first free descriptors.  The child on *)
(* side f (1 writes, 0 reads) keeps its end in place of f.  Mutant: that   *)
(* is all it does.                                                         *)
Lowest(fds, k) == CHOOSE f \in Fds : fds[f] = Closed /\ Cardinality({g \in 0 .. f - 1 : fds[g] = Closed}) = k
PipeFds(fds) == {f \in Fds : fds[f].kind \in {"read", "write"} /\ f > 2}
SideKeeps(fds, f) == Dup(fds, CHOOSE g \in PipeFds(fds) : fds[g].kind = IF f = 1 THEN "write" ELSE "read", f)
Side(fds, f) == CloseAll(SideKeeps(fds, f), PipeFds(fds))
BothClosed(fds) == CloseAll(fds, PipeFds(fds))

Runpipe(p) ==
  LET fds == sh[p].fds
      id == CHOOSE i \in 1 .. ShPipes : i \notin OpenIn(sh) /\ \A j \in 1 .. i - 1 : j \in OpenIn(sh)
  IN  /\ Run("PIPE", p)
      /\ IF OpenIn(sh) = 1 .. ShPipes THEN Exits(p)      \* panic("pipe")
         ELSE /\ sh' = [sh EXCEPT ![p].pc = "left",
                   ![p].fds = [fds EXCEPT ![Lowest(fds, 0)] = PipeEnd("read", id), ![Lowest(fds, 1)] = PipeEnd("write", id)]]
              /\ UNCHANGED pipes
PipeLeft(p) == Running("left", p) /\ Fork1(p, sh[p].cmd.left, Side(sh[p].fds, 1), "right")
PipeRight(p) == Running("right", p) /\ Fork1(p, sh[p].cmd.right, Side(sh[p].fds, 0), "close")
PipeCloses(p) == Running("close", p) /\ Goes([sh EXCEPT ![p].pc = "wait2", ![p].fds = BothClosed(@)])

(* wait() takes any child that exited, and goes on at once with none.      *)
After(p) == CASE sh[p].pc = "wait" -> "getcmd" [] sh[p].pc = "list" -> "runcmd" [] sh[p].pc = "wait2" -> "wait1" [] OTHER -> "exit"
WaitStep(p) ==
  LET children == {q \in ShProc : sh[q].pc # "free" /\ sh[q].parent = p}
      next == [sh EXCEPT ![p].pc = After(p), ![p].cmd = IF sh[p].pc = "list" THEN @.right ELSE @]
  IN  /\ sh[p].pc \in {"wait", "list", "wait2", "wait1"} /\ UNCHANGED pipes
      /\ \/ children = {} /\ sh' = next
         \/ \E q \in children : sh[q].pc = "zombie" /\ sh' = [next EXCEPT ![q] = NoProcess]
RunDone(p) == Running("exit", p) /\ Exits(p)

-----------------------------------------------------------------------------
(* The programs.  A read of an empty pipe waits while someone could write. *)
ProgRead(p) ==
  LET in == sh[p].fds[0]
      eof == in.kind = "read" => pipes[in.id] = 0 /\ Opened(PipeEnd("write", in.id)) = {}
  IN  /\ Running("read", p)
      /\ \/ eof /\ sh' = [sh EXCEPT ![p].pc = "write"] /\ UNCHANGED pipes
         \/ in.kind = "read" /\ pipes[in.id] > 0 /\ pipes' = [pipes EXCEPT ![in.id] = @ - 1] /\ UNCHANGED sh
ProgWrite(p) ==   \* there is room for the one write of each writer
  LET out == sh[p].fds[1]
  IN  /\ Running("write", p) /\ sh' = [sh EXCEPT ![p].pc = "exit"]
      /\ pipes' = IF out.kind = "write" /\ Opened(PipeEnd("read", out.id)) # {}
                  THEN [pipes EXCEPT ![out.id] = @ + 1] ELSE pipes

ShellSteps(p) ==
  \/ ParsecmdStep(p) \/ Runexec(p) \/ Runredir(p) \/ Runlist(p) \/ Runback(p) \/ Runpipe(p) \/ PipeLeft(p) \/ PipeRight(p)
  \/ PipeCloses(p) \/ WaitStep(p) \/ RunDone(p) \/ ProgRead(p) \/ ProgWrite(p)
ShellNext == Getcmd(1) \/ \E p \in ShProc : ShellSteps(p)
ShellSpec == ShellInit /\ [][ShellNext]_shvars /\ \A p \in ShProc : WF_shvars(ShellSteps(p))

-----------------------------------------------------------------------------
(* A program that was executed holds its three standard descriptors and no *)
(* end of a pipe beside them; an end that is left over would keep a reader *)
(* of that pipe from ever seeing its end.                                  *)
NoStrayEnds ==
  \A p \in ShProc : sh[p].pc \in {"read", "write", "getcmd"} =>
    /\ \A f \in Fds \ {0, 1, 2} : sh[p].fds[f] = Closed
    /\ \A f \in {0, 1, 2} : sh[p].fds[f] # Closed

=============================================================================
