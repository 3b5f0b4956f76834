------------------------------ MODULE Pmanager ------------------------------
(***************************************************************************)
(* The process manager of project02 (pmanager.c), its helpers and init     *)
(* (init.c), over what fork(), exit(), wait() and kill() of proc.c do.     *)
(* execute forks twice, so that the program's parent is already gone and   *)
(* init reaps it: pmanager waits for the child in between only.            *)
(***************************************************************************)
EXTENDS Integers, Sequences, FiniteSets, SequencesExt, FiniteSetsExt

CONSTANTS Pslots,      \* the slots of ptable left for pmanager and its programs
          Manager,     \* the slot pmanager runs in
          Lines        \* the lines typed at it, as words, Sp and Newline

ASSUME PmanagerSlots == Manager \in Pslots /\ Pslots \subseteq Nat \ {0}

VARIABLES pslot,       \* per slot: what runs there, its parent and p->killed
          pline        \* the line pmanager has read

pmanagervars == <<pslot, pline>>

Sp == "sp"
Newline == "nl"
InitProc == 0          \* no slot of Pslots
NoSlot == [runs |-> "unused", parent |-> InitProc, killed |-> FALSE]

PmanagerInit ==
  /\ pslot = [s \in Pslots |-> IF s = Manager THEN [NoSlot EXCEPT !.runs = "prompt"] ELSE NoSlot]
  /\ pline = <<>>

-----------------------------------------------------------------------------
(* getline() and parsecmd() *)

\* gets() ends at the newline; the last character is cut off whatever it is.
Getline(l) == Front(l)
Blanks(l) == {i \in DOMAIN l : l[i] = Sp}
Argc(l) == Cardinality(Blanks(l))
CmdWord(l) == IF Blanks(l) = {} THEN l ELSE SubSeq(l, 1, Min(Blanks(l)) - 1)
CmdType(l) == CASE CmdWord(l) = <<"list">> -> "LIST" [] CmdWord(l) = <<"kill">> -> "KILL"
                [] CmdWord(l) = <<"execute">> -> "EXEC" [] CmdWord(l) = <<"memlim">> -> "MEML"
                [] CmdWord(l) = <<"exit">> -> "EXIT" [] OTHER -> "ERRR"
Expargc == [LIST |-> 0, KILL |-> 1, EXEC |-> 2, MEML |-> 2, EXIT |-> 0]
Accepted(l) == CmdType(l) # "ERRR" /\ Argc(l) = Expargc[CmdType(l)]

-----------------------------------------------------------------------------
(* proc.c *)

PmRuns(s, what) == pslot[s].runs = what /\ ~pslot[s].killed
FreeSlots == {s \in Pslots : pslot[s].runs = "unused"}
PmChildren(p) == {s \in Pslots : pslot[s].runs # "unused" /\ pslot[s].parent = p}
Zombies(p) == {s \in PmChildren(p) : pslot[s].runs = "zombie"}
KeepLine == UNCHANGED pline

\* fork() and wait() go through the table from its beginning.
FirstOf(S) == IF S = {} THEN {} ELSE {Min(S)}

\* fork() by s, which goes on at parentAt, the child at childAt; -1 without a slot.
PmFork(s, parentAt, childAt) ==
  \/ \E c \in FirstOf(FreeSlots) :
       pslot' = [pslot EXCEPT ![s].runs = parentAt, ![c] = [runs |-> childAt, parent |-> s, killed |-> FALSE]]
  \/ FreeSlots = {} /\ pslot' = [pslot EXCEPT ![s].runs = parentAt]

\* exit(): the children go to init, whose wait() sees them.
Adopted(s) == [c \in Pslots |-> IF pslot[c].parent = s THEN [pslot[c] EXCEPT !.parent = InitProc] ELSE pslot[c]]
PmExits(s) == pslot' = [Adopted(s) EXCEPT ![s].runs = "zombie"] /\ KeepLine

\* wait() by s, which goes on at next: a zombie child reaped, or no child at all.
PmWaits(s, next) ==
  \/ \E z \in FirstOf(Zombies(s)) : pslot' = [pslot EXCEPT ![z] = NoSlot, ![s].runs = next]
  \/ PmChildren(s) = {} /\ pslot' = [pslot EXCEPT ![s].runs = next]

\* The process returns to user mode with p->killed set: trap() ends it.
KilledExits(s) == pslot[s].killed /\ pslot[s].runs \notin {"unused", "zombie"} /\ PmExits(s)

PmKill(s) == pslot[s].runs \notin {"unused", "zombie"} /\ pslot' = [pslot EXCEPT ![s].killed = TRUE] /\ KeepLine

-----------------------------------------------------------------------------
(* main() *)

\* An empty line (EOF) ends the loop, and main() returns into nothing: no
\* more of the process is modelled than its end.
PmGets == PmRuns(Manager, "prompt") /\ \E l \in Lines :
  /\ pline' = Getline(l)
  /\ pslot' = IF Accepted(Getline(l)) /\ CmdType(Getline(l)) \in {"KILL", "EXEC", "EXIT"}
                THEN [pslot EXCEPT ![Manager].runs = CmdType(Getline(l))] ELSE pslot

PmKillCommand == PmRuns(Manager, "KILL") /\ KeepLine /\ \E s \in Pslots :
  pslot' = [IF s \in FreeSlots THEN pslot ELSE [pslot EXCEPT ![s].killed = TRUE] EXCEPT ![Manager].runs = "prompt"]

PmExecute == PmRuns(Manager, "EXEC") /\ PmFork(Manager, "wait", "child1") /\ KeepLine
PmWaitsChild == PmRuns(Manager, "wait") /\ PmWaits(Manager, "prompt") /\ KeepLine
PmExitCommand == PmRuns(Manager, "EXIT") /\ PmExits(Manager)

Child1Exit(s) == PmRuns(s, "exit") /\ PmExits(s)
\* Mutant: the first child runs the program itself.
Child1Execs(s) == PmRuns(s, "child1") /\ pslot' = [pslot EXCEPT ![s].runs = "child2"] /\ KeepLine
Child1Fork(s) == PmRuns(s, "child1") /\ PmFork(s, "exit", "child2") /\ KeepLine
Child2Exec(s) == PmRuns(s, "child2") /\ KeepLine
  /\ \/ pslot' = [pslot EXCEPT ![s].runs = "program"]
     \/ pslot' = [pslot EXCEPT ![s].runs = "exit"]                 \* exec2() failed
ProgramExits(s) == PmRuns(s, "program") /\ PmExits(s)

-----------------------------------------------------------------------------
(* init.c: wait() for ever *)

InitWaits == \E z \in FirstOf(Zombies(InitProc) \ {Manager}) : pslot' = [pslot EXCEPT ![z] = NoSlot] /\ KeepLine

HelperStep(s) == Child1Fork(s) \/ Child1Exit(s) \/ Child2Exec(s) \/ KilledExits(s)
ManagerStep == PmKillCommand \/ PmExecute \/ PmWaitsChild \/ PmExitCommand

PmanagerNext ==
  \/ PmGets \/ ManagerStep \/ InitWaits
  \/ \E s \in Pslots : HelperStep(s) \/ ProgramExits(s) \/ PmKill(s)

\* Every process that can run is scheduled (proc.c scheduler()); a program
\* need not end and nobody need type.
PmanagerFair ==
  /\ WF_pmanagervars(ManagerStep) /\ WF_pmanagervars(InitWaits)
  /\ \A s \in Pslots : WF_pmanagervars(HelperStep(s))

PmanagerSpec == PmanagerInit /\ [][PmanagerNext]_pmanagervars /\ PmanagerFair

-----------------------------------------------------------------------------
(* At its prompt pmanager has no child: what it executed belongs to init,  *)
(* running or zombie, also when a helper was killed or fork() failed.      *)
NothingLeftBehind == pslot[Manager].runs = "prompt" => PmChildren(Manager) = {}

(* Once nobody types any more no program stays a zombie (pmanager.c:80),   *)
(* whoever died first.  With more and more lines one might: wait() takes   *)
(* the first zombie of the table, and that may always be a newer one.      *)
NoZombies == \A s \in Pslots : pslot[s].runs # "zombie"
=============================================================================
