----------------------------- MODULE MCServices -----------------------------
(***************************************************************************)
(* The instances of the modules whose promise is that something happens,   *)
(* in one state space: the variable part says which of them runs; the      *)
(* variables of the others stay 0, or as they begin.                       *)
(***************************************************************************)
EXTENDS Buffers, Boot, Shell, Pmanager

\* Boot: tables with other entries, in other orders, with more processors
\* than NCPU, with an unknown entry, without one of the machine's, with
\* one that the machine has not and with a gap in the numbers.
Proc(id) == [type |-> "MPPROC", id |-> id]
Other(type) == [type |-> type, id |-> 0]
MCMpTables ==
  {<<Proc(0), Proc(1), Other("MPBUS"), Other("MPIOAPIC")>>, <<Other("MPIOINTR"), Proc(2), Proc(1), Proc(0)>>,
   <<Proc(0), Other("MPLINTR"), Proc(1), Proc(2), Proc(3)>>, <<Proc(1), Other("unknown"), Proc(2)>>, <<Proc(0), Proc(4)>>, <<Proc(0), Proc(2)>>}

\* Shell: lines of every kind of command, one that panics.
MCShLines ==
  {<<"a", "|", "b", "|", "c">>, <<"(", "a", ";", "b", ")", "|", "c">>, <<"a", ">", "f">>, <<"a", "&">>, <<"c", "d", " ", "a">>,
   <<"a", "<", ";">>, <<"a", ";", "|">>}

\* Pmanager: its commands, and lines it does not understand.
MCLines ==
  {<<"list", Newline>>, <<"kill", Sp, "1", Newline>>, <<"exit", Newline>>,
   <<"execute", Sp, "a", Sp, "1", Newline>>, <<"execute", Sp, "a", Newline>>,
   <<"execute", Sp, Sp, "a", Sp, "1", Newline>>, <<"memlim", Sp, "1", Sp, "0", Newline>>, <<"ls", Newline>>}

VARIABLE part

ShellAbsent ==
  /\ sh = 0 /\ pipes = 0
PmanagerAbsent ==
  /\ pslot = 0 /\ pline = 0

ServicesInit ==
  /\ part \in {"buffers", "boot", "shell", "pmanager"}
  /\ BuffersInit
  /\ BootInit
  /\ IF part = "shell" THEN ShellInit ELSE ShellAbsent
  /\ IF part = "pmanager" THEN PmanagerInit ELSE PmanagerAbsent

ServicesNext ==
  /\ UNCHANGED part
  /\ IF part = "buffers" THEN BuffersNext ELSE UNCHANGED buffervars
  /\ IF part = "boot" THEN BootNext ELSE UNCHANGED bootvars
  /\ IF part = "shell" THEN ShellNext ELSE UNCHANGED shvars
  /\ IF part = "pmanager" THEN PmanagerNext ELSE UNCHANGED pmanagervars

servicesvars == <<part, buffervars, bootvars, shvars, pmanagervars>>

-----------------------------------------------------------------------------
(* Fairness: the disk answers and processors do not stop, so that who can  *)
(* run does (scheduler()); nobody need type and no program need end.       *)
BuffersFair ==
  /\ WF_buffervars(part = "buffers" /\ Ideintr)
  /\ \A p \in BufProcs : WF_buffervars(part = "buffers" /\ BufStep(p))
BootFair ==
  /\ WF_bootvars(part = "boot" /\ MainStep)
  /\ \A id \in ApicIds :
       WF_bootvars(part = "boot" /\ ApStep(id)) /\ WF_bootvars(part = "boot" /\ SchedulerRuns(id))
ShellFair == \A p \in ShProc : WF_shvars(part = "shell" /\ ShellSteps(p))
PmanagerGoesOn ==
  /\ WF_pmanagervars(part = "pmanager" /\ ManagerStep)
  /\ WF_pmanagervars(part = "pmanager" /\ InitWaits)
  /\ \A s \in Pslots : WF_pmanagervars(part = "pmanager" /\ HelperStep(s))

ServicesSpec ==
  /\ ServicesInit /\ [][ServicesNext]_servicesvars
  /\ BuffersFair /\ BootFair /\ ShellFair /\ PmanagerGoesOn

-----------------------------------------------------------------------------
(* The properties of the parts, each where its part runs; BootSafe is in   *)
(* Boot, and what buffers hold is for a run of Buffers with more values.   *)

(* sh.c, pmanager.c: no end of a pipe is left open in a program, and no    *)
(* child is left to pmanager at its prompt.                                *)
NothingLeftOpen ==
  /\ part = "shell" => NoStrayEnds
  /\ part = "pmanager" => NothingLeftBehind

(* Who waits for the disk gets an answer, and with a table that names the  *)
(* machine's processors each of them comes to schedule.                    *)
HardwareAnswers ==
  /\ \A p \in BufProcs :
       (part = "buffers" /\ bstep[p].pc = "disk") ~> (part = "buffers" => bstep[p].pc = "use" \/ bcachePanic)
  /\ (part = "boot" /\ BootAt("ioapicinit") /\ ToSet(boot.cpus) \subseteq ApicIds) ~>
       (part = "boot" => boot.init = "running" /\ \A id \in ToSet(boot.cpus) : Schedules(id))

(* Whatever the line, the shell's prompt comes back; execute comes back to *)
(* pmanager's prompt though the program never ends; and once nobody types  *)
(* there, init has reaped every zombie.                                    *)
PromptsReturn ==
  /\ []<>(part = "shell" => sh[1].pc = "getcmd")
  /\ (part = "pmanager" /\ pslot[Manager].runs = "wait") ~> (part = "pmanager" => pslot[Manager].runs # "wait")
  /\ <>[](part = "pmanager" => pslot[Manager].runs = "prompt") => []<>(part = "pmanager" => NoZombies)
=============================================================================
