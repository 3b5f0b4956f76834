-------------------------------- MODULE Boot --------------------------------
(* From the boot loader to the scheduler: main() on the first processor,   *)
(* which reads the table of processors, starts the others one at a time    *)
(* and lays out memory (main.c, mp.c, lapic.c, ioapic.c, kalloc.c), and    *)
(* the entry code of each of the others (entryother.S, mpenter()).         *)
EXTENDS Integers, SequencesExt, FiniteSetsExt

CONSTANTS
  ApicIds,       \* the processors of the machine, by the number of their local APIC
  MpTables,      \* configuration tables: sequences of [type, id]
  NCPU,          \* param.h
  LowPages, HighPages      \* pages below and above 4 Mbyte

(* A table names a processor once, and there is a low page for each stack. *)
ASSUME BootAssumption ==
  /\ NCPU \in Nat \ {0}
  /\ MpTables \subseteq Seq([type : STRING, id : Nat])
  /\ LowPages \subseteq Nat \ {0} /\ HighPages \subseteq Nat \ {0}
  /\ \A low \in LowPages, high \in HighPages : low < high
  /\ IsFiniteSet(LowPages) /\ Cardinality(LowPages) >= NCPU
  /\ \A t \in MpTables : \A i, j \in DOMAIN t :
       t[i].type = "MPPROC" /\ t[j].type = "MPPROC" /\ t[i].id = t[j].id => i = j

VARIABLES
  boot,          \* the first processor: its place in main() and what it has set up
  ap             \* the others: place, stack, cpu->started

bootvars == <<boot, ap>>

ApHalted == [pc |-> "halted", stack |-> 0, started |-> FALSE]
BootInit ==
  /\ boot = [pc |-> "kinit1", me |-> 0, table |-> <<>>, pos |-> 1, cpus |-> <<>>, k |-> 1, stack |-> 0,
             free |-> {}, uselock |-> FALSE, disk |-> 0, init |-> "none"]
  /\ ap = [id \in ApicIds |-> ApHalted]

(* The order in which main() calls what matters here.                      *)
MainCalls == <<"kinit1", "mpsearch", "mpinit", "seginit", "ioapicinit", "startothers", "kinit2", "userinit", "mpmain">>
BootAt(pc) == boot.pc = pc
NextCall(pc) == MainCalls[1 + CHOOSE i \in 1 .. Len(MainCalls) - 1 : MainCalls[i] = pc]
BootDo(b) == boot' = b /\ UNCHANGED ap
Proceed(b) == BootDo([b EXCEPT !.pc = NextCall(boot.pc)])
PanicAtBoot == BootDo([boot EXCEPT !.pc = "panicked"])

Kinit1 ==      \* and what the machine is like
  /\ BootAt("kinit1")
  /\ \E me \in ApicIds, t \in MpTables : Proceed([boot EXCEPT !.me = me, !.table = t, !.free = LowPages])

(* mpsearch(), mpconfig(): a floating structure and a table that check, in *)
(* the extended BIOS area if there is one, the end of base memory if not,  *)
(* or the ROM.                                                             *)
Mpsearch ==
  \E valid \in SUBSET {"ebda", "base", "rom"}, ebda \in BOOLEAN, table \in BOOLEAN :
    /\ BootAt("mpsearch")
    /\ IF table /\ valid \cap {"rom", IF ebda THEN "ebda" ELSE "base"} # {} THEN Proceed(boot) ELSE PanicAtBoot

(* mpinit(), entry by entry.  BootAt one of an unknown type it stays for ever, *)
(* and does not get to the panic that follows the loop.                    *)
MpinitEntry ==
  LET e == boot.table[boot.pos]
  IN  /\ BootAt("mpinit") /\ boot.pos <= Len(boot.table)
      /\ e.type \in {"MPPROC", "MPIOAPIC", "MPBUS", "MPIOINTR", "MPLINTR"}
      /\ BootDo([boot EXCEPT !.pos = @ + 1,
                         !.cpus = IF e.type = "MPPROC" /\ Len(@) < NCPU THEN Append(@, e.id) ELSE @])
MpinitDone == BootAt("mpinit") /\ boot.pos > Len(boot.table) /\ Proceed(boot)

Seginit ==     \* mycpu() must find this processor in the table
  BootAt("seginit") /\ IF boot.me \in ToSet(boot.cpus) THEN Proceed(boot) ELSE PanicAtBoot

(* ioapicinit() masks all lines; ideinit() then routes the disk's to the   *)
(* last processor.                                                         *)
LastCpu == Len(boot.cpus) - 1
Ioapicinit == BootAt("ioapicinit") /\ Proceed([boot EXCEPT !.disk = LastCpu])

(* startothers().  The next processor's stack is left at a fixed place     *)
(* below the entry code.  Mutant: the last one is not waited for.          *)
NextCpu == boot.cpus[boot.k]
Starting == BootAt("startothers") /\ boot.k <= Len(boot.cpus)
SkipsItself == Starting /\ NextCpu = boot.me /\ BootDo([boot EXCEPT !.k = @ + 1])
Startothers ==
  LET page == Min(boot.free)
  IN  /\ Starting /\ NextCpu # boot.me
      /\ BootDo([boot EXCEPT !.pc = "lapicstartap", !.stack = page, !.free = @ \ {page}])
ApicTarget == NextCpu
Lapicstartap ==      \* of the two STARTUPs a processor that runs ignores the second
  /\ BootAt("lapicstartap") /\ boot' = [boot EXCEPT !.pc = "waits"]
  /\ ap' = IF ApicTarget \in ApicIds THEN [ap EXCEPT ![ApicTarget].pc = "start"] ELSE ap
StartedAny == TRUE
CpuStarted == NextCpu \in ApicIds /\ ap[NextCpu].started
WaitsStarted == BootAt("waits") /\ CpuStarted /\ BootDo([boot EXCEPT !.pc = "startothers", !.k = @ + 1])
AllStarted == BootAt("startothers") /\ boot.k > Len(boot.cpus) /\ Proceed(boot)

(* Pages are put on the free list without the lock, which is used after.   *)
Kinit2 == BootAt("kinit2") /\ Proceed([boot EXCEPT !.free = @ \cup HighPages, !.uselock = TRUE])
Userinit == BootAt("userinit") /\ Proceed([boot EXCEPT !.free = @ \ {Min(@)}, !.init = "runnable"])
Mpmain == BootAt("mpmain") /\ BootDo([boot EXCEPT !.pc = "scheduler"])

(* The other processors: protected mode and paging, the stack, mpenter(),  *)
(* mpmain().                                                               *)
ApAt(id, pc) == ap[id].pc = pc /\ UNCHANGED boot
EntryOther(id) == ApAt(id, "start") /\ ap' = [ap EXCEPT ![id].pc = "start32"]
Start32(id) == ApAt(id, "start32") /\ ap' = [ap EXCEPT ![id].pc = "mpenter", ![id].stack = boot.stack]
MpEnter(id) == ApAt(id, "mpenter") /\ ap' = [ap EXCEPT ![id].pc = "mpmain"]
ApMpmain(id) == ApAt(id, "mpmain") /\ ap' = [ap EXCEPT ![id].pc = "scheduler", ![id].started = TRUE]

(* A processor that schedules finds the first process, which allocates.    *)
Schedules(id) == IF id = boot.me THEN BootAt("scheduler") ELSE id \in ApicIds /\ ap[id].pc = "scheduler"
SchedulerRuns(id) == Schedules(id) /\ boot.init = "runnable" /\ BootDo([boot EXCEPT !.init = "running"])

MainStep ==
  \/ Kinit1 \/ Mpsearch \/ MpinitEntry \/ MpinitDone \/ Seginit \/ Ioapicinit \/ SkipsItself \/ Startothers \/ Lapicstartap
  \/ WaitsStarted \/ AllStarted \/ Kinit2 \/ Userinit \/ Mpmain
ApStep(id) == EntryOther(id) \/ Start32(id) \/ MpEnter(id) \/ ApMpmain(id)
BootNext == MainStep \/ \E id \in ApicIds : ApStep(id) \/ SchedulerRuns(id)
BootSpec ==      \* processors do not stop
  BootInit /\ [][BootNext]_bootvars /\ WF_bootvars(MainStep) /\ \A id \in ApicIds : WF_bootvars(ApStep(id)) /\ WF_bootvars(SchedulerRuns(id))

-----------------------------------------------------------------------------
(* Processors that have left the entry code run on stacks of their own,    *)
(* though all took theirs from the same place, and no stack is free memory.*)
StacksApart ==
  \A i \in ApicIds : ap[i].stack # 0 =>
    ap[i].stack \notin boot.free /\ \A j \in ApicIds \ {i} : ap[i].stack # ap[j].stack

(* Until kinit2() is done the free list has no lock and lacks most of      *)
(* memory: no process runs before, on any processor.                       *)
MemoryReadyForProcesses ==
  boot.init = "running" => boot.uselock /\ HighPages \subseteq boot.free \cup {ap[i].stack : i \in ApicIds}

(* main.c, mp.c, lapic.c, kalloc.c: processors start on stacks of their    *)
(* own, and memory is there before the first process.                      *)
BootSafe == StacksApart /\ MemoryReadyForProcesses

(* ioapic.c takes the number a processor has in cpus[] for its APIC id: the*)
(* disk's interrupt then goes to a processor of the table.                 *)
DiskIrqTaken == boot.init # "none" => boot.disk \in ToSet(boot.cpus)
=============================================================================
