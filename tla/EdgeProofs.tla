----------------------------- MODULE EdgeProofs -----------------------------
(***************************************************************************)
(* Proofs about the edges of the kernel, where bytes come in and go out:   *)
(* pipes (Pipe, Fifo), keyboard and console (Keyboard, Console), the       *)
(* arguments of system calls (SysArgs) and the start of the machine        *)
(* (Boot), for every number of processes, keys, descriptors, pages and     *)
(* processors, and for every size of a buffer, a screen and a word.        *)
(***************************************************************************)
EXTENDS Console, SysArgs, Boot, Pipe, FiniteSetTheorems, SequenceTheorems, TLAPS

-----------------------------------------------------------------------------
(* Pipe: types, sleepers, storage, and that it implements Fifo.            *)

(* What pipe and an entry of pproc hold.                                   *)
PipeRecord ==
  [data : [0 .. PIPESIZE - 1 -> PipeBytes], nread : 0 .. PipeUInt - 1,
   nwrite : 0 .. PipeUInt - 1, readopen : BOOLEAN, writeopen : BOOLEAN,
   files : 0 .. 2, pages : 0 .. 1]
ProcRecord ==
  [pc : {"new", "out", "in", "asleep", "woken", "gone"}, open : BOOLEAN,
   killed : BOOLEAN, todo : Seq(PipeBytes), count : Nat]

(* Whether an end is open says whether a process has it open.              *)
EndsInv ==
  /\ pipe.readopen <=> \E r \in PipeReaders : pproc[r].open
  /\ pipe.writeopen <=> \E w \in PipeWriters : pproc[w].open

(* A file for each open end, and the page while there is one.              *)
StorageInv ==
  /\ pipe.files = (IF pipe.readopen THEN 1 ELSE 0) + (IF pipe.writeopen THEN 1 ELSE 0)
  /\ pipe.pages = IF pipe.readopen \/ pipe.writeopen THEN 1 ELSE 0

(* A process in a call has its end open, and before pipealloc() nobody     *)
(* has and nothing has been written.                                       *)
CallsInv ==
  /\ \A p \in PipeProc : /\ pproc[p].pc \in {"in", "asleep", "woken"} => pproc[p].open
                         /\ pproc[p].pc = "new" => ~pproc[p].open
  /\ (\A p \in PipeProc : pproc[p].pc = "new") => pipe.nread = pipe.nwrite

(* The writers never overrun the readers.                                  *)
FillInv == Fill <= PIPESIZE

PipeInv == PipeTypeOK /\ EndsInv /\ StorageInv /\ CallsInv /\ FillInv /\ PipeSleepersWait

-----------------------------------------------------------------------------
(* Arithmetic: a quotient and a remainder determine each other, and what   *)
(* that says of numbers near the modulus.                                  *)

LEMMA ModDiv ==
  ASSUME NEW m \in Nat \ {0}, NEW a \in Int
  PROVE  \E q \in Int, r \in 0 .. m - 1 : a = m * q + r /\ a % m = r
<1>1. a % m \in 0 .. m - 1 /\ a \div m \in Int /\ a = m * (a \div m) + (a % m) OBVIOUS
<1> QED BY <1>1

LEMMA ModUnique ==
  ASSUME NEW m \in Nat \ {0}, NEW q \in Int, NEW r \in 0 .. m - 1
  PROVE  (m * q + r) % m = r
OBVIOUS

LEMMA ModNear ==
  ASSUME NEW m \in Nat \ {0}, NEW a \in Int
  PROVE  /\ a \in 0 .. m - 1 => a % m = a
         /\ m <= a /\ a < 2 * m => a % m = a - m
         /\ -m <= a /\ a < 0 => a % m = a + m
<1>1. a = m * 0 + a /\ a = m * 1 + (a - m) /\ a = m * (-1) + (a + m) OBVIOUS
<1> QED BY <1>1, ModUnique

LEMMA ModBelow ==
  ASSUME NEW m \in Nat \ {0}, NEW a \in Int, -m <= a, a < m
  PROVE  a % m = IF a >= 0 THEN a ELSE a + m
<1>1. CASE a >= 0
  <2>1. a \in 0 .. m - 1 BY <1>1
  <2> QED BY <1>1, <2>1, ModNear
<1>2. CASE a < 0
  <2>1. a % m = a + m BY <1>2, ModNear
  <2> QED BY <1>2, <2>1
<1> QED BY <1>1, <1>2

LEMMA ModAbove ==
  ASSUME NEW m \in Nat \ {0}, NEW a \in Int, 0 <= a, a < 2 * m
  PROVE  a % m = IF a < m THEN a ELSE a - m
<1>1. CASE a < m
  <2>1. a \in 0 .. m - 1 BY <1>1
  <2> QED BY <1>1, <2>1, ModNear
<1>2. CASE a >= m
  <2>1. a % m = a - m BY <1>2, ModNear
  <2> QED BY <1>2, <2>1
<1> QED BY <1>1, <1>2

LEMMA ModShift ==
  ASSUME NEW m \in Nat \ {0}, NEW u \in Nat, u % m = 0, NEW a \in Int
  PROVE  (a + u) % m = a % m /\ (a - u) % m = a % m
<1>1. PICK c \in Int, z \in 0 .. m - 1 : u = m * c + z /\ u % m = z BY ModDiv
<1>2. PICK q \in Int, r \in 0 .. m - 1 : a = m * q + r /\ a % m = r BY ModDiv
<1>3. a + u = m * (q + c) + r /\ a - u = m * (q - c) + r BY <1>1, <1>2
<1>4. (m * (q + c) + r) % m = r /\ (m * (q - c) + r) % m = r BY ModUnique
<1> QED BY <1>2, <1>3, <1>4

LEMMA ModMinus ==
  ASSUME NEW m \in Nat \ {0}, NEW a \in Int, NEW b \in Int
  PROVE  ((a % m) - b) % m = (a - b) % m
<1>1. PICK q \in Int, r \in 0 .. m - 1 : a = m * q + r /\ a % m = r BY ModDiv
<1>2. PICK t \in Int, s \in 0 .. m - 1 : r - b = m * t + s /\ (r - b) % m = s
  BY ModDiv, r - b \in Int
<1>3. a - b = m * (q + t) + s BY <1>1, <1>2
<1>4. (m * (q + t) + s) % m = s BY ModUnique
<1> QED BY <1>1, <1>2, <1>3, <1>4

(* The count of bytes inside after k more come in or go out, and the       *)
(* places of the bytes: counted from nread they do not depend on the wrap. *)
LEMMA FillCases ==
  ASSUME NEW u \in Nat \ {0}, NEW r \in 0 .. u - 1, NEW w \in 0 .. u - 1
  PROVE  (w - r) % u = IF w >= r THEN w - r ELSE w - r + u
<1>1. PICK d \in Int : d = w - r OBVIOUS
<1>2. -u <= d /\ d < u BY <1>1
<1>3. d % u = IF d >= 0 THEN d ELSE d + u BY <1>2, ModBelow
<1> QED BY <1>1, <1>3

LEMMA FillGrows ==
  ASSUME NEW u \in Nat \ {0}, NEW r \in 0 .. u - 1, NEW w \in 0 .. u - 1, NEW k \in Nat,
         NEW f \in Nat, f = (w - r) % u, f + k < u
  PROVE  (((w + k) % u) - r) % u = f + k
<1>1. f = IF w >= r THEN w - r ELSE w - r + u BY FillCases
<1>2. PICK e \in Int : e = w + k OBVIOUS
<1>3. 0 <= e /\ e < 2 * u BY <1>1, <1>2
<1>4. PICK x \in Int : x = e % u /\ x = IF e < u THEN e ELSE e - u BY ModAbove, <1>3
<1>5. PICK c \in Int : c = x - r OBVIOUS
<1>6. -u <= c /\ c < u BY <1>3, <1>4, <1>5
<1>7. PICK y \in Int : y = c % u /\ y = IF c >= 0 THEN c ELSE c + u BY ModBelow, <1>6
<1>8. y = f + k BY <1>1, <1>2, <1>4, <1>5, <1>7
<1> QED BY <1>2, <1>4, <1>5, <1>7, <1>8

LEMMA FillShrinks ==
  ASSUME NEW u \in Nat \ {0}, NEW r \in 0 .. u - 1, NEW w \in 0 .. u - 1, NEW k \in Nat,
         NEW f \in Nat, f = (w - r) % u, k <= f
  PROVE  (w - ((r + k) % u)) % u = f - k
<1>1. f = IF w >= r THEN w - r ELSE w - r + u BY FillCases
<1>2. PICK e \in Int : e = r + k OBVIOUS
<1>3. 0 <= e /\ e < 2 * u BY <1>1, <1>2
<1>4. PICK x \in Int : x = e % u /\ x = IF e < u THEN e ELSE e - u BY ModAbove, <1>3
<1>5. PICK c \in Int : c = w - x OBVIOUS
<1>6. -u <= c /\ c < u BY <1>3, <1>4, <1>5
<1>7. PICK y \in Int : y = c % u /\ y = IF c >= 0 THEN c ELSE c + u BY ModBelow, <1>6
<1>8. y = f - k BY <1>1, <1>2, <1>4, <1>5, <1>7
<1> QED BY <1>2, <1>4, <1>5, <1>7, <1>8

LEMMA PlaceFromRead ==
  ASSUME NEW n \in Nat \ {0}, NEW r \in Int, NEW i \in 1 .. n
  PROVE  /\ (r + i - 1) % n \in 0 .. n - 1
         /\ (((r + i - 1) % n) - r) % n = i - 1
<1>1. PICK a \in Int : a = r + i - 1 OBVIOUS
<1>2. a % n \in 0 .. n - 1 BY ModDiv
<1>3. ((a % n) - r) % n = (a - r) % n BY ModMinus
<1>4. PICK g \in 0 .. n - 1 : g = i - 1 /\ g = a - r BY <1>1
<1>5. g % n = g BY ModNear
<1> QED BY <1>1, <1>2, <1>3, <1>4, <1>5

(* The same of a pipe: where the i-th byte from nread on lies, before and  *)
(* after k bytes are read, and counted from nwrite.                        *)
Place(r, i) == (r + i - 1) % PIPESIZE

LEMMA Moduli == PIPESIZE \in Nat \ {0} /\ PipeUInt \in Nat \ {0} /\ PipeUInt % PIPESIZE = 0
BY PipeAssumption

LEMMA PlaceTyped ==
  ASSUME NEW r \in Int, NEW i \in 1 .. PIPESIZE
  PROVE  Place(r, i) \in 0 .. PIPESIZE - 1 /\ (Place(r, i) - r) % PIPESIZE = i - 1
BY Moduli, PlaceFromRead DEF Place

LEMMA PlaceMoves ==
  ASSUME NEW r \in 0 .. PipeUInt - 1, NEW k \in 0 .. PipeUInt, NEW i \in Int
  PROVE  Place((r + k) % PipeUInt, i) = Place(r, k + i)
<1>1. PICK e \in Int : e = r + k OBVIOUS
<1>2. 0 <= e /\ e < 2 * PipeUInt BY <1>1, Moduli
<1>3. e % PipeUInt = e \/ e % PipeUInt = e - PipeUInt
  BY Moduli, ModNear, <1>2, e \in 0 .. PipeUInt - 1 \/ PipeUInt <= e
<1>4. PICK a \in Int : a = r + (k + i) - 1 OBVIOUS
<1>5. PICK c \in Int : c = (e % PipeUInt) + i - 1 BY <1>3, Moduli
<1>6. c = a \/ c = a - PipeUInt BY <1>1, <1>3, <1>4, <1>5, Moduli
<1>7. (a - PipeUInt) % PIPESIZE = a % PIPESIZE BY Moduli, ModShift, PipeUInt \in Nat
<1>8. c % PIPESIZE = a % PIPESIZE BY <1>6, <1>7
<1> QED BY <1>1, <1>4, <1>5, <1>8 DEF Place

LEMMA PlaceWritten ==
  ASSUME NEW r \in 0 .. PipeUInt - 1, NEW w \in 0 .. PipeUInt - 1,
         NEW f \in Nat, f = (w - r) % PipeUInt, f <= PIPESIZE, NEW i \in 1 .. PIPESIZE
  PROVE  (Place(r, i) - w) % PIPESIZE = IF i <= f THEN i - 1 - f + PIPESIZE ELSE i - 1 - f
<1>1. f = IF w >= r THEN w - r ELSE w - r + PipeUInt BY SMTT(30), Moduli, FillCases
<1>2. w = r + f \/ w = r + f - PipeUInt BY <1>1, Moduli
<1>3. PICK a \in Int : a = r + i - 1 OBVIOUS
<1>4. ((a % PIPESIZE) - w) % PIPESIZE = (a - w) % PIPESIZE BY Moduli, ModMinus, w \in Int
<1>5. PICK g \in Int : g = i - 1 - f OBVIOUS
<1>6. (a - w) % PIPESIZE = g % PIPESIZE
  <2>1. a - w = g \/ a - w = g + PipeUInt BY <1>2, <1>3, <1>5, Moduli
  <2>2. (g + PipeUInt) % PIPESIZE = g % PIPESIZE BY Moduli, ModShift, PipeUInt \in Nat
  <2> QED BY <2>1, <2>2
<1>7. -PIPESIZE <= g /\ g < PIPESIZE /\ (i <= f <=> g < 0) BY <1>5, Moduli
<1>8. g % PIPESIZE = IF g >= 0 THEN g ELSE g + PIPESIZE BY Moduli, <1>7, ModBelow
<1> QED BY <1>3, <1>4, <1>5, <1>6, <1>7, <1>8 DEF Place

LEMMA SmallerOf ==
  ASSUME NEW a \in Int, NEW b \in Int
  PROVE  PipeSmaller(a, b) = IF a <= b THEN a ELSE b
<1> DEFINE m == IF a <= b THEN a ELSE b
<1>1. m \in {a, b} /\ \A y \in {a, b} : m <= y OBVIOUS
<1>2. \A x \in {a, b} : (\A y \in {a, b} : x <= y) => x = m OBVIOUS
<1> QED BY <1>1, <1>2, Zenon DEF PipeSmaller, Min

-----------------------------------------------------------------------------
(* The state, field by field.                                              *)

LEMMA Records == PipeTypeOK <=> pipe \in PipeRecord /\ pproc \in [PipeProc -> ProcRecord]
BY DEF PipeTypeOK, PipeRecord, ProcRecord

LEMMA RecordsNext == PipeTypeOK' <=> pipe' \in PipeRecord /\ pproc' \in [PipeProc -> ProcRecord]
BY DEF PipeTypeOK, PipeRecord, ProcRecord

LEMMA PipeFields ==
  ASSUME PipeTypeOK
  PROVE  /\ pipe.data \in [0 .. PIPESIZE - 1 -> PipeBytes]
         /\ pipe.nread \in 0 .. PipeUInt - 1 /\ pipe.nwrite \in 0 .. PipeUInt - 1
         /\ pipe.readopen \in BOOLEAN /\ pipe.writeopen \in BOOLEAN
         /\ pipe.files \in 0 .. 2 /\ pipe.pages \in 0 .. 1
         /\ \A p \in PipeProc :
              /\ pproc[p].pc \in {"new", "out", "in", "asleep", "woken", "gone"}
              /\ pproc[p].open \in BOOLEAN /\ pproc[p].killed \in BOOLEAN
              /\ pproc[p].todo \in Seq(PipeBytes) /\ pproc[p].count \in Nat
BY DEF PipeTypeOK

LEMMA FillRange ==
  ASSUME PipeTypeOK
  PROVE  Fill \in 0 .. PipeUInt - 1
<1>1. pipe.nread \in Int /\ pipe.nwrite \in Int BY PipeFields
<1>2. PICK d \in Int : d = pipe.nwrite - pipe.nread BY <1>1
<1>3. PipeUInt \in Nat \ {0} BY PipeAssumption
<1> QED BY ModDiv, <1>2, <1>3 DEF Fill

LEMMA SomeByteIsByte == SomeByte \in PipeBytes
BY PipeAssumption DEF SomeByte

LEMMA Initial == PipeInit => PipeInv
<1> SUFFICES ASSUME PipeInit PROVE PipeInv OBVIOUS
<1>1. /\ pipe.nread = 0 /\ pipe.nwrite = 0 /\ pipe.files = 0 /\ pipe.pages = 0
      /\ ~pipe.readopen /\ ~pipe.writeopen
      /\ \A p \in PipeProc : pproc[p].pc = "new" /\ ~pproc[p].open
  BY DEF PipeInit
<1>2. PipeTypeOK BY PipeAssumption, SomeByteIsByte DEF PipeInit, PipeTypeOK
<1>3. EndsInv BY <1>1 DEF EndsInv, PipeProc
<1>4. StorageInv BY <1>1 DEF StorageInv
<1>5. CallsInv BY <1>1 DEF CallsInv
<1>6. Fill = 0
  <2>1. 0 \in 0 .. PipeUInt - 1 /\ PipeUInt \in Nat \ {0} BY PipeAssumption
  <2> QED BY <1>1, <2>1, ModNear DEF Fill
<1>7. FillInv BY <1>6, PipeAssumption DEF FillInv
<1>8. PipeSleepersWait BY <1>1 DEF PipeSleepersWait, PipeAt
<1> QED BY <1>2, <1>3, <1>4, <1>5, <1>7, <1>8 DEF PipeInv

-----------------------------------------------------------------------------
(* The actions.                                                            *)

LEMMA AllocInv ==
  ASSUME PipeInv, PipeAlloc
  PROVE  PipeInv'
<1>1. PipeTypeOK /\ CallsInv /\ FillInv BY DEF PipeInv
<1>2. \A p \in PipeProc : pproc[p].pc = "new" /\ ~pproc[p].open BY <1>1 DEF PipeAlloc, PipeAt, CallsInv
<1>3. \E p \in PipeProc : TRUE /\ PipeProc = PipeReaders \cup PipeWriters BY PipeAssumption DEF PipeProc
<1>4. CASE /\ pipe' = [pipe EXCEPT !.readopen = TRUE, !.writeopen = TRUE, !.files = 2, !.pages = 1]
           /\ pproc' = [p \in PipeProc |-> [pproc[p] EXCEPT !.pc = "out", !.open = TRUE]]
  <2>1. /\ pipe'.readopen /\ pipe'.writeopen /\ pipe'.files = 2 /\ pipe'.pages = 1
        /\ pipe'.nread = pipe.nread /\ pipe'.nwrite = pipe.nwrite
    BY <1>1, <1>4 DEF PipeTypeOK
  <2>2. \A p \in PipeProc : pproc'[p].pc = "out" /\ pproc'[p].open
    BY <1>1, <1>4 DEF PipeTypeOK
  <2>3. PipeTypeOK'
    <3>1. pipe \in PipeRecord /\ 2 \in 0 .. 2 /\ 1 \in 0 .. 1 BY <1>1, Records
    <3>5. pipe' \in PipeRecord BY <1>4, <3>1 DEF PipeRecord
    <3>2. \A p \in PipeProc : pproc[p] \in ProcRecord BY <1>1, Records
    <3>3. \A p \in PipeProc : [pproc[p] EXCEPT !.pc = "out", !.open = TRUE] \in ProcRecord
      BY <3>2 DEF ProcRecord
    <3>4. pproc' \in [PipeProc -> ProcRecord] BY <1>4, <3>3
    <3> QED BY <3>4, <3>5, RecordsNext
  <2>4. EndsInv' BY <2>1, <2>2, <1>3, PipeAssumption DEF EndsInv
  <2>5. StorageInv' BY <2>1 DEF StorageInv
  <2>6. CallsInv' BY <2>2, <1>3 DEF CallsInv
  <2>7. FillInv' BY <1>1, <2>1 DEF FillInv, Fill
  <2>8. PipeSleepersWait' BY <2>2 DEF PipeSleepersWait, PipeAt
  <2> QED BY <2>3, <2>4, <2>5, <2>6, <2>7, <2>8 DEF PipeInv
<1>5. CASE /\ pipe' = GivenBack
           /\ pproc' = [p \in PipeProc |-> [pproc[p] EXCEPT !.pc = "gone"]]
  <2>1. pipe' = pipe BY <1>5 DEF GivenBack
  <2>2. \A p \in PipeProc : pproc'[p].pc = "gone" /\ ~pproc'[p].open
    BY <1>1, <1>2, <1>5 DEF PipeTypeOK
  <2>3. PipeTypeOK' BY <1>1, <1>5, <2>1 DEF PipeTypeOK
  <2>4. EndsInv' BY <2>1, <2>2, <1>2, <1>3 DEF PipeInv, EndsInv
  <2>5. StorageInv' BY <2>1 DEF PipeInv, StorageInv
  <2>6. CallsInv' BY <2>2, <1>3 DEF CallsInv
  <2>7. FillInv' BY <1>1, <2>1 DEF FillInv, Fill
  <2>8. PipeSleepersWait' BY <2>2 DEF PipeSleepersWait, PipeAt
  <2> QED BY <2>3, <2>4, <2>5, <2>6, <2>7, <2>8 DEF PipeInv
<1> QED BY <1>4, <1>5 DEF PipeAlloc

(* What an action does to pproc, process by process: one entry is          *)
(* replaced, or one is and the sleepers of an end are woken.               *)
Replaced(p, r) == [q \in PipeProc |-> IF q = p THEN r ELSE pproc[q]]

LEMMA ReplacedTyped ==
  ASSUME PipeTypeOK, NEW p \in PipeProc, NEW r \in ProcRecord
  PROVE  /\ Replaced(p, r) \in [PipeProc -> ProcRecord]
         /\ Replaced(p, r)[p] = r
         /\ \A q \in PipeProc : q # p => Replaced(p, r)[q] = pproc[q]
BY Records DEF Replaced

LEMMA WokenTyped ==
  ASSUME NEW procs \in [PipeProc -> ProcRecord], NEW end
  PROVE  /\ PipeWoken(procs, end) \in [PipeProc -> ProcRecord]
         /\ \A q \in PipeProc :
              /\ PipeWoken(procs, end)[q].pc = IF procs[q].pc = "asleep" /\ EndOf(q) = end
                                               THEN "woken" ELSE procs[q].pc
              /\ PipeWoken(procs, end)[q].open = procs[q].open
              /\ PipeWoken(procs, end)[q].killed = procs[q].killed
              /\ PipeWoken(procs, end)[q].todo = procs[q].todo
<1>1. \A q \in PipeProc : procs[q] \in ProcRecord OBVIOUS
<1>2. \A q \in PipeProc : [procs[q] EXCEPT !.pc = "woken"] \in ProcRecord BY <1>1 DEF ProcRecord
<1>3. \A q \in PipeProc : PipeWoken(procs, end)[q] =
        IF procs[q].pc = "asleep" /\ EndOf(q) = end THEN [procs[q] EXCEPT !.pc = "woken"] ELSE procs[q]
  BY DEF PipeWoken
<1>4. PipeWoken(procs, end) \in [PipeProc -> ProcRecord] BY <1>1, <1>2 DEF PipeWoken
<1> QED BY <1>1, <1>3, <1>4 DEF ProcRecord

LEMMA CallMoves ==
  ASSUME PipeTypeOK, NEW p \in PipeProc, PipeCall(p)
  PROVE  \E r \in ProcRecord :
           /\ pproc' = Replaced(p, r) /\ pipe' = pipe
           /\ r.pc = "in" /\ r.open = pproc[p].open /\ r.killed = pproc[p].killed
           /\ p \in PipeReaders => r.todo = <<>>
<1>1. pproc[p] \in ProcRecord /\ pipe' = pipe BY Records DEF PipeCall
<1>2. CASE p \in PipeReaders /\ \E n \in Counts :
             pproc' = [PipeGo(p, "in") EXCEPT ![p].count = n, ![p].todo = <<>>]
  <2>1. PICK n \in Counts : pproc' = [PipeGo(p, "in") EXCEPT ![p].count = n, ![p].todo = <<>>] BY <1>2
  <2>2. [pproc[p] EXCEPT !.pc = "in", !.count = n, !.todo = <<>>] \in ProcRecord
    <3>1. n \in Nat /\ <<>> \in Seq(PipeBytes) BY PipeAssumption
    <3> QED BY <1>1, <3>1 DEF ProcRecord
  <2>3. pproc' = Replaced(p, [pproc[p] EXCEPT !.pc = "in", !.count = n, !.todo = <<>>])
    BY <2>1, Records DEF PipeGo, Replaced
  <2> QED BY <1>1, <2>2, <2>3 DEF ProcRecord
<1>3. CASE p \in PipeWriters /\ \E s \in Texts : pproc' = [PipeGo(p, "in") EXCEPT ![p].todo = s]
  <2>1. PICK s \in Texts : pproc' = [PipeGo(p, "in") EXCEPT ![p].todo = s] BY <1>3
  <2>2. [pproc[p] EXCEPT !.pc = "in", !.todo = s] \in ProcRecord
    <3>1. s \in Seq(PipeBytes) BY PipeAssumption
    <3> QED BY <1>1, <3>1 DEF ProcRecord
  <2>3. pproc' = Replaced(p, [pproc[p] EXCEPT !.pc = "in", !.todo = s])
    BY <2>1, Records DEF PipeGo, Replaced
  <2>4. p \notin PipeReaders BY <1>3, PipeAssumption
  <2> QED BY <1>1, <2>2, <2>3, <2>4 DEF ProcRecord
<1> QED BY <1>2, <1>3 DEF PipeCall

LEMMA CallInv ==
  ASSUME PipeInv, NEW p \in PipeProc, PipeCall(p)
  PROVE  PipeInv'
<1>1. PipeTypeOK /\ EndsInv /\ StorageInv /\ CallsInv /\ FillInv /\ PipeSleepersWait BY DEF PipeInv
<1>2. pproc[p].open /\ ~pproc[p].killed /\ pproc[p].pc = "out" BY DEF PipeCall, PipeAt
<1>3. PICK r \in ProcRecord : /\ pproc' = Replaced(p, r) /\ pipe' = pipe
                              /\ r.pc = "in" /\ r.open = pproc[p].open /\ r.killed = pproc[p].killed
  BY <1>1, CallMoves
<1>4. /\ pproc'[p].pc = "in"
      /\ \A q \in PipeProc : /\ pproc'[q].open = pproc[q].open /\ pproc'[q].killed = pproc[q].killed
                             /\ q # p => pproc'[q].pc = pproc[q].pc
  BY <1>1, <1>3, ReplacedTyped
<1>5. PipeTypeOK' BY <1>1, <1>3, ReplacedTyped, Records, RecordsNext
<1>6. EndsInv' BY <1>1, <1>3, <1>4 DEF EndsInv, PipeProc
<1>7. StorageInv' BY <1>1, <1>3 DEF StorageInv
<1>8. CallsInv' BY <1>1, <1>2, <1>3, <1>4 DEF CallsInv
<1>9. FillInv' BY <1>1, <1>3 DEF FillInv, Fill
<1>10. PipeSleepersWait' BY <1>1, <1>3, <1>4 DEF PipeSleepersWait, PipeAt, Fill, PipeProc
<1> QED BY <1>5, <1>6, <1>7, <1>8, <1>9, <1>10 DEF PipeInv

LEMMA KillMoves ==
  ASSUME PipeTypeOK, NEW p \in PipeProc, PipeKill(p)
  PROVE  \E r \in ProcRecord :
           /\ pproc' = Replaced(p, r) /\ pipe' = pipe
           /\ r.pc = IF pproc[p].pc = "asleep" THEN "woken" ELSE pproc[p].pc
           /\ r.open = pproc[p].open /\ r.killed /\ r.todo = pproc[p].todo
<1>1. pproc[p] \in ProcRecord /\ pipe' = pipe BY Records DEF PipeKill
<1>2. PICK c : c = IF pproc[p].pc = "asleep" THEN "woken" ELSE pproc[p].pc OBVIOUS
<1>3. [pproc[p] EXCEPT !.killed = TRUE, !.pc = c] \in ProcRecord BY <1>1, <1>2 DEF ProcRecord
<1>4. pproc' = Replaced(p, [pproc[p] EXCEPT !.killed = TRUE, !.pc = c])
  BY <1>2, Records DEF PipeKill, Replaced
<1> QED BY <1>1, <1>2, <1>3, <1>4 DEF ProcRecord

LEMMA KillInv ==
  ASSUME PipeInv, NEW p \in PipeProc, PipeKill(p)
  PROVE  PipeInv'
<1>1. PipeTypeOK /\ EndsInv /\ StorageInv /\ CallsInv /\ FillInv /\ PipeSleepersWait BY DEF PipeInv
<1>2. PICK r \in ProcRecord : /\ pproc' = Replaced(p, r) /\ pipe' = pipe
                              /\ r.pc = IF pproc[p].pc = "asleep" THEN "woken" ELSE pproc[p].pc
                              /\ r.open = pproc[p].open /\ r.killed
  BY <1>1, KillMoves
<1>3. /\ pproc'[p].pc = IF pproc[p].pc = "asleep" THEN "woken" ELSE pproc[p].pc
      /\ pproc'[p].killed /\ pproc[p].open
      /\ \A q \in PipeProc : /\ pproc'[q].open = pproc[q].open
                             /\ q # p => pproc'[q].pc = pproc[q].pc /\ pproc'[q].killed = pproc[q].killed
  <2>1. pproc'[p] = r /\ \A q \in PipeProc : q # p => pproc'[q] = pproc[q] BY <1>1, <1>2, ReplacedTyped
  <2>2. pproc[p].open BY DEF PipeKill
  <2> QED BY <1>2, <2>1, <2>2
<1>4. PipeTypeOK' BY <1>1, <1>2, ReplacedTyped, Records, RecordsNext
<1>5. EndsInv' BY <1>1, <1>2, <1>3 DEF EndsInv, PipeProc
<1>6. StorageInv' BY <1>1, <1>2 DEF StorageInv
<1>7. CallsInv' BY <1>1, <1>2, <1>3 DEF CallsInv
<1>8. FillInv' BY <1>1, <1>2 DEF FillInv, Fill
<1>9. PipeSleepersWait' BY <1>1, <1>2, <1>3 DEF PipeSleepersWait, PipeAt, Fill, PipeProc
<1> QED BY <1>4, <1>5, <1>6, <1>7, <1>8, <1>9 DEF PipeInv

LEMMA EndsHandled ==
  /\ \A r \in PipeReaders : r \in PipeProc /\ r \notin PipeWriters /\ EndOf(r) = "read"
  /\ \A w \in PipeWriters : w \in PipeProc /\ w \notin PipeReaders /\ EndOf(w) = "write"
  /\ \A p \in PipeProc : p \in PipeReaders \/ p \in PipeWriters
BY PipeAssumption DEF EndOf, PipeProc

(* The end of p is left by its last process.                               *)
LastOf(p) == \A q \in PipeProc : EndOf(q) = EndOf(p) /\ pproc[q].open => q = p

LEMMA CloseMoves ==
  ASSUME PipeTypeOK, StorageInv, EndsInv, NEW p \in PipeProc, PipeClose(p)
  PROVE  /\ pproc' \in [PipeProc -> ProcRecord] /\ pipe' \in PipeRecord
         /\ \A q \in PipeProc :
              /\ pproc'[q].pc = IF LastOf(p) /\ pproc[q].pc = "asleep" /\ EndOf(q) # EndOf(p)
                                THEN "woken" ELSE pproc[q].pc
              /\ pproc'[q].open <=> q # p /\ pproc[q].open
              /\ pproc'[q].killed = pproc[q].killed /\ pproc'[q].todo = pproc[q].todo
         /\ pproc[p].open /\ pproc[p].pc = "out"
         /\ pipe'.nread = pipe.nread /\ pipe'.nwrite = pipe.nwrite /\ pipe'.data = pipe.data
         /\ pipe'.readopen <=> pipe.readopen /\ ~(LastOf(p) /\ p \in PipeReaders)
         /\ pipe'.writeopen <=> pipe.writeopen /\ ~(LastOf(p) /\ p \in PipeWriters)
         /\ pipe'.files = IF LastOf(p) THEN pipe.files - 1 ELSE pipe.files
         /\ pipe'.pages = IF pipe'.readopen \/ pipe'.writeopen THEN pipe.pages ELSE 0
<1>1. PICK r : r = [pproc[p] EXCEPT !.open = FALSE] OBVIOUS
<1>2. r \in ProcRecord /\ r.pc = pproc[p].pc /\ ~r.open /\ r.killed = pproc[p].killed /\ r.todo = pproc[p].todo
  BY <1>1, Records DEF ProcRecord
<1>3. [pproc EXCEPT ![p].open = FALSE] = Replaced(p, r) BY <1>1, Records DEF Replaced
<1>4. /\ Replaced(p, r) \in [PipeProc -> ProcRecord]
      /\ \A q \in PipeProc :
           /\ Replaced(p, r)[q].pc = pproc[q].pc
           /\ Replaced(p, r)[q].open <=> q # p /\ pproc[q].open
           /\ Replaced(p, r)[q].killed = pproc[q].killed /\ Replaced(p, r)[q].todo = pproc[q].todo
  BY <1>2, ReplacedTyped, PipeFields
<1>5. /\ pproc[p].open /\ pproc[p].pc = "out" /\ pipe \in PipeRecord
      /\ pipe.readopen \in BOOLEAN /\ pipe.writeopen \in BOOLEAN
  BY Records, PipeFields DEF PipeClose, PipeAt
<1>6. (p \in PipeWriters => pipe.writeopen) /\ (p \in PipeReaders => pipe.readopen)
  BY <1>5 DEF EndsInv
<1>7. CASE LastOf(p)
  <2>1. PICK shutpipe :
          shutpipe = IF p \in PipeWriters THEN [pipe EXCEPT !.writeopen = FALSE, !.files = pipe.files - 1]
                     ELSE [pipe EXCEPT !.readopen = FALSE, !.files = pipe.files - 1]
    OBVIOUS
  <2>2. /\ pproc' = PipeWoken(Replaced(p, r), OtherEnd(EndOf(p)))
        /\ pipe' = IF shutpipe.readopen \/ shutpipe.writeopen THEN shutpipe ELSE [shutpipe EXCEPT !.pages = 0]
    BY <1>3, <1>7, <2>1 DEF PipeClose, LastOf
  <2>3. pipe.files - 1 \in 0 .. 2 BY <1>5, <1>6, PipeFields, EndsHandled DEF StorageInv
  <2>4. /\ shutpipe \in PipeRecord /\ shutpipe.nread = pipe.nread /\ shutpipe.nwrite = pipe.nwrite
        /\ shutpipe.data = pipe.data /\ shutpipe.files = pipe.files - 1 /\ shutpipe.pages = pipe.pages
        /\ shutpipe.readopen <=> pipe.readopen /\ p \notin PipeReaders
        /\ shutpipe.writeopen <=> pipe.writeopen /\ p \notin PipeWriters
    <3>1. CASE p \in PipeWriters
      <4>1. shutpipe = [pipe EXCEPT !.writeopen = FALSE, !.files = pipe.files - 1] /\ p \notin PipeReaders
        BY <2>1, <3>1, EndsHandled
      <4> QED BY <4>1, <3>1, <2>3, <1>5 DEF PipeRecord
    <3>2. CASE p \in PipeReaders
      <4>1. shutpipe = [pipe EXCEPT !.readopen = FALSE, !.files = pipe.files - 1] /\ p \notin PipeWriters
        BY <2>1, <3>2, EndsHandled
      <4> QED BY <4>1, <3>2, <2>3, <1>5 DEF PipeRecord
    <3> QED BY <3>1, <3>2, EndsHandled
  <2>5. /\ pipe' \in PipeRecord /\ pipe'.nread = pipe.nread /\ pipe'.nwrite = pipe.nwrite
        /\ pipe'.data = pipe.data /\ pipe'.files = pipe.files - 1
        /\ pipe'.readopen = shutpipe.readopen /\ pipe'.writeopen = shutpipe.writeopen
        /\ pipe'.pages = IF shutpipe.readopen \/ shutpipe.writeopen THEN pipe.pages ELSE 0
    BY <2>2, <2>4 DEF PipeRecord
  <2>6. \A q \in PipeProc : EndOf(q) = OtherEnd(EndOf(p)) <=> EndOf(q) # EndOf(p)
    BY EndsHandled DEF OtherEnd
  <2>7. /\ pproc' \in [PipeProc -> ProcRecord]
        /\ \A q \in PipeProc :
              /\ pproc'[q].pc = IF pproc[q].pc = "asleep" /\ EndOf(q) # EndOf(p)
                                THEN "woken" ELSE pproc[q].pc
              /\ pproc'[q].open <=> q # p /\ pproc[q].open
              /\ pproc'[q].killed = pproc[q].killed /\ pproc'[q].todo = pproc[q].todo
    BY <1>4, <2>2, <2>6, WokenTyped
  <2> QED BY <1>5, <1>7, <2>4, <2>5, <2>7
<1>8. CASE ~LastOf(p)
  <2>1. pproc' = Replaced(p, r) /\ pipe' = pipe BY <1>3, <1>8 DEF PipeClose, LastOf
  <2>2. pipe.pages = IF pipe.readopen \/ pipe.writeopen THEN pipe.pages ELSE 0 BY DEF StorageInv
  <2> QED BY <1>4, <1>5, <1>8, <2>1, <2>2
<1> QED BY <1>7, <1>8

LEMMA CloseInv ==
  ASSUME PipeInv, NEW p \in PipeProc, PipeClose(p)
  PROVE  PipeInv'
<1>1. PipeTypeOK /\ EndsInv /\ StorageInv /\ CallsInv /\ FillInv /\ PipeSleepersWait BY DEF PipeInv
<1>2. /\ pproc' \in [PipeProc -> ProcRecord] /\ pipe' \in PipeRecord
      /\ \A q \in PipeProc :
              /\ pproc'[q].pc = IF LastOf(p) /\ pproc[q].pc = "asleep" /\ EndOf(q) # EndOf(p)
                                THEN "woken" ELSE pproc[q].pc
              /\ pproc'[q].open <=> q # p /\ pproc[q].open
              /\ pproc'[q].killed = pproc[q].killed
      /\ pproc[p].open /\ pproc[p].pc = "out"
      /\ pipe'.nread = pipe.nread /\ pipe'.nwrite = pipe.nwrite
      /\ pipe'.readopen <=> pipe.readopen /\ ~(LastOf(p) /\ p \in PipeReaders)
      /\ pipe'.writeopen <=> pipe.writeopen /\ ~(LastOf(p) /\ p \in PipeWriters)
      /\ pipe'.files = IF LastOf(p) THEN pipe.files - 1 ELSE pipe.files
      /\ pipe'.pages = IF pipe'.readopen \/ pipe'.writeopen THEN pipe.pages ELSE 0
  BY <1>1, CloseMoves
<1>3. /\ LastOf(p) /\ p \in PipeReaders => \A r \in PipeReaders : pproc[r].open => r = p
      /\ LastOf(p) /\ p \in PipeWriters => \A w \in PipeWriters : pproc[w].open => w = p
      /\ ~LastOf(p) => \E q \in PipeProc : EndOf(q) = EndOf(p) /\ pproc[q].open /\ q # p
  BY EndsHandled DEF LastOf
<1>4. PipeTypeOK' BY <1>2, RecordsNext
<1>5. EndsInv'
  <2>1. pipe'.readopen <=> \E r \in PipeReaders : pproc'[r].open
    BY <1>1, <1>2, <1>3, EndsHandled DEF EndsInv
  <2>2. pipe'.writeopen <=> \E w \in PipeWriters : pproc'[w].open
    BY <1>1, <1>2, <1>3, EndsHandled DEF EndsInv
  <2> QED BY <2>1, <2>2 DEF EndsInv
<1>6. (p \in PipeReaders => pipe.readopen) /\ (p \in PipeWriters => pipe.writeopen)
  BY <1>1, <1>2 DEF EndsInv
<1>7. StorageInv' BY <1>1, <1>2, <1>6, EndsHandled DEF StorageInv
<1>8. CallsInv'
  <2>1. \A q \in PipeProc : /\ pproc'[q].pc \in {"in", "asleep", "woken"} => pproc'[q].open
                            /\ pproc'[q].pc = "new" => ~pproc'[q].open
    BY <1>1, <1>2 DEF CallsInv
  <2>2. pproc'[p].pc # "new" BY <1>2
  <2> QED BY <2>1, <2>2 DEF CallsInv
<1>9. FillInv' BY <1>1, <1>2 DEF FillInv, Fill
<1>10. PipeSleepersWait'
  <2> SUFFICES ASSUME NEW q \in PipeProc, pproc'[q].pc = "asleep"
               PROVE  /\ ~pproc'[q].killed
                      /\ q \in PipeReaders => /\ pipe'.writeopen
                                              /\ Fill' > 0 => \E w \in PipeWriters : pproc'[w].killed
                      /\ q \in PipeWriters => Fill' = PIPESIZE /\ pipe'.readopen
    BY DEF PipeSleepersWait, PipeAt
  <2>1. Fill' = Fill BY <1>2 DEF Fill
  <2>2. /\ pproc[q].pc = "asleep" /\ q # p /\ ~(LastOf(p) /\ EndOf(q) # EndOf(p))
        /\ pproc'[q].open /\ pproc[q].open
    BY <1>1, <1>2 DEF CallsInv
  <2>3. /\ ~pproc[q].killed
        /\ q \in PipeReaders => /\ pipe.writeopen
                                /\ Fill > 0 => \E w \in PipeWriters : pproc[w].killed
        /\ q \in PipeWriters => Fill = PIPESIZE /\ pipe.readopen
    BY <1>1, <2>2 DEF PipeSleepersWait, PipeAt
  <2>4. q \in PipeReaders => pipe'.writeopen BY <1>2, <2>2, <2>3, EndsHandled
  <2>5. q \in PipeWriters => pipe'.readopen BY <1>2, <2>2, <2>3, EndsHandled
  <2> QED BY <1>2, <2>1, <2>3, <2>4, <2>5, EndsHandled
<1> QED BY <1>4, <1>5, <1>7, <1>8, <1>9, <1>10 DEF PipeInv

LEMMA ReadMoves ==
  ASSUME PipeTypeOK, FillInv, NEW p \in PipeProc, PipeRead(p)
  PROVE  \E r \in ProcRecord, k \in Nat :
           /\ p \in PipeReaders /\ Inside(p)
           /\ k <= Fill /\ r.open = pproc[p].open /\ r.killed = pproc[p].killed
           /\ \/ /\ pproc' = PipeWoken(Replaced(p, r), "write") /\ r.pc = "out"
                 /\ r.todo = [i \in 1 .. k |-> pipe.data[(pipe.nread + i - 1) % PIPESIZE]]
                 /\ pipe' \in PipeRecord
                 /\ pipe'.nread = (pipe.nread + k) % PipeUInt /\ pipe'.nwrite = pipe.nwrite
                 /\ \A j \in 0 .. PIPESIZE - 1 :
                      pipe'.data[j] = IF (j - pipe.nread) % PIPESIZE < k THEN SomeByte ELSE pipe.data[j]
                 /\ pipe'.readopen = pipe.readopen /\ pipe'.writeopen = pipe.writeopen
                 /\ pipe'.files = pipe.files /\ pipe'.pages = pipe.pages
              \/ /\ pproc' = Replaced(p, r) /\ pipe' = pipe
                 /\ Fill = 0 /\ pipe.writeopen
                 /\ r.pc = IF pproc[p].killed THEN "out" ELSE "asleep"
                 /\ r.todo = pproc[p].todo
<1>1. /\ p \in PipeReaders /\ Inside(p) /\ pproc[p] \in ProcRecord /\ pipe \in PipeRecord
      /\ pproc[p].count \in Nat /\ Fill \in Nat /\ Fill <= PIPESIZE
  BY Records, FillRange, PipeFields DEF PipeRead, FillInv
<1>2. PICK k \in Nat : k = PipeSmaller(pproc[p].count, Fill) /\ k <= Fill BY <1>1, SmallerOf
<1>3. CASE ~(Fill = 0 /\ pipe.writeopen)
  <2>1. PICK got : got = [i \in 1 .. k |-> pipe.data[(pipe.nread + i - 1) % PIPESIZE]] OBVIOUS
  <2>2. got \in Seq(PipeBytes)
    <3>1. \A i \in 1 .. k : (pipe.nread + i - 1) % PIPESIZE \in 0 .. PIPESIZE - 1
      <4>1. \A i \in 1 .. k : i \in 1 .. PIPESIZE BY <1>1, <1>2, PipeAssumption
      <4>2. pipe.nread \in Int /\ PIPESIZE \in Nat \ {0} BY PipeFields, PipeAssumption
      <4> QED BY <4>1, <4>2, PlaceFromRead
    <3>2. got \in [1 .. k -> PipeBytes] BY <2>1, <3>1, PipeFields
    <3> QED BY <3>2
  <2>3. PICK r : r = [pproc[p] EXCEPT !.pc = "out", !.todo = got, !.count = 0] OBVIOUS
  <2>4. r \in ProcRecord /\ r.open = pproc[p].open /\ r.killed = pproc[p].killed /\ r.pc = "out" /\ r.todo = got
    BY <1>1, <2>2, <2>3 DEF ProcRecord
  <2>5. [PipeGo(p, "out") EXCEPT ![p].todo = got, ![p].count = 0] = Replaced(p, r)
    BY <2>3, Records DEF PipeGo, Replaced
  <2>6. PICK d : d = [i \in 0 .. PIPESIZE - 1 |-> IF (i - pipe.nread) % PIPESIZE < k THEN SomeByte ELSE pipe.data[i]]
    OBVIOUS
  <2>7. d \in [0 .. PIPESIZE - 1 -> PipeBytes] BY <2>6, SomeByteIsByte, PipeFields
  <2>8. PICK n \in 0 .. PipeUInt - 1 : n = (pipe.nread + k) % PipeUInt
    <3>1. PICK e \in Int : e = pipe.nread + k BY PipeFields
    <3>2. PipeUInt \in Nat \ {0} BY PipeAssumption
    <3> QED BY <3>1, <3>2, ModDiv
  <2>9. pproc' = PipeWoken(Replaced(p, r), "write") /\ pipe' = [pipe EXCEPT !.nread = n, !.data = d]
    <3>1. DOMAIN pipe.data = 0 .. PIPESIZE - 1 BY PipeFields
    <3> QED BY <1>2, <1>3, <2>1, <2>5, <2>6, <2>8, <3>1 DEF PipeRead
  <2>10. /\ pipe' \in PipeRecord /\ pipe'.nread = n /\ pipe'.nwrite = pipe.nwrite /\ pipe'.data = d
         /\ pipe'.readopen = pipe.readopen /\ pipe'.writeopen = pipe.writeopen
         /\ pipe'.files = pipe.files /\ pipe'.pages = pipe.pages
    BY <1>1, <2>7, <2>9 DEF PipeRecord
  <2>11. \A j \in 0 .. PIPESIZE - 1 :
           pipe'.data[j] = IF (j - pipe.nread) % PIPESIZE < k THEN SomeByte ELSE pipe.data[j]
    BY <2>6, <2>10
  <2>12. r.todo = [i \in 1 .. k |-> pipe.data[(pipe.nread + i - 1) % PIPESIZE]] BY <2>1, <2>4
  <2>13. pproc' = PipeWoken(Replaced(p, r), "write") BY <2>9
  <2> HIDE <2>1, <2>6, <2>9
  <2> QED BY ZenonT(60), <1>1, <1>2, <2>4, <2>8, <2>10, <2>11, <2>12, <2>13
<1>4. CASE Fill = 0 /\ pipe.writeopen
  <2>1. PICK c, n : /\ c = IF pproc[p].killed THEN "out" ELSE "asleep"
                    /\ n = IF pproc[p].killed THEN 0 ELSE pproc[p].count
    OBVIOUS
  <2>2. PICK r : r = [pproc[p] EXCEPT !.pc = c, !.count = n] OBVIOUS
  <2>3. /\ r \in ProcRecord /\ r.open = pproc[p].open /\ r.killed = pproc[p].killed /\ r.pc = c
        /\ r.todo = pproc[p].todo
    BY <1>1, <2>1, <2>2 DEF ProcRecord
  <2>4. pproc' = Replaced(p, r) /\ pipe' = pipe
    <3>1. pproc' = [PipeGo(p, c) EXCEPT ![p].count = IF pproc[p].killed THEN 0 ELSE @] /\ pipe' = pipe
      BY <1>4, <2>1 DEF PipeRead
    <3>2. PipeGo(p, c) = Replaced(p, [pproc[p] EXCEPT !.pc = c]) BY Records DEF PipeGo, Replaced
    <3>3. [pproc[p] EXCEPT !.pc = c].count = pproc[p].count BY <1>1 DEF ProcRecord
    <3> QED BY <2>1, <2>2, <3>1, <3>2, <3>3 DEF Replaced
  <2> QED BY <1>1, <1>2, <1>4, <2>1, <2>3, <2>4
<1> QED BY <1>3, <1>4

LEMMA ReadInv ==
  ASSUME PipeInv, NEW p \in PipeProc, PipeRead(p)
  PROVE  PipeInv'
<1>1. PipeTypeOK /\ EndsInv /\ StorageInv /\ CallsInv /\ FillInv /\ PipeSleepersWait BY DEF PipeInv
<1>2. PICK r \in ProcRecord, k \in Nat :
        /\ p \in PipeReaders /\ Inside(p)
        /\ k <= Fill /\ r.open = pproc[p].open /\ r.killed = pproc[p].killed
        /\ \/ /\ pproc' = PipeWoken(Replaced(p, r), "write") /\ r.pc = "out"
              /\ pipe' \in PipeRecord
              /\ pipe'.nread = (pipe.nread + k) % PipeUInt /\ pipe'.nwrite = pipe.nwrite
              /\ pipe'.readopen = pipe.readopen /\ pipe'.writeopen = pipe.writeopen
              /\ pipe'.files = pipe.files /\ pipe'.pages = pipe.pages
           \/ /\ pproc' = Replaced(p, r) /\ pipe' = pipe
              /\ Fill = 0 /\ pipe.writeopen
              /\ r.pc = IF pproc[p].killed THEN "out" ELSE "asleep"
  BY <1>1, ReadMoves
<1>3. /\ pproc[p].open /\ pproc[p].pc \in {"in", "woken"} /\ EndOf(p) = "read"
      /\ Fill \in Nat /\ Fill <= PIPESIZE /\ PIPESIZE \in Nat
  BY <1>1, <1>2, FillRange, EndsHandled, PipeAssumption DEF CallsInv, Inside, PipeAt, FillInv
<1>4. CASE /\ pproc' = PipeWoken(Replaced(p, r), "write") /\ r.pc = "out"
           /\ pipe' \in PipeRecord
           /\ pipe'.nread = (pipe.nread + k) % PipeUInt /\ pipe'.nwrite = pipe.nwrite
           /\ pipe'.readopen = pipe.readopen /\ pipe'.writeopen = pipe.writeopen
           /\ pipe'.files = pipe.files /\ pipe'.pages = pipe.pages
  <2>1. /\ pproc' \in [PipeProc -> ProcRecord] /\ pproc'[p].pc = "out"
        /\ \A q \in PipeProc :
             /\ pproc'[q].open = pproc[q].open /\ pproc'[q].killed = pproc[q].killed
             /\ q # p => pproc'[q].pc = IF pproc[q].pc = "asleep" /\ EndOf(q) = "write"
                                        THEN "woken" ELSE pproc[q].pc
    <3>1. /\ Replaced(p, r) \in [PipeProc -> ProcRecord]
          /\ Replaced(p, r)[p] = r /\ \A q \in PipeProc : q # p => Replaced(p, r)[q] = pproc[q]
      BY <1>1, ReplacedTyped
    <3>2. /\ pproc' \in [PipeProc -> ProcRecord]
          /\ \A q \in PipeProc :
               /\ pproc'[q].pc = IF Replaced(p, r)[q].pc = "asleep" /\ EndOf(q) = "write"
                                 THEN "woken" ELSE Replaced(p, r)[q].pc
               /\ pproc'[q].open = Replaced(p, r)[q].open
               /\ pproc'[q].killed = Replaced(p, r)[q].killed
      BY <1>4, <3>1, WokenTyped
    <3> QED BY <1>2, <1>4, <3>1, <3>2
  <2>2. Fill' = Fill - k
    <3>1. PipeUInt \in Nat \ {0} BY PipeAssumption
    <3>2. PICK x \in 0 .. PipeUInt - 1, w \in 0 .. PipeUInt - 1 : x = pipe.nread /\ w = pipe.nwrite
      BY <1>1, PipeFields
    <3>3. PICK f \in Nat : f = Fill /\ f = (w - x) % PipeUInt /\ k <= f BY <1>2, <1>3, <3>2 DEF Fill
    <3>4. (w - ((x + k) % PipeUInt)) % PipeUInt = f - k BY <3>1, <3>3, FillShrinks
    <3> QED BY <1>4, <3>2, <3>3, <3>4 DEF Fill
  <2>3. PipeTypeOK' BY <1>4, <2>1, RecordsNext
  <2>4. EndsInv' BY <1>1, <1>4, <2>1, EndsHandled DEF EndsInv
  <2>5. StorageInv' BY <1>1, <1>4 DEF StorageInv
  <2>6. CallsInv' BY <1>1, <1>3, <2>1 DEF CallsInv
  <2>7. FillInv' BY <1>2, <1>3, <2>2 DEF FillInv
  <2>8. PipeSleepersWait'
    <3> SUFFICES ASSUME NEW q \in PipeProc, pproc'[q].pc = "asleep"
                 PROVE  /\ ~pproc'[q].killed
                        /\ q \in PipeReaders => /\ pipe'.writeopen
                                                /\ Fill' > 0 => \E w \in PipeWriters : pproc'[w].killed
                        /\ q \in PipeWriters => Fill' = PIPESIZE /\ pipe'.readopen
      BY DEF PipeSleepersWait, PipeAt
    <3>1. q # p /\ pproc[q].pc = "asleep" /\ q \in PipeReaders /\ q \notin PipeWriters BY <2>1, EndsHandled
    <3>2. ~pproc[q].killed /\ pipe.writeopen /\ (Fill > 0 => \E w \in PipeWriters : pproc[w].killed)
      BY <1>1, <3>1 DEF PipeSleepersWait, PipeAt
    <3> QED BY <1>2, <1>3, <1>4, <2>1, <2>2, <3>1, <3>2, EndsHandled
  <2> QED BY <2>3, <2>4, <2>5, <2>6, <2>7, <2>8 DEF PipeInv
<1>5. CASE /\ pproc' = Replaced(p, r) /\ pipe' = pipe
           /\ Fill = 0 /\ pipe.writeopen
           /\ r.pc = IF pproc[p].killed THEN "out" ELSE "asleep"
  <2>1. /\ pproc' \in [PipeProc -> ProcRecord] /\ pproc'[p].pc = IF pproc[p].killed THEN "out" ELSE "asleep"
        /\ \A q \in PipeProc : /\ pproc'[q].open = pproc[q].open /\ pproc'[q].killed = pproc[q].killed
                               /\ q # p => pproc'[q].pc = pproc[q].pc
    BY <1>1, <1>2, <1>5, ReplacedTyped
  <2>2. Fill' = Fill BY <1>5 DEF Fill
  <2>3. PipeTypeOK' BY <1>1, <1>5, <2>1, Records, RecordsNext
  <2>4. EndsInv' BY <1>1, <1>5, <2>1, EndsHandled DEF EndsInv
  <2>5. StorageInv' BY <1>1, <1>5 DEF StorageInv
  <2>6. CallsInv' BY <1>1, <1>3, <2>1 DEF CallsInv
  <2>7. FillInv' BY <1>1, <2>2 DEF FillInv
  <2>8. PipeSleepersWait' BY <1>1, <1>2, <1>5, <2>1, <2>2, EndsHandled DEF PipeSleepersWait, PipeAt
  <2> QED BY <2>3, <2>4, <2>5, <2>6, <2>7, <2>8 DEF PipeInv
<1> QED BY <1>2, <1>4, <1>5

LEMMA WriteMoves ==
  ASSUME PipeTypeOK, FillInv, NEW p \in PipeProc, PipeWrite(p)
  PROVE  \E r \in ProcRecord, k \in Nat :
           /\ p \in PipeWriters /\ Inside(p)
           /\ k <= Len(pproc[p].todo) /\ k <= PIPESIZE - Fill
           /\ r.open = pproc[p].open /\ r.killed = pproc[p].killed
           /\ pipe' \in PipeRecord
           /\ pipe'.nread = pipe.nread /\ pipe'.nwrite = (pipe.nwrite + k) % PipeUInt
           /\ \A j \in 0 .. PIPESIZE - 1 :
                pipe'.data[j] = IF (j - pipe.nwrite) % PIPESIZE < k
                                THEN pproc[p].todo[((j - pipe.nwrite) % PIPESIZE) + 1] ELSE pipe.data[j]
           /\ pipe'.readopen = pipe.readopen /\ pipe'.writeopen = pipe.writeopen
           /\ pipe'.files = pipe.files /\ pipe'.pages = pipe.pages
           /\ \/ r.pc = "out" /\ pproc' = PipeWoken(Replaced(p, r), "read")
              \/ r.pc = "out" /\ pproc' = Replaced(p, r) /\ (~pipe.readopen \/ pproc[p].killed)
              \/ /\ r.pc = "asleep" /\ pproc' = PipeWoken(Replaced(p, r), "read")
                 /\ Fill + k = PIPESIZE /\ pipe.readopen /\ ~pproc[p].killed
<1>1. /\ p \in PipeWriters /\ Inside(p) /\ pproc[p] \in ProcRecord /\ pipe \in PipeRecord
      /\ Fill \in Nat /\ Fill <= PIPESIZE /\ PIPESIZE \in Nat \ {0}
  BY Records, FillRange, PipeAssumption DEF PipeWrite, FillInv
<1>2. PICK todo \in Seq(PipeBytes) : todo = pproc[p].todo BY PipeFields
<1>3. PICK k \in Nat : /\ k = PipeSmaller(Len(todo), Room) /\ k <= Len(todo) /\ k <= PIPESIZE - Fill
                       /\ k = Len(todo) \/ Fill + k = PIPESIZE
  BY <1>1, SmallerOf DEF Room
<1>4. PICK rest : rest = SubSeq(todo, k + 1, Len(todo)) OBVIOUS
<1>5. rest \in Seq(PipeBytes) /\ (rest # <<>> => Fill + k = PIPESIZE)
  <2>1. k = Len(todo) => rest = <<>> BY <1>4
  <2> QED BY <1>3, <1>4, <2>1
<1>6. PICK d : d = [j \in 0 .. PIPESIZE - 1 |-> IF (j - pipe.nwrite) % PIPESIZE < k
                                                 THEN todo[((j - pipe.nwrite) % PIPESIZE) + 1] ELSE pipe.data[j]]
  OBVIOUS
<1>7. d \in [0 .. PIPESIZE - 1 -> PipeBytes]
  <2> SUFFICES ASSUME NEW j \in 0 .. PIPESIZE - 1 PROVE d[j] \in PipeBytes BY <1>6
  <2>1. PICK e \in Int : e = j - pipe.nwrite BY PipeFields
  <2>2. e % PIPESIZE \in 0 .. PIPESIZE - 1 BY <1>1, ModDiv
  <2>3. e % PIPESIZE < k => (e % PIPESIZE) + 1 \in 1 .. Len(todo) BY <1>1, <1>3, <2>2
  <2>4. e % PIPESIZE < k => todo[(e % PIPESIZE) + 1] \in PipeBytes BY <2>3
  <2> QED BY <1>6, <2>1, <2>4, PipeFields
<1>8. PICK n \in 0 .. PipeUInt - 1 : n = (pipe.nwrite + k) % PipeUInt
  <2>1. PICK e \in Int : e = pipe.nwrite + k BY PipeFields
  <2>2. PipeUInt \in Nat \ {0} BY PipeAssumption
  <2> QED BY <2>1, <2>2, ModDiv
<1>9. pipe' = [pipe EXCEPT !.data = d, !.nwrite = n]
  <2>1. DOMAIN pipe.data = 0 .. PIPESIZE - 1 BY PipeFields
  <2> QED BY <1>2, <1>3, <1>6, <1>8, <2>1 DEF PipeWrite
<1>10. /\ pipe' \in PipeRecord /\ pipe'.nread = pipe.nread /\ pipe'.nwrite = n /\ pipe'.data = d
       /\ pipe'.readopen = pipe.readopen /\ pipe'.writeopen = pipe.writeopen
       /\ pipe'.files = pipe.files /\ pipe'.pages = pipe.pages
  BY <1>1, <1>7, <1>9 DEF PipeRecord
<1>11. \A j \in 0 .. PIPESIZE - 1 :
         pipe'.data[j] = IF (j - pipe.nwrite) % PIPESIZE < k
                         THEN pproc[p].todo[((j - pipe.nwrite) % PIPESIZE) + 1] ELSE pipe.data[j]
  BY <1>2, <1>6, <1>10
<1>12. \/ rest = <<>> /\ pproc' = PipeWoken([PipeGo(p, "out") EXCEPT ![p].todo = <<>>], "read")
       \/ /\ rest # <<>> /\ (~pipe.readopen \/ pproc[p].killed)
          /\ pproc' = [PipeGo(p, "out") EXCEPT ![p].todo = <<>>]
       \/ /\ rest # <<>> /\ pipe.readopen /\ ~pproc[p].killed
          /\ pproc' = PipeWoken([PipeGo(p, "asleep") EXCEPT ![p].todo = rest], "read")
  BY <1>2, <1>3, <1>4 DEF PipeWrite
<1> HIDE <1>3, <1>4, <1>6, <1>9
<1>13. \A c \in {"out", "asleep"}, t \in Seq(PipeBytes) :
         \E r \in ProcRecord : /\ [PipeGo(p, c) EXCEPT ![p].todo = t] = Replaced(p, r)
                               /\ r.open = pproc[p].open /\ r.killed = pproc[p].killed /\ r.pc = c
  <2> TAKE c \in {"out", "asleep"}, t \in Seq(PipeBytes)
  <2>1. PICK r : r = [pproc[p] EXCEPT !.pc = c, !.todo = t] OBVIOUS
  <2>2. r \in ProcRecord /\ r.open = pproc[p].open /\ r.killed = pproc[p].killed /\ r.pc = c
    BY <1>1, <2>1 DEF ProcRecord
  <2>3. [PipeGo(p, c) EXCEPT ![p].todo = t] = Replaced(p, r) BY <2>1, Records DEF PipeGo, Replaced
  <2> QED BY <2>2, <2>3
<1>14. \E r \in ProcRecord :
         /\ r.open = pproc[p].open /\ r.killed = pproc[p].killed
         /\ \/ r.pc = "out" /\ pproc' = PipeWoken(Replaced(p, r), "read")
            \/ r.pc = "out" /\ pproc' = Replaced(p, r) /\ (~pipe.readopen \/ pproc[p].killed)
            \/ /\ r.pc = "asleep" /\ pproc' = PipeWoken(Replaced(p, r), "read")
               /\ Fill + k = PIPESIZE /\ pipe.readopen /\ ~pproc[p].killed
  <2>1. PICK out \in ProcRecord :
          /\ [PipeGo(p, "out") EXCEPT ![p].todo = <<>>] = Replaced(p, out)
          /\ out.open = pproc[p].open /\ out.killed = pproc[p].killed /\ out.pc = "out"
    BY <1>13, <<>> \in Seq(PipeBytes)
  <2>2. PICK slp \in ProcRecord :
          /\ [PipeGo(p, "asleep") EXCEPT ![p].todo = rest] = Replaced(p, slp)
          /\ slp.open = pproc[p].open /\ slp.killed = pproc[p].killed /\ slp.pc = "asleep"
    BY <1>5, <1>13
  <2> QED BY <1>5, <1>12, <2>1, <2>2
<1>15. k <= Len(pproc[p].todo) /\ k <= PIPESIZE - Fill BY <1>2, <1>3
<1> QED BY <1>1, <1>8, <1>10, <1>11, <1>14, <1>15

LEMMA WriteInv ==
  ASSUME PipeInv, NEW p \in PipeProc, PipeWrite(p)
  PROVE  PipeInv'
<1>1. PipeTypeOK /\ EndsInv /\ StorageInv /\ CallsInv /\ FillInv /\ PipeSleepersWait BY DEF PipeInv
<1>2. PICK r \in ProcRecord, k \in Nat :
        /\ p \in PipeWriters /\ Inside(p)
        /\ k <= PIPESIZE - Fill /\ r.open = pproc[p].open /\ r.killed = pproc[p].killed
        /\ pipe' \in PipeRecord
        /\ pipe'.nread = pipe.nread /\ pipe'.nwrite = (pipe.nwrite + k) % PipeUInt
        /\ pipe'.readopen = pipe.readopen /\ pipe'.writeopen = pipe.writeopen
        /\ pipe'.files = pipe.files /\ pipe'.pages = pipe.pages
        /\ \/ r.pc = "out" /\ pproc' = PipeWoken(Replaced(p, r), "read")
           \/ r.pc = "out" /\ pproc' = Replaced(p, r) /\ (~pipe.readopen \/ pproc[p].killed)
           \/ /\ r.pc = "asleep" /\ pproc' = PipeWoken(Replaced(p, r), "read")
              /\ Fill + k = PIPESIZE /\ pipe.readopen /\ ~pproc[p].killed
  BY <1>1, WriteMoves
<1>3. /\ pproc[p].open /\ pproc[p].pc \in {"in", "woken"} /\ EndOf(p) = "write" /\ p \notin PipeReaders
      /\ Fill \in Nat /\ Fill <= PIPESIZE /\ PIPESIZE \in Nat
  BY <1>1, <1>2, FillRange, EndsHandled, PipeAssumption DEF CallsInv, Inside, PipeAt, FillInv
<1>4. Fill' = Fill + k
  <2>1. PipeUInt \in Nat \ {0} /\ Fill + k < PipeUInt BY <1>2, <1>3, PipeAssumption
  <2>2. PICK x \in 0 .. PipeUInt - 1, w \in 0 .. PipeUInt - 1 : x = pipe.nread /\ w = pipe.nwrite
    BY <1>1, PipeFields
  <2>3. PICK f \in Nat : f = Fill /\ f = (w - x) % PipeUInt /\ f + k < PipeUInt BY <1>3, <2>1, <2>2 DEF Fill
  <2>4. (((w + k) % PipeUInt) - x) % PipeUInt = f + k BY <2>1, <2>3, FillGrows
  <2> QED BY <1>2, <2>2, <2>3, <2>4 DEF Fill
<1>5. /\ pproc' \in [PipeProc -> ProcRecord] /\ pproc'[p].pc = r.pc
      /\ \A q \in PipeProc :
           /\ pproc'[q].open = pproc[q].open /\ pproc'[q].killed = pproc[q].killed
           /\ q # p => pproc'[q].pc = pproc[q].pc \/ (pproc'[q].pc = "woken" /\ pproc[q].pc = "asleep")
           /\ q \in PipeReaders /\ pproc'[q].pc = "asleep" => ~pipe.readopen \/ pproc[p].killed
  <2>1. /\ Replaced(p, r) \in [PipeProc -> ProcRecord]
        /\ Replaced(p, r)[p] = r /\ \A q \in PipeProc : q # p => Replaced(p, r)[q] = pproc[q]
    BY <1>1, ReplacedTyped
  <2>2. CASE pproc' = PipeWoken(Replaced(p, r), "read")
    <3>1. /\ pproc' \in [PipeProc -> ProcRecord]
          /\ \A q \in PipeProc :
               /\ pproc'[q].pc = IF Replaced(p, r)[q].pc = "asleep" /\ EndOf(q) = "read"
                                 THEN "woken" ELSE Replaced(p, r)[q].pc
               /\ pproc'[q].open = Replaced(p, r)[q].open
               /\ pproc'[q].killed = Replaced(p, r)[q].killed
      BY <2>1, <2>2, WokenTyped
    <3>2. pproc'[p].pc = r.pc /\ pproc'[p].open = pproc[p].open /\ pproc'[p].killed = pproc[p].killed
      BY ZenonT(60), <1>2, <1>3, <2>1, <3>1
    <3>3. \A q \in PipeProc : q # p =>
            /\ pproc'[q].pc = IF pproc[q].pc = "asleep" /\ EndOf(q) = "read" THEN "woken" ELSE pproc[q].pc
            /\ pproc'[q].open = pproc[q].open /\ pproc'[q].killed = pproc[q].killed
      BY <2>1, <3>1
    <3> HIDE <2>2
    <3> QED BY ZenonT(60), <1>3, <3>1, <3>2, <3>3, EndsHandled
  <2>3. CASE pproc' = Replaced(p, r) /\ (~pipe.readopen \/ pproc[p].killed)
    <3>1. /\ pproc' \in [PipeProc -> ProcRecord] /\ pproc'[p] = r
          /\ \A q \in PipeProc : q # p => pproc'[q] = pproc[q]
      BY <2>1, <2>3
    <3> QED BY <1>2, <2>3, <3>1
  <2> QED BY <1>2, <2>2, <2>3
<1>6. PipeTypeOK' BY <1>2, <1>5, RecordsNext
<1>7. EndsInv' BY <1>1, <1>2, <1>5, EndsHandled DEF EndsInv
<1>8. StorageInv' BY <1>1, <1>2 DEF StorageInv
<1>9. CallsInv'
  <2>1. pproc'[p].pc # "new" /\ pproc'[p].open BY <1>2, <1>3, <1>5
  <2>2. \A q \in PipeProc : /\ pproc'[q].pc \in {"in", "asleep", "woken"} => pproc'[q].open
                            /\ pproc'[q].pc = "new" => ~pproc'[q].open
    BY <1>1, <1>5, <2>1 DEF CallsInv
  <2> QED BY <2>1, <2>2 DEF CallsInv
<1>10. FillInv' BY <1>2, <1>3, <1>4 DEF FillInv
<1>11. PipeSleepersWait'
  <2> SUFFICES ASSUME NEW q \in PipeProc, pproc'[q].pc = "asleep"
               PROVE  /\ ~pproc'[q].killed
                      /\ q \in PipeReaders => /\ pipe'.writeopen
                                              /\ Fill' > 0 => \E w \in PipeWriters : pproc'[w].killed
                      /\ q \in PipeWriters => Fill' = PIPESIZE /\ pipe'.readopen
    BY DEF PipeSleepersWait, PipeAt
  <2>1. CASE q = p
    <3>1. Fill + k = PIPESIZE /\ pipe.readopen /\ ~pproc[p].killed BY <1>2, <1>5, <2>1
    <3> QED BY <1>2, <1>3, <1>4, <1>5, <2>1, <3>1
  <2>2. CASE q # p
    <3>1. pproc[q].pc = "asleep" /\ pproc[q].open BY <1>1, <1>5, <2>2 DEF CallsInv
    <3>2. /\ ~pproc[q].killed
          /\ q \in PipeReaders => pipe.writeopen
          /\ q \in PipeWriters => Fill = PIPESIZE /\ pipe.readopen
      BY <1>1, <3>1 DEF PipeSleepersWait, PipeAt
    <3>3. q \in PipeReaders => pproc[p].killed
      BY <1>1, <1>5, <3>1 DEF EndsInv
    <3>4. q \in PipeWriters => Fill' = PIPESIZE BY <1>2, <1>3, <1>4, <3>2
    <3> QED BY <1>2, <1>5, <3>2, <3>3, <3>4, EndsHandled
  <2> QED BY <2>1, <2>2
<1> QED BY <1>6, <1>7, <1>8, <1>9, <1>10, <1>11 DEF PipeInv

-----------------------------------------------------------------------------
(* The invariant holds, and what it says.                                  *)

LEMMA NextInv ==
  ASSUME PipeInv, [PipeNext]_pipevars
  PROVE  PipeInv'
<1>1. CASE PipeAlloc BY <1>1, AllocInv
<1>2. ASSUME NEW p \in PipeProc, PipeCall(p) PROVE PipeInv' BY <1>2, CallInv
<1>3. ASSUME NEW p \in PipeProc, PipeWrite(p) PROVE PipeInv' BY <1>3, WriteInv
<1>4. ASSUME NEW p \in PipeProc, PipeRead(p) PROVE PipeInv' BY <1>4, ReadInv
<1>5. ASSUME NEW p \in PipeProc, PipeClose(p) PROVE PipeInv' BY <1>5, CloseInv
<1>6. ASSUME NEW p \in PipeProc, PipeKill(p) PROVE PipeInv' BY <1>6, KillInv
<1>7. CASE UNCHANGED pipevars
  BY <1>7 DEF pipevars, PipeInv, PipeTypeOK, EndsInv, StorageInv, CallsInv, FillInv, PipeSleepersWait,
              Fill, PipeAt
<1> QED BY <1>1, <1>2, <1>3, <1>4, <1>5, <1>6, <1>7 DEF PipeNext

LEMMA PipeInvHolds == PipeSpec => []PipeInv
<1>1. PipeInv /\ [PipeNext]_pipevars => PipeInv' BY NextInv
<1> QED BY <1>1, Initial, PTL DEF PipeSpec

(* A file for each end somebody has open, counted as the set of the ends.  *)
LEMMA StorageCounts ==
  ASSUME PipeTypeOK, EndsInv, StorageInv
  PROVE  PipeStorage
<1>1. PICK ends : ends = {EndOf(p) : p \in {q \in PipeProc : pproc[q].open}} OBVIOUS
<1>2. /\ "read" \in ends <=> pipe.readopen
      /\ "write" \in ends <=> pipe.writeopen
      /\ ends \subseteq {"read", "write"}
  <2>1. \A e : e \in ends <=> \E p \in PipeProc : pproc[p].open /\ EndOf(p) = e BY <1>1
  <2>2. \A p \in PipeProc : EndOf(p) \in {"read", "write"} BY EndsHandled
  <2>3. \A p \in PipeProc : /\ EndOf(p) = "read" <=> p \in PipeReaders
                            /\ EndOf(p) = "write" <=> p \in PipeWriters
    BY EndsHandled
  <2>4. "read" \in ends <=> pipe.readopen BY <2>1, <2>3, EndsHandled DEF EndsInv
  <2>5. "write" \in ends <=> pipe.writeopen BY <2>1, <2>3, EndsHandled DEF EndsInv
  <2>6. ends \subseteq {"read", "write"} BY <2>1, <2>2
  <2> QED BY <2>4, <2>5, <2>6
<1>3. pipe.files = Cardinality(ends)
  <2>1. CASE pipe.readopen /\ pipe.writeopen
    <3>1. ends = {"read", "write"} BY <1>2, <2>1
    <3>2. Cardinality({"read"}) = 1 /\ IsFiniteSet({"read"}) BY FS_Singleton
    <3>3. Cardinality({"read"} \cup {"write"}) = 2 BY <3>2, FS_AddElement
    <3>4. {"read"} \cup {"write"} = {"read", "write"} OBVIOUS
    <3> QED BY <2>1, <3>1, <3>3, <3>4 DEF StorageInv
  <2>2. CASE pipe.readopen /\ ~pipe.writeopen
    <3>1. ends = {"read"} BY <1>2, <2>2
    <3>2. Cardinality(ends) = 1 BY <3>1, FS_Singleton
    <3> QED BY <2>2, <3>2 DEF StorageInv
  <2>3. CASE ~pipe.readopen /\ pipe.writeopen
    <3>1. ends = {"write"} BY <1>2, <2>3
    <3>2. Cardinality(ends) = 1 BY <3>1, FS_Singleton
    <3> QED BY <2>3, <3>2 DEF StorageInv
  <2>4. CASE ~pipe.readopen /\ ~pipe.writeopen
    <3>1. ends = {} BY <1>2, <2>4
    <3> QED BY <2>4, <3>1, FS_EmptySet DEF StorageInv
  <2> QED BY <2>1, <2>2, <2>3, <2>4
<1>4. pipe.pages = IF pipe.files > 0 THEN 1 ELSE 0 BY DEF StorageInv
<1> QED BY <1>1, <1>3, <1>4 DEF PipeStorage

(* Every variable of a pipe keeps its type: the indices stay below 2^32,   *)
(* the data are bytes and the files of the pipe are at most two.           *)
THEOREM PipeTyped == PipeSpec => []PipeTypeOK
<1>1. PipeInv => PipeTypeOK BY DEF PipeInv
<1> QED BY <1>1, PipeInvHolds, PTL

(* Nobody sleeps in piperead() or pipewrite() without a reason, and files  *)
(* and page of a pipe are in use exactly as long as an end of it is open.  *)
THEOREM PipesAreSafe == PipeSpec => []PipeSafe
<1>1. PipeInv => PipeSafe BY StorageCounts DEF PipeInv, PipeSafe
<1> QED BY <1>1, PipeInvHolds, PTL

-----------------------------------------------------------------------------
(* The pipe implements Fifo.                                               *)

Bytes == IF pipe.pages = 0 THEN <<>>
         ELSE [i \in 1 .. Fill |-> pipe.data[(pipe.nread + i - 1) % PIPESIZE]]
Taken == [r \in PipeReaders |-> pproc[r].todo]

(* They are as many bytes as are inside, from nread on.                    *)
BytesInv ==
  /\ Bytes \in Seq(PipeBytes) /\ Len(Bytes) = IF pipe.pages = 0 THEN 0 ELSE Fill
  /\ pipe.pages # 0 => \A i \in 1 .. Fill : Bytes[i] = pipe.data[Place(pipe.nread, i)]

LEMMA BytesTyped == PipeInv => BytesInv
<1> SUFFICES ASSUME PipeInv PROVE BytesInv OBVIOUS
<1>1. PipeTypeOK /\ FillInv /\ Fill \in Nat /\ PIPESIZE \in Nat \ {0}
  BY FillRange, PipeAssumption DEF PipeInv
<1>2. CASE pipe.pages = 0 BY <1>2 DEF Bytes, BytesInv
<1>3. CASE pipe.pages # 0
  <2>1. PICK b : b = [i \in 1 .. Fill |-> pipe.data[(pipe.nread + i - 1) % PIPESIZE]] OBVIOUS
  <2>2. \A i \in 1 .. Fill : (pipe.nread + i - 1) % PIPESIZE \in 0 .. PIPESIZE - 1
    <3>1. \A i \in 1 .. Fill : i \in 1 .. PIPESIZE BY <1>1 DEF FillInv
    <3>2. pipe.nread \in Int BY <1>1, PipeFields
    <3> QED BY <1>1, <3>1, <3>2, PlaceFromRead
  <2>3. b \in [1 .. Fill -> PipeBytes] BY <1>1, <2>1, <2>2, PipeFields
  <2>4. b \in Seq(PipeBytes) /\ Len(b) = Fill BY <1>1, <2>3
  <2>5. Bytes = b BY <1>3, <2>1 DEF Bytes
  <2> QED BY <1>3, <2>1, <2>4, <2>5 DEF BytesInv, Place
<1> QED BY <1>2, <1>3

LEMMA BytesTypedNext == PipeInv' => BytesInv'
BY BytesTyped, PTL

LEMMA FifoStart == PipeInit => TheFifo!FifoInit
<1> SUFFICES ASSUME PipeInit PROVE TheFifo!FifoInit OBVIOUS
<1>1. pipe.pages = 0 /\ \A r \in PipeReaders : pproc[r].todo = <<>> BY DEF PipeInit, PipeProc
<1> QED BY <1>1 DEF TheFifo!FifoInit

(* What stays the same under an action that moves no bytes.                *)
LEMMA FifoStutter ==
  ASSUME Bytes' = Bytes, Taken' = Taken
  PROVE  [TheFifo!FifoNext]_(TheFifo!fifovars)
BY DEF Bytes, Taken, TheFifo!fifovars

LEMMA AllocFifo ==
  ASSUME PipeInv, PipeInv', PipeAlloc
  PROVE  [TheFifo!FifoNext]_(TheFifo!fifovars)
<1>1. /\ PipeTypeOK /\ EndsInv /\ StorageInv /\ CallsInv /\ BytesInv /\ BytesInv'
      /\ StorageInv' /\ Fill \in Nat
  BY BytesTyped, BytesTypedNext, FillRange DEF PipeInv
<1>2. \A p \in PipeProc : pproc[p].pc = "new" /\ ~pproc[p].open BY <1>1 DEF PipeAlloc, PipeAt, CallsInv
<1>3. pipe.pages = 0 /\ Fill = 0
  <2>1. ~pipe.readopen /\ ~pipe.writeopen BY <1>1, <1>2, EndsHandled DEF EndsInv
  <2>2. pipe.nread = pipe.nwrite BY <1>1, <1>2 DEF CallsInv
  <2>3. pipe.nwrite - pipe.nread = 0 /\ PipeUInt \in Nat \ {0} BY <1>1, <2>2, PipeFields, PipeAssumption
  <2> QED BY <1>1, <2>1, <2>3, ModNear DEF StorageInv, Fill
<1>4. pipe'.nread = pipe.nread /\ pipe'.nwrite = pipe.nwrite /\ \A p \in PipeProc : pproc'[p].todo = pproc[p].todo
  <2>1. CASE /\ pipe' = [pipe EXCEPT !.readopen = TRUE, !.writeopen = TRUE, !.files = 2, !.pages = 1]
             /\ pproc' = [p \in PipeProc |-> [pproc[p] EXCEPT !.pc = "out", !.open = TRUE]]
    BY <1>1, <2>1 DEF PipeTypeOK
  <2>2. CASE /\ pipe' = GivenBack
             /\ pproc' = [p \in PipeProc |-> [pproc[p] EXCEPT !.pc = "gone"]]
    BY <1>1, <2>2 DEF GivenBack, PipeTypeOK
  <2> QED BY <2>1, <2>2 DEF PipeAlloc
<1>5. Fill' = 0 BY <1>3, <1>4 DEF Fill
<1>6. Bytes = <<>> /\ Bytes' = <<>> BY <1>1, <1>3, <1>5 DEF BytesInv
<1>7. Taken' = Taken BY <1>4, EndsHandled DEF Taken
<1> QED BY <1>6, <1>7, FifoStutter

LEMMA CallFifo ==
  ASSUME PipeInv, NEW p \in PipeProc, PipeCall(p)
  PROVE  [TheFifo!FifoNext]_(TheFifo!fifovars)
<1>1. PipeTypeOK /\ BytesInv BY BytesTyped DEF PipeInv
<1>2. PICK r \in ProcRecord : pproc' = Replaced(p, r) /\ pipe' = pipe /\ (p \in PipeReaders => r.todo = <<>>)
  BY <1>1, CallMoves
<1>3. Bytes' = Bytes BY <1>2 DEF Bytes, Fill
<1>4. CASE p \in PipeWriters
  <2>1. \A q \in PipeReaders : pproc'[q].todo = pproc[q].todo BY <1>1, <1>2, <1>4, EndsHandled, ReplacedTyped
  <2> QED BY <1>3, <2>1, FifoStutter DEF Taken
<1>5. CASE p \in PipeReaders
  <2>1. \A q \in PipeReaders : pproc'[q].todo = IF q = p THEN <<>> ELSE pproc[q].todo
    BY <1>1, <1>2, <1>5, EndsHandled, ReplacedTyped
  <2>2. Taken' = [Taken EXCEPT ![p] = <<>>] BY <2>1, <1>5 DEF Taken
  <2>3. SubSeq(Bytes, 1, 0) = <<>> /\ SubSeq(Bytes, 0 + 1, Len(Bytes)) = Bytes /\ 0 \in 0 .. Len(Bytes)
    BY <1>1, SubSeqEmpty, SubSeqFull DEF BytesInv
  <2>4. TheFifo!Take(p, 0) BY <1>3, <2>2, <2>3 DEF TheFifo!Take, Bytes, Taken
  <2>5. TheFifo!FifoNext BY <1>5, <2>3, <2>4 DEF TheFifo!FifoNext, Bytes
  <2> QED BY <2>5
<1> QED BY <1>4, <1>5, EndsHandled

LEMMA KillFifo ==
  ASSUME PipeInv, NEW p \in PipeProc, PipeKill(p)
  PROVE  [TheFifo!FifoNext]_(TheFifo!fifovars)
<1>1. PipeTypeOK BY DEF PipeInv
<1>2. PICK r \in ProcRecord : pproc' = Replaced(p, r) /\ pipe' = pipe /\ r.todo = pproc[p].todo
  BY <1>1, KillMoves
<1>3. Bytes' = Bytes BY <1>2 DEF Bytes, Fill
<1>4. pproc'[p] = r /\ \A q \in PipeProc : q # p => pproc'[q] = pproc[q] BY <1>1, <1>2, ReplacedTyped
<1>5. \A q \in PipeReaders : pproc'[q].todo = pproc[q].todo BY <1>2, <1>4, EndsHandled
<1> QED BY <1>3, <1>5, FifoStutter DEF Taken

LEMMA CloseFifo ==
  ASSUME PipeInv, NEW p \in PipeProc, PipeClose(p)
  PROVE  [TheFifo!FifoNext]_(TheFifo!fifovars)
<1>1. PipeTypeOK /\ EndsInv /\ StorageInv BY DEF PipeInv
<1>2. /\ pipe'.data = pipe.data /\ pipe'.nread = pipe.nread /\ pipe'.nwrite = pipe.nwrite
      /\ pipe'.pages = pipe.pages \/ pipe'.pages = 0
      /\ \A q \in PipeProc : pproc'[q].todo = pproc[q].todo
  BY <1>1, CloseMoves
<1>3. Taken' = Taken BY <1>2, EndsHandled DEF Taken
<1>4. CASE pipe'.pages = pipe.pages
  <2>1. Bytes' = Bytes BY <1>2, <1>4 DEF Bytes, Fill
  <2> QED BY <1>3, <2>1, FifoStutter
<1>5. CASE pipe'.pages = 0
  <2>1. Bytes' = <<>> BY <1>5 DEF Bytes
  <2>2. TheFifo!Lose BY <1>3, <2>1 DEF TheFifo!Lose, Bytes, Taken
  <2> QED BY <2>2 DEF TheFifo!FifoNext
<1> QED BY <1>2, <1>4, <1>5

(* The reader takes the first k bytes.                                     *)
LEMMA ReadFifo ==
  ASSUME PipeInv, PipeInv', NEW p \in PipeProc, PipeRead(p)
  PROVE  [TheFifo!FifoNext]_(TheFifo!fifovars)
<1>1. /\ PipeTypeOK /\ EndsInv /\ StorageInv /\ CallsInv /\ FillInv /\ BytesInv /\ BytesInv'
      /\ Fill \in Nat /\ Fill <= PIPESIZE /\ PIPESIZE \in Nat \ {0} /\ PipeUInt \in Nat \ {0}
      /\ PipeUInt > PIPESIZE /\ PipeUInt % PIPESIZE = 0
  BY BytesTyped, BytesTypedNext, FillRange, PipeAssumption DEF PipeInv, FillInv
<1>2. PICK r \in ProcRecord, k \in Nat :
           /\ p \in PipeReaders /\ Inside(p) /\ k <= Fill
           /\ \/ /\ pproc' = PipeWoken(Replaced(p, r), "write") /\ r.pc = "out"
                 /\ r.todo = [i \in 1 .. k |-> pipe.data[Place(pipe.nread, i)]]
                 /\ pipe' \in PipeRecord
                 /\ pipe'.nread = (pipe.nread + k) % PipeUInt /\ pipe'.nwrite = pipe.nwrite
                 /\ \A j \in 0 .. PIPESIZE - 1 :
                      pipe'.data[j] = IF (j - pipe.nread) % PIPESIZE < k THEN SomeByte ELSE pipe.data[j]
                 /\ pipe'.pages = pipe.pages
              \/ /\ pproc' = Replaced(p, r) /\ pipe' = pipe
                 /\ r.todo = pproc[p].todo
  BY ZenonT(60), <1>1, ReadMoves DEF Place
<1>3. pipe.pages # 0
  <2>1. pproc[p].open BY <1>1, <1>2 DEF CallsInv, Inside, PipeAt
  <2>2. pipe.readopen BY <1>1, <1>2, <2>1 DEF EndsInv
  <2> QED BY <1>1, <2>2 DEF StorageInv
<1>4. CASE pproc' = Replaced(p, r) /\ pipe' = pipe /\ r.todo = pproc[p].todo
  <2>1. Bytes' = Bytes BY <1>4 DEF Bytes, Fill
  <2>2. pproc'[p] = r /\ \A q \in PipeProc : q # p => pproc'[q] = pproc[q] BY <1>1, <1>4, ReplacedTyped
  <2>3. \A q \in PipeReaders : pproc'[q].todo = pproc[q].todo BY <1>4, <2>2, EndsHandled
  <2> QED BY <2>1, <2>3, FifoStutter DEF Taken
<1>5. CASE /\ pproc' = PipeWoken(Replaced(p, r), "write")
           /\ r.todo = [i \in 1 .. k |-> pipe.data[Place(pipe.nread, i)]]
           /\ pipe'.nread = (pipe.nread + k) % PipeUInt /\ pipe'.nwrite = pipe.nwrite
           /\ \A j \in 0 .. PIPESIZE - 1 :
                pipe'.data[j] = IF (j - pipe.nread) % PIPESIZE < k THEN SomeByte ELSE pipe.data[j]
           /\ pipe'.pages = pipe.pages
  <2>1. PICK x \in 0 .. PipeUInt - 1, w \in 0 .. PipeUInt - 1 : x = pipe.nread /\ w = pipe.nwrite
    BY <1>1, PipeFields
  <2>2. PICK f \in Nat : f = Fill /\ f = (w - x) % PipeUInt /\ k <= f /\ f <= PIPESIZE
    BY <1>1, <1>2, <2>1 DEF Fill
  <2>3. Fill' = f - k
    <3>1. (w - ((x + k) % PipeUInt)) % PipeUInt = f - k BY <1>1, <2>2, FillShrinks
    <3> QED BY <1>5, <2>1, <3>1 DEF Fill
  <2>4. /\ Bytes \in Seq(PipeBytes) /\ Len(Bytes) = f
        /\ \A i \in 1 .. f : Bytes[i] = pipe.data[Place(x, i)]
        /\ Bytes' \in Seq(PipeBytes) /\ Len(Bytes') = f - k
        /\ \A i \in 1 .. f - k : Bytes'[i] = pipe'.data[Place((x + k) % PipeUInt, i)]
    BY <1>1, <1>3, <1>5, <2>1, <2>2, <2>3 DEF BytesInv
  <2>5. \A i \in 1 .. f - k : Bytes'[i] = Bytes[k + i]
    <3> SUFFICES ASSUME NEW i \in 1 .. f - k PROVE Bytes'[i] = Bytes[k + i] OBVIOUS
    <3>1. PICK n \in 1 .. f : n = k + i /\ n \in 1 .. PIPESIZE BY <1>1, <2>2
    <3>2. Place((x + k) % PipeUInt, i) = Place(x, n)
      <4>1. k \in 0 .. PipeUInt /\ i \in Int BY <1>1, <2>2
      <4> QED BY <3>1, <4>1, PlaceMoves
    <3>3. PICK j \in 0 .. PIPESIZE - 1 : j = Place(x, n) /\ (j - x) % PIPESIZE = n - 1
      BY <3>1, PlaceTyped, x \in Int
    <3>4. ~(n - 1 < k) BY <3>1
    <3>5. pipe'.data[j] = pipe.data[j] BY <1>5, <2>1, <3>3, <3>4
    <3> QED BY <2>4, <3>1, <3>2, <3>3, <3>5
  <2>6. Bytes' = SubSeq(Bytes, k + 1, Len(Bytes))
    <3>1. \A i \in k + 1 .. f : Bytes[i] \in PipeBytes BY <2>4
    <3>2. PICK s : s = SubSeq(Bytes, k + 1, f) OBVIOUS
    <3>3. s \in Seq(PipeBytes) /\ Len(s) = f - k /\ \A i \in 1 .. f - k : s[i] = Bytes[k + i]
      BY <2>2, <2>4, <3>2
    <3> QED BY <2>4, <2>5, <3>2, <3>3, SeqEqual
  <2>7. r.todo = SubSeq(Bytes, 1, k)
    <3>1. PICK s : s = SubSeq(Bytes, 1, k) OBVIOUS
    <3>2. s \in Seq(PipeBytes) /\ Len(s) = k /\ \A i \in 1 .. k : s[i] = Bytes[i]
      BY <2>2, <2>4, <3>1
    <3>3. r.todo \in Seq(PipeBytes) /\ Len(r.todo) = k /\ \A i \in 1 .. k : r.todo[i] = Bytes[i]
      <4>1. r.todo \in Seq(PipeBytes) BY <1>2 DEF ProcRecord
      <4>2. Len(r.todo) = k BY <1>5
      <4>3. \A i \in 1 .. k : r.todo[i] = pipe.data[Place(x, i)] BY <1>5, <2>1
      <4> QED BY <2>2, <2>4, <4>1, <4>2, <4>3
    <3> QED BY <3>1, <3>2, <3>3, SeqEqual
  <2>8. Taken' = [Taken EXCEPT ![p] = SubSeq(Bytes, 1, k)]
    <3>1. /\ Replaced(p, r) \in [PipeProc -> ProcRecord]
          /\ Replaced(p, r)[p] = r /\ \A q \in PipeProc : q # p => Replaced(p, r)[q] = pproc[q]
      BY <1>1, ReplacedTyped
    <3>2. \A q \in PipeProc : pproc'[q].todo = Replaced(p, r)[q].todo BY <1>5, <3>1, WokenTyped
    <3>3. \A q \in PipeReaders : pproc'[q].todo = IF q = p THEN SubSeq(Bytes, 1, k) ELSE pproc[q].todo
      BY <2>7, <3>1, <3>2, EndsHandled
    <3> QED BY <1>2, <3>3 DEF Taken
  <2>9. k \in 0 .. Len(Bytes) BY <2>2, <2>4
  <2>10. TheFifo!Take(p, k) BY <2>6, <2>8 DEF TheFifo!Take, Bytes, Taken
  <2> QED BY <1>2, <2>9, <2>10 DEF TheFifo!FifoNext, Bytes
<1> QED BY <1>2, <1>4, <1>5

(* The writer puts the first k bytes of what it has to write.              *)
LEMMA WriteFifo ==
  ASSUME PipeInv, PipeInv', NEW p \in PipeProc, PipeWrite(p)
  PROVE  [TheFifo!FifoNext]_(TheFifo!fifovars)
<1>1. /\ PipeTypeOK /\ EndsInv /\ StorageInv /\ CallsInv /\ FillInv /\ BytesInv /\ BytesInv' /\ FillInv'
      /\ Fill \in Nat /\ Fill <= PIPESIZE /\ PIPESIZE \in Nat \ {0} /\ PipeUInt \in Nat \ {0}
      /\ PipeUInt > PIPESIZE /\ PipeUInt % PIPESIZE = 0
  BY BytesTyped, BytesTypedNext, FillRange, PipeAssumption DEF PipeInv, FillInv
<1>2. PICK r \in ProcRecord, k \in Nat :
           /\ p \in PipeWriters /\ Inside(p)
           /\ k <= Len(pproc[p].todo) /\ k <= PIPESIZE - Fill
           /\ pipe'.nread = pipe.nread /\ pipe'.nwrite = (pipe.nwrite + k) % PipeUInt
           /\ \A j \in 0 .. PIPESIZE - 1 :
                pipe'.data[j] = IF (j - pipe.nwrite) % PIPESIZE < k
                                THEN pproc[p].todo[((j - pipe.nwrite) % PIPESIZE) + 1] ELSE pipe.data[j]
           /\ pipe'.pages = pipe.pages
           /\ pproc' = PipeWoken(Replaced(p, r), "read") \/ pproc' = Replaced(p, r)
  BY <1>1, WriteMoves
<1>3. pipe.pages # 0
  <2>1. pproc[p].open BY <1>1, <1>2 DEF CallsInv, Inside, PipeAt
  <2>2. pipe.writeopen BY <1>1, <1>2, <2>1 DEF EndsInv
  <2> QED BY <1>1, <2>2 DEF StorageInv
<1>4. PICK x \in 0 .. PipeUInt - 1, w \in 0 .. PipeUInt - 1 : x = pipe.nread /\ w = pipe.nwrite
  BY <1>1, PipeFields
<1>5. PICK f \in Nat : f = Fill /\ f = (w - x) % PipeUInt /\ f + k <= PIPESIZE /\ f + k < PipeUInt
  BY <1>1, <1>2, <1>4 DEF Fill
<1>6. Fill' = f + k
  <2>1. (((w + k) % PipeUInt) - x) % PipeUInt = f + k BY <1>1, <1>5, FillGrows
  <2> QED BY <1>2, <1>4, <2>1 DEF Fill
<1>7. PICK todo \in Seq(PipeBytes) : todo = pproc[p].todo /\ k <= Len(todo) BY <1>1, <1>2, PipeFields
<1>8. PICK s : s = SubSeq(todo, 1, k) OBVIOUS
<1>9. s \in Seq(PipeBytes) /\ Len(s) = k /\ \A i \in 1 .. k : s[i] = todo[i] BY <1>7, <1>8
<1>10. /\ Bytes \in Seq(PipeBytes) /\ Len(Bytes) = f
       /\ \A i \in 1 .. f : Bytes[i] = pipe.data[Place(x, i)]
       /\ Bytes' \in Seq(PipeBytes) /\ Len(Bytes') = f + k
       /\ \A i \in 1 .. f + k : Bytes'[i] = pipe'.data[Place(x, i)]
  BY <1>1, <1>2, <1>3, <1>4, <1>5, <1>6 DEF BytesInv
<1>11. \A i \in 1 .. f + k : Bytes'[i] = IF i <= f THEN Bytes[i] ELSE s[i - f]
  <2> SUFFICES ASSUME NEW i \in 1 .. f + k PROVE Bytes'[i] = IF i <= f THEN Bytes[i] ELSE s[i - f] OBVIOUS
  <2>1. i \in 1 .. PIPESIZE /\ x \in Int BY <1>1, <1>5
  <2>2. PICK j \in 0 .. PIPESIZE - 1 : j = Place(x, i) BY <2>1, PlaceTyped
  <2>3. PICK d \in Int : /\ d = (j - w) % PIPESIZE
                         /\ d = IF i <= f THEN i - 1 - f + PIPESIZE ELSE i - 1 - f
    <3>1. f <= PIPESIZE /\ f = (w - x) % PipeUInt BY <1>1, <1>5
    <3>2. (Place(x, i) - w) % PIPESIZE = IF i <= f THEN i - 1 - f + PIPESIZE ELSE i - 1 - f
      BY <2>1, <3>1, PlaceWritten
    <3>3. (IF i <= f THEN i - 1 - f + PIPESIZE ELSE i - 1 - f) \in Int BY <1>1
    <3> QED BY <2>2, <3>2, <3>3
  <2>4. Bytes'[i] = IF d < k THEN todo[d + 1] ELSE pipe.data[j]
    BY <1>2, <1>4, <1>7, <1>10, <2>2, <2>3
  <2>5. CASE i <= f
    <3>1. ~(d < k) BY <1>1, <1>5, <2>3, <2>5
    <3>2. Bytes[i] = pipe.data[j] BY <1>10, <2>2, <2>5
    <3> QED BY <2>4, <2>5, <3>1, <3>2
  <2>6. CASE i > f
    <3>1. d < k /\ d + 1 = i - f /\ i - f \in 1 .. k BY SMTT(30), <2>3, <2>6, <1>5
    <3> QED BY <1>9, <2>4, <2>6, <3>1
  <2> QED BY <2>5, <2>6
<1>12. Bytes' = Bytes \o s
  <2>1. /\ Bytes \o s \in Seq(PipeBytes) /\ Len(Bytes \o s) = f + k
        /\ \A i \in 1 .. f + k : (Bytes \o s)[i] = IF i <= f THEN Bytes[i] ELSE s[i - f]
    BY <1>9, <1>10, ConcatProperties
  <2> QED BY <1>10, <1>11, <2>1, SeqEqual
<1>13. Taken' = Taken
  <2>1. /\ Replaced(p, r) \in [PipeProc -> ProcRecord]
        /\ \A q \in PipeProc : q # p => Replaced(p, r)[q] = pproc[q]
    BY <1>1, ReplacedTyped
  <2>2. \A q \in PipeProc : q # p => pproc'[q].todo = pproc[q].todo BY <1>2, <2>1, WokenTyped
  <2> QED BY <1>2, <2>2, EndsHandled DEF Taken
<1>14. Len(Bytes') <= PIPESIZE /\ s \in TheFifo!BoundedSeq(PipeBytes, PIPESIZE)
  <2>1. k \in 0 .. PIPESIZE /\ s \in [1 .. k -> PipeBytes] BY <1>1, <1>5, <1>9
  <2> QED BY <1>1, <1>5, <1>10, <2>1 DEF TheFifo!BoundedSeq, TheFifo!SeqOf
<1>15. TheFifo!Put(s) BY <1>12, <1>13, <1>14 DEF TheFifo!Put, Bytes, Taken
<1> QED BY <1>14, <1>15 DEF TheFifo!FifoNext

LEMMA FifoStep ==
  ASSUME PipeInv, PipeInv', [PipeNext]_pipevars
  PROVE  [TheFifo!FifoNext]_(TheFifo!fifovars)
<1>1. CASE PipeAlloc BY <1>1, AllocFifo
<1>2. ASSUME NEW p \in PipeProc, PipeCall(p) PROVE [TheFifo!FifoNext]_(TheFifo!fifovars)
  BY <1>2, CallFifo
<1>3. ASSUME NEW p \in PipeProc, PipeWrite(p) PROVE [TheFifo!FifoNext]_(TheFifo!fifovars)
  BY <1>3, WriteFifo
<1>4. ASSUME NEW p \in PipeProc, PipeRead(p) PROVE [TheFifo!FifoNext]_(TheFifo!fifovars)
  BY <1>4, ReadFifo
<1>5. ASSUME NEW p \in PipeProc, PipeClose(p) PROVE [TheFifo!FifoNext]_(TheFifo!fifovars)
  BY <1>5, CloseFifo
<1>6. ASSUME NEW p \in PipeProc, PipeKill(p) PROVE [TheFifo!FifoNext]_(TheFifo!fifovars)
  BY <1>6, KillFifo
<1>7. CASE UNCHANGED pipevars
  <2>1. Bytes' = Bytes /\ Taken' = Taken BY <1>7 DEF pipevars, Bytes, Taken, Fill
  <2> QED BY <2>1, FifoStutter
<1> QED BY <1>1, <1>2, <1>3, <1>4, <1>5, <1>6, <1>7 DEF PipeNext

(* A pipe is a FIFO: what readers get is what was written, each byte once, *)
(* in order, though the indices wrap and reads and writes are cut to what  *)
(* is there and what fits.                                                 *)
THEOREM PipesAreFifos == PipeSpec => PipeIsFifo
<1>1. PipeInit => TheFifo!FifoInit BY FifoStart
<1>2. PipeInv /\ PipeInv' /\ [PipeNext]_pipevars => [TheFifo!FifoNext]_(TheFifo!fifovars)
  BY FifoStep
<1> QED BY <1>1, <1>2, PipeInvHolds, PTL DEF PipeSpec, PipeIsFifo, TheFifo!FifoSpec

-----------------------------------------------------------------------------
(* Keyboard: a key on its way down or up, byte by byte.                    *)

Modifiers == {"CTL", "SHIFT", "ALT"}
HeldModifiers == UNION {Shiftcode(k) : k \in kbd.held}
Stays(more) == kbd.shift \cap Modifiers \subseteq HeldModifiers \cup more
Escaped == "E0ESC" \in kbd.shift

Quiet == kbd.line = <<>> /\ NoModifierStuck
Pressing(k) ==
  /\ k \in kbd.held /\ Stays({})
  /\ \/ kbd.line = Down(k) /\ ~Escaped
     \/ Extended(k) /\ kbd.line = <<k - 128>> /\ Escaped
Releasing(k) ==
  /\ k \notin kbd.held /\ Stays(Shiftcode(k))
  /\ \/ kbd.line = Up(k) /\ ~Escaped
     \/ Extended(k) /\ kbd.line = <<k>> /\ Escaped

Shifts == Modifiers \cup {"CAPSLOCK", "NUMLOCK", "E0ESC"}
CharKinds == {"none", "control", "upper", "lower"}
KbdRecord == [held : SUBSET Keys, line : Seq(Int), shift : SUBSET Shifts, c : CharKinds]
KbdInv == kbd \in KbdRecord /\ (Quiet \/ \E k \in Keys : Pressing(k) \/ Releasing(k))

LEMMA ShiftcodeIs ==
  ASSUME NEW d
  PROVE  Shiftcode(d) \subseteq Modifiers /\ ("CTL" \in Shiftcode(d) => d \in {29, 157})
<1>1. CASE d \in {29, 157}
  <2>0. d \notin {42, 54} /\ d \notin {56, 184} BY <1>1
  <2>1. Shiftcode(d) = {"CTL"} BY <1>1, <2>0 DEF Shiftcode
  <2> QED BY <1>1, <2>1 DEF Modifiers
<1>2. CASE d \notin {29, 157} /\ d \in {42, 54}
  <2>0. d \notin {56, 184} BY <1>2
  <2>1. Shiftcode(d) = {"SHIFT"} BY <1>2, <2>0, Zenon DEF Shiftcode
  <2> QED BY <2>1 DEF Modifiers
<1>3. CASE d \notin {29, 157, 42, 54} /\ d \in {56, 184}
  <2>1. Shiftcode(d) = {"ALT"} BY <1>3, Zenon DEF Shiftcode
  <2> QED BY <2>1 DEF Modifiers
<1>4. CASE d \notin {29, 157, 42, 54, 56, 184}
  <2>1. Shiftcode(d) = {} BY <1>4, Zenon DEF Shiftcode
  <2> QED BY <2>1
<1> QED BY <1>1, <1>2, <1>3, <1>4

LEMMA TogglecodeIs ==
  ASSUME NEW d
  PROVE  Togglecode(d) \subseteq {"CAPSLOCK", "NUMLOCK"}
<1>1. CASE d = 58 BY <1>1, Zenon DEF Togglecode
<1>2. CASE d # 58 /\ d = 69 
  <2>1. Togglecode(d) = {"NUMLOCK"} BY <1>2, Zenon DEF Togglecode
  <2> QED BY <2>1
<1>3. CASE d # 58 /\ d # 69
  <2>1. Togglecode(d) = {} BY <1>3, Zenon DEF Togglecode
  <2> QED BY <2>1
<1> QED BY <1>1, <1>2, <1>3

LEMMA KeysAre == \A k \in Keys : k \in 0 .. 255 /\ k # 96 /\ k # 224
BY KeyboardAssumption

LEMMA HeldIn ==
  /\ \A k \in kbd.held : Shiftcode(k) \subseteq HeldModifiers
  /\ "CTL" \in HeldModifiers => {29, 157} \cap kbd.held # {}
<1>1. ASSUME "CTL" \in HeldModifiers PROVE {29, 157} \cap kbd.held # {}
  <2>1. PICK k \in kbd.held : "CTL" \in Shiftcode(k) BY <1>1 DEF HeldModifiers
  <2> QED BY <2>1, ShiftcodeIs
<1> QED BY <1>1 DEF HeldModifiers

LEMMA KeyDownKeeps ==
  ASSUME KbdInv, NEW k \in Keys, KeyDown(k)
  PROVE  KbdInv'
<1>1. kbd.line = <<>> /\ kbd \in KbdRecord BY DEF KeyDown, KbdInv
<1>2. k \in 0 .. 255 BY KeysAre
<1>3. Down(k) \in Seq(Int) BY <1>2 DEF Down, E0
<1>4. PICK d \in Seq(Int) : d = Down(k) BY <1>3
<1>5. PICK h \in SUBSET Keys : h = kbd.held \cup {k} BY <1>1 DEF KbdRecord
<1>6. /\ kbd' \in KbdRecord
      /\ kbd'.held = h /\ kbd'.line = d /\ kbd'.shift = kbd.shift
  BY <1>1, <1>4, <1>5 DEF KeyDown, KbdRecord
<1>7. NoModifierStuck
  <2>1. \A j \in Keys : Down(j) # <<>> /\ Up(j) # <<>> BY KeysAre DEF Down, Up
  <2> QED BY <1>1, <2>1 DEF KbdInv, Quiet, Pressing, Releasing
<1>8. ~Escaped /\ Stays({}) BY <1>1, <1>7 DEF NoModifierStuck, Escaped, Stays, Modifiers, HeldModifiers
<1>9. HeldModifiers \subseteq HeldModifiers' BY <1>5, <1>6 DEF HeldModifiers
<1>10. Pressing(k)' 
  BY <1>4, <1>5, <1>6, <1>8, <1>9 DEF Pressing, Stays, Escaped
<1> QED BY <1>6, <1>10 DEF KbdInv

LEMMA KeyUpKeeps ==
  ASSUME KbdInv, NEW k \in Keys, KeyUp(k)
  PROVE  KbdInv'
<1>1. kbd.line = <<>> /\ kbd \in KbdRecord BY DEF KeyUp, KbdInv
<1>2. k \in 0 .. 255 BY KeysAre
<1>3. Up(k) \in Seq(Int) BY <1>2 DEF Up, E0
<1>4. PICK d \in Seq(Int) : d = Up(k) BY <1>3
<1>5. PICK h \in SUBSET Keys : h = kbd.held \ {k} BY <1>1 DEF KbdRecord
<1>6. /\ kbd' \in KbdRecord
      /\ kbd'.held = h /\ kbd'.line = d /\ kbd'.shift = kbd.shift
  BY <1>1, <1>4, <1>5 DEF KeyUp, KbdRecord
<1>7. NoModifierStuck
  <2>1. \A j \in Keys : Down(j) # <<>> /\ Up(j) # <<>> BY KeysAre DEF Down, Up
  <2> QED BY <1>1, <2>1 DEF KbdInv, Quiet, Pressing, Releasing
<1>8. ~Escaped /\ Stays({}) BY <1>1, <1>7 DEF NoModifierStuck, Escaped, Stays, Modifiers, HeldModifiers
<1>9. HeldModifiers \subseteq HeldModifiers' \cup Shiftcode(k) BY <1>5, <1>6 DEF HeldModifiers
<1>10. Releasing(k)'
  BY <1>4, <1>5, <1>6, <1>8, <1>9 DEF Releasing, Stays, Escaped
<1> QED BY <1>6, <1>10 DEF KbdInv

(* The byte that kbdgetc() reads, and what becomes of the rest.            *)
LEMMA BytesAre ==
  ASSUME NEW k \in Keys
  PROVE  /\ Down(k) = IF Extended(k) THEN <<E0, k - 128>> ELSE <<k>>
         /\ Up(k) = IF Extended(k) THEN <<E0, k>> ELSE <<k + 128>>
         /\ Extended(k) => k - 128 \in 0 .. 127 /\ k >= 128 /\ k # E0
         /\ ~Extended(k) => k \in 0 .. 127 /\ k # E0 /\ k + 128 # E0
BY KeysAre DEF Down, Up, Extended, E0

LEMMA KbdgetcKeeps ==
  ASSUME KbdInv, Kbdgetc
  PROVE  KbdInv'
<1>1. kbd \in KbdRecord /\ kbd.line # <<>> BY DEF KbdInv, Kbdgetc
<1>2. PICK k \in Keys : Pressing(k) \/ Releasing(k) BY <1>1 DEF KbdInv, Quiet
<1> DEFINE row == IF "E0ESC" \in kbd.shift THEN Head(kbd.line) + 128 ELSE Head(kbd.line)
           now == Toggled((kbd.shift \ {"E0ESC"}) \cup Shiftcode(row), Togglecode(row))
           rest == [kbd EXCEPT !.line = Tail(@), !.c = "none"]
<1>3. PICK s \in SUBSET Shifts : s = kbd.shift BY <1>1 DEF KbdRecord
<1>4. \A d : Shiftcode(d) \subseteq Shifts /\ Togglecode(d) \subseteq Shifts
  BY ShiftcodeIs, TogglecodeIs DEF Shifts
<1>5. \A d : CharOf(s, d) \in CharKinds /\ CharOf(now, d) \in CharKinds BY DEF CharOf, CharKinds
<1>6. /\ kbd'.held = kbd.held
      /\ kbd.line[1] = E0 => kbd'.line = Tail(kbd.line) /\ kbd'.shift = s \cup {"E0ESC"}
      /\ kbd.line[1] # E0 /\ kbd.line[1] >= 128 =>
           kbd'.line = Tail(kbd.line) /\ kbd'.shift = Released(s, kbd.line[1]) /\ kbd'.c = "none"
      /\ kbd.line[1] # E0 /\ ~(kbd.line[1] >= 128) =>
           kbd'.line = Tail(kbd.line) /\ kbd'.shift = now /\ kbd'.c = CharOf(now, row)
      /\ kbd' \in KbdRecord
  <2>1. Tail(kbd.line) \in Seq(Int) BY <1>1 DEF KbdRecord
  <2>2. PICK t \in Seq(Int) : t = Tail(kbd.line) BY <2>1
  <2>3. rest \in KbdRecord /\ rest.held = kbd.held /\ rest.line = t /\ rest.shift = s /\ rest.c = "none"
    BY <1>1, <1>3, <2>2 DEF KbdRecord, CharKinds
  <2>4. now \in SUBSET Shifts BY <1>3, <1>4 DEF Toggled
  <2>5. Released(s, kbd.line[1]) \in SUBSET Shifts BY <1>3 DEF Released
  <2>6. Head(kbd.line) = kbd.line[1] BY <1>1 DEF KbdRecord
  <2>7. kbd' = IF kbd.line[1] = E0 THEN [rest EXCEPT !.shift = s \cup {"E0ESC"}]
               ELSE IF kbd.line[1] >= 128 THEN [rest EXCEPT !.shift = Released(s, kbd.line[1])]
               ELSE [rest EXCEPT !.shift = now, !.c = CharOf(now, row)]
    BY <2>3, <2>6 DEF Kbdgetc
  <2> HIDE DEF rest, now, row
  <2>8. CASE kbd.line[1] = E0
    BY <2>2, <2>3, <2>7, <2>8, <1>3 DEF KbdRecord, Shifts
  <2>9. CASE kbd.line[1] # E0 /\ kbd.line[1] >= 128
    BY <2>2, <2>3, <2>5, <2>7, <2>9, <1>3 DEF KbdRecord
  <2>10. CASE kbd.line[1] # E0 /\ ~(kbd.line[1] >= 128)
    <3>1. PICK n \in SUBSET Shifts : n = now BY <2>4
    <3>2. PICK c \in CharKinds : c = CharOf(now, row) BY <1>5
    <3> QED BY <2>2, <2>3, <2>7, <2>10, <3>1, <3>2 DEF KbdRecord
  <2> QED BY <2>8, <2>9, <2>10
<1>7. kbd.held = kbd'.held /\ HeldModifiers' = HeldModifiers BY <1>6 DEF HeldModifiers
<1>8. Shiftcode(k) \subseteq Modifiers BY ShiftcodeIs
<1>9. CASE kbd.line[1] = E0
  <2>0. \A j : <<j>>[1] = j /\ (\A l : <<j, l>>[1] = j /\ Tail(<<j, l>>) = <<l>>) OBVIOUS
  <2>1. Extended(k) /\ (kbd.line = Down(k) \/ kbd.line = Up(k))
    <3>1. Extended(k) => kbd.line # <<k>> /\ kbd.line # <<k - 128>>
      BY <1>9, <2>0, BytesAre DEF E0
    <3>2. kbd.line = Down(k) \/ kbd.line = Up(k) BY <1>2, <3>1 DEF Pressing, Releasing
    <3>3. ~Extended(k) => Down(k) = <<k>> /\ Up(k) = <<k + 128>> BY BytesAre
    <3> QED BY <1>9, <2>0, <3>2, <3>3, BytesAre
  <2>2. Tail(kbd.line) = IF kbd.line = Down(k) THEN <<k - 128>> ELSE <<k>>
    <3>1. PICK e, down, up : e = E0 /\ down = k - 128 /\ up = k OBVIOUS
    <3>2. Tail(<<e, down>>) = <<down>> /\ Tail(<<e, up>>) = <<up>> BY <2>0, Zenon
    <3>3. Down(k) = <<e, down>> /\ Up(k) = <<e, up>> BY <2>1, <3>1, BytesAre
    <3> QED BY <2>1, <3>1, <3>2, <3>3
  <2>3. Stays({}) => Stays({})' BY <1>3, <1>6, <1>7, <1>9 DEF Stays, Modifiers
  <2>4. Stays(Shiftcode(k)) => Stays(Shiftcode(k))' BY <1>3, <1>6, <1>7, <1>9 DEF Stays, Modifiers
  <2>5. Escaped' BY <1>6, <1>9 DEF Escaped
  <2>6. Pressing(k) => kbd.line = Down(k)
    BY <1>9, <2>1, BytesAre DEF Pressing
  <2>7. Releasing(k) => kbd.line = Up(k)
    BY <1>9, <2>1, BytesAre DEF Releasing
  <2>8. Down(k) # Up(k) BY <2>1, BytesAre, KeysAre
  <2>9. CASE Pressing(k)
    BY <1>6, <1>7, <1>9, <2>1, <2>2, <2>3, <2>5, <2>6, <2>9 DEF Pressing, KbdInv
  <2>10. CASE Releasing(k)
    BY <1>6, <1>7, <1>9, <2>1, <2>2, <2>4, <2>5, <2>7, <2>8, <2>10 DEF Releasing, KbdInv
  <2> QED BY <1>2, <2>9, <2>10
<1>10. CASE kbd.line[1] # E0 /\ Pressing(k)
  <2>1. kbd.line = IF Extended(k) THEN <<k - 128>> ELSE <<k>>
    BY <1>10, BytesAre DEF Pressing
  <2>2. ~(kbd.line[1] >= 128) /\ Head(kbd.line) = kbd.line[1] /\ Tail(kbd.line) = <<>>
    BY <2>1, BytesAre
  <2>3. Escaped <=> Extended(k)
    BY <1>10, BytesAre DEF Pressing
  <2>4. row = k BY <2>1, <2>2, <2>3, KeysAre DEF Escaped
  <2>5. kbd'.line = <<>> /\ kbd'.shift = now /\ kbd'.c = CharOf(now, k)
    BY <1>6, <1>10, <2>2, <2>4
  <2>6. now = Toggled((s \ {"E0ESC"}) \cup Shiftcode(k), Togglecode(k)) BY <2>4, <1>3
  <2>7. PICK sc, tc : sc = Shiftcode(k) /\ tc = Togglecode(k) OBVIOUS
  <2>8. now = (((s \ {"E0ESC"}) \cup sc) \ tc) \cup (tc \ ((s \ {"E0ESC"}) \cup sc))
    BY <2>6, <2>7 DEF Toggled
  <2>9. "E0ESC" \notin now /\ now \cap Modifiers \subseteq HeldModifiers
    <3>1. sc \subseteq Modifiers /\ sc \subseteq HeldModifiers BY <1>8, <1>10, <2>7, HeldIn DEF Pressing
    <3>2. tc \subseteq {"CAPSLOCK", "NUMLOCK"} BY <2>7, TogglecodeIs
    <3>3. s \cap Modifiers \subseteq HeldModifiers BY <1>3, <1>10 DEF Pressing, Stays
    <3> HIDE DEF now
    <3> QED BY <2>8, <3>1, <3>2, <3>3 DEF Modifiers
  <2>10. CharOf(now, k) = "control" => "CTL" \in now BY DEF CharOf
  <2>11. CharOf(now, k) = "control" => {29, 157} \cap kbd.held # {} BY <2>9, <2>10, HeldIn DEF Modifiers
  <2> HIDE DEF now, row
  <2>12. Quiet'
    BY <1>7, <2>5, <2>9, <2>11 DEF Quiet, NoModifierStuck, HeldModifiers, Modifiers
  <2> QED BY <1>6, <2>12 DEF KbdInv
<1>11. CASE kbd.line[1] # E0 /\ Releasing(k)
  <2>1. kbd.line = IF Extended(k) THEN <<k>> ELSE <<k + 128>>
    BY <1>11, BytesAre DEF Releasing
  <2>2. kbd.line[1] >= 128 /\ Tail(kbd.line) = <<>>
    BY <2>1, BytesAre
  <2>3. Escaped <=> Extended(k)
    BY <1>11, BytesAre DEF Releasing
  <2>4. (IF "E0ESC" \in s THEN kbd.line[1] ELSE kbd.line[1] - 128) = k
    BY <1>3, <2>1, <2>3, KeysAre DEF Escaped
  <2>5. Released(s, kbd.line[1]) = s \ (Shiftcode(k) \cup {"E0ESC"}) BY <2>4 DEF Released
  <2>6. kbd'.line = <<>> /\ kbd'.shift = s \ (Shiftcode(k) \cup {"E0ESC"}) /\ kbd'.c = "none"
    BY <1>6, <1>11, <2>2, <2>5
  <2>7. Stays(Shiftcode(k)) BY <1>11 DEF Releasing
  <2>8. Quiet'
    BY <1>3, <1>7, <2>6, <2>7 DEF Quiet, NoModifierStuck, HeldModifiers, Modifiers, Stays
  <2> QED BY <1>6, <2>8 DEF KbdInv
<1> QED BY <1>2, <1>9, <1>10, <1>11

(* A modifier goes off with its key: the keyboard half of ConsoleSafe.     *)
THEOREM KeyboardStays == KeyboardSpec => []NoModifierStuck
<1>1. KeyboardInit => KbdInv
  BY DEF KeyboardInit, KbdInv, KbdRecord, Quiet, NoModifierStuck, CharKinds
<1>2. KbdInv /\ [KeyboardNext]_kbdvars => KbdInv'
  <2> SUFFICES ASSUME KbdInv, [KeyboardNext]_kbdvars PROVE KbdInv' OBVIOUS
  <2>1. CASE Kbdgetc BY <2>1, KbdgetcKeeps
  <2>2. ASSUME NEW k \in Keys, KeyDown(k) PROVE KbdInv' BY <2>2, KeyDownKeeps
  <2>3. ASSUME NEW k \in Keys, KeyUp(k) PROVE KbdInv' BY <2>3, KeyUpKeeps
  <2>4. CASE UNCHANGED kbdvars
    <3>1. kbd' = kbd BY <2>4 DEF kbdvars
    <3> QED
      BY <3>1 DEF KbdInv, Quiet, Pressing, Releasing, NoModifierStuck, Stays, Escaped, HeldModifiers
  <2> QED BY <2>1, <2>2, <2>3, <2>4 DEF KeyboardNext
<1>3. KbdInv => NoModifierStuck
  <2>1. \A j \in Keys : Down(j) # <<>> /\ Up(j) # <<>> /\ <<j>> # <<>> /\ <<j - 128>> # <<>> BY KeysAre DEF Down, Up
  <2> QED BY <2>1 DEF KbdInv, Quiet, Pressing, Releasing, NoModifierStuck
<1> QED BY <1>1, <1>2, <1>3, PTL DEF KeyboardSpec

-----------------------------------------------------------------------------
(* Console: the screen.  Cgaputc() scrolls when the cursor reaches ScrollAt,   *)
(* so a character leaves it before ScrollAt and the cells above it in place.   *)

ScrollAt == (Rows - 1) * Columns
Marks == Letters \cup {NL, EOT, Blank}
ScreenRec == [crt : [Cells -> Marks], pos : Nat, panic : BOOLEAN]
OnScreen(s) == s \in ScreenRec /\ ~s.panic /\ s.pos < ScrollAt

LEMMA TimesMonotone ==
  ASSUME NEW m \in Nat, NEW a \in Int, NEW b \in Int, a <= b
  PROVE  m * a <= m * b
OBVIOUS

LEMMA Measures ==
  \E l \in Nat, c \in Nat \ {0} :
    /\ l = ScrollAt /\ c = Columns /\ c <= l
    /\ Rows * Columns = l + c /\ (Rows - 2) * Columns = l - c
<1>1. Columns \in Nat \ {0} /\ Rows \in Nat /\ Rows >= 2 BY ConsoleAssumption
<1>2. PICK n \in Nat : n = Rows - 2 BY <1>1
<1>3. PICK t \in Nat : t = n * Columns BY <1>1
<1>4. ScrollAt = t + Columns /\ Rows * Columns = t + Columns + Columns
  BY <1>1, <1>2, <1>3 DEF ScrollAt
<1> QED BY <1>1, <1>2, <1>3, <1>4

LEMMA LastLine ==
  ASSUME NEW p \in Nat
  PROVE  /\ p \div Columns >= Rows - 1 <=> p >= ScrollAt
         /\ p % Columns \in 0 .. Columns - 1
         /\ p < ScrollAt => p + (Columns - (p % Columns)) <= ScrollAt
<1>1. Columns \in Nat \ {0} /\ Rows - 1 \in Nat BY ConsoleAssumption
<1>2. PICK n \in Nat : n = Rows - 1 BY <1>1
<1>3. PICK q \in Int, r \in 0 .. Columns - 1 :
        q = p \div Columns /\ r = p % Columns /\ p = Columns * q + r
  BY <1>1
<1>4. ScrollAt = Columns * n BY <1>1, <1>2 DEF ScrollAt
<1>5. CASE q >= n
  <2>1. Columns * n <= Columns * q BY <1>1, <1>5, TimesMonotone
  <2> QED BY <1>1, <1>2, <1>3, <1>4, <1>5, <2>1
<1>6. CASE q + 1 <= n
  <2>1. Columns * (q + 1) <= Columns * n BY <1>1, <1>6, TimesMonotone
  <2>2. Columns * (q + 1) = Columns * q + Columns BY <1>1
  <2> QED BY <1>1, <1>2, <1>3, <1>4, <1>6, <2>1, <2>2
<1> QED BY <1>5, <1>6

LEMMA MarksApart ==
  /\ {NL, EOT, Blank} \subseteq Marks /\ NL # BackSpace /\ EOT # BackSpace /\ Blank # BackSpace
  /\ NL # Blank /\ EOT # NL /\ EOT # Blank /\ BackSpace \notin Marks
  /\ \A c \in Letters : c \in Marks /\ c # NL /\ c # EOT /\ c # BackSpace
BY ConsoleAssumption DEF Marks, NL, EOT, Blank, BackSpace

(* The cell and the cursor put, the rest of cgaputc().                     *)
LEMMA CgaputcIs ==
  ASSUME NEW s, NEW c, NEW put \in ScreenRec, put = PutCell(s, c), ~put.panic, put.pos <= ScrollAt
  PROVE  /\ OnScreen(Cgaputc(s, c))
         /\ Cgaputc(s, c).pos = IF put.pos = ScrollAt THEN ScrollAt - Columns ELSE put.pos
         /\ \A i \in Nat : i < Cgaputc(s, c).pos =>
              Cgaputc(s, c).crt[i] = IF put.pos = ScrollAt THEN put.crt[i + Columns] ELSE put.crt[i]
<1>1. PICK l \in Nat, m \in Nat \ {0} :
        /\ l = ScrollAt /\ m = Columns /\ m <= l
        /\ Rows * Columns = l + m /\ (Rows - 2) * Columns = l - m /\ (Rows - 1) * Columns = l
  BY Measures DEF ScrollAt
<1>2. Cells = 0 .. l + m BY <1>1 DEF Cells
<1> DEFINE up == IF put.pos \div Columns >= Rows - 1 THEN Scroll(put) ELSE put
<1>3. put.pos \in Nat /\ put.crt \in [Cells -> Marks] BY DEF ScreenRec
<1>4. Cgaputc(s, c) = [up EXCEPT !.crt[up.pos] = Blank]
  BY <1>1, <1>3 DEF Cgaputc
<1>5. PICK v \in ScreenRec :
        /\ v = up /\ ~v.panic
        /\ v.pos = (IF put.pos = l THEN l - m ELSE put.pos)
        /\ \A i \in Nat : i < v.pos => v.crt[i] = IF put.pos = l THEN put.crt[i + m] ELSE put.crt[i]
  <2>1. CASE put.pos = l
    <3>1. up = Scroll(put) BY <1>1, <1>3, <2>1, LastLine
    <3>2. PICK f \in [Cells -> Marks] : f = Moved(put)
      <4>1. \A i \in Cells : i < l - m => i + m \in Cells BY <1>1, <1>2
      <4>2. \A i \in Cells : (IF i < l - m THEN put.crt[i + m]
                              ELSE IF i >= put.pos - m /\ i < l THEN Blank
                              ELSE put.crt[i]) \in Marks
        BY <1>3, <4>1, MarksApart
      <4> QED BY <1>1, <4>2 DEF Moved
    <3>3. \A i \in Nat : i < l - m => f[i] = put.crt[i + m]
      <4>1. \A i \in Nat : i < l - m => i \in Cells BY <1>1, <1>2
      <4> QED BY <1>1, <3>2, <4>1 DEF Moved
    <3>4. PICK n \in Nat : n = l - m BY <1>1
    <3>5. Scroll(put) = [put EXCEPT !.crt = f, !.pos = n]
      BY <1>1, <2>1, <3>2, <3>4 DEF Scroll, ScreenRec
    <3>6. PICK v \in ScreenRec : v = Scroll(put) /\ v.crt = f /\ v.pos = n /\ ~v.panic
      BY <3>5 DEF ScreenRec
    <3> HIDE DEF up
    <3>7. v = up /\ v.pos = (IF put.pos = l THEN l - m ELSE put.pos)
      BY <2>1, <3>1, <3>4, <3>6
    <3>8. \A i \in Nat : i < v.pos => v.crt[i] = IF put.pos = l THEN put.crt[i + m] ELSE put.crt[i]
      BY <2>1, <3>3, <3>4, <3>6
    <3> QED BY <3>6, <3>7, <3>8
  <2>2. CASE put.pos < l
    BY <1>1, <1>3, <2>2, LastLine
  <2> QED BY <1>1, <1>3, <2>1, <2>2
<1>6. v.pos < l /\ v.pos \in Cells /\ v.pos \in Nat BY <1>1, <1>2, <1>3, <1>5
<1> HIDE DEF up
<1>7. PICK g \in [Cells -> Marks] : g = [v.crt EXCEPT ![v.pos] = Blank]
  BY <1>6, MarksApart DEF ScreenRec
<1>8. \A i \in Nat : i < v.pos => g[i] = v.crt[i]
  <2>1. \A i \in Nat : i < v.pos => i \in Cells /\ i # v.pos BY <1>2, <1>6
  <2>2. v.crt \in [Cells -> Marks] BY DEF ScreenRec
  <2> QED BY <1>7, <2>1, <2>2
<1>9. Cgaputc(s, c) = [v EXCEPT !.crt = g] BY <1>4, <1>5, <1>7 DEF ScreenRec
<1>10. PICK t \in ScreenRec : t = Cgaputc(s, c) /\ t.crt = g /\ t.pos = v.pos /\ ~t.panic
  BY <1>5, <1>9 DEF ScreenRec
<1> QED BY <1>1, <1>5, <1>6, <1>8, <1>10 DEF OnScreen

LEMMA EchoNewline ==
  ASSUME NEW s, OnScreen(s)
  PROVE  OnScreen(Cgaputc(s, NL))
<1>1. s \in ScreenRec /\ ~s.panic /\ s.pos < ScrollAt /\ s.pos \in Nat BY DEF OnScreen, ScreenRec
<1>2. PutCell(s, NL) = [s EXCEPT !.pos = s.pos + (Columns - (s.pos % Columns))]
  BY MarksApart, Zenon DEF PutCell
<1>3. Columns \in Nat /\ ScrollAt \in Nat BY Measures
<1>4. PICK n \in Nat : n = s.pos + (Columns - (s.pos % Columns)) /\ n <= ScrollAt
  BY <1>1, <1>3, LastLine
<1>5. PICK put \in ScreenRec : put = PutCell(s, NL) /\ put.pos = n /\ ~put.panic
  BY <1>1, <1>2, <1>4 DEF ScreenRec
<1> QED BY <1>4, <1>5, CgaputcIs

LEMMA EchoBackspace ==
  ASSUME NEW s, OnScreen(s)
  PROVE  /\ OnScreen(Cgaputc(s, BackSpace))
         /\ Cgaputc(s, BackSpace).pos = IF s.pos > 0 THEN s.pos - 1 ELSE 0
         /\ \A i \in Nat : i < Cgaputc(s, BackSpace).pos => Cgaputc(s, BackSpace).crt[i] = s.crt[i]
<1>1. s \in ScreenRec /\ ~s.panic /\ s.pos < ScrollAt /\ s.pos \in Nat BY DEF OnScreen, ScreenRec
<1>2. PutCell(s, BackSpace) = [s EXCEPT !.pos = IF s.pos > 0 THEN s.pos - 1 ELSE 0]
  BY MarksApart, Zenon DEF PutCell
<1>3. ScrollAt \in Nat BY Measures
<1>4. PICK n \in Nat : n = (IF s.pos > 0 THEN s.pos - 1 ELSE 0) /\ n < ScrollAt BY <1>1, <1>3
<1>5. PICK put \in ScreenRec : put = PutCell(s, BackSpace) /\ put.pos = n /\ ~put.panic /\ put.crt = s.crt
  BY <1>1, <1>2, <1>4 DEF ScreenRec
<1>6. n <= ScrollAt /\ n # ScrollAt BY <1>3, <1>4
<1> QED BY <1>4, <1>5, <1>6, CgaputcIs

(* A character comes right before the cursor; the cells above it, counted  *)
(* from the cursor, are those that were there.                             *)
LEMMA EchoCharacter ==
  ASSUME NEW s, OnScreen(s), NEW c \in Marks \ {NL}
  PROVE  /\ OnScreen(Cgaputc(s, c))
         /\ \A k \in Nat \ {0} : k <= Cgaputc(s, c).pos =>
              /\ k - 1 \in 0 .. s.pos
              /\ Cgaputc(s, c).crt[Cgaputc(s, c).pos - k] = IF k = 1 THEN c ELSE s.crt[s.pos - (k - 1)]
<1>1. s \in ScreenRec /\ ~s.panic /\ s.pos < ScrollAt /\ s.pos \in Nat BY DEF OnScreen, ScreenRec
<1>2. PutCell(s, c) = [s EXCEPT !.crt[s.pos] = c, !.pos = s.pos + 1]
  <2>1. c # NL /\ c # BackSpace BY MarksApart
  <2> QED BY <2>1, Zenon DEF PutCell
<1>3. PICK l \in Nat, m \in Nat \ {0} :
        l = ScrollAt /\ m = Columns /\ m <= l /\ Rows * Columns = l + m
  BY Measures
<1>4. Cells = 0 .. l + m BY <1>3 DEF Cells
<1>5. s.pos \in Cells BY <1>1, <1>3, <1>4
<1>6. PICK g \in [Cells -> Marks] : g = [s.crt EXCEPT ![s.pos] = c] BY <1>1, <1>5 DEF ScreenRec
<1>7. \A i \in Cells : g[i] = IF i = s.pos THEN c ELSE s.crt[i] BY <1>1, <1>6 DEF ScreenRec
<1>8. PICK n \in Nat : n = s.pos + 1 /\ n <= l BY <1>1, <1>3
<1>9. PICK put \in ScreenRec : put = PutCell(s, c) /\ put.pos = n /\ put.crt = g /\ ~put.panic
  <2>1. PutCell(s, c) = [s EXCEPT !.crt = g, !.pos = n] BY <1>1, <1>2, <1>6, <1>8 DEF ScreenRec
  <2> QED BY <1>1, <2>1 DEF ScreenRec
<1>10. PICK t : t = Cgaputc(s, c) OBVIOUS
<1>11. /\ OnScreen(t)
       /\ t.pos = (IF n = l THEN l - m ELSE n)
       /\ \A i \in Nat : i < t.pos => t.crt[i] = IF n = l THEN g[i + m] ELSE g[i]
  BY <1>3, <1>8, <1>9, <1>10, CgaputcIs
<1>12. ASSUME NEW k \in Nat \ {0}, k <= t.pos
       PROVE  k - 1 \in 0 .. s.pos /\ t.crt[t.pos - k] = IF k = 1 THEN c ELSE s.crt[s.pos - (k - 1)]
  <2>1. PICK i \in Nat : i = t.pos - k BY <1>3, <1>8, <1>11, <1>12
  <2>2. PICK j \in Nat : j = n - k BY <1>3, <1>8, <1>11, <1>12
  <2>3. t.crt[i] = g[j]
    BY <1>3, <1>8, <1>11, <1>12, <2>1, <2>2
  <2>4. j \in Cells /\ j = s.pos - (k - 1) /\ (j = s.pos <=> k = 1)
    BY <1>1, <1>3, <1>4, <1>8, <2>2
  <2> QED BY <1>1, <1>7, <1>8, <2>1, <2>2, <2>3, <2>4
<1> QED BY <1>10, <1>11, <1>12

(* Sets of numbers: a first element, and induction.                        *)
LEMMA LeastNumber ==
  ASSUME NEW S \in SUBSET Nat, S # {}
  PROVE  \E d \in S : \A e \in S : d <= e
<1> DEFINE R == OpToRel(<, Nat)
<1>1. IsWellFoundedOn(R, Nat) BY NatLessThanWellFounded
<1>2. \A d, e \in Nat : e < d => <<e, d>> \in R BY DEF OpToRel
<1> HIDE DEF R
<1>3. PICK d \in S : \A e \in S : ~(<<e, d>> \in R) BY <1>1, WFMin
<1>4. ASSUME NEW e \in S PROVE d <= e
  <2>1. ~(e < d) /\ e \in Nat /\ d \in Nat BY <1>2, <1>3
  <2> QED BY <2>1
<1> QED BY <1>4

LEMMA AllNumbers ==
  ASSUME NEW S, 0 \in S, \A n \in Nat : n \in S => n + 1 \in S
  PROVE  Nat \subseteq S
<1> SUFFICES ASSUME Nat \ S # {} PROVE FALSE OBVIOUS
<1>1. PICK d \in Nat \ S : \A e \in Nat \ S : d <= e BY LeastNumber
<1>2. d # 0 /\ d - 1 \in Nat /\ (d - 1) + 1 = d BY <1>1
<1>3. d - 1 \in S BY <1>1, <1>2
<1> QED BY <1>1, <1>2, <1>3

(* The line rubbed out a character at a time: the recursion of Rub is a    *)
(* function, and leaves the cells before the cursor as they were.          *)
Rubs(s, n, f) == f = [i \in 0 .. n |-> IF i = 0 THEN s ELSE Cgaputc(f[i - 1], BackSpace)]
Rubbed(s, n, t) ==
  /\ OnScreen(t)
  /\ t.pos = IF s.pos > n THEN s.pos - n ELSE 0
  /\ \A i \in Nat : i < t.pos => t.crt[i] = s.crt[i]

LEMMA RubExists ==
  ASSUME NEW s
  PROVE  \A n \in Nat : \E f : Rubs(s, n, f)
<1> DEFINE S == {n \in Nat : \E f : Rubs(s, n, f)}
<1>1. 0 \in S
  <2> DEFINE f == [i \in 0 .. 0 |-> s]
  <2>1. Rubs(s, 0, f) BY DEF Rubs
  <2> QED BY <2>1
<1>2. ASSUME NEW n \in Nat, n \in S PROVE n + 1 \in S
  <2>1. PICK f : Rubs(s, n, f) BY <1>2
  <2> DEFINE g == [i \in 0 .. n + 1 |-> IF i = n + 1 THEN Cgaputc(f[n], BackSpace) ELSE f[i]]
  <2>2. \A i \in 0 .. n : g[i] = f[i] /\ f[i] = IF i = 0 THEN s ELSE Cgaputc(f[i - 1], BackSpace)
    BY <2>1 DEF Rubs
  <2>3. /\ g = [i \in 0 .. n + 1 |-> g[i]]
        /\ g[n + 1] = Cgaputc(f[n], BackSpace)
        /\ 0 \in 0 .. n /\ n \in 0 .. n
    OBVIOUS
  <2> HIDE DEF g
  <2>4. \A i \in 0 .. n + 1 : g[i] = IF i = 0 THEN s ELSE Cgaputc(g[i - 1], BackSpace)
    <3> TAKE i \in 0 .. n + 1
    <3>1. CASE i = n + 1
      <4>1. g[n] = f[n] /\ i - 1 = n /\ i # 0 BY SMTT(30), <2>2, <2>3, <3>1
      <4> QED BY <2>3, <3>1, <4>1
    <3>2. CASE i = 0 BY <2>2, <2>3, <3>2
    <3>3. CASE i \in 1 .. n
      <4>1. i - 1 \in 0 .. n /\ i \in 0 .. n BY <3>3
      <4>2. g[i] = f[i] /\ g[i - 1] = f[i - 1] /\ f[i] = Cgaputc(f[i - 1], BackSpace)
        BY <2>2, <3>3, <4>1
      <4> QED BY <3>3, <4>2
    <3> QED BY <3>1, <3>2, <3>3
  <2>5. Rubs(s, n + 1, g) BY <2>3, <2>4 DEF Rubs
  <2> QED BY <2>5
<1> HIDE DEF S
<1>3. Nat \subseteq S BY <1>1, <1>2, AllNumbers
<1> QED BY <1>3 DEF S

LEMMA RubMoves ==
  ASSUME NEW s, OnScreen(s), NEW k \in Nat
  PROVE  Rubbed(s, k, Rub(s, k))
<1> DEFINE f == CHOOSE f : Rubs(s, k, f)
           S == {n \in Nat : n <= k => Rubbed(s, n, f[n])}
<1>1. Rubs(s, k, f) BY RubExists
<1>2. Rub(s, k) = f[k] BY DEF Rub, Rubs
<1> HIDE DEF f
<1>3. \A i \in 0 .. k : f[i] = IF i = 0 THEN s ELSE Cgaputc(f[i - 1], BackSpace) BY <1>1 DEF Rubs
<1>4. s.pos \in Nat BY DEF OnScreen, ScreenRec
<1>5. 0 \in S
  <2>1. f[0] = s BY <1>3
  <2> QED BY <1>4, <2>1 DEF Rubbed
<1>6. ASSUME NEW n \in Nat, n \in S PROVE n + 1 \in S
  <2> SUFFICES ASSUME n + 1 <= k PROVE Rubbed(s, n + 1, f[n + 1]) OBVIOUS
  <2>1. n + 1 \in 0 .. k /\ n <= k /\ (n + 1) - 1 = n /\ n + 1 # 0 OBVIOUS
  <2>2. PICK t, u : t = f[n] /\ u = f[n + 1] OBVIOUS
  <2>3. Rubbed(s, n, t) BY <1>6, <2>1, <2>2
  <2>4. u = Cgaputc(t, BackSpace) BY <1>3, <2>1, <2>2
  <2>5. /\ OnScreen(u)
        /\ u.pos = IF t.pos > 0 THEN t.pos - 1 ELSE 0
        /\ \A i \in Nat : i < u.pos => u.crt[i] = t.crt[i]
    BY <2>3, <2>4, EchoBackspace DEF Rubbed
  <2>6. t.pos \in Nat /\ u.pos \in Nat BY <2>3, <2>5 DEF Rubbed, OnScreen, ScreenRec
  <2>7. u.pos = IF s.pos > n + 1 THEN s.pos - (n + 1) ELSE 0
    BY <1>4, <2>3, <2>5, <2>6 DEF Rubbed
  <2>8. \A i \in Nat : i < u.pos => u.crt[i] = s.crt[i]
    <3>1. \A i \in Nat : i < u.pos => i < t.pos BY <2>5, <2>6
    <3> QED BY <2>3, <2>5, <3>1 DEF Rubbed
  <2> QED BY <2>2, <2>5, <2>7, <2>8 DEF Rubbed
<1> HIDE DEF S
<1>7. k \in S BY <1>5, <1>6, AllNumbers
<1> QED BY <1>2, <1>7 DEF S

-----------------------------------------------------------------------------
(* Console: the indices, and the places of the line in the buffer.         *)

Ring == 0 .. ConsUInt - 1
Slots == 0 .. INPUT_BUF - 1
InputRec == [buf : [Slots -> Marks], r : Ring, w : Ring, e : Ring]
Slot(e, k) == Sub(e, k) % INPUT_BUF

Ordered(in) ==
  /\ Sub(in.w, in.r) <= Sub(in.e, in.r)
  /\ Sub(in.e, in.r) <= INPUT_BUF
  /\ Sub(in.e, in.r) = INPUT_BUF => in.w = in.e

LEMMA RingIs ==
  /\ INPUT_BUF \in Nat \ {0} /\ ConsUInt \in Nat \ {0}
  /\ ConsUInt > INPUT_BUF /\ ConsUInt % INPUT_BUF = 0
BY ConsoleAssumption

LEMMA SubIs ==
  ASSUME NEW a \in Ring, NEW b \in Ring
  PROVE  /\ Sub(a, b) \in Ring
         /\ Sub(a, b) = IF a >= b THEN a - b ELSE a - b + ConsUInt
<1>1. (a - b) % ConsUInt = IF a >= b THEN a - b ELSE a - b + ConsUInt
  BY RingIs, FillCases DEF Ring
<1> QED BY <1>1, RingIs DEF Ring, Sub

LEMMA ConsSame ==
  ASSUME NEW a \in Ring
  PROVE  Sub(a, a) = 0
<1>1. a \in Int /\ a - a = 0 BY DEF Ring
<1>2. Sub(a, a) = a - a BY <1>1, SubIs
<1> QED BY <1>1, <1>2

LEMMA SubFrom ==
  ASSUME NEW r \in Ring, NEW w \in Ring, NEW e \in Ring, Sub(w, r) <= Sub(e, r)
  PROVE  Sub(e, w) = Sub(e, r) - Sub(w, r)
<1>1. Sub(w, r) = IF w >= r THEN w - r ELSE w - r + ConsUInt BY SubIs
<1>2. Sub(e, r) = IF e >= r THEN e - r ELSE e - r + ConsUInt BY SubIs
<1>3. Sub(e, w) = IF e >= w THEN e - w ELSE e - w + ConsUInt BY SubIs
<1> QED BY <1>1, <1>2, <1>3, RingIs DEF Ring

LEMMA SubBack ==
  ASSUME NEW r \in Ring, NEW e \in Ring, NEW k \in Nat, k <= Sub(e, r)
  PROVE  Sub(e, k) \in Ring /\ Sub(Sub(e, k), r) = Sub(e, r) - k
<1>1. Sub(e, r) = (IF e >= r THEN e - r ELSE e - r + ConsUInt) /\ Sub(e, r) \in Ring BY SubIs
<1>2. k \in Ring
  <2>1. PICK d \in Ring : d = Sub(e, r) BY <1>1
  <2> QED BY <2>1, RingIs DEF Ring
<1>3. Sub(e, k) \in Ring /\ Sub(e, k) = IF e >= k THEN e - k ELSE e - k + ConsUInt BY <1>2, SubIs
<1>4. PICK x \in Ring : x = Sub(e, k) BY <1>3
<1>5. Sub(x, r) = IF x >= r THEN x - r ELSE x - r + ConsUInt BY SubIs
<1> QED BY <1>1, <1>2, <1>3, <1>4, <1>5, RingIs DEF Ring

LEMMA SubTwice ==
  ASSUME NEW e \in Ring, NEW j \in Nat, NEW k \in Nat, j + k < ConsUInt
  PROVE  Sub(Sub(e, k), j) = Sub(e, k + j)
<1>1. PICK a \in Int : a = e - k BY DEF Ring
<1>2. ((a % ConsUInt) - j) % ConsUInt = (a - j) % ConsUInt BY RingIs, ModMinus, j \in Int
<1>3. a - j = e - (k + j) BY <1>1 DEF Ring
<1> QED BY <1>1, <1>2, <1>3 DEF Sub

(* Slots counted from an index: the slots of different characters of a     *)
(* line that fits in the buffer are different.                             *)
LEMMA SlotFrom ==
  ASSUME NEW x \in Ring, NEW r \in Ring
  PROVE  x % INPUT_BUF \in Slots /\ ((x % INPUT_BUF) - r) % INPUT_BUF = Sub(x, r) % INPUT_BUF
<1>1. ((x % INPUT_BUF) - r) % INPUT_BUF = (x - r) % INPUT_BUF
  <2>1. x \in Int /\ r \in Int BY DEF Ring
  <2> QED BY <2>1, RingIs, ModMinus
<1>2. PICK a \in Int : a = x - r BY DEF Ring
<1>3. (a + ConsUInt) % INPUT_BUF = a % INPUT_BUF BY RingIs, ModShift
<1>4. Sub(x, r) = a \/ Sub(x, r) = a + ConsUInt BY <1>2, SubIs
<1>5. x % INPUT_BUF \in Slots BY RingIs DEF Slots, Ring
<1> QED BY <1>1, <1>2, <1>3, <1>4, <1>5

LEMMA SlotsApart ==
  ASSUME NEW e \in Ring, NEW k \in Nat, 0 < k, k < INPUT_BUF
  PROVE  Slot(e, k) # e % INPUT_BUF
<1>1. k \in Ring /\ k % INPUT_BUF = k
  <2>1. k \in 0 .. INPUT_BUF - 1 BY RingIs
  <2> QED BY <2>1, RingIs, ModNear DEF Ring
<1>2. PICK y \in Ring : y = Sub(e, k) BY <1>1, SubIs
<1>3. Sub(e, y) = k
  <2>1. y = IF e >= k THEN e - k ELSE e - k + ConsUInt BY <1>1, <1>2, SubIs
  <2>2. Sub(e, y) = IF e >= y THEN e - y ELSE e - y + ConsUInt BY SubIs
  <2> QED BY <2>1, <2>2, <1>1, RingIs DEF Ring
<1>4. ((e % INPUT_BUF) - y) % INPUT_BUF = k BY <1>1, <1>3, SlotFrom
<1>5. Sub(y, y) = 0 BY SubIs, RingIs DEF Ring
<1>6. ((y % INPUT_BUF) - y) % INPUT_BUF = 0
  <2>1. 0 % INPUT_BUF = 0 BY RingIs, ModNear, 0 \in 0 .. INPUT_BUF - 1
  <2> QED BY <1>5, <2>1, SlotFrom
<1> QED BY <1>2, <1>4, <1>6 DEF Slot

LEMMA SlotInside ==
  ASSUME NEW e \in Ring, NEW r \in Ring, NEW k \in Nat, 0 < k, k <= Sub(e, r)
  PROVE  Slot(e, k) \in Slots /\ (Slot(e, k) - r) % INPUT_BUF < Sub(e, r)
<1>1. PICK x \in Ring : x = Sub(e, k) /\ Sub(x, r) = Sub(e, r) - k BY SubBack
<1>2. PICK d \in Nat : d = Sub(e, r) - k /\ d < Sub(e, r)
  <2>1. PICK f \in Ring : f = Sub(e, r) BY SubIs
  <2> QED BY <2>1, RingIs DEF Ring
<1>3. d % INPUT_BUF <= d BY RingIs
<1>4. d % INPUT_BUF \in Int BY RingIs
<1>5. Sub(e, r) \in Int BY SubIs DEF Ring
<1> QED BY <1>1, <1>2, <1>3, <1>4, <1>5, SlotFrom DEF Slot

-----------------------------------------------------------------------------
(* Console: the invariant.  The line being edited lies between w and e,    *)
(* and a full buffer has been committed.                                   *)

ReaderRec == [pc : {"out", "in", "asleep", "woken"}, n : Int, target : Int, killed : BOOLEAN]
EchoShown(in, s, m) ==
  \A k \in 1 .. m : k <= s.pos => s.crt[s.pos - k] = in.buf[Slot(in.e, k)]
SleepersWait(procs, in) ==
  \A p \in ConsProcs : procs[p].pc = "asleep" => in.r = in.w /\ ~procs[p].killed

LineInv == input \in InputRec /\ Ordered(input)
EchoInv ==
  /\ OnScreen(screen) /\ echoed \in Nat /\ echoed <= Sub(input.e, input.w)
  /\ EchoShown(input, screen, echoed)
ReadersInv == cproc \in [ConsProcs -> ReaderRec] /\ SleepersWait(cproc, input)
ConsInv == LineInv /\ EchoInv /\ ReadersInv

(* What is forgotten is not of the line.                                   *)
LEMMA Forgets ==
  ASSUME NEW in \in InputRec, Ordered(in)
  PROVE  /\ Forget(in) \in InputRec
         /\ Forget(in).r = in.r /\ Forget(in).w = in.w /\ Forget(in).e = in.e
         /\ \A k \in 1 .. Sub(in.e, in.w) : Forget(in).buf[Slot(in.e, k)] = in.buf[Slot(in.e, k)]
<1>1. in.buf \in [Slots -> Marks] /\ in.r \in Ring /\ in.w \in Ring /\ in.e \in Ring
  BY DEF InputRec
<1> DEFINE f == [i \in Slots |-> IF (i - in.r) % INPUT_BUF < Sub(in.e, in.r) THEN in.buf[i] ELSE Blank]
<1>2. f \in [Slots -> Marks] BY <1>1, MarksApart
<1>3. Forget(in) = [in EXCEPT !.buf = f] BY <1>1 DEF Forget, InputRec
<1>4. \A k \in 1 .. Sub(in.e, in.w) : f[Slot(in.e, k)] = in.buf[Slot(in.e, k)]
  <2> TAKE k \in 1 .. Sub(in.e, in.w)
  <2>1. Sub(in.e, in.w) = Sub(in.e, in.r) - Sub(in.w, in.r) BY <1>1, SubFrom DEF Ordered
  <2>2. PICK x, y \in Ring : x = Sub(in.e, in.r) /\ y = Sub(in.w, in.r) BY <1>1, SubIs
  <2>3. k \in Nat /\ 0 < k /\ k <= Sub(in.e, in.r) BY <2>1, <2>2 DEF Ring
  <2>4. Slot(in.e, k) \in Slots /\ (Slot(in.e, k) - in.r) % INPUT_BUF < Sub(in.e, in.r)
    BY <1>1, <2>3, SlotInside
  <2> QED BY <2>4
<1> HIDE DEF f
<1>5. PICK g \in [Slots -> Marks] : g = f BY <1>2
<1> QED BY <1>3, <1>4, <1>5 DEF InputRec

LEMMA ConsInit == ConsoleInit => ConsInv
<1> SUFFICES ASSUME ConsoleInit PROVE ConsInv OBVIOUS
<1>1. 0 \in Ring BY RingIs DEF Ring
<1>2. input \in InputRec /\ input.r = 0 /\ input.w = 0 /\ input.e = 0
  <2>1. [i \in Slots |-> Blank] \in [Slots -> Marks] BY MarksApart
  <2> QED BY <1>1, <2>1 DEF ConsoleInit, InputRec, Slots
<1>3. Sub(0, 0) = 0 BY <1>1, SubIs
<1>4. Ordered(input) BY <1>2, <1>3, RingIs DEF Ordered
<1>5. OnScreen(screen)
  <2>1. PICK f \in [Cells -> Marks] : f = [i \in Cells |-> Blank] BY MarksApart
  <2>2. 0 < ScrollAt BY Measures
  <2> QED BY <2>1, <2>2 DEF ConsoleInit, OnScreen, ScreenRec
<1>6. echoed = 0 /\ EchoShown(input, screen, echoed) BY DEF ConsoleInit, EchoShown
<1>7. ReadersInv BY DEF ConsoleInit, ReadersInv, ReaderRec, SleepersWait
<1> QED BY <1>2, <1>3, <1>4, <1>5, <1>6, <1>7 DEF ConsInv, LineInv, EchoInv

(* Rubbing out k characters of the line being edited.                      *)
LEMMA EraseKeeps ==
  ASSUME ConsInv, NEW k \in Nat \ {0}, k <= Sub(input.e, input.w), Erase(k)
  PROVE  ConsInv'
<1>1. PICK in \in InputRec : in = input /\ Ordered(in) BY DEF ConsInv, LineInv
<1>2. in.r \in Ring /\ in.w \in Ring /\ in.e \in Ring BY DEF InputRec
<1>3. PICK x, y, z \in Ring : x = Sub(in.e, in.r) /\ y = Sub(in.w, in.r) /\ z = Sub(in.e, in.w)
  BY <1>2, SubIs
<1>4. z = x - y /\ k <= z /\ k <= x
  BY <1>1, <1>2, <1>3, SubFrom, RingIs DEF Ordered, Ring
<1>5. PICK e \in Ring : e = Sub(in.e, k) /\ Sub(e, in.r) = x - k /\ Sub(e, in.w) = z - k
  <2>1. k <= Sub(in.e, in.r) /\ k <= Sub(in.e, in.w) BY <1>3, <1>4
  <2>2. Sub(in.e, k) \in Ring /\ Sub(Sub(in.e, k), in.r) = x - k BY <1>2, <1>3, <2>1, SubBack
  <2>3. Sub(Sub(in.e, k), in.w) = z - k BY <1>2, <1>3, <2>1, SubBack
  <2> QED BY <2>2, <2>3
<1>6. PICK mid \in InputRec : mid = [in EXCEPT !.e = e] /\ mid.r = in.r /\ mid.w = in.w
                              /\ mid.e = e /\ mid.buf = in.buf
  <2>1. [in EXCEPT !.e = e] \in InputRec BY <1>2 DEF InputRec
  <2> QED BY <2>1 DEF InputRec
<1>7. Ordered(mid)
  BY <1>1, <1>3, <1>4, <1>5, <1>6, RingIs DEF Ordered, Ring
<1>8. input' = Forget(mid) BY <1>1, <1>5, <1>6 DEF Erase
<1>9. /\ input' \in InputRec /\ input'.r = in.r /\ input'.w = in.w /\ input'.e = e
      /\ \A j \in 1 .. z - k : input'.buf[Slot(e, j)] = in.buf[Slot(e, j)]
  <2>1. PICK g : g = Forget(mid) OBVIOUS
  <2>2. /\ g \in InputRec /\ g.r = mid.r /\ g.w = mid.w /\ g.e = mid.e
        /\ \A j \in 1 .. Sub(mid.e, mid.w) : g.buf[Slot(mid.e, j)] = mid.buf[Slot(mid.e, j)]
    BY <1>7, <2>1, Forgets
  <2> QED BY <1>5, <1>6, <1>8, <2>1, <2>2
<1>10. LineInv' BY <1>6, <1>7, <1>9 DEF LineInv, Ordered
<1>11. PICK s : s = screen /\ OnScreen(s) BY DEF ConsInv, EchoInv
<1>12. PICK t : t = screen' /\ Rubbed(s, k, t) BY <1>11, RubMoves DEF Erase
<1>13. PICK m, n \in Nat : m = echoed /\ n = echoed' /\ n = (IF m > k THEN m - k ELSE 0) /\ m <= z
  BY <1>1, <1>3 DEF ConsInv, EchoInv, Erase
<1>14. \A j \in 1 .. m : j <= s.pos => s.crt[s.pos - j] = in.buf[Slot(in.e, j)]
  BY <1>1, <1>11, <1>13 DEF ConsInv, EchoInv, EchoShown
<1>15. s.pos \in Nat /\ t.pos \in Nat BY <1>11, <1>12 DEF Rubbed, OnScreen, ScreenRec
<1>16. ASSUME NEW j \in 1 .. n, j <= t.pos
       PROVE  t.crt[t.pos - j] = input'.buf[Slot(e, j)]
  <2>1. t.pos = s.pos - k /\ s.pos > k /\ m > k /\ n = m - k
    BY <1>12, <1>13, <1>15, <1>16 DEF Rubbed
  <2>2. PICK i \in Nat : i = t.pos - j /\ i < t.pos BY <1>15, <1>16
  <2>3. PICK l \in 1 .. m : l = k + j BY <1>13, <2>1
  <2>4. l <= s.pos /\ i = s.pos - l BY <1>15, <1>16, <2>1, <2>2, <2>3
  <2>5. t.crt[i] = s.crt[i] BY <1>12, <2>2 DEF Rubbed
  <2>6. s.crt[i] = in.buf[Slot(in.e, l)] BY <1>14, <2>4
  <2>7. j \in Nat /\ j + k < ConsUInt BY <1>3, <1>13, <2>3, RingIs DEF Ring
  <2>8. Slot(e, j) = Slot(in.e, l) BY <1>2, <1>5, <2>3, <2>7, SubTwice DEF Slot
  <2>9. j \in 1 .. z - k BY <1>3, <1>13, <2>1, RingIs DEF Ring
  <2>10. input'.buf[Slot(e, j)] = in.buf[Slot(e, j)] BY <1>9, <2>9
  <2> QED BY <2>2, <2>5, <2>6, <2>8, <2>10
<1>17. n <= z - k BY <1>3, <1>4, <1>13 DEF Ring
<1>18. EchoInv'
  <2>1. EchoShown(input', t, n) BY <1>9, <1>16 DEF EchoShown
  <2>2. OnScreen(t) BY <1>12 DEF Rubbed
  <2>3. n <= Sub(input'.e, input'.w) BY <1>5, <1>9, <1>17
  <2> QED BY <1>12, <1>13, <2>1, <2>2, <2>3 DEF EchoInv
<1>19. ReadersInv' BY <1>1, <1>9 DEF ConsInv, ReadersInv, SleepersWait, Erase
<1> QED BY <1>10, <1>18, <1>19 DEF ConsInv

(* A character typed: at the end of the line, of the buffer, or neither.   *)
LEMMA TypesKeeps ==
  ASSUME ConsInv, NEW c \in Letters \cup {NL, EOT}, Types(c)
  PROVE  ConsInv'
<1>1. PICK in \in InputRec : in = input /\ Ordered(in) BY DEF ConsInv, LineInv
<1>2. in.r \in Ring /\ in.w \in Ring /\ in.e \in Ring /\ in.buf \in [Slots -> Marks] BY DEF InputRec
<1>3. PICK x, y, z \in Ring : x = Sub(in.e, in.r) /\ y = Sub(in.w, in.r) /\ z = Sub(in.e, in.w)
  BY <1>2, SubIs
<1>4. z = x - y /\ y <= x /\ x < INPUT_BUF
  BY <1>1, <1>2, <1>3, SubFrom DEF Ordered, Types, HasRoom
<1>5. x \in Nat /\ y \in Nat /\ z \in Nat /\ x + 1 < ConsUInt /\ z + 1 < ConsUInt
  BY <1>3, <1>4, RingIs DEF Ring
<1>6. PICK e \in Ring : e = (in.e + 1) % ConsUInt BY <1>2, RingIs DEF Ring
<1>7. Sub(e, in.r) = x + 1 /\ Sub(e, in.w) = z + 1
  <2>1. ASSUME NEW b \in Ring, NEW d \in Nat, d = Sub(in.e, b), d + 1 < ConsUInt
        PROVE  Sub(e, b) = d + 1
    <3>1. (((in.e + 1) % ConsUInt) - b) % ConsUInt = d + 1
      <4>1. PICK v, b1 \in 0 .. ConsUInt - 1 : v = in.e /\ b1 = b BY <1>2 DEF Ring
      <4>2. d = (v - b1) % ConsUInt BY <2>1, <4>1 DEF Sub
      <4>3. (((v + 1) % ConsUInt) - b1) % ConsUInt = d + 1
        BY <2>1, <4>2, RingIs, FillGrows, 1 \in Nat
      <4> QED BY <4>1, <4>3
    <3> QED BY <1>6, <3>1 DEF Sub
  <2> QED BY <1>2, <1>3, <1>5, <2>1
<1>8. c \in Marks BY MarksApart
<1>9. PICK f \in [Slots -> Marks] : f = [in.buf EXCEPT ![in.e % INPUT_BUF] = c] BY <1>2, <1>8
<1>10. PICK d \in BOOLEAN : d = Commits(c, e) BY DEF Commits
<1>11. PICK w \in Ring : w = IF d THEN e ELSE in.w BY <1>2
<1>12. input' = [in EXCEPT !.buf = f, !.e = e, !.w = w]
  BY <1>1, <1>6, <1>9, <1>10, <1>11 DEF Types, InputRec
<1>13. input' \in InputRec /\ input'.buf = f /\ input'.r = in.r /\ input'.w = w /\ input'.e = e
  BY <1>12 DEF InputRec
<1>14. ~d => x + 1 < INPUT_BUF
  <2> SUFFICES ASSUME x + 1 = INPUT_BUF PROVE d BY <1>3, <1>4, RingIs DEF Ring
  <2>1. x + 1 = IF e >= in.r THEN e - in.r ELSE e - in.r + ConsUInt BY <1>2, <1>7, SubIs
  <2>2. PICK a \in Int : a = in.r + INPUT_BUF BY <1>2, RingIs DEF Ring
  <2>3. a = e \/ a = e + ConsUInt
    <3>1. PICK r \in Int : r = in.r BY <1>2 DEF Ring
    <3>2. CASE e >= r BY <1>6, <2>1, <2>2, <3>1, <3>2, RingIs DEF Ring
    <3>3. CASE ~(e >= r) BY <1>6, <2>1, <2>2, <3>1, <3>3, RingIs DEF Ring
    <3> QED BY <3>2, <3>3
  <2>4. a % ConsUInt = IF a < ConsUInt THEN a ELSE a - ConsUInt
    <3>1. 0 <= a /\ a < 2 * ConsUInt BY <2>3, RingIs DEF Ring
    <3> QED BY <3>1, RingIs, ModAbove
  <2>5. e = a % ConsUInt BY <2>3, <2>4, RingIs DEF Ring
  <2> QED BY <1>1, <1>10, <2>2, <2>5 DEF Commits
<1>15. LineInv'
  <2>1. Sub(w, in.r) = (IF d THEN x + 1 ELSE y) BY <1>3, <1>7, <1>11
  <2> QED BY <1>4, <1>5, <1>7, <1>11, <1>13, <1>14, <2>1, RingIs DEF LineInv, Ordered
<1>16. PICK s : s = screen /\ OnScreen(s) BY DEF ConsInv, EchoInv
<1>17. PICK t : t = screen' /\ t = Cgaputc(s, c) BY <1>16 DEF Types
<1>18. OnScreen(t) BY <1>8, <1>16, <1>17, EchoNewline, EchoCharacter
<1>19. PICK m, n \in Nat : m = echoed /\ n = echoed' /\ n = (IF d THEN 0 ELSE m + 1) /\ m <= z
  BY <1>1, <1>3, <1>6, <1>10 DEF ConsInv, EchoInv, Types
<1>20. ASSUME ~d, NEW k \in 1 .. n, k <= t.pos
       PROVE  t.crt[t.pos - k] = f[Slot(e, k)]
  <2>1. c # NL BY <1>10, <1>20 DEF Commits
  <2>2. k \in Nat \ {0} OBVIOUS
  <2>3. k - 1 \in 0 .. s.pos /\ t.crt[t.pos - k] = IF k = 1 THEN c ELSE s.crt[s.pos - (k - 1)]
    BY <1>8, <1>16, <1>17, <1>20, <2>1, <2>2, EchoCharacter
  <2>4. k - 1 <= z /\ k - 1 < INPUT_BUF /\ k - 1 \in Nat BY <1>3, <1>4, <1>5, <1>19, <1>20, RingIs
  <2>5. Slot(e, k) = Slot(in.e, k - 1)
    <3>1. PICK a \in Int : a = in.e + 1 BY <1>2 DEF Ring
    <3>2. ((a % ConsUInt) - k) % ConsUInt = (a - k) % ConsUInt BY RingIs, ModMinus, k \in Int
    <3>3. a - k = in.e - (k - 1) BY <1>2, <3>1 DEF Ring
    <3> QED BY <1>6, <3>1, <3>2, <3>3 DEF Slot, Sub
  <2>6. CASE k = 1
    <3>1. in.e - 0 = in.e /\ in.e % ConsUInt = in.e
      <4>1. PICK a \in 0 .. ConsUInt - 1 : a = in.e BY <1>2 DEF Ring
      <4>2. a \in Int /\ a - 0 = a OBVIOUS
      <4>3. a % ConsUInt = a BY <4>2, RingIs, ModNear
      <4> QED BY <4>1, <4>2, <4>3
    <3>2. Slot(e, k) = in.e % INPUT_BUF BY <2>5, <2>6, <3>1 DEF Slot, Sub
    <3>3. in.e % INPUT_BUF \in Slots BY <1>2, SlotFrom
    <3> QED BY <1>2, <1>9, <2>3, <2>6, <3>2, <3>3
  <2>7. CASE k # 1
    <3>1. Slot(in.e, k - 1) # in.e % INPUT_BUF BY <1>2, <2>4, <2>7, SlotsApart
    <3>2. Slot(in.e, k - 1) \in Slots
      <4>1. PICK j \in Nat : j = k - 1 /\ 0 < j /\ j <= x BY <1>4, <1>5, <2>4, <2>7
      <4> QED BY <1>2, <1>3, <4>1, SlotInside
    <3>3. k - 1 \in 1 .. m /\ k - 1 <= s.pos BY <1>16, <1>19, <1>20, <2>3, <2>7 DEF OnScreen, ScreenRec
    <3>4. s.crt[s.pos - (k - 1)] = in.buf[Slot(in.e, k - 1)]
      BY <1>1, <1>16, <1>19, <3>3 DEF ConsInv, EchoInv, EchoShown
    <3> QED BY <1>2, <1>9, <2>3, <2>5, <2>7, <3>1, <3>2, <3>4
  <2> QED BY <2>6, <2>7
<1>21. EchoInv'
  <2>1. EchoShown(input', t, n) BY <1>13, <1>19, <1>20 DEF EchoShown
  <2>2. Sub(e, w) \in Nat /\ (~d => Sub(e, w) = z + 1)
    <3>1. Sub(e, w) \in Ring BY SubIs
    <3> QED BY <1>7, <1>11, <3>1, RingIs DEF Ring
  <2>3. n <= Sub(input'.e, input'.w)
    <3>1. PICK q \in Nat : q = Sub(e, w) /\ (~d => q = z + 1) BY <2>2
    <3> QED BY <1>5, <1>13, <1>19, <3>1
  <2> QED BY <1>17, <1>18, <1>19, <2>1, <2>3 DEF EchoInv
<1>22. ReadersInv'
  <2>1. cproc \in [ConsProcs -> ReaderRec] /\ SleepersWait(cproc, in) BY <1>1 DEF ConsInv, ReadersInv
  <2>2. CASE d
    <3>1. cproc' = ConsWoken(cproc) BY <1>1, <1>6, <1>10, <2>2 DEF Types
    <3>2. \A v \in ReaderRec : [v EXCEPT !.pc = Roused(v.pc)] \in ReaderRec /\ Roused(v.pc) # "asleep"
      BY DEF ReaderRec, Roused
    <3>3. \A p \in ConsProcs : cproc'[p] \in ReaderRec /\ cproc'[p].pc # "asleep"
      <4> TAKE p \in ConsProcs
      <4>1. cproc[p] \in ReaderRec BY <2>1
      <4>2. cproc'[p] = [cproc[p] EXCEPT !.pc = Roused(cproc[p].pc)] BY <3>1 DEF ConsWoken
      <4> QED BY <3>2, <4>1, <4>2 DEF ReaderRec
    <3>4. cproc' \in [ConsProcs -> ReaderRec] BY <3>1, <3>3 DEF ConsWoken
    <3> QED BY <3>3, <3>4 DEF ReadersInv, SleepersWait
  <2>3. CASE ~d
    <3>1. cproc' = cproc BY <1>1, <1>6, <1>10, <2>3 DEF Types
    <3> QED BY <1>11, <1>13, <2>1, <2>3, <3>1 DEF ReadersInv, SleepersWait
  <2> QED BY <2>2, <2>3
<1> QED BY <1>15, <1>21, <1>22 DEF ConsInv

(* Reading moves r towards w.                                              *)
LEMMA ReadForward ==
  ASSUME LineInv, EchoInv, NEW r \in Ring, NEW k \in 0 .. Sub(input.w, input.r),
         Sub(input.w, r) = Sub(input.w, input.r) - k, Sub(input.e, r) = Sub(input.e, input.r) - k,
         input' = Forget([input EXCEPT !.r = r]), UNCHANGED <<screen, echoed>>
  PROVE  LineInv' /\ EchoInv' /\ input'.r = r /\ input'.w = input.w
<1>1. PICK in \in InputRec : in = input /\ Ordered(in) BY DEF LineInv
<1>2. in.r \in Ring /\ in.w \in Ring /\ in.e \in Ring /\ in.buf \in [Slots -> Marks] BY DEF InputRec
<1>3. PICK x, y, z \in Ring : x = Sub(in.e, in.r) /\ y = Sub(in.w, in.r) /\ z = Sub(in.e, in.w)
  BY <1>2, SubIs
<1>4. PICK mid \in InputRec : mid = [in EXCEPT !.r = r] /\ mid.r = r /\ mid.w = in.w
                              /\ mid.e = in.e /\ mid.buf = in.buf
  <2>1. [in EXCEPT !.r = r] \in InputRec BY <1>2 DEF InputRec
  <2> QED BY <2>1 DEF InputRec
<1>5. Ordered(mid)
  <2>1. Sub(in.w, r) = y - k /\ Sub(in.e, r) = x - k BY <1>1, <1>3
  <2>2. y <= x /\ x <= INPUT_BUF /\ (x = INPUT_BUF => in.w = in.e) BY <1>1, <1>3 DEF Ordered
  <2>3. k \in 0 .. y BY <1>1, <1>3
  <2> QED BY <1>3, <1>4, <2>1, <2>2, <2>3, RingIs DEF Ordered, Ring
<1>6. PICK g : g = Forget(mid) OBVIOUS
<1>7. /\ g \in InputRec /\ g.r = mid.r /\ g.w = mid.w /\ g.e = mid.e
      /\ \A j \in 1 .. Sub(mid.e, mid.w) : g.buf[Slot(mid.e, j)] = mid.buf[Slot(mid.e, j)]
  BY <1>5, <1>6, Forgets
<1>8. input' = g BY <1>1, <1>4, <1>6
<1>9. LineInv' BY <1>4, <1>5, <1>7, <1>8 DEF LineInv, Ordered
<1>10. PICK m \in Nat : m = echoed /\ m <= z BY <1>1, <1>3 DEF EchoInv
<1>11. \A j \in 1 .. m : g.buf[Slot(in.e, j)] = in.buf[Slot(in.e, j)]
  BY <1>3, <1>4, <1>7, <1>10, RingIs DEF Ring
<1>12. EchoShown(g, screen, m)
  BY <1>1, <1>4, <1>7, <1>10, <1>11 DEF EchoInv, EchoShown
<1>13. EchoInv' BY <1>3, <1>4, <1>7, <1>8, <1>10, <1>12 DEF EchoInv
<1> QED BY <1>1, <1>4, <1>7, <1>8, <1>9, <1>13

LEMMA ReadsKeeps ==
  ASSUME ConsInv, NEW p \in ConsProcs, ConsoleReads(p)
  PROVE  ConsInv'
<1>1. PICK in \in InputRec : in = input /\ Ordered(in) BY DEF ConsInv, LineInv
<1>2. in.r \in Ring /\ in.w \in Ring /\ in.e \in Ring BY DEF InputRec
<1>3. PICK x, y, z \in Ring : x = Sub(in.e, in.r) /\ y = Sub(in.w, in.r) /\ z = Sub(in.e, in.w)
  BY <1>2, SubIs
<1>4. x \in Nat /\ y \in Nat /\ z \in Nat /\ z = x - y /\ y <= x
  BY <1>1, <1>2, <1>3, SubFrom, RingIs DEF Ordered, Ring
<1>5. DOMAIN Unread = 1 .. y /\ Len(Unread) \in Nat
  <2>1. PICK f : f = Unread OBVIOUS
  <2>2. f = [i \in 1 .. y |-> f[i]] BY <1>1, <1>3, <2>1 DEF Unread
  <2>3. f \in [1 .. y -> {f[i] : i \in 1 .. y}] BY <2>2
  <2>4. PICK S : S = {f[i] : i \in 1 .. y} OBVIOUS
  <2>5. f \in Seq(S)
    <3>1. f \in [1 .. y -> S] /\ y \in Nat BY <1>4, <2>3, <2>4
    <3> QED BY <3>1
  <2>6. Len(f) \in Nat BY <2>5
  <2> QED BY <2>1, <2>3, <2>6
<1>6. cproc \in [ConsProcs -> ReaderRec] /\ SleepersWait(cproc, in) BY <1>1 DEF ConsInv, ReadersInv
<1> DEFINE ends == {i \in DOMAIN Unread : Ends(i, cproc[p].n)}
<1>7. PICK c \in ReaderRec : c = cproc[p] BY <1>6
<1>8. PICK out \in ReaderRec : out = [c EXCEPT !.pc = "out", !.n = 0, !.target = 0]
  <2>1. PICK n \in Int : n = 0 OBVIOUS
  <2>2. [c EXCEPT !.pc = "out", !.n = n, !.target = n] \in ReaderRec BY DEF ReaderRec
  <2> QED BY <2>1, <2>2
<1>9. Leaves(p) = [cproc EXCEPT ![p] = out] BY <1>7, <1>8 DEF Leaves
<1>10. out.pc = "out" BY <1>8 DEF ReaderRec
<1>11. Leaves(p) \in [ConsProcs -> ReaderRec]
       /\ \A q \in ConsProcs : Leaves(p)[q].pc = "asleep" => q # p /\ Leaves(p)[q] = cproc[q]
  BY <1>6, <1>9, <1>10
<1>12. UNCHANGED <<screen, echoed>> BY DEF ConsoleReads
<1>13. CASE ends # {}
  <2>1. ends \in SUBSET Nat BY <1>4, <1>5
  <2>2. PICK last \in ends : \A j \in ends : last <= j BY <1>13, <2>1, LeastNumber
  <2>3. \A d, e \in Nat : d <= e /\ e <= d => d = e OBVIOUS
  <2>4. last = CHOOSE i \in ends : \A j \in ends : i <= j BY <2>1, <2>2, <2>3
  <2>5. last \in 1 .. y BY <1>5
  <2> HIDE DEF ends
  <2>6. PICK k \in 0 .. y :
          input' = Forget([in EXCEPT !.r = (in.r + k) % ConsUInt]) /\ cproc' = Leaves(p)
    <3>1. last \in 0 .. y /\ last - 1 \in 0 .. y BY <1>4, <2>5
    <3>2. \E k \in {last, last - 1} :
            input' = Forget([in EXCEPT !.r = (in.r + k) % ConsUInt]) /\ cproc' = Leaves(p)
      BY <1>1, <1>13, <2>4 DEF ConsoleReads, ends
    <3> QED BY <3>1, <3>2
  <2>7. PICK r \in Ring : r = (in.r + k) % ConsUInt BY <1>2, <1>4, RingIs DEF Ring
  <2>8. ASSUME NEW v \in Ring, NEW d \in Nat, d = Sub(v, in.r), k <= d
        PROVE  Sub(v, r) = d - k
    <3>1. PICK a, b \in 0 .. ConsUInt - 1 : a = v /\ b = in.r BY <1>2 DEF Ring
    <3>2. d = (a - b) % ConsUInt BY <2>8, <3>1 DEF Sub
    <3>3. (a - ((b + k) % ConsUInt)) % ConsUInt = d - k
      <4>1. k \in Nat BY <1>4
      <4> QED BY <2>8, <3>2, <4>1, RingIs, FillShrinks
    <3> QED BY <2>7, <3>1, <3>3 DEF Sub
  <2>9. Sub(in.w, r) = y - k /\ Sub(in.e, r) = x - k
    <3>1. k <= y /\ k <= x BY <1>4
    <3> QED BY <1>2, <1>3, <1>4, <2>8, <3>1
  <2>10. LineInv' /\ EchoInv'
    <3>1. LineInv /\ EchoInv BY DEF ConsInv
    <3>2. k \in 0 .. Sub(in.w, in.r) BY <1>3
    <3>3. input' = Forget([in EXCEPT !.r = r]) BY <2>6, <2>7
    <3> QED BY <1>1, <1>3, <1>12, <2>9, <3>1, <3>2, <3>3, ReadForward
  <2>11. in.r # in.w
    <3>1. Sub(in.r, in.r) = 0 BY <1>2, ConsSame
    <3> QED BY <1>3, <1>4, <2>5, <3>1
  <2>12. \A q \in ConsProcs : cproc[q].pc # "asleep" BY <1>6, <2>11 DEF SleepersWait
  <2>13. ReadersInv' BY <1>11, <2>6, <2>12 DEF ReadersInv, SleepersWait
  <2> QED BY <2>10, <2>13 DEF ConsInv
<1>14. CASE ends = {}
  <2>1. /\ input' = Forget([in EXCEPT !.r = in.w])
        /\ cproc' = IF c.killed THEN Leaves(p)
                    ELSE [cproc EXCEPT ![p] = [@ EXCEPT !.pc = "asleep", !.n = c.n - Len(Unread)]]
    BY <1>1, <1>7, <1>14 DEF ConsoleReads
  <2>2. Sub(in.w, in.w) = 0 BY <1>2, ConsSame
  <2>3. Sub(in.w, in.w) = y - y /\ Sub(in.e, in.w) = x - y /\ y \in 0 .. y BY <1>3, <1>4, <2>2
  <2>4. LineInv' /\ EchoInv' /\ input'.r = in.w /\ input'.w = in.w
    <3>1. LineInv /\ EchoInv BY DEF ConsInv
    <3>2. y \in 0 .. Sub(in.w, in.r) BY <1>3, <2>3
    <3>3. PICK r \in Ring : r = in.w BY <1>2
    <3>4. LineInv' /\ EchoInv' /\ input'.r = r /\ input'.w = input.w
      BY <1>1, <1>3, <1>12, <2>1, <2>3, <3>1, <3>2, <3>3, ReadForward
    <3> QED BY <1>1, <3>3, <3>4
  <2>5. CASE c.killed
    BY <1>6, <1>11, <2>1, <2>4, <2>5 DEF ConsInv, ReadersInv, SleepersWait
  <2>6. CASE ~c.killed
    <3>1. PICK n \in Int : n = c.n - Len(Unread) BY <1>5 DEF ReaderRec
    <3>2. PICK d \in ReaderRec : d = [c EXCEPT !.pc = "asleep", !.n = n] /\ d.killed = c.killed
      <4>1. [c EXCEPT !.pc = "asleep", !.n = n] \in ReaderRec BY DEF ReaderRec
      <4> QED BY <4>1 DEF ReaderRec
    <3>3. cproc' = [cproc EXCEPT ![p] = d] BY <1>6, <1>7, <2>1, <2>6, <3>1, <3>2
    <3>4. cproc' \in [ConsProcs -> ReaderRec] BY <1>6, <3>3
    <3>5. \A q \in ConsProcs : cproc'[q] = IF q = p THEN d ELSE cproc[q] BY <1>6, <3>3
    <3> QED BY <1>6, <2>4, <2>6, <3>2, <3>4, <3>5 DEF ConsInv, ReadersInv, SleepersWait
  <2> QED BY <2>5, <2>6
<1> QED BY <1>13, <1>14

LEMMA ConsReadKeeps ==
  ASSUME ConsInv, NEW p \in ConsProcs, ConsRead(p)
  PROVE  ConsInv'
<1>1. PICK n \in ReadSizes :
        cproc' = [cproc EXCEPT ![p] = [@ EXCEPT !.pc = "in", !.n = n, !.target = n]]
  BY DEF ConsRead
<1>2. n \in Int BY ConsoleAssumption
<1>3. cproc \in [ConsProcs -> ReaderRec] /\ SleepersWait(cproc, input) BY DEF ConsInv, ReadersInv
<1>4. PICK c \in ReaderRec : c = cproc[p] BY <1>3
<1>5. PICK d \in ReaderRec : d = [c EXCEPT !.pc = "in", !.n = n, !.target = n] /\ d.pc = "in"
  <2>1. [c EXCEPT !.pc = "in", !.n = n, !.target = n] \in ReaderRec BY <1>2 DEF ReaderRec
  <2> QED BY <2>1 DEF ReaderRec
<1>6. cproc' = [cproc EXCEPT ![p] = d] BY <1>1, <1>4, <1>5
<1>7. ReadersInv' BY <1>3, <1>5, <1>6 DEF ConsRead, ReadersInv, SleepersWait
<1> QED BY <1>7 DEF ConsRead, ConsInv, LineInv, EchoInv

LEMMA ConsKillKeeps ==
  ASSUME ConsInv, NEW p \in ConsProcs, ConsKill(p)
  PROVE  ConsInv'
<1>1. cproc \in [ConsProcs -> ReaderRec] /\ SleepersWait(cproc, input) BY DEF ConsInv, ReadersInv
<1>2. PICK c \in ReaderRec : c = cproc[p] BY <1>1
<1>3. PICK w \in {"out", "in", "asleep", "woken"} :
        w = Roused(c.pc) /\ w # "asleep"
  BY DEF ReaderRec, Roused
<1>4. PICK d \in ReaderRec : d = [c EXCEPT !.killed = TRUE, !.pc = w] /\ d.pc = w
  <2>1. [c EXCEPT !.killed = TRUE, !.pc = w] \in ReaderRec BY DEF ReaderRec
  <2> QED BY <2>1 DEF ReaderRec
<1>5. cproc' = [cproc EXCEPT ![p] = d]
  <2>1. cproc' = [q \in ConsProcs |-> IF q = p THEN [c EXCEPT !.killed = TRUE, !.pc = w] ELSE cproc[q]]
    BY <1>1, <1>2, <1>3 DEF ConsKill
  <2> QED BY <1>1, <1>4, <2>1
<1>6. ReadersInv' BY <1>1, <1>3, <1>4, <1>5 DEF ConsKill, ReadersInv, SleepersWait
<1> QED BY <1>6 DEF ConsKill, ConsInv, LineInv, EchoInv

LEMMA WritesKeeps ==
  ASSUME ConsInv, ConsoleWrites
  PROVE  ConsInv'
<1>1. PICK c \in Letters \cup {NL} : screen' = Cgaputc(screen, c)
  BY ConsoleAssumption DEF ConsoleWrites
<1>2. OnScreen(screen) BY DEF ConsInv, EchoInv
<1>3. OnScreen(screen') BY <1>1, <1>2, MarksApart, EchoNewline, EchoCharacter
<1>4. echoed' = 0 /\ 0 <= Sub(input.e, input.w)
  <2>1. input.e \in Ring /\ input.w \in Ring BY DEF ConsInv, LineInv, InputRec
  <2>2. PICK x \in Ring : x = Sub(input.e, input.w) BY <2>1, SubIs
  <2> QED BY <2>2, RingIs DEF ConsoleWrites, Ring
<1>5. EchoInv' BY <1>3, <1>4 DEF ConsoleWrites, EchoInv, EchoShown
<1> QED BY <1>5 DEF ConsoleWrites, ConsInv, LineInv, ReadersInv

LEMMA ConsNextKeeps ==
  ASSUME ConsInv, [ConsoleNext]_consolevars
  PROVE  ConsInv'
<1>1. ASSUME NEW c \in {BackSpace, KillLine}, ConsErases(c) PROVE ConsInv'
  <2>1. PICK k \in Nat \ {0} : k <= Sub(input.e, input.w) /\ Erase(k)
    <3>1. PICK x \in Ring : x = Editing BY SubIs DEF ConsInv, LineInv, InputRec, Editing
    <3>2. x \in Nat \ {0} /\ 1 <= x BY <1>1, <3>1, RingIs DEF ConsErases, Ring
    <3> QED BY <1>1, <3>1, <3>2 DEF ConsErases, Editing
  <2> QED BY <2>1, EraseKeeps
<1>2. CASE UNCHANGED consolevars
  BY <1>2 DEF consolevars, ConsInv, LineInv, EchoInv, ReadersInv, Ordered, EchoShown, SleepersWait
<1> QED
  BY <1>1, <1>2, TypesKeeps, WritesKeeps, ConsReadKeeps, ReadsKeeps, ConsKillKeeps
  DEF ConsoleNext, Consoleintr

LEMMA ConsInvSafe ==
  ConsInv => IndicesOrdered /\ ReadersAwake /\ ScreenShowsLine
<1> SUFFICES ASSUME ConsInv PROVE IndicesOrdered /\ ReadersAwake /\ ScreenShowsLine OBVIOUS
<1>1. PICK x, y \in Ring : x = Sub(input.e, input.r) /\ y = Sub(input.w, input.r)
  BY SubIs DEF ConsInv, LineInv, InputRec
<1>2. y <= x /\ x <= INPUT_BUF /\ (x = INPUT_BUF => input.w = input.e)
  BY <1>1 DEF ConsInv, LineInv, Ordered
<1>3. ~HasRoom => input.w # input.r
  <2> SUFFICES ASSUME ~HasRoom, input.w = input.r PROVE FALSE OBVIOUS
  <2>1. x = INPUT_BUF BY <1>1, <1>2, RingIs DEF HasRoom, Ring
  <2>2. x = y BY <1>1, <1>2, <2>1
  <2>3. Sub(input.w, input.w) = 0 BY ConsSame DEF ConsInv, LineInv, InputRec
  <2> QED BY <1>1, <2>1, <2>2, <2>3, RingIs
<1>4. IndicesOrdered BY <1>1, <1>2, <1>3 DEF IndicesOrdered
<1>5. ReadersAwake BY DEF ConsInv, ReadersInv, SleepersWait, ReadersAwake
<1>6. ScreenShowsLine
  BY DEF ConsInv, EchoInv, OnScreen, EchoShown, ScrollAt, Slot, ScreenShowsLine
<1> QED BY <1>4, <1>5, <1>6

(* console.c and kbd.c, over every wrap of the indices and every scroll of *)
(* the screen: r, w and e stay in order, a full buffer can be read, nobody *)
(* sleeps over a line, the screen shows the line being edited, and no      *)
(* modifier stays on when its key is up.                                   *)
THEOREM ConsoleStaysSafe == ConsoleSpec /\ KeyboardSpec => []ConsoleSafe
<1>1. ConsoleSpec => []ConsInv BY ConsInit, ConsNextKeeps, PTL DEF ConsoleSpec
<1>2. ConsInv /\ NoModifierStuck => ConsoleSafe BY ConsInvSafe DEF ConsoleSafe
<1> QED BY <1>1, <1>2, KeyboardStays, PTL

-----------------------------------------------------------------------------
(* The arguments of system calls: an address below sz, a size that a word  *)
(* can hold, and their sum, which does not wrap.                           *)

Half == AddrMod \div 2
UserBytes == 0 .. sz - 1

StandFor(of, f) == {fd \in OpenFds : of[fd] = f}
Counted(of, refs) ==
  /\ of \in [OpenFds -> 0 .. NFILE] /\ refs \in [OpenFiles -> Int]
  /\ \A f \in OpenFiles : refs[f] = Cardinality(StandFor(of, f))
CountInv == Counted(ofile, fref)
ArgsInv == sz \in 0 .. Half /\ touched \subseteq UserBytes /\ CountInv

LEMMA ArgSizes ==
  /\ AddrMod \in Nat \ {0} /\ IntSize \in Nat \ {0} /\ Half \in Nat
  /\ NOFILE \in Nat \ {0} /\ NFILE \in Nat \ {0} /\ MAXARG \in Nat \ {0}
  /\ Half + 2 * IntSize <= AddrMod /\ 2 * Half <= AddrMod
  /\ \A s \in Sizes : s \in 0 .. Half
BY SysArgsConstants DEF Half

LEMMA UintNear ==
  ASSUME NEW a \in Int, NEW k \in Nat
  PROVE  /\ Uint(a) \in 0 .. AddrMod - 1
         /\ Uint(a) + k < AddrMod => Uint(a + k) = Uint(a) + k
<1>1. PICK q \in Int, r \in 0 .. AddrMod - 1 : a = AddrMod * q + r /\ a % AddrMod = r
  BY ArgSizes, ModDiv
<1>2. ASSUME r + k < AddrMod PROVE (a + k) % AddrMod = r + k
  <2>1. PICK t \in 0 .. AddrMod - 1 : t = r + k BY <1>2, ArgSizes
  <2>2. (AddrMod * q + t) % AddrMod = t BY ArgSizes, ModUnique
  <2>3. a + k = AddrMod * q + t
    <3>1. PICK z \in Int : z = AddrMod * q BY ArgSizes
    <3> QED BY <1>1, <2>1, <3>1
  <2> QED BY <2>1, <2>2, <2>3
<1> QED BY <1>1, <1>2, ArgSizes DEF Uint

(* Bytes from an address on, as long as the sum stays within sz.           *)
LEMMA SpanInside ==
  ASSUME sz \in 0 .. Half, NEW a \in Int, NEW n \in Int, Uint(a) + n <= sz
  PROVE  Span(a, n) \subseteq UserBytes
<1>1. ASSUME NEW k \in 0 .. n - 1 PROVE Uint(a + k) \in UserBytes
  <2>1. k \in Nat OBVIOUS
  <2>2. PICK u \in 0 .. AddrMod - 1 : u = Uint(a) /\ (u + k < AddrMod => Uint(a + k) = u + k)
    BY <2>1, UintNear
  <2>3. u + k < sz /\ sz < AddrMod + 1 /\ u + k < AddrMod BY <2>2, ArgSizes
  <2> QED BY <2>2, <2>3, ArgSizes DEF UserBytes
<1> QED BY <1>1 DEF Span

LEMMA WordsIn ==
  /\ Words \subseteq Int
  /\ \A w \in Words : w < AddrMod - Half
  /\ \A a : WordAt(a) \subseteq Words /\ Fetchint(a) \subseteq Words
  /\ \A esp, n : Argint(esp, n) \subseteq Words
<1>1. Words \subseteq Int /\ \A w \in Words : w < AddrMod - Half
  BY ArgSizes DEF Words, Addrs, Half
<1>2. \A a : WordAt(a) \subseteq Words BY DEF WordAt
<1>3. \A a : Fetchint(a) \subseteq Words BY <1>2 DEF Fetchint
<1> QED BY <1>1, <1>2, <1>3 DEF Argint

LEMMA WordInside ==
  ASSUME sz \in 0 .. Half, NEW a \in Int, Fetchint(a) # {}
  PROVE  Uint(a) + IntSize <= sz
<1>1. Uint(a) < sz /\ Uint(a + IntSize) <= sz BY DEF Fetchint
<1>2. PICK u \in 0 .. AddrMod - 1 : u = Uint(a) /\ (u + IntSize < AddrMod => Uint(a + IntSize) = u + IntSize)
  BY ArgSizes, UintNear
<1> QED BY <1>1, <1>2, ArgSizes

(* Word after word: each is checked, so all of them are inside.            *)
LEMMA VectorInside ==
  ASSUME sz \in 0 .. Half, NEW a \in Int, NEW n \in Nat,
         \A i \in 0 .. n - 1 : Fetchint(a + IntSize * i) # {}
  PROVE  Span(a, n * IntSize) \subseteq UserBytes
<1>1. ASSUME NEW k \in 0 .. n * IntSize - 1 PROVE Uint(a + k) \in UserBytes
  <2>1. k \in Int /\ IntSize \in Nat \ {0} BY ArgSizes
  <2>2. PICK i \in Int, j \in 0 .. IntSize - 1 : k = IntSize * i + j
    BY <2>1, ModDiv
  <2>3. i \in 0 .. n - 1
    <3>1. CASE i >= n
      <4>1. IntSize * n <= IntSize * i BY <2>1, <3>1, TimesMonotone
      <4>2. n * IntSize = IntSize * n BY <2>1
      <4> QED BY <2>1, <2>2, <4>1, <4>2
    <3>2. CASE i + 1 <= 0
      <4>1. IntSize * (i + 1) <= IntSize * 0 BY <2>1, <3>2, TimesMonotone
      <4>2. IntSize * (i + 1) = IntSize * i + IntSize /\ IntSize * 0 = 0 BY <2>1
      <4> QED BY <2>1, <2>2, <4>1, <4>2
    <3> QED BY <3>1, <3>2
  <2>4. PICK b \in Int : b = a + IntSize * i BY <2>1
  <2>5. Uint(b) + IntSize <= sz BY <2>3, <2>4, WordInside
  <2>6. Span(b, IntSize) \subseteq UserBytes BY <2>1, <2>5, SpanInside
  <2>7. a + k = b + j
    <3>1. PICK z \in Int : z = IntSize * i BY <2>1
    <3> QED BY <2>1, <2>2, <2>4, <3>1
  <2> QED BY <2>6, <2>7 DEF Span
<1> QED BY <1>1 DEF Span

(* The words of the stack a call fetched, a pointer and a string.          *)
LEMMA ArgWordsInside ==
  ASSUME sz \in 0 .. Half, NEW esp \in Addrs
  PROVE  /\ Argint(esp, 0) # {} => ArgWords(esp, 1) \subseteq UserBytes
         /\ Argint(esp, 0) # {} /\ Argint(esp, 1) # {} => ArgWords(esp, 2) \subseteq UserBytes
         /\ Argint(esp, 0) # {} /\ Argint(esp, 1) # {} /\ Argint(esp, 2) # {} =>
              ArgWords(esp, 3) \subseteq UserBytes
<1>1. PICK a \in Int : a = esp + IntSize BY ArgSizes DEF Addrs
<1>2. ASSUME NEW n \in Nat, \A i \in 0 .. n - 1 : Argint(esp, i) # {}
      PROVE  ArgWords(esp, n) \subseteq UserBytes
  <2>1. \A i \in 0 .. n - 1 : Fetchint(a + IntSize * i) # {} BY <1>1, <1>2 DEF Argint
  <2> QED BY <1>1, <2>1, VectorInside DEF ArgWords
<1>3. ASSUME NEW n \in 1 .. 3, \A i \in {0, 1, 2} : i < n => Argint(esp, i) # {}
      PROVE  ArgWords(esp, n) \subseteq UserBytes
  <2>1. \A i \in 0 .. n - 1 : i \in {0, 1, 2} /\ i < n OBVIOUS
  <2>2. n \in Nat OBVIOUS
  <2> QED BY <1>2, <1>3, <2>1, <2>2
<1>4. 1 \in 1 .. 3 /\ 2 \in 1 .. 3 /\ 3 \in 1 .. 3 OBVIOUS
<1>5. Argint(esp, 0) # {} => ArgWords(esp, 1) \subseteq UserBytes BY <1>3, <1>4
<1>6. Argint(esp, 0) # {} /\ Argint(esp, 1) # {} => ArgWords(esp, 2) \subseteq UserBytes BY <1>3, <1>4
<1>7. Argint(esp, 0) # {} /\ Argint(esp, 1) # {} /\ Argint(esp, 2) # {} => ArgWords(esp, 3) \subseteq UserBytes
  BY <1>3, <1>4
<1> QED BY <1>5, <1>6, <1>7

LEMMA PointerInside ==
  ASSUME sz \in 0 .. Half, NEW esp, NEW n, NEW size \in Int, size <= AddrMod - Half,
         NEW p \in Argptr(esp, n, size)
  PROVE  Span(p, size) \subseteq UserBytes
<1>1. p \in Int /\ size \in Nat /\ Uint(p) < sz /\ Uint(Uint(p) + size) <= sz
  <2>1. p \in Argint(esp, n) /\ size >= 0 /\ Uint(p) < sz /\ Uint(Uint(p) + size) <= sz BY DEF Argptr
  <2>2. p \in Int BY <2>1, WordsIn
  <2> QED BY <2>1, <2>2
<1>2. PICK u \in 0 .. AddrMod - 1 : u = Uint(p) BY <1>1, UintNear
<1>3. u \in Int /\ u < sz BY <1>1, <1>2
<1>4. Uint(u) = u
  <2>1. u % AddrMod = u BY <1>3, ArgSizes, ModNear
  <2> QED BY <2>1 DEF Uint
<1>5. u + size < AddrMod => Uint(u + size) = u + size BY <1>1, <1>3, <1>4, UintNear
<1>6. u + size < AddrMod BY <1>1, <1>3, ArgSizes
<1>7. u + size <= sz BY <1>1, <1>2, <1>5, <1>6
<1> QED BY <1>1, <1>2, <1>7, SpanInside

LEMMA StringInside ==
  ASSUME sz \in 0 .. Half, NEW a \in Int, NEW k \in Fetchstr(a)
  PROVE  Span(a, k + 1) \subseteq UserBytes
<1>1. PICK u \in 0 .. AddrMod - 1 : u = Uint(a) BY UintNear, 0 \in Nat
<1>2. k \in 0 .. sz - u - 1 BY <1>1 DEF Fetchstr
<1>3. k + 1 \in Int /\ u + (k + 1) <= sz BY <1>1, <1>2
<1> QED BY <1>1, <1>3, SpanInside

(* Descriptors: one slot changes, so the count of the file it stood for    *)
(* and of the one it stands for do.                                        *)
LEMMA FilesOpen ==
  ASSUME NEW of \in [OpenFds -> 0 .. NFILE]
  PROVE  \A f : IsFiniteSet(StandFor(of, f)) /\ Cardinality(StandFor(of, f)) \in Nat
<1>1. IsFiniteSet(OpenFds) BY ArgSizes, FS_Interval DEF OpenFds
<1>2. \A f : StandFor(of, f) \subseteq OpenFds BY DEF StandFor
<1>3. \A f : IsFiniteSet(StandFor(of, f)) BY <1>1, <1>2, FS_Subset
<1> QED BY <1>3, FS_CardinalityType

LEMMA SlotTaken ==
  ASSUME NEW of \in [OpenFds -> 0 .. NFILE], NEW fd \in OpenFds, of[fd] = 0, NEW g \in OpenFiles,
         NEW now \in [OpenFds -> 0 .. NFILE], \A d \in OpenFds : now[d] = IF d = fd THEN g ELSE of[d]
  PROVE  \A f \in OpenFiles :
           Cardinality(StandFor(now, f)) = Cardinality(StandFor(of, f)) + (IF f = g THEN 1 ELSE 0)
<1> TAKE f \in OpenFiles
<1>1. f # 0 BY ArgSizes DEF OpenFiles
<1>2. PICK S : S = StandFor(of, f) /\ IsFiniteSet(S) /\ Cardinality(S) \in Nat BY FilesOpen
<1>3. PICK T : T = StandFor(now, f) OBVIOUS
<1>4. CASE f = g
  <2>1. T = S \cup {fd} BY <1>2, <1>3, <1>4 DEF StandFor
  <2>2. fd \notin S BY <1>1, <1>2 DEF StandFor
  <2>3. Cardinality(T) = Cardinality(S) + 1 BY <1>2, <2>1, <2>2, FS_AddElement
  <2> QED BY <1>2, <1>3, <1>4, <2>3
<1>5. CASE f # g
  <2>1. T = S BY <1>1, <1>2, <1>3, <1>5 DEF StandFor
  <2> QED BY <1>2, <1>3, <1>5, <2>1
<1> QED BY <1>4, <1>5

LEMMA SlotLeft ==
  ASSUME NEW of \in [OpenFds -> 0 .. NFILE], NEW fd \in OpenFds, NEW g \in OpenFiles, of[fd] = g,
         NEW now \in [OpenFds -> 0 .. NFILE], \A d \in OpenFds : now[d] = IF d = fd THEN 0 ELSE of[d]
  PROVE  \A f \in OpenFiles :
           Cardinality(StandFor(now, f)) = Cardinality(StandFor(of, f)) - (IF f = g THEN 1 ELSE 0)
<1> TAKE f \in OpenFiles
<1>1. f # 0 BY ArgSizes DEF OpenFiles
<1>2. PICK S : S = StandFor(of, f) /\ IsFiniteSet(S) /\ Cardinality(S) \in Nat BY FilesOpen
<1>3. PICK T : T = StandFor(now, f) OBVIOUS
<1>4. CASE f = g
  <2>1. T = S \ {fd} BY <1>1, <1>2, <1>3, <1>4 DEF StandFor
  <2>2. fd \in S BY <1>2, <1>4 DEF StandFor
  <2>3. Cardinality(T) = Cardinality(S) - 1 BY <1>2, <2>1, <2>2, FS_RemoveElement
  <2> QED BY <1>2, <1>3, <1>4, <2>3
<1>5. CASE f # g
  <2>1. T = S BY <1>1, <1>2, <1>3, <1>5 DEF StandFor
  <2> QED BY <1>2, <1>3, <1>5, <2>1
<1> QED BY <1>4, <1>5

(* The first free one of a table, and the next when there are two.         *)
LEMMA FirstIn ==
  ASSUME NEW S \in SUBSET Nat, S # {}
  PROVE  Min(S) \in S
<1>1. PICK d \in S : \A e \in S : d <= e BY LeastNumber
<1> QED BY <1>1 DEF Min

LEMMA SecondLeft ==
  ASSUME NEW S, IsFiniteSet(S), Cardinality(S) >= 2, NEW x
  PROVE  S # {} /\ S \ {x} # {}
<1>1. Cardinality({}) = 0 BY FS_EmptySet
<1>2. ASSUME S \ {x} = {}, S # {} PROVE FALSE
  <2>1. S = {x} BY <1>2
  <2>2. Cardinality({x}) = 1 BY FS_Singleton
  <2> QED BY <2>1, <2>2
<1> QED BY <1>1, <1>2

LEMMA FreeOnes ==
  /\ FreeFds \in SUBSET Nat /\ IsFiniteSet(FreeFds)
  /\ FreeFiles \in SUBSET Nat /\ IsFiniteSet(FreeFiles)
<1>1. IsFiniteSet(OpenFds) BY ArgSizes, FS_Interval DEF OpenFds
<1>2. IsFiniteSet(OpenFiles) BY ArgSizes, FS_Interval DEF OpenFiles
<1>3. FreeFds \subseteq OpenFds /\ FreeFiles \subseteq OpenFiles BY DEF FreeFds, FreeFiles
<1>4. OpenFds \subseteq Nat /\ OpenFiles \subseteq Nat BY ArgSizes DEF OpenFds, OpenFiles
<1> QED BY <1>1, <1>2, <1>3, <1>4, FS_Subset

LEMMA FdallocIs ==
  ASSUME NEW fd \in Fdalloc
  PROVE  fd \in OpenFds /\ ofile[fd] = 0
<1>1. FreeFds # {} /\ fd = Min(FreeFds) BY DEF Fdalloc
<1>2. fd \in FreeFds BY <1>1, FreeOnes, FirstIn
<1> QED BY <1>2 DEF FreeFds

LEMMA ArgfdIs ==
  ASSUME CountInv, NEW esp, NEW n, NEW fd \in Argfd(esp, n)
  PROVE  fd \in OpenFds /\ ofile[fd] \in OpenFiles /\ Argint(esp, n) # {}
<1>1. fd \in OpenFds /\ ofile[fd] # 0 /\ fd \in Argint(esp, n) BY DEF Argfd
<1>2. ofile[fd] \in 0 .. NFILE BY <1>1 DEF CountInv, Counted
<1> QED BY <1>1, <1>2, ArgSizes DEF OpenFiles

LEMMA CountsDup ==
  ASSUME CountInv, NEW fd \in OpenFds, NEW g \in OpenFiles, ofile[fd] = 0,
         ofile' = [ofile EXCEPT ![fd] = g], fref' = [fref EXCEPT ![g] = @ + 1]
  PROVE  CountInv'
<1>1. PICK of \in [OpenFds -> 0 .. NFILE], refs \in [OpenFiles -> Int] : of = ofile /\ refs = fref
  BY DEF CountInv, Counted
<1>2. 0 \in 0 .. NFILE /\ g \in 0 .. NFILE BY ArgSizes DEF OpenFiles
<1>3. PICK now : now = ofile' OBVIOUS
<1>4. now = [of EXCEPT ![fd] = g] BY <1>1, <1>3
<1>5. now \in [OpenFds -> 0 .. NFILE] BY <1>2, <1>4
<1>6. of[fd] = 0 /\ \A d \in OpenFds : now[d] = IF d = fd THEN g ELSE of[d] BY <1>1, <1>2, <1>4
<1>7. PICK n \in Int : n = refs[g] + 1 OBVIOUS
<1>8. PICK nrefs : nrefs = fref' OBVIOUS
<1>9. nrefs = [refs EXCEPT ![g] = n] BY <1>1, <1>7, <1>8
<1>10. nrefs \in [OpenFiles -> Int] BY <1>9
<1>11. \A f \in OpenFiles : nrefs[f] = IF f = g THEN n ELSE refs[f] BY <1>9
<1>12. \A f \in OpenFiles : nrefs[f] = Cardinality(StandFor(now, f))
  <2> TAKE f \in OpenFiles
  <2>1. refs[f] = Cardinality(StandFor(of, f)) BY <1>1 DEF CountInv, Counted
  <2>2. Cardinality(StandFor(now, f)) = Cardinality(StandFor(of, f)) + (IF f = g THEN 1 ELSE 0)
    BY <1>5, <1>6, SlotTaken
  <2>3. refs[f] \in Int OBVIOUS
  <2> QED BY <1>7, <1>11, <2>1, <2>2, <2>3
<1>13. Counted(now, nrefs) BY <1>5, <1>10, <1>12 DEF Counted
<1> QED BY <1>3, <1>8, <1>13 DEF CountInv

LEMMA CountsClose ==
  ASSUME CountInv, NEW fd \in OpenFds, NEW g \in OpenFiles, ofile[fd] = g,
         ofile' = [ofile EXCEPT ![fd] = 0], fref' = [fref EXCEPT ![g] = @ - 1]
  PROVE  CountInv'
<1>1. PICK of \in [OpenFds -> 0 .. NFILE], refs \in [OpenFiles -> Int] : of = ofile /\ refs = fref
  BY DEF CountInv, Counted
<1>2. 0 \in 0 .. NFILE /\ g \in 0 .. NFILE BY ArgSizes DEF OpenFiles
<1>3. PICK now : now = ofile' OBVIOUS
<1>4. now = [of EXCEPT ![fd] = 0] BY <1>1, <1>3
<1>5. now \in [OpenFds -> 0 .. NFILE] BY <1>2, <1>4
<1>6. of[fd] = g /\ \A d \in OpenFds : now[d] = IF d = fd THEN 0 ELSE of[d] BY <1>1, <1>2, <1>4
<1>7. PICK n \in Int : n = refs[g] - 1 OBVIOUS
<1>8. PICK nrefs : nrefs = fref' OBVIOUS
<1>9. nrefs = [refs EXCEPT ![g] = n] BY <1>1, <1>7, <1>8
<1>10. nrefs \in [OpenFiles -> Int] BY <1>9
<1>11. \A f \in OpenFiles : nrefs[f] = IF f = g THEN n ELSE refs[f] BY <1>9
<1>12. \A f \in OpenFiles : nrefs[f] = Cardinality(StandFor(now, f))
  <2> TAKE f \in OpenFiles
  <2>1. refs[f] = Cardinality(StandFor(of, f)) BY <1>1 DEF CountInv, Counted
  <2>2. Cardinality(StandFor(now, f)) = Cardinality(StandFor(of, f)) - (IF f = g THEN 1 ELSE 0)
    BY <1>5, <1>6, SlotLeft
  <2>3. refs[f] \in Int OBVIOUS
  <2> QED BY <1>7, <1>11, <2>1, <2>2, <2>3
<1>13. Counted(now, nrefs) BY <1>5, <1>10, <1>12 DEF Counted
<1> QED BY <1>3, <1>8, <1>13 DEF CountInv

(* A new file: its count was 0, and is set to 1.                           *)
LEMMA CountsOpen ==
  ASSUME CountInv, NEW fd \in OpenFds, NEW g \in OpenFiles, ofile[fd] = 0, fref[g] = 0,
         ofile' = [ofile EXCEPT ![fd] = g], fref' = [fref EXCEPT ![g] = 1]
  PROVE  CountInv'
<1>1. [fref EXCEPT ![g] = 1] = [fref EXCEPT ![g] = @ + 1] OBVIOUS
<1> QED BY <1>1, CountsDup

(* Two new files in two slots.                                             *)
LEMMA CountsPipe ==
  ASSUME CountInv,
         NEW fd0 \in OpenFds, NEW fd1 \in OpenFds, fd0 # fd1, ofile[fd0] = 0, ofile[fd1] = 0,
         NEW rf \in OpenFiles, NEW wf \in OpenFiles, rf # wf, fref[rf] = 0, fref[wf] = 0,
         ofile' = [ofile EXCEPT ![fd0] = rf, ![fd1] = wf], fref' = [fref EXCEPT ![rf] = 1, ![wf] = 1]
  PROVE  CountInv'
<1>1. PICK of \in [OpenFds -> 0 .. NFILE], refs \in [OpenFiles -> Int] : of = ofile /\ refs = fref
  BY DEF CountInv, Counted
<1>2. rf \in 0 .. NFILE /\ wf \in 0 .. NFILE BY ArgSizes DEF OpenFiles
<1>3. PICK mid : mid = [of EXCEPT ![fd0] = rf] OBVIOUS
<1>4. mid \in [OpenFds -> 0 .. NFILE] BY <1>2, <1>3
<1>5. of[fd0] = 0 /\ \A d \in OpenFds : mid[d] = IF d = fd0 THEN rf ELSE of[d] BY <1>1, <1>3
<1>6. PICK now : now = ofile' OBVIOUS
<1>7. now = [mid EXCEPT ![fd1] = wf] BY <1>1, <1>3, <1>6
<1>8. now \in [OpenFds -> 0 .. NFILE] BY <1>2, <1>4, <1>7
<1>9. mid[fd1] = 0 /\ \A d \in OpenFds : now[d] = IF d = fd1 THEN wf ELSE mid[d]
  BY <1>1, <1>4, <1>5, <1>7
<1>10. PICK one \in Int : one = 1 OBVIOUS
<1>11. PICK nrefs : nrefs = fref' OBVIOUS
<1>12. nrefs = [refs EXCEPT ![rf] = one, ![wf] = one] BY <1>1, <1>10, <1>11
<1>13. nrefs \in [OpenFiles -> Int] BY <1>12
<1>14. \A f \in OpenFiles : nrefs[f] = IF f = rf \/ f = wf THEN one ELSE refs[f] BY <1>12
<1>15. \A f \in OpenFiles : nrefs[f] = Cardinality(StandFor(now, f))
  <2> TAKE f \in OpenFiles
  <2>1. refs[f] = Cardinality(StandFor(of, f)) /\ refs[f] \in Int BY <1>1 DEF CountInv, Counted
  <2>2. Cardinality(StandFor(mid, f)) = Cardinality(StandFor(of, f)) + (IF f = rf THEN 1 ELSE 0)
    BY <1>4, <1>5, SlotTaken
  <2>3. Cardinality(StandFor(now, f)) = Cardinality(StandFor(mid, f)) + (IF f = wf THEN 1 ELSE 0)
    BY <1>4, <1>8, <1>9, SlotTaken
  <2>4. refs[rf] = 0 /\ refs[wf] = 0 BY <1>1
  <2> QED BY <1>10, <1>14, <2>1, <2>2, <2>3, <2>4
<1>16. Counted(now, nrefs) BY <1>8, <1>13, <1>15 DEF Counted
<1> QED BY <1>6, <1>11, <1>16 DEF CountInv

(* The calls.                                                              *)
LEMMA TouchedStays ==
  ASSUME ArgsInv, sz' = sz, touched' \subseteq UserBytes, CountInv'
  PROVE  ArgsInv'
BY DEF ArgsInv, UserBytes

LEMMA SameCounts ==
  ASSUME CountInv, UNCHANGED <<ofile, fref>>
  PROVE  CountInv'
BY DEF CountInv

LEMMA ReadWriteKeeps ==
  ASSUME ArgsInv, NEW esp \in Addrs, SysReadWrite(esp)
  PROVE  ArgsInv'
<1>1. PICK fd \in Argfd(esp, 0), n \in Argint(esp, 2) : \E p \in Argptr(esp, 1, n) :
        touched' = ArgWords(esp, 3) \cup Span(p, n) /\ UNCHANGED <<sz, mem, ofile, fref>>
  BY DEF SysReadWrite
<1>2. PICK p \in Argptr(esp, 1, n) :
        touched' = ArgWords(esp, 3) \cup Span(p, n) /\ UNCHANGED <<sz, mem, ofile, fref>>
  BY <1>1
<1>3. sz \in 0 .. Half /\ CountInv BY DEF ArgsInv
<1>4. Argint(esp, 0) # {} /\ Argint(esp, 1) # {} /\ Argint(esp, 2) # {} BY DEF Argfd, Argptr
<1>5. ArgWords(esp, 3) \subseteq UserBytes BY <1>3, <1>4, ArgWordsInside
<1>6. n \in Words BY WordsIn
<1>7. n \in Int /\ n <= AddrMod - Half BY <1>6, WordsIn, ArgSizes
<1>8. Span(p, n) \subseteq UserBytes BY <1>3, <1>7, PointerInside
<1>9. touched' \subseteq UserBytes BY <1>2, <1>5, <1>8
<1> QED BY <1>2, <1>3, <1>9, SameCounts, TouchedStays

LEMMA DupKeeps ==
  ASSUME ArgsInv, NEW esp \in Addrs, SysDup(esp)
  PROVE  ArgsInv'
<1>1. sz \in 0 .. Half /\ CountInv BY DEF ArgsInv
<1>2. PICK old \in Argfd(esp, 0) :
        \/ \E fd \in Fdalloc :
             /\ ofile' = [ofile EXCEPT ![fd] = ofile[old]]
             /\ fref' = [fref EXCEPT ![ofile[old]] = @ + 1]
             /\ touched' = ArgWords(esp, 1) /\ Unused
        \/ Fdalloc = {} /\ touched' = ArgWords(esp, 1) /\ UNCHANGED <<sz, mem, ofile, fref>>
  BY DEF SysDup
<1>3. Argint(esp, 0) # {} /\ ofile[old] \in OpenFiles BY <1>1, ArgfdIs
<1>4. touched' \subseteq UserBytes /\ sz' = sz BY <1>1, <1>2, <1>3, ArgWordsInside DEF Unused
<1>5. CountInv'
  <2>1. ASSUME NEW fd \in Fdalloc, ofile' = [ofile EXCEPT ![fd] = ofile[old]],
               fref' = [fref EXCEPT ![ofile[old]] = @ + 1]
        PROVE  CountInv'
    BY <1>1, <1>3, <2>1, FdallocIs, CountsDup
  <2> QED BY <1>1, <1>2, <2>1, SameCounts
<1> QED BY <1>4, <1>5, TouchedStays

LEMMA CloseKeeps ==
  ASSUME ArgsInv, NEW esp \in Addrs, SysClose(esp)
  PROVE  ArgsInv'
<1>1. sz \in 0 .. Half /\ CountInv BY DEF ArgsInv
<1>2. PICK fd \in Argfd(esp, 0) :
        /\ ofile' = [ofile EXCEPT ![fd] = 0]
        /\ fref' = [fref EXCEPT ![ofile[fd]] = @ - 1]
        /\ touched' = ArgWords(esp, 1) /\ Unused
  BY DEF SysClose
<1>3. fd \in OpenFds /\ Argint(esp, 0) # {} /\ ofile[fd] \in OpenFiles BY <1>1, ArgfdIs
<1>4. touched' \subseteq UserBytes /\ sz' = sz BY <1>1, <1>2, <1>3, ArgWordsInside DEF Unused
<1>5. CountInv' BY <1>1, <1>2, <1>3, CountsClose
<1> QED BY <1>4, <1>5, TouchedStays

LEMMA ArgstrIs ==
  ASSUME sz \in 0 .. Half, NEW esp, NEW n, NEW s \in Argstr(esp, n)
  PROVE  Argint(esp, n) # {} /\ Span(s[1], s[2] + 1) \subseteq UserBytes
<1>1. s[1] \in Argint(esp, n) /\ s[2] \in Fetchstr(s[1]) BY DEF Argstr
<1>2. PICK a, k : a = s[1] /\ k = s[2] OBVIOUS
<1>3. a \in Int BY <1>1, <1>2, WordsIn
<1>4. Span(a, k + 1) \subseteq UserBytes BY <1>1, <1>2, <1>3, StringInside
<1> QED BY <1>1, <1>2, <1>4

LEMMA OpenKeeps ==
  ASSUME ArgsInv, NEW esp \in Addrs, SysOpen(esp)
  PROVE  ArgsInv'
<1>1. sz \in 0 .. Half /\ CountInv BY DEF ArgsInv
<1>2. PICK s \in Argstr(esp, 0), omode \in Argint(esp, 1) :
        /\ touched' = ArgWords(esp, 2) \cup Span(s[1], s[2] + 1) /\ Unused
        /\ \/ \E fd \in Fdalloc : /\ FreeFiles # {}
                                  /\ ofile' = [ofile EXCEPT ![fd] = Min(FreeFiles)]
                                  /\ fref' = [fref EXCEPT ![Min(FreeFiles)] = 1]
           \/ (Fdalloc = {} \/ FreeFiles = {}) /\ UNCHANGED <<ofile, fref>>
  BY DEF SysOpen
<1>3. Argint(esp, 0) # {} /\ Span(s[1], s[2] + 1) \subseteq UserBytes BY <1>1, ArgstrIs
<1>4. touched' \subseteq UserBytes /\ sz' = sz BY <1>1, <1>2, <1>3, ArgWordsInside DEF Unused
<1>5. CountInv'
  <2>1. ASSUME NEW fd \in Fdalloc, FreeFiles # {}, ofile' = [ofile EXCEPT ![fd] = Min(FreeFiles)],
               fref' = [fref EXCEPT ![Min(FreeFiles)] = 1]
        PROVE  CountInv'
    <3>1. PICK g : g = Min(FreeFiles) OBVIOUS
    <3>2. g \in FreeFiles BY <2>1, <3>1, FreeOnes, FirstIn
    <3>3. g \in OpenFiles /\ fref[g] = 0 BY <3>2 DEF FreeFiles
    <3> QED BY <1>1, <2>1, <3>1, <3>3, FdallocIs, CountsOpen
  <2> QED BY <1>1, <1>2, <2>1, SameCounts
<1> QED BY <1>4, <1>5, TouchedStays

LEMMA PipeKeeps ==
  ASSUME ArgsInv, NEW esp \in Addrs, SysPipe(esp)
  PROVE  ArgsInv'
<1>1. sz \in 0 .. Half /\ CountInv BY DEF ArgsInv
<1> DEFINE rf == Min(FreeFiles)  wf == Min(FreeFiles \ {rf})
           fd0 == Min(FreeFds)  fd1 == Min(FreeFds \ {fd0})
           Full == touched' = ArgWords(esp, 1) /\ UNCHANGED <<sz, mem, ofile, fref>>
           Made(p) ==
             /\ Cardinality(FreeFds) >= 2
             /\ ofile' = [ofile EXCEPT ![fd0] = rf, ![fd1] = wf]
             /\ fref' = [fref EXCEPT ![rf] = 1, ![wf] = 1]
             /\ touched' = ArgWords(esp, 1) \cup Span(p, 2 * IntSize) /\ sz' = sz
           Undone ==
             /\ ofile' = IF FreeFds = {} THEN ofile ELSE PipeUndone(Min(FreeFds), rf)
             /\ touched' = ArgWords(esp, 1) /\ UNCHANGED <<sz, mem, fref>>
<1>2. PICK p \in Argptr(esp, 0, 2 * IntSize) :
        IF Cardinality(FreeFiles) < 2 THEN Full ELSE Made(p) \/ Undone
  BY DEF SysPipe
<1>3. Argint(esp, 0) # {} BY DEF Argptr
<1>4. ArgWords(esp, 1) \subseteq UserBytes BY <1>1, <1>3, ArgWordsInside
<1>5. 2 * IntSize \in Int /\ 2 * IntSize <= AddrMod - Half BY ArgSizes
<1>6. Span(p, 2 * IntSize) \subseteq UserBytes
  <2>1. PICK m \in Int : m = 2 * IntSize /\ m <= AddrMod - Half BY <1>5
  <2>2. p \in Argptr(esp, 0, m) BY <2>1
  <2> QED BY <1>1, <2>1, <2>2, PointerInside
<1>7. touched' \subseteq UserBytes /\ sz' = sz BY <1>2, <1>4, <1>6
<1>8. Cardinality(FreeFiles) \in Nat /\ Cardinality(FreeFds) \in Nat BY FreeOnes, FS_CardinalityType
<1> HIDE DEF Full, Made, Undone
<1>9. CASE Full BY <1>1, <1>9, SameCounts, <1>7, TouchedStays DEF Full
<1>10. CASE Made(p) /\ ~(Cardinality(FreeFiles) < 2)
  <2>1. FreeFds # {} /\ FreeFds \ {fd0} # {} /\ FreeFiles # {} /\ FreeFiles \ {rf} # {}
    BY <1>8, <1>10, FreeOnes, SecondLeft DEF Made
  <2>2. fd0 \in FreeFds /\ fd1 \in FreeFds \ {fd0} /\ rf \in FreeFiles /\ wf \in FreeFiles \ {rf}
    BY <2>1, FreeOnes, FirstIn
  <2> HIDE DEF fd0, fd1, rf, wf
  <2>3. PICK d0, d1, f0, f1 : d0 = fd0 /\ d1 = fd1 /\ f0 = rf /\ f1 = wf OBVIOUS
  <2>4. /\ d0 \in OpenFds /\ d1 \in OpenFds /\ d0 # d1 /\ ofile[d0] = 0 /\ ofile[d1] = 0
        /\ f0 \in OpenFiles /\ f1 \in OpenFiles /\ f0 # f1 /\ fref[f0] = 0 /\ fref[f1] = 0
    BY <2>2, <2>3 DEF FreeFds, FreeFiles
  <2>5. ofile' = [ofile EXCEPT ![d0] = f0, ![d1] = f1] /\ fref' = [fref EXCEPT ![f0] = 1, ![f1] = 1]
    BY <1>10, <2>3 DEF Made
  <2>6. CountInv' BY <1>1, <2>4, <2>5, CountsPipe
  <2> QED BY <1>7, <2>6, TouchedStays
<1>11. CASE Undone
  <2>1. ofile' = ofile
    <3>1. CASE FreeFds # {}
      <4>1. PICK d : d = Min(FreeFds) OBVIOUS
      <4>2. d \in FreeFds BY <3>1, <4>1, FreeOnes, FirstIn
      <4>3. d \in OpenFds /\ ofile[d] = 0 BY <4>2 DEF FreeFds
      <4>4. PICK of \in [OpenFds -> 0 .. NFILE] : of = ofile BY <1>1 DEF CountInv, Counted
      <4>5. PICK g : g = rf OBVIOUS
      <4>6. [[of EXCEPT ![d] = g] EXCEPT ![d] = 0] = of BY <4>3, <4>4
      <4> QED BY <1>11, <3>1, <4>1, <4>4, <4>5, <4>6 DEF Undone, PipeUndone
    <3> QED BY <1>11, <3>1 DEF Undone
  <2>2. CountInv' BY <1>1, <1>11, <2>1, SameCounts DEF Undone
  <2> QED BY <1>7, <2>2, TouchedStays
<1> QED BY <1>2, <1>9, <1>10, <1>11

LEMMA ExecKeeps ==
  ASSUME ArgsInv, NEW esp \in Addrs, SysExec(esp)
  PROVE  ArgsInv'
<1>1. sz \in 0 .. Half /\ CountInv BY DEF ArgsInv
<1> DEFINE Strings(uargv, argc) ==
             UNION {UNION {UNION {Span(a, k + 1) : k \in Fetchstr(a)} : a \in UargvWord(uargv, i)} : i \in 0..(argc - 1)}
<1>2. PICK s \in Argstr(esp, 0), uargv \in Argint(esp, 1) : \E argc \in ArgcOf(uargv) :
        /\ touched' = ArgWords(esp, 2) \cup Span(s[1], s[2] + 1) \cup Span(uargv, IntSize * (argc + 1))
                        \cup Strings(uargv, argc)
        /\ UNCHANGED <<sz, mem, ofile, fref>>
  BY DEF SysExec
<1>3. PICK argc \in ArgcOf(uargv) :
        /\ touched' = ArgWords(esp, 2) \cup Span(s[1], s[2] + 1) \cup Span(uargv, IntSize * (argc + 1))
                        \cup Strings(uargv, argc)
        /\ UNCHANGED <<sz, mem, ofile, fref>>
  BY <1>2
<1>4. Argint(esp, 0) # {} /\ Span(s[1], s[2] + 1) \subseteq UserBytes BY <1>1, ArgstrIs
<1>5. ArgWords(esp, 2) \subseteq UserBytes BY <1>1, <1>4, ArgWordsInside
<1>6. uargv \in Int BY WordsIn
<1>7. argc \in 0 .. MAXARG - 1 /\ UargvWord(uargv, argc) = {0}
      /\ \A i \in 0 .. argc - 1 : UargvWord(uargv, i) # {}
  BY DEF ArgcOf
<1>8. Span(uargv, IntSize * (argc + 1)) \subseteq UserBytes
  <2>1. PICK n \in Nat : n = argc + 1 BY <1>7, ArgSizes
  <2>2. \A i \in 0 .. n - 1 : Fetchint(uargv + IntSize * i) # {}
    <3> TAKE i \in 0 .. n - 1
    <3>1. i \in 0 .. argc - 1 \/ i = argc BY <1>7, <2>1, ArgSizes
    <3>2. UargvWord(uargv, i) # {} BY <1>7, <3>1
    <3> QED BY <3>2 DEF UargvWord
  <2>3. Span(uargv, n * IntSize) \subseteq UserBytes BY <1>1, <1>6, <2>2, VectorInside
  <2>4. n * IntSize = IntSize * n BY ArgSizes
  <2> QED BY <2>1, <2>3, <2>4
<1>9. Strings(uargv, argc) \subseteq UserBytes
  <2>1. ASSUME NEW i, NEW a \in UargvWord(uargv, i), NEW k \in Fetchstr(a)
        PROVE  Span(a, k + 1) \subseteq UserBytes
    <3>1. a \in Int BY WordsIn DEF UargvWord
    <3> QED BY <1>1, <3>1, StringInside
  <2> QED BY <2>1
<1> HIDE DEF Strings
<1>10. touched' \subseteq UserBytes BY <1>3, <1>4, <1>5, <1>8, <1>9
<1> QED BY <1>1, <1>3, <1>10, SameCounts, TouchedStays

LEMMA ArgsNextKeeps ==
  ASSUME ArgsInv, [SysArgsNext]_sysargsvars
  PROVE  ArgsInv'
<1>1. CASE ProgramLoaded
  <2>1. sz = 0 /\ touched = {}
    <3>1. sz = 0 BY <1>1 DEF ProgramLoaded
    <3>2. UserBytes = {} BY <3>1 DEF UserBytes
    <3> QED BY <3>1, <3>2 DEF ArgsInv
  <2>2. sz' \in 0 .. Half BY <1>1, ArgSizes DEF ProgramLoaded
  <2> QED BY <1>1, <2>1, <2>2, SameCounts DEF ProgramLoaded, ArgsInv
<1>2. CASE Refused
  <2>1. touched' \subseteq UserBytes /\ sz' = sz /\ UNCHANGED <<ofile, fref>> BY <1>2 DEF Refused
  <2> QED BY <2>1, SameCounts, TouchedStays DEF ArgsInv
<1>3. CASE UNCHANGED sysargsvars
  <2>1. touched' \subseteq UserBytes /\ sz' = sz /\ UNCHANGED <<ofile, fref>> BY <1>3 DEF sysargsvars, ArgsInv
  <2> QED BY <2>1, SameCounts, TouchedStays DEF ArgsInv
<1>4. ASSUME NEW esp \in Addrs,
             \/ SysReadWrite(esp) \/ SysDup(esp) \/ SysClose(esp)
             \/ SysOpen(esp) \/ SysPipe(esp) \/ SysExec(esp)
      PROVE  ArgsInv'
  BY <1>4, ReadWriteKeeps, DupKeeps, CloseKeeps, OpenKeeps, PipeKeeps, ExecKeeps
<1> QED BY <1>1, <1>2, <1>3, <1>4 DEF SysArgsNext

(* syscall.c and sysfile.c, for every word size, stack pointer, argument   *)
(* and memory: what a call reads and writes is of the process, and every   *)
(* file counts the descriptors that stand for it.                          *)
THEOREM ArgumentsStayChecked == SysArgsSpec => []ArgumentsChecked
<1>1. SysArgsInit => ArgsInv
  <2> SUFFICES ASSUME SysArgsInit PROVE ArgsInv OBVIOUS
  <2>1. sz \in 0 .. Half /\ touched \subseteq UserBytes BY ArgSizes DEF SysArgsInit
  <2>2. ofile \in [OpenFds -> 0 .. NFILE] /\ fref \in [OpenFiles -> Int]
    <3>1. PICK zero \in 0 .. NFILE : zero = 0 BY ArgSizes
    <3> QED BY <3>1 DEF SysArgsInit
  <2>3. \A f \in OpenFiles : fref[f] = Cardinality(StandFor(ofile, f))
    <3> TAKE f \in OpenFiles
    <3>1. StandFor(ofile, f) = {} BY DEF SysArgsInit, StandFor, OpenFiles
    <3> QED BY <3>1, FS_EmptySet DEF SysArgsInit
  <2> QED BY <2>1, <2>2, <2>3 DEF ArgsInv, CountInv, Counted
<1>2. ArgsInv => ArgumentsChecked
  BY DEF ArgsInv, CountInv, Counted, StandFor, UserBytes, ArgumentsChecked, TouchedInside, DescriptorsCounted
<1> QED BY <1>1, <1>2, ArgsNextKeeps, PTL DEF SysArgsSpec

-----------------------------------------------------------------------------
(* Boot: a processor has its stack from its own turn in startothers(), and *)
(* the turns of the processors do not overlap.                             *)

Reading == {"kinit1", "mpsearch", "mpinit", "seginit", "ioapicinit"}
Turn == {"lapicstartap", "waits"}
StartingUp == {"startothers"} \cup Turn
WithProcess == {"mpmain", "scheduler"}
Routed == StartingUp \cup {"kinit2", "userinit"} \cup WithProcess
Booting == Reading \cup Routed \cup {"panicked"}
MpIds == UNION {{t[i].id : i \in DOMAIN t} : t \in MpTables}
BootRec ==
  [pc : Booting, me : ApicIds \cup {0}, table : MpTables \cup {<<>>}, pos : Nat \ {0},
   cpus : Seq(MpIds), k : Nat \ {0}, stack : Nat, free : SUBSET Nat, uselock : BOOLEAN,
   disk : Int, init : {"none", "runnable", "running"}]
ApRec ==
  [pc : {"halted", "start", "start32", "mpenter", "mpmain", "scheduler"}, stack : Nat,
   started : BOOLEAN]
BootTypes == boot \in BootRec /\ ap \in [ApicIds -> ApRec]

(* cpus[]: distinct processors of the entries read, this one among them    *)
(* once seginit() is through.                                              *)
InTable(table, pos, id) ==
  \E q \in 1 .. pos - 1 : q \in DOMAIN table /\ table[q].type = "MPPROC" /\ table[q].id = id
TableInv ==
  /\ boot.pc = "kinit1" => boot.cpus = <<>>
  /\ Len(boot.cpus) <= NCPU
  /\ \A i, j \in 1 .. Len(boot.cpus) : boot.cpus[i] = boot.cpus[j] => i = j
  /\ \A j \in 1 .. Len(boot.cpus) : InTable(boot.table, boot.pos, boot.cpus[j])
  /\ boot.pc \in {"ioapicinit"} \cup Routed => \E j \in 1 .. Len(boot.cpus) : boot.cpus[j] = boot.me

(* Memory: a low page is left for each turn to come and one for the first  *)
(* process, which comes last.                                              *)
Passed(b) == IF \E j \in 1 .. b.k - 1 : b.cpus[j] = b.me THEN 1 ELSE 0
PagesInv ==
  /\ boot.pc \in Reading => boot.k = 1
  /\ boot.pc \in Reading \ {"kinit1"} => boot.free = LowPages
  /\ boot.pc \in StartingUp =>
       boot.free \subseteq LowPages /\ boot.k <= Len(boot.cpus) + 1
  /\ boot.pc \in Turn => boot.k <= Len(boot.cpus) /\ boot.cpus[boot.k] # boot.me
  /\ boot.pc = "startothers" => Cardinality(boot.free) + boot.k - 1 >= NCPU + Passed(boot)
  /\ boot.pc \in Turn => Cardinality(boot.free) + boot.k >= NCPU + Passed(boot)
  /\ boot.pc \in {"kinit2", "userinit"} => boot.free \cap LowPages # {}
  /\ boot.pc \in {"userinit"} \cup WithProcess => boot.uselock /\ HighPages \subseteq boot.free
  /\ boot.pc \notin WithProcess => boot.init = "none"

(* Stacks: from the low pages that are not free; the one that waits is of  *)
(* the processor whose turn it is.                                         *)
Waiting(b, i) == b.pc = "waits" /\ i = b.cpus[b.k]
Begun(b, i) ==
  /\ b.pc \in Routed
  /\ \E j \in 1 .. Len(b.cpus) : b.cpus[j] = i /\ (j < b.k \/ (j = b.k /\ b.pc = "waits"))
ApOk(b, i, a) ==
  /\ a.started <=> a.pc = "scheduler"
  /\ a.pc # "halted" => Begun(b, i)
  /\ a.pc \in {"start", "start32"} => Waiting(b, i)
  /\ a.stack # 0 => a.stack \in LowPages \ b.free /\ a.pc \notin {"halted", "start", "start32"}
  /\ b.pc \in Turn /\ a.stack = b.stack => Waiting(b, i)
StacksInv ==
  /\ \A i \in ApicIds : ApOk(boot, i, ap[i])
  /\ \A i, j \in ApicIds : i # j /\ ap[i].stack # 0 => ap[i].stack # ap[j].stack
  /\ boot.pc \in Turn => boot.stack \in LowPages \ boot.free

BootInv == BootTypes /\ TableInv /\ PagesInv /\ StacksInv

LEMMA BootSizes ==
  /\ NCPU \in Nat \ {0} /\ LowPages \subseteq Nat \ {0} /\ HighPages \subseteq Nat \ {0}
  /\ \A low \in LowPages, high \in HighPages : low < high
  /\ IsFiniteSet(LowPages) /\ Cardinality(LowPages) >= NCPU /\ Cardinality(LowPages) \in Nat
<1>1. IsFiniteSet(LowPages) BY BootAssumption
<1>2. Cardinality(LowPages) \in Nat BY <1>1, FS_CardinalityType
<1> QED BY <1>2, BootAssumption

LEMMA TablesAre ==
  ASSUME NEW t \in MpTables
  PROVE  /\ Len(t) \in Nat /\ DOMAIN t = 1 .. Len(t)
         /\ \A i \in DOMAIN t : t[i].id \in MpIds
         /\ \A i, j \in DOMAIN t :
              t[i].type = "MPPROC" /\ t[j].type = "MPPROC" /\ t[i].id = t[j].id => i = j
<1>1. PICK R : R = [type : STRING, id : Nat] OBVIOUS
<1>2. t \in Seq(R) BY <1>1, BootAssumption
<1>3. Len(t) \in Nat /\ DOMAIN t = 1 .. Len(t) BY <1>2, LenProperties
<1>4. \A i \in DOMAIN t : t[i].id \in MpIds BY DEF MpIds
<1> QED BY <1>3, <1>4, BootAssumption

LEMMA CallsFollow ==
  /\ NextCall("kinit1") = "mpsearch" /\ NextCall("mpsearch") = "mpinit"
  /\ NextCall("mpinit") = "seginit" /\ NextCall("seginit") = "ioapicinit"
  /\ NextCall("ioapicinit") = "startothers" /\ NextCall("startothers") = "kinit2"
  /\ NextCall("kinit2") = "userinit" /\ NextCall("userinit") = "mpmain"
<1>1. Len(MainCalls) - 1 = 8 BY DEF MainCalls
<1>2. /\ MainCalls[1] = "kinit1" /\ MainCalls[2] = "mpsearch" /\ MainCalls[3] = "mpinit"
      /\ MainCalls[4] = "seginit" /\ MainCalls[5] = "ioapicinit" /\ MainCalls[6] = "startothers"
      /\ MainCalls[7] = "kinit2" /\ MainCalls[8] = "userinit" /\ MainCalls[9] = "mpmain"
  BY DEF MainCalls
<1>3. ASSUME NEW i \in 1 .. 8 PROVE NextCall(MainCalls[i]) = MainCalls[1 + i]
  <2>1. \A j \in 1 .. 8 : MainCalls[j] = MainCalls[i] => j = i
    BY <1>2, i \in {1, 2, 3, 4, 5, 6, 7, 8}, \A j \in 1 .. 8 : j \in {1, 2, 3, 4, 5, 6, 7, 8}
  <2>2. (CHOOSE j \in 1 .. 8 : MainCalls[j] = MainCalls[i]) = i BY <2>1
  <2> QED BY <1>1, <2>2 DEF NextCall
<1>4. \A i \in {1, 2, 3, 4, 5, 6, 7, 8} : NextCall(MainCalls[i]) = MainCalls[1 + i]
  BY <1>3, \A i \in {1, 2, 3, 4, 5, 6, 7, 8} : i \in 1 .. 8
<1> QED BY <1>2, <1>4

(* A step of the first processor with which no turn begins or goes on, that *)
(* takes nothing back to the low pages, and lets no processor stay in the  *)
(* entry code.                                                             *)
LEMMA StacksFrame ==
  ASSUME StacksInv, ap' = ap, boot'.pc \notin Turn,
         boot'.free \cap LowPages \subseteq boot.free,
         \A i \in ApicIds : Begun(boot, i) => Begun(boot', i),
         \A i \in ApicIds : ap[i].pc \notin {"start", "start32"}
  PROVE  StacksInv'
<1>1. PICK b, nb, a : b = boot /\ nb = boot' /\ a = ap OBVIOUS
<1>2. ASSUME NEW i \in ApicIds PROVE ApOk(nb, i, a[i])
  <2>1. ApOk(b, i, a[i]) BY <1>1 DEF StacksInv
  <2>2. Begun(b, i) => Begun(nb, i) BY <1>1
  <2>3. a[i].pc \notin {"start", "start32"} BY <1>1
  <2>4. nb.free \cap LowPages \subseteq b.free /\ nb.pc \notin Turn BY <1>1
  <2> HIDE DEF Begun
  <2> QED BY <2>1, <2>2, <2>3, <2>4 DEF ApOk
<1> QED BY <1>1, <1>2 DEF StacksInv

(* Before startothers() all the others are halted.                         *)
LEMMA AllHalted ==
  ASSUME StacksInv, boot.pc \in Reading
  PROVE  \A i \in ApicIds : ap[i].pc = "halted" /\ ap[i].stack = 0 /\ ~Begun(boot, i)
<1>1. boot.pc \notin Routed BY DEF Reading, Routed, StartingUp, Turn, WithProcess
<1> QED BY <1>1 DEF StacksInv, ApOk, Begun

LEMMA StacksWhileReading ==
  ASSUME StacksInv, boot.pc \in Reading, ap' = ap, boot'.pc \notin Turn
  PROVE  StacksInv'
<1>1. PICK b, nb, a : b = boot /\ nb = boot' /\ a = ap OBVIOUS
<1>2. \A i \in ApicIds : a[i].pc = "halted" /\ a[i].stack = 0 /\ ~a[i].started
  BY <1>1, AllHalted DEF StacksInv, ApOk
<1>3. \A i \in ApicIds : ApOk(nb, i, a[i])
  BY <1>1, <1>2 DEF ApOk
<1> QED BY <1>1, <1>2, <1>3 DEF StacksInv

LEMMA Kinit1Keeps ==
  ASSUME BootInv, Kinit1
  PROVE  BootInv'
<1>1. PICK b \in BootRec : b = boot /\ b.pc = "kinit1" BY DEF BootInv, BootTypes, Kinit1, BootAt
<1>2. PICK me \in ApicIds, t \in MpTables :
        boot' = [[b EXCEPT !.me = me, !.table = t, !.free = LowPages] EXCEPT !.pc = "mpsearch"] /\ ap' = ap
  <2>1. PICK me \in ApicIds, t \in MpTables : Proceed([boot EXCEPT !.me = me, !.table = t, !.free = LowPages])
    BY DEF Kinit1
  <2>2. NextCall(boot.pc) = "mpsearch" BY <1>1, CallsFollow
  <2> QED BY <1>1, <2>1, <2>2 DEF Proceed, BootDo
<1>3. PICK L \in SUBSET Nat : L = LowPages BY BootSizes
<1>4. [[b EXCEPT !.me = me, !.table = t, !.free = L] EXCEPT !.pc = "mpsearch"] \in BootRec
  BY DEF BootRec, Booting, Reading
<1>5. PICK nb \in BootRec :
        /\ nb = boot' /\ nb.pc = "mpsearch" /\ nb.free = LowPages /\ nb.cpus = b.cpus /\ nb.k = b.k
        /\ nb.init = b.init
  BY <1>2, <1>3, <1>4 DEF BootRec
<1>6. BootTypes' BY <1>2, <1>5 DEF BootInv, BootTypes
<1>7. TableInv'
  <2>1. nb.cpus = <<>> /\ Len(nb.cpus) = 0 BY <1>1, <1>5 DEF BootInv, TableInv
  <2>2. 1 .. Len(nb.cpus) = {} BY <2>1
  <2>3. nb.pc \notin {"ioapicinit"} \cup Routed BY <1>5 DEF Routed, StartingUp, Turn, WithProcess
  <2> QED BY <1>5, <2>1, <2>2, <2>3, BootSizes DEF TableInv
<1>8. PagesInv'
  BY <1>1, <1>5 DEF BootInv, PagesInv, Reading, StartingUp, Turn, WithProcess
<1>9. StacksInv'
  BY <1>1, <1>2, <1>5, StacksWhileReading DEF BootInv, Reading, Turn
<1> QED BY <1>6, <1>7, <1>8, <1>9 DEF BootInv

LEMMA PanicKeeps ==
  ASSUME BootInv, PanicAtBoot, boot.pc \in Reading
  PROVE  BootInv'
<1>1. PICK b \in BootRec : b = boot BY DEF BootInv, BootTypes
<1>2. [b EXCEPT !.pc = "panicked"] \in BootRec BY DEF BootRec, Booting
<1>3. PICK nb \in BootRec :
        /\ nb = boot' /\ nb.pc = "panicked" /\ nb.cpus = b.cpus /\ nb.init = b.init
        /\ nb.table = b.table /\ nb.pos = b.pos
  BY <1>1, <1>2 DEF PanicAtBoot, BootDo, BootRec
<1>4. ap' = ap BY DEF PanicAtBoot, BootDo
<1>5. nb.pc \notin {"ioapicinit"} \cup Routed /\ nb.pc \notin Reading /\ nb.pc \notin Turn
      /\ nb.pc # "kinit1"
  BY <1>3 DEF Reading, Routed, StartingUp, Turn, WithProcess
<1>6. BootTypes' BY <1>3, <1>4 DEF BootInv, BootTypes
<1>7. TableInv' BY <1>1, <1>3, <1>5 DEF BootInv, TableInv
<1>8. PagesInv'
  <2>1. b.init = "none" BY <1>1 DEF BootInv, PagesInv, Reading, WithProcess
  <2> QED BY <1>3, <1>5, <2>1 DEF PagesInv, Reading, StartingUp, Turn, WithProcess
<1>9. StacksInv' BY <1>3, <1>4, <1>5, StacksWhileReading DEF BootInv
<1> QED BY <1>6, <1>7, <1>8, <1>9 DEF BootInv

(* The calls up to ioapicinit() change only what the table has said.       *)
LEMMA ReadingOn ==
  ASSUME BootInv, NEW pc \in {"mpinit", "seginit", "ioapicinit"}, boot.pc \in Reading \ {"kinit1"},
         boot' = [boot EXCEPT !.pc = pc], ap' = ap,
         pc = "ioapicinit" => \E j \in 1 .. Len(boot.cpus) : boot.cpus[j] = boot.me
  PROVE  BootInv'
<1>1. PICK b \in BootRec : b = boot BY DEF BootInv, BootTypes
<1>2. [b EXCEPT !.pc = pc] \in BootRec BY DEF BootRec, Booting, Reading
<1>3. PICK nb \in BootRec :
        /\ nb = boot' /\ nb.pc = pc /\ nb.cpus = b.cpus /\ nb.init = b.init /\ nb.me = b.me
        /\ nb.table = b.table /\ nb.pos = b.pos /\ nb.k = b.k /\ nb.free = b.free
  BY <1>1, <1>2 DEF BootRec
<1>4. nb.pc \notin Routed /\ nb.pc \notin Turn /\ nb.pc # "kinit1" /\ nb.pc \in Reading \ {"kinit1"}
  BY <1>3 DEF Reading, Routed, StartingUp, Turn, WithProcess
<1>5. BootTypes' BY <1>3 DEF BootInv, BootTypes
<1>6. TableInv' BY <1>1, <1>3, <1>4 DEF BootInv, TableInv
<1>7. PagesInv'
  <2>1. b.init = "none" BY <1>1 DEF BootInv, PagesInv, Reading, WithProcess
  <2> QED BY <1>1, <1>3, <1>4, <2>1 DEF BootInv, PagesInv, Reading, StartingUp, Turn, WithProcess
<1>8. StacksInv' BY <1>3, <1>4, StacksWhileReading DEF BootInv
<1> QED BY <1>5, <1>6, <1>7, <1>8 DEF BootInv

LEMMA MpsearchKeeps ==
  ASSUME BootInv, Mpsearch
  PROVE  BootInv'
<1>1. boot.pc = "mpsearch" BY DEF Mpsearch, BootAt
<1>2. boot.pc \in Reading \ {"kinit1"} BY <1>1 DEF Reading
<1>3. Proceed(boot) \/ PanicAtBoot BY DEF Mpsearch
<1>4. Proceed(boot) => boot' = [boot EXCEPT !.pc = "mpinit"] /\ ap' = ap
  BY <1>1, CallsFollow DEF Proceed, BootDo
<1> QED BY <1>2, <1>3, <1>4, PanicKeeps, ReadingOn

LEMMA MpinitDoneKeeps ==
  ASSUME BootInv, MpinitDone
  PROVE  BootInv'
<1>1. boot.pc = "mpinit" BY DEF MpinitDone, BootAt
<1>2. boot.pc \in Reading \ {"kinit1"} BY <1>1 DEF Reading
<1>3. boot' = [boot EXCEPT !.pc = "seginit"] /\ ap' = ap
  BY <1>1, CallsFollow DEF MpinitDone, Proceed, BootDo
<1> QED BY <1>2, <1>3, ReadingOn

LEMMA InCpus ==
  ASSUME BootTypes
  PROVE  /\ Len(boot.cpus) \in Nat
         /\ ToSet(boot.cpus) = {boot.cpus[j] : j \in 1 .. Len(boot.cpus)}
<1>1. PICK cpus \in Seq(MpIds) : cpus = boot.cpus BY DEF BootTypes, BootRec
<1>2. Len(cpus) \in Nat /\ DOMAIN cpus = 1 .. Len(cpus) BY LenProperties
<1> QED BY <1>1, <1>2 DEF ToSet

LEMMA SeginitKeeps ==
  ASSUME BootInv, Seginit
  PROVE  BootInv'
<1>1. boot.pc = "seginit" BY DEF Seginit, BootAt
<1>2. boot.pc \in Reading \ {"kinit1"} BY <1>1 DEF Reading
<1>3. CASE boot.me \in ToSet(boot.cpus)
  <2>1. boot' = [boot EXCEPT !.pc = "ioapicinit"] /\ ap' = ap
    BY <1>1, <1>3, CallsFollow DEF Seginit, Proceed, BootDo
  <2>2. \E j \in 1 .. Len(boot.cpus) : boot.cpus[j] = boot.me BY <1>3, InCpus DEF BootInv
  <2> QED BY <1>2, <2>1, <2>2, ReadingOn
<1>4. CASE boot.me \notin ToSet(boot.cpus)
  BY <1>2, <1>4, PanicKeeps DEF Seginit
<1> QED BY <1>3, <1>4

LEMMA MpinitEntryKeeps ==
  ASSUME BootInv, MpinitEntry
  PROVE  BootInv'
<1>1. PICK b \in BootRec : b = boot /\ b.pc = "mpinit" /\ b.pos <= Len(b.table)
  BY DEF BootInv, BootTypes, MpinitEntry, BootAt
<1>2. PICK t \in MpTables : t = b.table
  <2>1. b.table \in MpTables \/ b.table = <<>> BY DEF BootRec
  <2>2. Len(<<>>) = 0 /\ b.pos \in Nat \ {0} BY DEF BootRec
  <2> QED BY <1>1, <2>1, <2>2
<1>3. PICK p \in DOMAIN t : p = b.pos
  BY <1>1, <1>2, TablesAre DEF BootRec
<1>4. PICK cpus \in Seq(MpIds) : cpus = b.cpus BY DEF BootRec
<1>5. PICK ncpus : ncpus = IF t[p].type = "MPPROC" /\ Len(cpus) < NCPU THEN Append(cpus, t[p].id) ELSE cpus
  OBVIOUS
<1>6. t[p].id \in MpIds BY TablesAre
<1>7. ncpus \in Seq(MpIds) BY <1>5, <1>6, AppendProperties
<1>8. boot' = [b EXCEPT !.pos = p + 1, !.cpus = ncpus] /\ ap' = ap
  BY <1>1, <1>2, <1>3, <1>4, <1>5 DEF MpinitEntry, BootDo
<1>9. p \in Nat \ {0} /\ p + 1 \in Nat \ {0} BY <1>3, TablesAre
<1>10. [b EXCEPT !.pos = p + 1, !.cpus = ncpus] \in BootRec BY <1>7, <1>9 DEF BootRec
<1>11. PICK nb \in BootRec :
        /\ nb = boot' /\ nb.pc = "mpinit" /\ nb.cpus = ncpus /\ nb.init = b.init /\ nb.me = b.me
        /\ nb.table = t /\ nb.pos = p + 1 /\ nb.k = b.k /\ nb.free = b.free
  BY <1>1, <1>2, <1>8, <1>10 DEF BootRec
<1>12. nb.pc \notin {"ioapicinit"} \cup Routed /\ nb.pc \notin Turn /\ nb.pc # "kinit1" /\ nb.pc \in Reading \ {"kinit1"}
  BY <1>11 DEF Reading, Routed, StartingUp, Turn, WithProcess
<1>13. BootTypes' BY <1>8, <1>11 DEF BootInv, BootTypes
<1>14. TableInv'
  <2>1. PICK n \in Nat : n = Len(cpus) BY LenProperties
  <2>2. /\ n <= NCPU /\ \A i, j \in 1 .. n : cpus[i] = cpus[j] => i = j
        /\ \A j \in 1 .. n : InTable(t, p, cpus[j])
    BY <1>1, <1>2, <1>3, <1>4, <2>1 DEF BootInv, TableInv
  <2>3. \A id : InTable(t, p, id) => InTable(t, p + 1, id) BY <1>9 DEF InTable
  <2>4. CASE ncpus = cpus
    BY <1>4, <1>11, <1>12, <2>1, <2>2, <2>3, <2>4 DEF TableInv
  <2>5. CASE t[p].type = "MPPROC" /\ Len(cpus) < NCPU
    <3>1. ncpus = Append(cpus, t[p].id) BY <1>5, <2>5
    <3>2. Len(ncpus) = n + 1 /\ ncpus[n + 1] = t[p].id /\ \A i \in 1 .. n : ncpus[i] = cpus[i]
      BY <1>6, <2>1, <3>1, AppendProperties
    <3>3. n + 1 <= NCPU BY <2>1, <2>5, BootSizes
    <3>4. ~InTable(t, p, t[p].id)
      <4> SUFFICES ASSUME NEW q \in 1 .. p - 1, q \in DOMAIN t, t[q].type = "MPPROC", t[q].id = t[p].id
                   PROVE  FALSE
        BY DEF InTable
      <4>1. q = p BY <2>5, TablesAre
      <4> QED BY <1>9, <4>1
    <3>5. InTable(t, p + 1, t[p].id) BY <1>9, <2>5 DEF InTable
    <3>6. ASSUME NEW i \in 1 .. n + 1, NEW j \in 1 .. n + 1, ncpus[i] = ncpus[j] PROVE i = j
      <4> HIDE DEF InTable
      <4>1. CASE i \in 1 .. n /\ j \in 1 .. n BY <2>2, <3>2, <3>6, <4>1
      <4>2. CASE i = n + 1 /\ j = n + 1 BY <4>2
      <4>3. CASE i \in 1 .. n /\ j = n + 1 BY <2>2, <3>2, <3>4, <3>6, <4>3
      <4>4. CASE i = n + 1 /\ j \in 1 .. n BY <2>2, <3>2, <3>4, <3>6, <4>4
      <4> QED BY <2>1, <4>1, <4>2, <4>3, <4>4
    <3>7. ASSUME NEW j \in 1 .. n + 1 PROVE InTable(t, p + 1, ncpus[j])
      <4>1. j \in 1 .. n \/ j = n + 1 BY <2>1
      <4> QED BY <2>2, <2>3, <3>2, <3>5, <4>1
    <3> QED BY <1>11, <1>12, <3>2, <3>3, <3>6, <3>7 DEF TableInv
  <2> QED BY <1>5, <2>4, <2>5
<1>15. PagesInv'
  <2>1. b.init = "none" BY <1>1 DEF BootInv, PagesInv, Reading, WithProcess
  <2> QED BY <1>1, <1>11, <1>12, <2>1 DEF BootInv, PagesInv, Reading, StartingUp, Turn, WithProcess
<1>16. StacksInv' BY <1>1, <1>8, <1>11, <1>12, StacksWhileReading DEF BootInv, Reading
<1> QED BY <1>13, <1>14, <1>15, <1>16 DEF BootInv

LEMMA IoapicinitKeeps ==
  ASSUME BootInv, Ioapicinit
  PROVE  BootInv'
<1>1. PICK b \in BootRec : b = boot /\ b.pc = "ioapicinit" BY DEF BootInv, BootTypes, Ioapicinit, BootAt
<1>2. PICK n \in Nat : n = Len(b.cpus) BY <1>1, InCpus DEF BootInv
<1>3. boot' = [[b EXCEPT !.disk = n - 1] EXCEPT !.pc = "startothers"] /\ ap' = ap
  <2>1. NextCall(boot.pc) = "startothers" BY <1>1, CallsFollow
  <2> QED BY <1>1, <1>2, <2>1 DEF Ioapicinit, LastCpu, Proceed, BootDo
<1>4. n - 1 \in Int OBVIOUS
<1>5. [[b EXCEPT !.disk = n - 1] EXCEPT !.pc = "startothers"] \in BootRec
  BY <1>4 DEF BootRec, Booting, Routed, StartingUp
<1>6. PICK nb \in BootRec :
        /\ nb = boot' /\ nb.pc = "startothers" /\ nb.cpus = b.cpus /\ nb.init = b.init /\ nb.me = b.me
        /\ nb.table = b.table /\ nb.pos = b.pos /\ nb.k = b.k /\ nb.free = b.free /\ nb.disk = n - 1
  BY <1>3, <1>5 DEF BootRec
<1>7. nb.pc \notin Reading /\ nb.pc \in StartingUp /\ nb.pc \notin Turn
      /\ nb.pc \notin {"userinit", "kinit2"} \cup WithProcess
  BY <1>6 DEF Reading, StartingUp, Turn, WithProcess
<1>8. BootTypes' BY <1>3, <1>6 DEF BootInv, BootTypes
<1>9. TableInv' BY <1>1, <1>2, <1>6 DEF BootInv, TableInv
<1>10. PagesInv'
  <2>1. b.init = "none" /\ b.k = 1 /\ b.free = LowPages
    BY <1>1 DEF BootInv, PagesInv, Reading, WithProcess
  <2>2. Passed(nb) = 0 BY <1>6, <2>1 DEF Passed
  <2>3. Cardinality(nb.free) + nb.k - 1 >= NCPU + Passed(nb) BY <1>6, <2>1, <2>2, BootSizes
  <2>4. nb.k <= Len(nb.cpus) + 1 BY <1>2, <1>6, <2>1
  <2> HIDE DEF Passed
  <2> QED BY <1>6, <1>7, <2>1, <2>3, <2>4 DEF PagesInv
<1>11. StacksInv' BY <1>1, <1>3, <1>6, <1>7, StacksWhileReading DEF BootInv, Reading
<1> QED BY <1>8, <1>9, <1>10, <1>11 DEF BootInv

(* startothers().                                                          *)
LEMMA StartingIs ==
  ASSUME BootInv, boot.pc \in StartingUp
  PROVE  /\ Len(boot.cpus) \in Nat /\ Len(boot.cpus) <= NCPU /\ boot.k \in Nat \ {0}
         /\ boot.k <= Len(boot.cpus) + 1
         /\ boot.free \in SUBSET LowPages /\ IsFiniteSet(boot.free) /\ Cardinality(boot.free) \in Nat
         /\ Passed(boot) \in {0, 1}
         /\ boot.init = "none"
         /\ \E j \in 1 .. Len(boot.cpus) : boot.cpus[j] = boot.me
<1>1. boot.pc \in Routed /\ boot.pc \notin WithProcess BY DEF StartingUp, Routed, WithProcess, Turn
<1>2. boot.k \in Nat \ {0} BY DEF BootInv, BootTypes, BootRec
<1>3. Len(boot.cpus) \in Nat BY InCpus DEF BootInv
<1>4. PICK S \in SUBSET LowPages : S = boot.free BY DEF BootInv, PagesInv
<1>5. IsFiniteSet(S) /\ Cardinality(S) \in Nat BY BootSizes, FS_Subset, FS_CardinalityType
<1>6. Passed(boot) \in {0, 1} BY DEF Passed
<1>7. /\ Len(boot.cpus) <= NCPU
      /\ \E j \in 1 .. Len(boot.cpus) : boot.cpus[j] = boot.me
  BY <1>1 DEF BootInv, TableInv
<1>8. boot.k <= Len(boot.cpus) + 1 /\ boot.init = "none" BY <1>1 DEF BootInv, PagesInv
<1> QED BY <1>2, <1>3, <1>4, <1>5, <1>6, <1>7, <1>8

LEMMA SkipsItselfKeeps ==
  ASSUME BootInv, SkipsItself
  PROVE  BootInv'
<1>1. PICK b \in BootRec :
        b = boot /\ b.pc = "startothers" /\ b.k <= Len(b.cpus) /\ b.cpus[b.k] = b.me
  BY DEF BootInv, BootTypes, SkipsItself, Starting, NextCpu, BootAt
<1>2. boot.pc \in StartingUp BY <1>1 DEF StartingUp
<1>3. PICK k \in Nat \ {0} : k = b.k BY DEF BootRec
<1>4. boot' = [b EXCEPT !.k = k + 1] /\ ap' = ap BY <1>1, <1>3 DEF SkipsItself, BootDo
<1>5. k + 1 \in Nat \ {0} OBVIOUS
<1>6. [b EXCEPT !.k = k + 1] \in BootRec BY <1>5 DEF BootRec
<1>7. PICK nb \in BootRec :
        /\ nb = boot' /\ nb.pc = b.pc /\ nb.cpus = b.cpus /\ nb.init = b.init /\ nb.me = b.me
        /\ nb.table = b.table /\ nb.pos = b.pos /\ nb.k = k + 1 /\ nb.free = b.free /\ nb.disk = b.disk
  BY <1>4, <1>6 DEF BootRec
<1>8. nb.pc \notin Reading /\ nb.pc \in StartingUp /\ nb.pc \notin Turn
      /\ nb.pc \notin {"userinit", "kinit2"} \cup WithProcess
  BY <1>1, <1>7 DEF Reading, StartingUp, Turn, WithProcess
<1>9. BootTypes' BY <1>4, <1>7 DEF BootInv, BootTypes
<1>10. TableInv' BY <1>1, <1>7 DEF BootInv, TableInv
<1>11. PagesInv'
  <2>1. Passed(b) = 0
    <3>1. \A j \in 1 .. k - 1 : b.cpus[j] # b.me
      <4> TAKE j \in 1 .. k - 1
      <4>1. j \in 1 .. Len(b.cpus) /\ k \in 1 .. Len(b.cpus) /\ j # k BY <1>1, <1>2, <1>3, StartingIs
      <4> QED BY <1>1, <1>3, <4>1 DEF BootInv, TableInv
    <3> QED BY <1>3, <3>1 DEF Passed
  <2>2. Cardinality(b.free) + k - 1 >= NCPU BY <1>1, <1>2, <1>3, <2>1, BootSizes, StartingIs DEF BootInv, PagesInv
  <2>3. Passed(nb) <= 1 /\ Passed(nb) \in Nat BY DEF Passed
  <2>4. Cardinality(nb.free) + nb.k - 1 >= NCPU + Passed(nb)
    BY <1>1, <1>2, <1>7, <2>2, <2>3, BootSizes, StartingIs
  <2>5. nb.k <= Len(nb.cpus) + 1 BY <1>1, <1>2, <1>3, <1>7, StartingIs
  <2> QED BY <1>1, <1>2, <1>7, <1>8, <2>4, <2>5, StartingIs DEF PagesInv
<1>12. StacksInv'
  <2>1. \A i \in ApicIds : Begun(boot, i) => Begun(boot', i)
    BY <1>1, <1>3, <1>7, InCpus DEF Begun, BootInv
  <2>2. \A i \in ApicIds : ap[i].pc \notin {"start", "start32"}
    BY <1>1 DEF BootInv, StacksInv, ApOk, Waiting
  <2> QED BY <1>1, <1>4, <1>7, <1>8, <2>1, <2>2, StacksFrame DEF BootInv
<1> QED BY <1>9, <1>10, <1>11, <1>12 DEF BootInv

LEMMA StartothersKeeps ==
  ASSUME BootInv, Startothers
  PROVE  BootInv'
<1>1. PICK b \in BootRec :
        b = boot /\ b.pc = "startothers" /\ b.k <= Len(b.cpus) /\ b.cpus[b.k] # b.me
  BY DEF BootInv, BootTypes, Startothers, Starting, NextCpu, BootAt
<1>2. boot.pc \in StartingUp BY <1>1 DEF StartingUp
<1>3. PICK S \in SUBSET LowPages : S = b.free BY <1>1, <1>2, StartingIs
<1>4. Cardinality(S) + b.k - 1 >= NCPU + Passed(b) BY <1>1, <1>3 DEF BootInv, PagesInv
<1>5. /\ Cardinality(S) \in Nat /\ IsFiniteSet(S) /\ b.k \in Nat /\ Len(b.cpus) \in Nat
      /\ Len(b.cpus) <= NCPU /\ NCPU \in Nat /\ Passed(b) \in {0, 1}
  BY <1>1, <1>2, <1>3, StartingIs, BootSizes
<1>6. S # {}
  <2>1. Cardinality(S) >= 1 BY <1>1, <1>4, <1>5
  <2> QED BY <2>1, FS_EmptySet
<1>7. PICK page \in S : page = Min(S) BY <1>6, BootSizes, FirstIn
<1>8. PICK T \in SUBSET LowPages : T = S \ {page} OBVIOUS
<1>9. Cardinality(T) = Cardinality(S) - 1 BY <1>5, <1>8, FS_RemoveElement
<1>10. boot' = [b EXCEPT !.pc = "lapicstartap", !.stack = page, !.free = T] /\ ap' = ap
  BY <1>1, <1>3, <1>7, <1>8 DEF Startothers, BootDo
<1>11. page \in Nat \ {0} /\ page \in LowPages /\ T \in SUBSET Nat BY BootSizes
<1>12. [b EXCEPT !.pc = "lapicstartap", !.stack = page, !.free = T] \in BootRec
  BY <1>11 DEF BootRec, Booting, Routed, StartingUp, Turn
<1>13. PICK nb \in BootRec :
        /\ nb = boot' /\ nb.pc = "lapicstartap" /\ nb.cpus = b.cpus /\ nb.init = b.init /\ nb.me = b.me
        /\ nb.table = b.table /\ nb.pos = b.pos /\ nb.k = b.k /\ nb.free = T /\ nb.disk = b.disk
        /\ nb.stack = page
  BY <1>10, <1>12 DEF BootRec
<1>14. nb.pc \notin Reading /\ nb.pc \in StartingUp /\ nb.pc \in Turn
      /\ nb.pc \notin {"userinit", "kinit2", "startothers"} \cup WithProcess
  BY <1>13 DEF Reading, StartingUp, Turn, WithProcess
<1>15. BootTypes' BY <1>10, <1>13 DEF BootInv, BootTypes
<1>16. TableInv' BY <1>1, <1>2, <1>13, StartingIs DEF BootInv, TableInv
<1>17. PagesInv'
  <2>1. Passed(nb) = Passed(b) BY <1>13 DEF Passed
  <2>2. Cardinality(nb.free) + nb.k >= NCPU + Passed(nb) BY <1>4, <1>5, <1>9, <1>13, <2>1
  <2>3. nb.k <= Len(nb.cpus) + 1 BY <1>1, <1>5, <1>13
  <2> QED BY <1>1, <1>2, <1>8, <1>13, <1>14, <2>2, <2>3, StartingIs DEF PagesInv
<1>18. StacksInv'
  <2>1. PICK a : a = ap OBVIOUS
  <2>2. ASSUME NEW i \in ApicIds PROVE ApOk(nb, i, a[i])
    <3>1. ApOk(b, i, a[i]) BY <1>1, <2>1 DEF BootInv, StacksInv
    <3>2. Begun(b, i) => Begun(nb, i) BY <1>1, <1>13, <1>14 DEF Begun, Routed
    <3>3. ~Waiting(b, i) BY <1>1 DEF Waiting
    <3>4. a[i].stack # page
      BY <1>3, <1>11, <3>1 DEF ApOk
    <3> QED BY <1>3, <1>8, <1>13, <3>1, <3>2, <3>3, <3>4 DEF ApOk
  <2>3. nb.stack \in LowPages \ nb.free BY <1>8, <1>11, <1>13
  <2> QED BY <1>10, <1>13, <2>1, <2>2, <2>3 DEF BootInv, StacksInv
<1> QED BY <1>15, <1>16, <1>17, <1>18 DEF BootInv

LEMMA LapicstartapKeeps ==
  ASSUME BootInv, Lapicstartap
  PROVE  BootInv'
<1>1. PICK b \in BootRec : b = boot /\ b.pc = "lapicstartap"
  BY DEF BootInv, BootTypes, Lapicstartap, BootAt
<1>2. boot.pc \in StartingUp /\ boot.pc \in Turn BY <1>1 DEF StartingUp, Turn
<1>3. b.k \in Nat \ {0} /\ b.k <= Len(b.cpus) /\ b.cpus[b.k] # b.me /\ Len(b.cpus) \in Nat
  BY <1>1, <1>2, StartingIs DEF BootInv, PagesInv
<1>4. boot' = [b EXCEPT !.pc = "waits"] BY <1>1 DEF Lapicstartap
<1>5. [b EXCEPT !.pc = "waits"] \in BootRec BY DEF BootRec, Booting, Routed, StartingUp, Turn
<1>6. PICK nb \in BootRec :
        /\ nb = boot' /\ nb.pc = "waits" /\ nb.cpus = b.cpus /\ nb.init = b.init /\ nb.me = b.me
        /\ nb.table = b.table /\ nb.pos = b.pos /\ nb.k = b.k /\ nb.free = b.free /\ nb.disk = b.disk
        /\ nb.stack = b.stack
  BY <1>4, <1>5 DEF BootRec
<1>7. nb.pc \notin Reading /\ nb.pc \in StartingUp /\ nb.pc \in Turn /\ nb.pc \in Routed
      /\ nb.pc \notin {"userinit", "kinit2", "startothers"} \cup WithProcess
  BY <1>6 DEF Reading, StartingUp, Turn, WithProcess, Routed
<1>8. PICK a \in [ApicIds -> ApRec] : a = ap BY DEF BootInv, BootTypes
<1>9. PICK c : c = b.cpus[b.k] OBVIOUS
<1>10. \A i \in ApicIds : ApOk(b, i, a[i]) BY <1>1, <1>8 DEF BootInv, StacksInv
<1>11. c \in ApicIds => a[c].pc = "halted"
  <2> SUFFICES ASSUME c \in ApicIds, a[c].pc # "halted" PROVE FALSE OBVIOUS
  <2>1. PICK j \in 1 .. Len(b.cpus) : b.cpus[j] = c /\ j < b.k
    BY <1>1, <1>10 DEF ApOk, Begun
  <2>2. b.k \in 1 .. Len(b.cpus) BY <1>3
  <2>3. j = b.k BY <1>1, <1>9, <2>1, <2>2 DEF BootInv, TableInv
  <2> QED BY <1>3, <2>1, <2>3
<1>12. PICK na : na = IF c \in ApicIds THEN [a EXCEPT ![c].pc = "start"] ELSE a OBVIOUS
<1>13. ap' = na BY <1>1, <1>8, <1>9, <1>12 DEF Lapicstartap, ApicTarget, NextCpu
<1>14. na \in [ApicIds -> ApRec]
  <2>1. CASE c \in ApicIds
    <3>1. [a[c] EXCEPT !.pc = "start"] \in ApRec BY <2>1 DEF ApRec
    <3> QED BY <1>12, <2>1, <3>1
  <2> QED BY <1>12, <2>1
<1>15. \A i \in ApicIds : na[i] = IF i = c THEN [a[i] EXCEPT !.pc = "start"] ELSE a[i]
  BY <1>12
<1>16. \A i \in ApicIds : na[i].stack = a[i].stack /\ na[i].started = a[i].started
                        /\ na[i].pc = IF i = c THEN "start" ELSE a[i].pc
  BY <1>15 DEF ApRec
<1>17. BootTypes' BY <1>6, <1>13, <1>14 DEF BootTypes
<1>18. TableInv' BY <1>1, <1>2, <1>6, StartingIs DEF BootInv, TableInv
<1>19. PagesInv'
  <2>1. Passed(nb) = Passed(b) BY <1>6 DEF Passed
  <2>2. Cardinality(nb.free) + nb.k >= NCPU + Passed(nb) BY <1>1, <1>2, <1>6, <2>1 DEF BootInv, PagesInv
  <2> QED BY <1>1, <1>2, <1>3, <1>6, <1>7, <2>2, StartingIs DEF PagesInv
<1>20. StacksInv'
  <2>1. ASSUME NEW i \in ApicIds PROVE ApOk(nb, i, na[i])
    <3>1. ApOk(b, i, a[i]) BY <1>10
    <3>2. CASE i = c
      <4>1. Waiting(nb, i) BY <1>6, <1>9, <3>2 DEF Waiting
      <4>2. b.k \in 1 .. Len(b.cpus) BY <1>3
      <4>3. Begun(nb, i) BY <1>6, <1>7, <1>9, <3>2, <4>2 DEF Begun
      <4>4. a[i].stack = 0 /\ ~a[i].started BY <1>11, <3>1, <3>2 DEF ApOk
      <4> QED BY <1>16, <3>2, <4>1, <4>3, <4>4 DEF ApOk
    <3>3. CASE i # c
      <4>1. ~Waiting(b, i) BY <1>1 DEF Waiting
      <4>2. Begun(b, i) => Begun(nb, i) BY <1>1, <1>6, <1>7 DEF Begun
      <4> QED BY <1>1, <1>2, <1>6, <1>16, <3>1, <3>3, <4>1, <4>2 DEF ApOk
    <3> QED BY <3>2, <3>3
  <2>2. \A i, j \in ApicIds : i # j /\ na[i].stack # 0 => na[i].stack # na[j].stack
    BY <1>8, <1>16 DEF BootInv, StacksInv
  <2>3. nb.stack \in LowPages \ nb.free BY <1>1, <1>2, <1>6 DEF BootInv, StacksInv
  <2> QED BY <1>6, <1>13, <2>1, <2>2, <2>3 DEF StacksInv
<1> QED BY <1>17, <1>18, <1>19, <1>20 DEF BootInv

LEMMA WaitsStartedKeeps ==
  ASSUME BootInv, WaitsStarted
  PROVE  BootInv'
<1>1. PICK b \in BootRec :
        b = boot /\ b.pc = "waits" /\ b.cpus[b.k] \in ApicIds /\ ap[b.cpus[b.k]].started
  BY DEF BootInv, BootTypes, WaitsStarted, CpuStarted, NextCpu, BootAt
<1>2. boot.pc \in StartingUp /\ boot.pc \in Turn BY <1>1 DEF StartingUp, Turn
<1>3. PICK k \in Nat \ {0} : k = b.k BY DEF BootRec
<1>4. k <= Len(b.cpus) /\ b.cpus[k] # b.me /\ Len(b.cpus) \in Nat
  BY <1>1, <1>2, <1>3, StartingIs DEF BootInv, PagesInv
<1>5. boot' = [b EXCEPT !.pc = "startothers", !.k = k + 1] /\ ap' = ap
  BY <1>1, <1>3 DEF WaitsStarted, BootDo
<1>6. k + 1 \in Nat \ {0} OBVIOUS
<1>7. [b EXCEPT !.pc = "startothers", !.k = k + 1] \in BootRec
  BY <1>6 DEF BootRec, Booting, Routed, StartingUp
<1>8. PICK nb \in BootRec :
        /\ nb = boot' /\ nb.pc = "startothers" /\ nb.cpus = b.cpus /\ nb.init = b.init /\ nb.me = b.me
        /\ nb.table = b.table /\ nb.pos = b.pos /\ nb.k = k + 1 /\ nb.free = b.free /\ nb.disk = b.disk
  BY <1>5, <1>7 DEF BootRec
<1>9. nb.pc \notin Reading /\ nb.pc \in StartingUp /\ nb.pc \notin Turn
      /\ nb.pc \notin {"userinit", "kinit2"} \cup WithProcess
  BY <1>8 DEF Reading, StartingUp, Turn, WithProcess
<1>10. BootTypes' BY <1>5, <1>8 DEF BootInv, BootTypes
<1>11. TableInv' BY <1>1, <1>2, <1>8, StartingIs DEF BootInv, TableInv
<1>12. PagesInv'
  <2>1. Passed(nb) = Passed(b)
    <3>1. (\E j \in 1 .. k : b.cpus[j] = b.me) <=> \E j \in 1 .. k - 1 : b.cpus[j] = b.me
      <4>1. \A j \in 1 .. k : j = k \/ j \in 1 .. k - 1 OBVIOUS
      <4>2. \A j \in 1 .. k - 1 : j \in 1 .. k OBVIOUS
      <4> QED BY <1>4, <4>1, <4>2
    <3>2. nb.k - 1 = k BY <1>8
    <3> QED BY <1>3, <1>8, <3>1, <3>2 DEF Passed
  <2>2. Cardinality(b.free) + k >= NCPU + Passed(b) BY <1>1, <1>2, <1>3 DEF BootInv, PagesInv
  <2>3. Cardinality(nb.free) + nb.k - 1 >= NCPU + Passed(nb)
    BY <1>1, <1>2, <1>8, <2>1, <2>2, StartingIs
  <2>4. nb.k <= Len(nb.cpus) + 1 BY <1>4, <1>8
  <2> QED BY <1>1, <1>2, <1>8, <1>9, <2>3, <2>4, StartingIs DEF PagesInv
<1>13. StacksInv'
  <2>1. \A i \in ApicIds : Begun(boot, i) => Begun(boot', i)
    <3> TAKE i \in ApicIds
    <3>1. nb.pc \in Routed BY <1>9 DEF Routed
    <3>2. \A j \in 1 .. Len(b.cpus) : j < k \/ j = k => j < k + 1 BY <1>4
    <3> QED BY <1>1, <1>3, <1>8, <3>1, <3>2 DEF Begun
  <2>2. \A i \in ApicIds : ap[i].pc \notin {"start", "start32"}
    BY <1>1 DEF BootInv, StacksInv, ApOk, Waiting
  <2> QED BY <1>1, <1>5, <1>8, <1>9, <2>1, <2>2, StacksFrame DEF BootInv
<1> QED BY <1>10, <1>11, <1>12, <1>13 DEF BootInv

LEMMA AllStartedKeeps ==
  ASSUME BootInv, AllStarted
  PROVE  BootInv'
<1>1. PICK b \in BootRec : b = boot /\ b.pc = "startothers" /\ b.k > Len(b.cpus)
  BY DEF BootInv, BootTypes, AllStarted, BootAt
<1>2. boot.pc \in StartingUp BY <1>1 DEF StartingUp
<1>3. boot' = [b EXCEPT !.pc = "kinit2"] /\ ap' = ap
  <2>1. NextCall(boot.pc) = "kinit2" BY <1>1, CallsFollow
  <2> QED BY <1>1, <2>1 DEF AllStarted, Proceed, BootDo
<1>4. [b EXCEPT !.pc = "kinit2"] \in BootRec BY DEF BootRec, Booting, Routed
<1>5. PICK nb \in BootRec :
        /\ nb = boot' /\ nb.pc = "kinit2" /\ nb.cpus = b.cpus /\ nb.init = b.init /\ nb.me = b.me
        /\ nb.table = b.table /\ nb.pos = b.pos /\ nb.k = b.k /\ nb.free = b.free /\ nb.disk = b.disk
  BY <1>3, <1>4 DEF BootRec
<1>6. nb.pc \notin Reading /\ nb.pc \notin StartingUp /\ nb.pc \notin Turn /\ nb.pc \in Routed
      /\ nb.pc \notin {"userinit"} \cup WithProcess /\ nb.pc # "startothers"
  BY <1>5 DEF Reading, StartingUp, Turn, WithProcess, Routed
<1>7. BootTypes' BY <1>3, <1>5 DEF BootInv, BootTypes
<1>8. TableInv' BY <1>1, <1>2, <1>5, StartingIs DEF BootInv, TableInv
<1>9. PagesInv'
  <2>1. Passed(b) = 1
    <3>1. PICK j \in 1 .. Len(b.cpus) : b.cpus[j] = b.me BY <1>1, <1>2, StartingIs
    <3>2. j \in 1 .. b.k - 1 BY <1>1, <1>2, <3>1, StartingIs
    <3> QED BY <3>1, <3>2 DEF Passed
  <2>2. Cardinality(b.free) + b.k - 1 >= NCPU + 1 BY <1>1, <2>1 DEF BootInv, PagesInv
  <2>3. Cardinality(b.free) >= 1 BY <1>1, <1>2, <2>2, BootSizes, StartingIs
  <2>4. b.free # {} BY <2>3, FS_EmptySet
  <2>5. nb.free \cap LowPages # {} BY <1>1, <1>2, <1>5, <2>4, StartingIs
  <2> QED BY <1>1, <1>2, <1>5, <1>6, <2>5, StartingIs DEF PagesInv
<1>10. StacksInv'
  <2>1. \A i \in ApicIds : Begun(boot, i) => Begun(boot', i)
    BY <1>1, <1>5, <1>6 DEF Begun
  <2>2. \A i \in ApicIds : ap[i].pc \notin {"start", "start32"}
    BY <1>1 DEF BootInv, StacksInv, ApOk, Waiting
  <2> QED BY <1>1, <1>3, <1>5, <1>6, <2>1, <2>2, StacksFrame DEF BootInv
<1> QED BY <1>7, <1>8, <1>9, <1>10 DEF BootInv

(* From kinit2() on cpus[] and the turns are what they were.               *)
LEMMA TurnsOver ==
  ASSUME BootInv, BootTypes', boot.pc \in {"kinit2", "userinit", "mpmain", "scheduler"},
         boot'.pc \in {"userinit", "mpmain", "scheduler"}, ap' = ap,
         boot'.cpus = boot.cpus, boot'.me = boot.me, boot'.table = boot.table, boot'.pos = boot.pos,
         boot'.k = boot.k, boot'.disk = boot.disk, boot'.free \cap LowPages \subseteq boot.free
  PROVE  TableInv' /\ StacksInv'
<1>1. boot.pc \in Routed /\ boot'.pc \in Routed /\ boot'.pc \notin Turn /\ boot.pc # "waits"
  BY DEF Routed, WithProcess, Turn
<1>2. TableInv' BY <1>1 DEF BootInv, TableInv
<1>3. \A i \in ApicIds : Begun(boot, i) => Begun(boot', i) BY <1>1 DEF Begun
<1>4. \A i \in ApicIds : ap[i].pc \notin {"start", "start32"}
  BY <1>1 DEF BootInv, StacksInv, ApOk, Waiting
<1>5. StacksInv' BY <1>1, <1>3, <1>4, StacksFrame DEF BootInv
<1> QED BY <1>2, <1>5

LEMMA Kinit2Keeps ==
  ASSUME BootInv, Kinit2
  PROVE  BootInv'
<1>1. PICK b \in BootRec : b = boot /\ b.pc = "kinit2" BY DEF BootInv, BootTypes, Kinit2, BootAt
<1>2. PICK F \in SUBSET Nat : F = b.free \cup HighPages BY BootSizes DEF BootRec
<1>3. boot' = [[b EXCEPT !.free = F, !.uselock = TRUE] EXCEPT !.pc = "userinit"] /\ ap' = ap
  <2>1. NextCall(boot.pc) = "userinit" BY <1>1, CallsFollow
  <2>2. Proceed([b EXCEPT !.free = F, !.uselock = TRUE]) BY <1>1, <1>2 DEF Kinit2
  <2> QED BY <2>1, <2>2 DEF Proceed, BootDo
<1>4. [[b EXCEPT !.free = F, !.uselock = TRUE] EXCEPT !.pc = "userinit"] \in BootRec
  BY DEF BootRec, Booting, Routed
<1>5. PICK nb \in BootRec :
        /\ nb = boot' /\ nb.pc = "userinit" /\ nb.cpus = b.cpus /\ nb.init = b.init /\ nb.me = b.me
        /\ nb.table = b.table /\ nb.pos = b.pos /\ nb.k = b.k /\ nb.free = F /\ nb.disk = b.disk
        /\ nb.uselock
  BY <1>3, <1>4 DEF BootRec
<1>6. BootTypes' BY <1>3, <1>5 DEF BootInv, BootTypes
<1>7. b.init = "none" /\ b.free \cap LowPages # {} BY <1>1 DEF BootInv, PagesInv, WithProcess
<1>8. F \cap LowPages # {} /\ HighPages \subseteq F BY <1>2, <1>7
<1>9. F \cap LowPages \subseteq b.free
  <2>1. \A p \in HighPages : p \notin LowPages
    <3> TAKE p \in HighPages
    <3>1. p \in LowPages => p < p BY BootSizes
    <3>2. p \in Nat BY BootSizes
    <3> QED BY <3>1, <3>2
  <2> QED BY <1>2, <2>1
<1>10. PagesInv'
  BY <1>5, <1>7, <1>8 DEF PagesInv, Reading, StartingUp, Turn, WithProcess
<1>11. TableInv' /\ StacksInv' BY <1>1, <1>3, <1>5, <1>6, <1>9, TurnsOver
<1> QED BY <1>6, <1>10, <1>11 DEF BootInv

LEMMA UserinitKeeps ==
  ASSUME BootInv, Userinit
  PROVE  BootInv'
<1>1. PICK b \in BootRec : b = boot /\ b.pc = "userinit" BY DEF BootInv, BootTypes, Userinit, BootAt
<1>2. PICK S \in SUBSET Nat : S = b.free BY DEF BootRec
<1>3. S \cap LowPages # {} /\ b.uselock /\ HighPages \subseteq S BY <1>1, <1>2 DEF BootInv, PagesInv
<1>4. PICK page : page = Min(S) OBVIOUS
<1>5. page \in S /\ \A p \in S : page <= p
  <2>1. S # {} BY <1>3
  <2> QED BY <1>4, <2>1, LeastNumber DEF Min
<1>6. page \notin HighPages
  <2> SUFFICES ASSUME page \in HighPages PROVE FALSE OBVIOUS
  <2>1. PICK low \in LowPages : low \in S BY <1>3
  <2>2. low < page /\ page <= low /\ low \in Nat /\ page \in Nat BY <1>5, <2>1, BootSizes
  <2> QED BY <2>2
<1>7. PICK F \in SUBSET Nat : F = S \ {page} OBVIOUS
<1>8. boot' = [[b EXCEPT !.free = F, !.init = "runnable"] EXCEPT !.pc = "mpmain"] /\ ap' = ap
  <2>1. NextCall(boot.pc) = "mpmain" BY <1>1, CallsFollow
  <2>2. Proceed([b EXCEPT !.free = F, !.init = "runnable"])
    BY <1>1, <1>2, <1>4, <1>7 DEF Userinit
  <2> QED BY <2>1, <2>2 DEF Proceed, BootDo
<1>9. [[b EXCEPT !.free = F, !.init = "runnable"] EXCEPT !.pc = "mpmain"] \in BootRec
  BY DEF BootRec, Booting, Routed, WithProcess
<1>10. PICK nb \in BootRec :
        /\ nb = boot' /\ nb.pc = "mpmain" /\ nb.cpus = b.cpus /\ nb.me = b.me
        /\ nb.table = b.table /\ nb.pos = b.pos /\ nb.k = b.k /\ nb.free = F /\ nb.disk = b.disk
        /\ nb.uselock = b.uselock
  BY <1>8, <1>9 DEF BootRec
<1>11. BootTypes' BY <1>8, <1>10 DEF BootInv, BootTypes
<1>12. HighPages \subseteq F /\ F \subseteq b.free BY <1>2, <1>3, <1>6, <1>7
<1>13. PagesInv'
  BY <1>3, <1>10, <1>12 DEF PagesInv, Reading, StartingUp, Turn, WithProcess
<1>14. TableInv' /\ StacksInv' BY <1>1, <1>8, <1>10, <1>11, <1>12, TurnsOver
<1> QED BY <1>11, <1>13, <1>14 DEF BootInv

LEMMA SchedulingKeeps ==
  ASSUME BootInv, Mpmain \/ \E id \in ApicIds : SchedulerRuns(id)
  PROVE  BootInv'
<1>1. PICK b \in BootRec : b = boot BY DEF BootInv, BootTypes
<1>2. b.pc \in {"mpmain", "scheduler"}
  <2>1. CASE Mpmain BY <1>1, <2>1 DEF Mpmain, BootAt
  <2>2. ASSUME NEW id \in ApicIds, SchedulerRuns(id) PROVE b.pc \in WithProcess
    BY <1>1, <2>2 DEF SchedulerRuns, BootInv, PagesInv
  <2> QED BY <2>1, <2>2 DEF WithProcess
<1>3. /\ boot' = [b EXCEPT !.pc = "scheduler"] \/ boot' = [b EXCEPT !.init = "running"]
      /\ ap' = ap
  BY <1>1 DEF Mpmain, SchedulerRuns, BootDo
<1>4. [b EXCEPT !.pc = "scheduler"] \in BootRec /\ [b EXCEPT !.init = "running"] \in BootRec
  BY DEF BootRec, Booting, Routed, WithProcess
<1>5. PICK nb \in BootRec :
        /\ nb = boot' /\ nb.pc \in {"mpmain", "scheduler"} /\ nb.cpus = b.cpus /\ nb.me = b.me
        /\ nb.table = b.table /\ nb.pos = b.pos /\ nb.k = b.k /\ nb.free = b.free /\ nb.disk = b.disk
        /\ nb.uselock = b.uselock
  BY <1>2, <1>3, <1>4 DEF BootRec
<1>6. BootTypes' BY <1>3, <1>5 DEF BootInv, BootTypes
<1>7. b.uselock /\ HighPages \subseteq b.free BY <1>1, <1>2 DEF BootInv, PagesInv, WithProcess
<1>8. PagesInv' BY <1>5, <1>7 DEF PagesInv, Reading, StartingUp, Turn, WithProcess
<1>9. TableInv' /\ StacksInv' BY <1>1, <1>2, <1>3, <1>5, <1>6, TurnsOver
<1> QED BY <1>6, <1>8, <1>9 DEF BootInv

(* The entry code: one processor moves on.                                 *)
LEMMA ApMoves ==
  ASSUME BootInv, NEW id \in ApicIds, NEW na \in ApRec, boot' = boot, ap' = [ap EXCEPT ![id] = na],
         ApOk(boot, id, na),
         na.stack # 0 => \A j \in ApicIds \ {id} : ap[j].stack # na.stack
  PROVE  BootInv'
<1>1. PICK b \in BootRec, a \in [ApicIds -> ApRec] : b = boot /\ a = ap BY DEF BootInv, BootTypes
<1>2. PICK now \in [ApicIds -> ApRec] : now = ap' /\ \A i \in ApicIds : now[i] = IF i = id THEN na ELSE a[i]
  <2>1. [a EXCEPT ![id] = na] \in [ApicIds -> ApRec] OBVIOUS
  <2> QED BY <1>1, <2>1
<1>3. BootTypes' BY <1>2 DEF BootInv, BootTypes
<1>4. TableInv' BY DEF BootInv, TableInv
<1>5. PagesInv' BY DEF BootInv, PagesInv
<1>6. StacksInv'
  <2>1. \A i \in ApicIds : ApOk(b, i, a[i]) BY <1>1 DEF BootInv, StacksInv
  <2>2. \A i \in ApicIds : ApOk(b, i, now[i])
    <3> TAKE i \in ApicIds
    <3>1. CASE i = id BY <1>1, <1>2, <3>1
    <3>2. CASE i # id BY <1>2, <2>1, <3>2
    <3> QED BY <3>1, <3>2
  <2>3. \A i, j \in ApicIds : i # j /\ now[i].stack # 0 => now[i].stack # now[j].stack
    <3>1. \A i, j \in ApicIds : i # j /\ a[i].stack # 0 => a[i].stack # a[j].stack
      BY <1>1 DEF BootInv, StacksInv
    <3>2. na.stack # 0 => \A j \in ApicIds \ {id} : a[j].stack # na.stack BY <1>1
    <3> QED BY <1>2, <3>1, <3>2
  <2>4. b.pc \in Turn => b.stack \in LowPages \ b.free BY <1>1 DEF BootInv, StacksInv
  <2> QED BY <1>1, <1>2, <2>2, <2>3, <2>4 DEF StacksInv
<1> QED BY <1>3, <1>4, <1>5, <1>6 DEF BootInv

LEMMA ApStepKeeps ==
  ASSUME BootInv, NEW id \in ApicIds, ApStep(id)
  PROVE  BootInv'
<1>1. PICK b \in BootRec, a \in [ApicIds -> ApRec] : b = boot /\ a = ap BY DEF BootInv, BootTypes
<1>2. PICK r \in ApRec : r = a[id] OBVIOUS
<1>3. ApOk(b, id, r) BY <1>1, <1>2 DEF BootInv, StacksInv
<1>4. \A j \in ApicIds \ {id} : r.stack # 0 => a[j].stack # r.stack
  BY <1>1, <1>2 DEF BootInv, StacksInv
<1>5. boot' = boot BY DEF ApStep, EntryOther, Start32, MpEnter, ApMpmain, ApAt
<1>6. CASE EntryOther(id)
  <2>1. r.pc = "start" /\ ap' = [a EXCEPT ![id] = [r EXCEPT !.pc = "start32"]]
    BY <1>1, <1>2, <1>6 DEF EntryOther, ApAt
  <2>2. PICK na \in ApRec : na = [r EXCEPT !.pc = "start32"]
    <3>1. [r EXCEPT !.pc = "start32"] \in ApRec BY DEF ApRec
    <3> QED BY <3>1
  <2>3. na.pc = "start32" /\ na.stack = r.stack /\ na.started = r.started BY <2>2 DEF ApRec
  <2>4. ApOk(b, id, na) BY <1>3, <2>1, <2>3 DEF ApOk
  <2> QED BY <1>1, <1>4, <1>5, <2>1, <2>2, <2>3, <2>4, ApMoves
<1>7. CASE Start32(id)
  <2>1. r.pc = "start32" /\ ap' = [a EXCEPT ![id] = [r EXCEPT !.pc = "mpenter", !.stack = b.stack]]
    BY <1>1, <1>2, <1>7 DEF Start32, ApAt, ApRec
  <2>2. PICK na \in ApRec : na = [r EXCEPT !.pc = "mpenter", !.stack = b.stack]
    <3>1. [r EXCEPT !.pc = "mpenter", !.stack = b.stack] \in ApRec BY DEF ApRec, BootRec
    <3> QED BY <3>1
  <2>3. na.pc = "mpenter" /\ na.stack = b.stack /\ na.started = r.started BY <2>2 DEF ApRec
  <2>4. Waiting(b, id) BY <1>3, <2>1 DEF ApOk
  <2>5. b.pc \in Turn BY <2>4 DEF Waiting, Turn
  <2>6. b.stack \in LowPages \ b.free BY <1>1, <2>5 DEF BootInv, StacksInv
  <2>7. ApOk(b, id, na) BY <1>3, <2>1, <2>3, <2>4, <2>6 DEF ApOk
  <2>8. \A j \in ApicIds \ {id} : a[j].stack # na.stack
    <3> TAKE j \in ApicIds \ {id}
    <3>1. ~Waiting(b, j) BY <2>4 DEF Waiting
    <3>2. ApOk(b, j, a[j]) BY <1>1 DEF BootInv, StacksInv
    <3> QED BY <2>3, <2>5, <3>1, <3>2 DEF ApOk
  <2> QED BY <1>1, <1>5, <2>1, <2>2, <2>7, <2>8, ApMoves
<1>8. CASE MpEnter(id)
  <2>1. r.pc = "mpenter" /\ ap' = [a EXCEPT ![id] = [r EXCEPT !.pc = "mpmain"]]
    BY <1>1, <1>2, <1>8 DEF MpEnter, ApAt
  <2>2. PICK na \in ApRec : na = [r EXCEPT !.pc = "mpmain"]
    <3>1. [r EXCEPT !.pc = "mpmain"] \in ApRec BY DEF ApRec
    <3> QED BY <3>1
  <2>3. na.pc = "mpmain" /\ na.stack = r.stack /\ na.started = r.started BY <2>2 DEF ApRec
  <2>4. ApOk(b, id, na) BY <1>3, <2>1, <2>3 DEF ApOk
  <2> QED BY <1>1, <1>4, <1>5, <2>1, <2>2, <2>3, <2>4, ApMoves
<1>9. CASE ApMpmain(id)
  <2>1. r.pc = "mpmain" /\ ap' = [a EXCEPT ![id] = [r EXCEPT !.pc = "scheduler", !.started = TRUE]]
    BY <1>1, <1>2, <1>9 DEF ApMpmain, ApAt, ApRec
  <2>2. PICK na \in ApRec : na = [r EXCEPT !.pc = "scheduler", !.started = TRUE]
    <3>1. [r EXCEPT !.pc = "scheduler", !.started = TRUE] \in ApRec BY DEF ApRec
    <3> QED BY <3>1
  <2>3. na.pc = "scheduler" /\ na.stack = r.stack /\ na.started BY <2>2 DEF ApRec
  <2>4. ApOk(b, id, na) BY <1>3, <2>1, <2>3 DEF ApOk
  <2> QED BY <1>1, <1>4, <1>5, <2>1, <2>2, <2>3, <2>4, ApMoves
<1> QED BY <1>6, <1>7, <1>8, <1>9 DEF ApStep

LEMMA BootNextKeeps ==
  ASSUME BootInv, [BootNext]_bootvars
  PROVE  BootInv'
<1>1. CASE UNCHANGED bootvars
  BY <1>1 DEF bootvars, BootInv, BootTypes, TableInv, PagesInv, StacksInv
<1>2. CASE MainStep
  BY <1>2, Kinit1Keeps, MpsearchKeeps, MpinitEntryKeeps, MpinitDoneKeeps, SeginitKeeps, IoapicinitKeeps,
     SkipsItselfKeeps, StartothersKeeps, LapicstartapKeeps, WaitsStartedKeeps, AllStartedKeeps,
     Kinit2Keeps, UserinitKeeps, SchedulingKeeps
  DEF MainStep
<1>3. ASSUME NEW id \in ApicIds, ApStep(id) \/ SchedulerRuns(id) PROVE BootInv'
  BY <1>3, ApStepKeeps, SchedulingKeeps
<1> QED BY <1>1, <1>2, <1>3 DEF BootNext

LEMMA BootBegins ==
  ASSUME BootInit
  PROVE  BootInv
<1>1. /\ boot.pc = "kinit1" /\ boot.cpus = <<>> /\ boot.k = 1 /\ boot.init = "none"
      /\ boot = [pc |-> "kinit1", me |-> 0, table |-> <<>>, pos |-> 1, cpus |-> <<>>, k |-> 1, stack |-> 0,
                 free |-> {}, uselock |-> FALSE, disk |-> 0, init |-> "none"]
      /\ ap = [id \in ApicIds |-> ApHalted]
  BY DEF BootInit
<1>2. boot \in BootRec
  <2>1. PICK e \in Seq(MpIds), zero \in Nat, one \in Nat \ {0} : e = <<>> /\ zero = 0 /\ one = 1
    <3>1. <<>> \in Seq(MpIds) BY EmptySeq
    <3>2. 0 \in Nat /\ 1 \in Nat \ {0} OBVIOUS
    <3> QED BY <3>1, <3>2
  <2> QED BY <1>1 DEF BootRec, Booting, Reading
<1>3. ap \in [ApicIds -> ApRec] BY <1>1 DEF ApHalted, ApRec
<1>4. 1 .. Len(boot.cpus) = {} /\ Len(boot.cpus) = 0 BY <1>1
<1>5. TableInv
  BY <1>1, <1>4, BootSizes DEF TableInv, Routed, StartingUp, Turn, WithProcess
<1>6. PagesInv BY <1>1 DEF PagesInv, Reading, StartingUp, Turn, WithProcess
<1>7. StacksInv BY <1>1 DEF StacksInv, ApOk, ApHalted, Turn
<1> QED BY <1>2, <1>3, <1>5, <1>6, <1>7 DEF BootInv, BootTypes

(* main.c, mp.c, lapic.c, ioapic.c, entryother.S, for every machine, table *)
(* of its processors, NCPU and pages: no two processors run on one stack,  *)
(* none on free memory, and no process runs before memory is complete.     *)
THEOREM BootStaysSafe == BootSpec => []BootSafe
<1>1. BootInv => BootSafe
  <2> SUFFICES ASSUME BootInv PROVE BootSafe OBVIOUS
  <2>1. StacksApart BY DEF BootInv, StacksInv, ApOk, StacksApart
  <2>2. MemoryReadyForProcesses BY DEF BootInv, PagesInv, WithProcess, MemoryReadyForProcesses
  <2> QED BY <2>1, <2>2 DEF BootSafe
<1> QED BY <1>1, BootBegins, BootNextKeeps, PTL DEF BootSpec
=============================================================================
