---------------------------- MODULE MemoryProofs ----------------------------
(***************************************************************************)
(* Proofs about the memory of processes of project02, for every number of  *)
(* slots, page tables and pages, all programs and all arguments of the     *)
(* calls: no page is lost or has two owners, threads agree on what is      *)
(* mapped, and a limit on the size of a process holds.                     *)
(***************************************************************************)
EXTENDS Memory, FiniteSetTheorems, WellFoundedInduction, TLAPS

-----------------------------------------------------------------------------
(* The invariant.                                                          *)

PageSets == {D \in SUBSET Nat : IsFiniteSet(D)}
UserMaps == UNION {[D -> BOOLEAN] : D \in PageSets}
Table == [used : BOOLEAN, tabs : PageSets, user : UserMaps]

MemStates == {"UNUSED", "EMBRYO", "RUN", "ZOMBIE"}
MemRec ==
  [state : MemStates, main : 0 .. MemSlots, pgdir : 0 .. MemSpaces, sz : Nat, memlim : Nat,
   stacksize : Nat, parent : 0 .. MemSlots, at : {"user", "fork", "load", "commit"},
   new : 0 .. MemSpaces, nsz : Nat, prog : Seq(Segment)]
SpaceNo == 1 .. MemSpaces

MemTypes(P, S) == P \in [MemSlot -> MemRec] /\ S \in [SpaceNo -> Table]

Living(r) == r.state \in {"RUN", "ZOMBIE"}

(* A free slot is empty, who does not run is not in a call, and the main   *)
(* thread of a process is one of it.                                       *)
SlotsInv(P) ==
  \A t \in MemSlot :
    /\ P[t].state = "UNUSED" => P[t] = MemFree
    /\ P[t].state # "RUN" => P[t].at = "user"
    /\ P[t].state # "UNUSED" => P[t].main \in MemSlot /\ P[P[t].main].main = P[t].main

(* Who is in fork() has one EMBRYO, and each EMBRYO is alone.              *)
EmbryosInv(P) ==
  /\ \A u \in MemSlot : P[u].state = "EMBRYO" =>
       /\ P[u].main = u /\ \A v \in MemSlot : P[v].main = u => v = u
       /\ P[u].parent \in MemSlot /\ P[P[u].parent].at = "fork"
  /\ \A t \in MemSlot : P[t].at = "fork" =>
       /\ \E u \in MemSlot : P[u].state = "EMBRYO" /\ P[u].parent = t
       /\ \A u, v \in MemSlot : P[u].state = "EMBRYO" /\ P[u].parent = t
                                  /\ P[v].state = "EMBRYO" /\ P[v].parent = t => u = v

(* A process that exited has no other threads.                             *)
ZombiesInv(P) ==
  \A t, u \in MemSlot : P[t].state = "ZOMBIE" /\ P[t].main = t /\ P[u].main = t => u = t

(* The page table exec() makes is its own, with the pages made so far.     *)
ExecInv(P, S) ==
  \A t \in MemSlot :
    /\ P[t].new # NoSpace <=> P[t].at \in {"load", "commit"}
    /\ P[t].at = "commit" => P[t].nsz # 0
    /\ P[t].new # NoSpace =>
         /\ DOMAIN S[P[t].new].user = Below(P[t].nsz)
         /\ \A u \in MemSlot : P[u].new = P[t].new => u = t
         /\ \A u \in MemSlot : Living(P[u]) => P[u].pgdir # P[t].new

(* The threads of a process share a page table and its size, processes do  *)
(* not, and the pages are those of the size.                               *)
SharesInv(P, S) ==
  \A t \in MemSlot : Living(P[t]) =>
    /\ P[t].pgdir # NoSpace /\ P[t].sz # 0
    /\ DOMAIN S[P[t].pgdir].user \in {{}, Below(P[t].sz)}
    /\ \A u \in MemSlot : Living(P[u]) =>
         /\ P[u].main = P[t].main => P[u].sz = P[t].sz
         /\ P[u].main = P[t].main <=> P[u].pgdir = P[t].pgdir

(* A page table is in use if and only if somebody has it.                  *)
HoldersInv(P, S) ==
  \A i \in SpaceNo :
    S[i].used <=> \E t \in MemSlot : i = P[t].new \/ (Living(P[t]) /\ i = P[t].pgdir)

InUse(P) == {t \in MemSlot : P[t].state # "UNUSED"}
PagesInv(P, S, f, n) == f \in Nat /\ n = f + Cardinality(InUse(P)) + Costs(S)

Parts(P, S) ==
  /\ MemTypes(P, S) /\ SlotsInv(P) /\ EmbryosInv(P) /\ ZombiesInv(P)
  /\ ExecInv(P, S) /\ SharesInv(P, S) /\ HoldersInv(P, S)
MemInv == Parts(mproc, mspace) /\ PagesInv(mproc, mspace, frames, mpages)

-----------------------------------------------------------------------------
(* Numbers.                                                                *)

(* A set of numbers that has an element has a first one.                   *)
LEMMA LeastNumber ==
  ASSUME NEW S \in SUBSET Nat, S # {}
  PROVE  \E d \in S : \A e \in S : d <= e
<1> DEFINE R == OpToRel(<, Nat)
<1>1. IsWellFoundedOn(R, Nat)
  BY NatLessThanWellFounded
<1>2. \A d, e \in Nat : e < d => <<e, d>> \in R
  BY DEF OpToRel
<1> HIDE DEF R
<1>3. PICK d \in S : \A e \in S : ~(<<e, d>> \in R)
  BY <1>1, WFMin
<1>4. ASSUME NEW e \in S PROVE d <= e
  <2>1. ~(e < d) /\ e \in Nat /\ d \in Nat
    BY <1>2, <1>3
  <2> QED
    BY <2>1
<1> QED
  BY <1>4

LEMMA NatWhole ==
  ASSUME NEW S, 0 \in S, \A n \in Nat : n \in S => n + 1 \in S
  PROVE  Nat \subseteq S
<1> SUFFICES ASSUME Nat \ S # {} PROVE FALSE
  OBVIOUS
<1>1. PICK d \in Nat \ S : \A e \in Nat \ S : d <= e
  BY LeastNumber
<1>2. d # 0 /\ d - 1 \in Nat /\ (d - 1) + 1 = d
  BY <1>1
<1>3. d - 1 \in S
  BY <1>1, <1>2
<1> QED
  BY <1>1, <1>2, <1>3

(* Sizes and pages.                                                        *)
LEMMA PageUpIn ==
  ASSUME NEW a \in Nat
  PROVE  /\ PageUp(a) \in Nat /\ PageUp(a) * PGSIZE >= a /\ PageUp(a) * PGSIZE < a + PGSIZE
         /\ a # 0 => PageUp(a) # 0
<1>1. PGSIZE \in Nat \ {0}
  BY MemoryAssumption DEF MemoryAssumption
<1>2. PICK b \in Nat, g \in Nat \ {0} : b = a + PGSIZE - 1 /\ g = PGSIZE
  BY <1>1
<1>3. b % g \in 0 .. g - 1 /\ b \div g \in Int /\ b = g * (b \div g) + (b % g)
  BY <1>2
<1>4. PICK d \in Int : d = PageUp(a)
  BY <1>2, <1>3 DEF PageUp
<1>5. d * g >= a /\ d * g < a + g
  BY <1>2, <1>3, <1>4 DEF PageUp
<1>6. d >= 0
  <2>1. d < 0 => d * g <= 0 - g
    BY <1>2
  <2> QED
    BY <1>5, <2>1
<1>7. d = 0 => d * g = 0
  BY <1>2
<1> QED
  BY <1>2, <1>4, <1>5, <1>6, <1>7

LEMMA PageUpOrder ==
  ASSUME NEW a \in Nat, NEW b \in Nat, a <= b
  PROVE  PageUp(a) <= PageUp(b)
<1>1. PICK d, e, g \in Nat : d = PageUp(a) /\ e = PageUp(b) /\ g = PGSIZE /\ g # 0
  BY MemoryAssumption, PageUpIn DEF MemoryAssumption
<1>2. d * g < a + g /\ e * g >= b
  BY <1>1, PageUpIn
<1>3. ASSUME d >= e + 1 PROVE FALSE
  <2>1. d * g >= (e + 1) * g
    BY <1>1, <1>3
  <2>2. (e + 1) * g = e * g + g
    BY <1>1
  <2> QED
    BY <1>1, <1>2, <2>1, <2>2
<1> QED
  BY <1>1, <1>3

LEMMA PageUpOfPages ==
  ASSUME NEW k \in Nat
  PROVE  PageUp(k * PGSIZE) = k
<1>1. PICK g \in Nat \ {0} : g = PGSIZE
  BY MemoryAssumption DEF MemoryAssumption
<1>2. PICK a \in Nat : a = k * g
  BY <1>1
<1>3. PICK d \in Nat : d = PageUp(a) /\ d * g >= a /\ d * g < a + g
  BY <1>1, <1>2, PageUpIn
<1>4. d >= k
  <2>1. d <= k - 1 => d * g <= (k - 1) * g
    BY <1>1
  <2>2. (k - 1) * g = a - g
    BY <1>1, <1>2
  <2> QED
    BY <1>1, <1>2, <1>3, <2>1, <2>2
<1>5. d <= k
  <2>1. d >= k + 1 => d * g >= (k + 1) * g
    BY <1>1
  <2>2. (k + 1) * g = a + g
    BY <1>1, <1>2
  <2> QED
    BY <1>1, <1>2, <1>3, <2>1, <2>2
<1> QED
  BY <1>1, <1>2, <1>3, <1>4, <1>5

-----------------------------------------------------------------------------
(* Page tables.                                                            *)

LEMMA MapsAre ==
  /\ \A u \in UserMaps : DOMAIN u \in PageSets /\ u \in [DOMAIN u -> BOOLEAN]
  /\ \A D \in PageSets : \A u \in [D -> BOOLEAN] : u \in UserMaps
BY DEF UserMaps

LEMMA CostIs ==
  ASSUME NEW s \in Table
  PROVE  /\ Cardinality(s.tabs) \in Nat /\ Cardinality(DOMAIN s.user) \in Nat
         /\ s.used => Cost(s) = 1 + KernTables + Cardinality(s.tabs) + Cardinality(DOMAIN s.user)
         /\ ~s.used => Cost(s) = 0
         /\ Cost(s) \in Nat
<1>1. s.used \in BOOLEAN /\ s.tabs \in PageSets /\ s.user \in UserMaps
  BY DEF Table
<1>2. Cardinality(s.tabs) \in Nat /\ Cardinality(DOMAIN s.user) \in Nat
  BY <1>1, MapsAre, FS_CardinalityType DEF PageSets
<1> QED
  BY <1>1, <1>2, MemoryAssumption DEF MemoryAssumption, Cost

(* A table with other pages.                                               *)
Remade(s, T, u) == [s EXCEPT !.tabs = T, !.user = u]

LEMMA RemadeTable ==
  ASSUME NEW s \in Table, NEW T \in PageSets, NEW u \in UserMaps, NEW r, r = Remade(s, T, u)
  PROVE  r \in Table /\ r.used = s.used /\ r.tabs = T /\ r.user = u
BY DEF Table, Remade

MapRec == [ok : BOOLEAN, panic : BOOLEAN, s : Table, f : Nat]

LEMMA MapPageMaps ==
  ASSUME NEW m \in MapRec, m.ok, ~m.panic, m.s.used, NEW p \in Nat, p \notin DOMAIN m.s.user,
         NEW u \in BOOLEAN, NEW r, r = MapPage(m, p, u)
  PROVE  /\ r \in MapRec /\ ~r.panic /\ r.s.used /\ r.f + Cost(r.s) = m.f + Cost(m.s)
         /\ DOMAIN r.s.user = IF r.ok THEN DOMAIN m.s.user \cup {p} ELSE DOMAIN m.s.user
<1> DEFINE need == IF Pdx(p) \in m.s.tabs THEN 1 ELSE 2
           T == m.s.tabs \cup {Pdx(p)}
           w == [q \in DOMAIN m.s.user \cup {p} |-> IF q = p THEN u ELSE m.s.user[q]]
<1>1. m.s \in Table /\ m.f \in Nat /\ m.s.tabs \in PageSets /\ m.s.user \in UserMaps
  BY DEF MapRec, Table
<1>2. CASE ~Kalloced(m.f, need)
  <2>1. r = [m EXCEPT !.ok = FALSE]
    BY <1>2 DEF MapPage
  <2>2. r \in MapRec /\ r.panic = m.panic /\ r.s = m.s /\ r.f = m.f /\ ~r.ok
    BY <2>1 DEF MapRec
  <2> QED
    BY <2>2
<1>3. CASE Kalloced(m.f, need)
  <2>1. Pdx(p) \in Nat
    BY MemoryAssumption DEF MemoryAssumption, Pdx
  <2>2. T \in PageSets /\ Cardinality(T) = Cardinality(m.s.tabs) + need - 1
    <3>1. IsFiniteSet(m.s.tabs)
      BY <1>1 DEF PageSets
    <3>2. IsFiniteSet(T) /\ Cardinality(T) = IF Pdx(p) \in m.s.tabs THEN Cardinality(m.s.tabs)
                                             ELSE Cardinality(m.s.tabs) + 1
      BY <3>1, FS_AddElement
    <3>3. Cardinality(m.s.tabs) \in Nat
      BY <1>1, CostIs
    <3> QED
      BY <1>1, <2>1, <3>2, <3>3 DEF PageSets
  <2>3. /\ DOMAIN w = DOMAIN m.s.user \cup {p} /\ w \in UserMaps
        /\ Cardinality(DOMAIN w) = Cardinality(DOMAIN m.s.user) + 1
    <3>1. DOMAIN m.s.user \in PageSets /\ m.s.user \in [DOMAIN m.s.user -> BOOLEAN]
      BY <1>1, MapsAre
    <3>2. PICK D : D = DOMAIN m.s.user \cup {p}
      OBVIOUS
    <3>3. IsFiniteSet(D) /\ Cardinality(D) = Cardinality(DOMAIN m.s.user) + 1
      BY <3>1, <3>2, FS_AddElement DEF PageSets
    <3>4. DOMAIN w = D /\ w \in [D -> BOOLEAN]
      BY <3>1, <3>2
    <3>5. D \in PageSets
      BY <3>1, <3>2, <3>3 DEF PageSets
    <3>6. w \in UserMaps
      BY <3>4, <3>5, MapsAre
    <3> QED
      BY <3>2, <3>3, <3>4, <3>6
  <2> HIDE DEF T, w
  <2>4. PICK s : s = Remade(m.s, T, w)
    OBVIOUS
  <2>5. s \in Table /\ s.used /\ s.tabs = T /\ s.user = w
    BY <1>1, <2>2, <2>3, <2>4, RemadeTable
  <2>6. r = [m EXCEPT !.f = @ - need, !.s = s]
    BY <1>3, <2>4 DEF MapPage, MapRec, Table, Remade, T, w
  <2>7. m.f - need \in Nat
    BY <1>1, <1>3 DEF Kalloced
  <2>8. r \in MapRec /\ ~r.panic /\ r.s = s /\ r.f = m.f - need /\ r.ok
    BY <2>5, <2>6, <2>7 DEF MapRec
  <2>9. Cost(s) = Cost(m.s) + need
    <3>1. /\ Cost(s) = 1 + KernTables + Cardinality(T) + Cardinality(DOMAIN w)
          /\ Cost(m.s) = 1 + KernTables + Cardinality(m.s.tabs) + Cardinality(DOMAIN m.s.user)
      BY <2>5 DEF Cost
    <3>2. Cardinality(m.s.tabs) \in Nat /\ Cardinality(DOMAIN m.s.user) \in Nat /\ KernTables \in Nat
      BY <1>1, CostIs, MemoryAssumption DEF MemoryAssumption
    <3>3. need \in {1, 2}
      OBVIOUS
    <3> HIDE DEF need
    <3> QED
      BY <2>2, <2>3, <3>1, <3>2, <3>3
  <2>10. Cost(s) \in Nat /\ Cost(m.s) \in Nat
    BY <1>1, <2>5, CostIs
  <2> QED
    BY <1>1, <2>3, <2>5, <2>8, <2>9, <2>10
<1> QED
  BY <1>2, <1>3

(* The recursion of MapAll is a function, for every number of pages.       *)
MapStart(s, f) == [ok |-> TRUE, panic |-> FALSE, s |-> s, f |-> f]
MapStep(m, first, flag, i) == MapPage(m, first + i - 1, flag[first + i - 1])
MapsUpto(s, f, first, flag, n, g) ==
  g = [i \in 0 .. n |-> IF i = 0 THEN MapStart(s, f) ELSE MapStep(g[i - 1], first, flag, i)]

LEMMA MapsExist ==
  ASSUME NEW s, NEW f, NEW first, NEW flag
  PROVE  \A n \in Nat : \E g : MapsUpto(s, f, first, flag, n, g)
<1> DEFINE S == {n \in Nat : \E g : MapsUpto(s, f, first, flag, n, g)}
<1>1. 0 \in S
  <2> DEFINE g == [i \in 0 .. 0 |-> MapStart(s, f)]
  <2>1. MapsUpto(s, f, first, flag, 0, g)
    BY DEF MapsUpto
  <2> QED
    BY <2>1
<1>2. ASSUME NEW n \in Nat, n \in S PROVE n + 1 \in S
  <2>1. PICK g : MapsUpto(s, f, first, flag, n, g)
    BY <1>2
  <2> DEFINE h == [i \in 0 .. n + 1 |-> IF i = n + 1 THEN MapStep(g[n], first, flag, n + 1) ELSE g[i]]
  <2>2. \A i \in 0 .. n : h[i] = g[i] /\ g[i] = IF i = 0 THEN MapStart(s, f) ELSE MapStep(g[i - 1], first, flag, i)
    BY <2>1 DEF MapsUpto
  <2>3. /\ h = [i \in 0 .. n + 1 |-> h[i]]
        /\ h[n + 1] = MapStep(g[n], first, flag, n + 1)
        /\ 0 \in 0 .. n /\ n \in 0 .. n
    OBVIOUS
  <2>4. h = [i \in 0 .. n + 1 |-> IF i = 0 THEN MapStart(s, f) ELSE MapStep(h[i - 1], first, flag, i)]
    <3> HIDE DEF h
    <3>1. \A i \in 0 .. n + 1 : h[i] = IF i = 0 THEN MapStart(s, f) ELSE MapStep(h[i - 1], first, flag, i)
      <4> TAKE i \in 0 .. n + 1
      <4>1. CASE i = n + 1
        <5>1. h[n] = g[n]
          BY <2>2, <2>3
        <5>2. i - 1 = n /\ i # 0
          BY <4>1
        <5> QED
          BY <2>3, <4>1, <5>1, <5>2
      <4>2. CASE i = 0
        BY <2>2, <2>3, <4>2
      <4>3. CASE i \in 1 .. n
        <5>1. i - 1 \in 0 .. n /\ i \in 0 .. n
          BY <4>3
        <5>2. h[i] = g[i] /\ h[i - 1] = g[i - 1] /\ g[i] = MapStep(g[i - 1], first, flag, i)
          BY <2>2, <4>3, <5>1
        <5> QED
          BY <4>3, <5>2
      <4> QED
        BY <4>1, <4>2, <4>3
    <3> QED
      BY <2>3, <3>1
  <2> HIDE DEF h
  <2>5. MapsUpto(s, f, first, flag, n + 1, h)
    BY <2>4 DEF MapsUpto
  <2> QED
    BY <2>5
<1> HIDE DEF S
<1>3. Nat \subseteq S
  BY <1>1, <1>2, NatWhole
<1> QED
  BY <1>3 DEF S

(* What the first n steps leave: as many pages more as could be got.       *)
Mapped(s, f, first, n, r) ==
  /\ r \in MapRec /\ ~r.panic /\ r.s.used /\ r.f + Cost(r.s) = f + Cost(s)
  /\ \E k \in 0 .. n : DOMAIN r.s.user = DOMAIN s.user \cup (first .. first + k - 1) /\ (r.ok => k = n)

LEMMA MapAllMaps ==
  ASSUME NEW s \in Table, s.used, NEW f \in Nat, NEW first \in Nat, NEW n \in Nat, NEW flag,
         \A p \in first .. first + n - 1 : flag[p] \in BOOLEAN /\ p \notin DOMAIN s.user,
         NEW r, r = MapAll(s, f, first, n, flag)
  PROVE  Mapped(s, f, first, n, r)
<1> DEFINE g == CHOOSE g : MapsUpto(s, f, first, flag, n, g)
           S == {i \in Nat : i <= n => Mapped(s, f, first, i, g[i])}
<1>1. MapsUpto(s, f, first, flag, n, g)
  BY MapsExist
<1>2. r = g[n]
  BY DEF MapAll, MapsUpto, MapStart, MapStep
<1> HIDE DEF g
<1>3. g[0] = [ok |-> TRUE, panic |-> FALSE, s |-> s, f |-> f]
  BY <1>1 DEF MapsUpto, MapStart
<1>4. 0 \in S
  <2>1. g[0] \in MapRec /\ g[0].ok /\ ~g[0].panic /\ g[0].s = s /\ g[0].f = f
    BY <1>3 DEF MapRec
  <2>2. DOMAIN s.user = DOMAIN s.user \cup (first .. first + 0 - 1)
    OBVIOUS
  <2>3. Mapped(s, f, first, 0, g[0])
    BY <2>1, <2>2 DEF Mapped
  <2> QED
    BY <2>3
<1>5. ASSUME NEW i \in Nat, i \in S PROVE i + 1 \in S
  <2>1. SUFFICES ASSUME i + 1 <= n PROVE Mapped(s, f, first, i + 1, g[i + 1])
    OBVIOUS
  <2>2. PICK m : m = g[i]
    OBVIOUS
  <2>3. Mapped(s, f, first, i, m)
    BY <1>5, <2>1, <2>2
  <2>4. PICK q \in Nat : q = first + i
    OBVIOUS
  <2>5. g[i + 1] = MapPage(m, q, flag[q])
    <3>1. i + 1 \in 0 .. n /\ i + 1 # 0 /\ (i + 1) - 1 = i /\ first + (i + 1) - 1 = q
      BY <2>1, <2>4
    <3>2. g[i + 1] = MapPage(g[(i + 1) - 1], first + (i + 1) - 1, flag[first + (i + 1) - 1])
      BY <1>1, <3>1 DEF MapsUpto, MapStep
    <3> QED
      BY <2>2, <3>1, <3>2
  <2>6. PICK k \in 0 .. i : DOMAIN m.s.user = DOMAIN s.user \cup (first .. first + k - 1) /\ (m.ok => k = i)
    BY <2>3 DEF Mapped
  <2>7. CASE ~m.ok
    <3>1. g[i + 1] = m /\ k \in 0 .. i + 1
      BY <2>5, <2>7 DEF MapPage
    <3> QED
      BY <2>3, <2>6, <2>7, <3>1 DEF Mapped
  <2>8. CASE m.ok
    <3>1. flag[q] \in BOOLEAN /\ q \notin DOMAIN s.user /\ q \notin DOMAIN m.s.user
      BY <2>1, <2>4, <2>6, <2>8
    <3>2. PICK b, h :
            /\ b \in BOOLEAN
            /\ b = flag[q] /\ h = MapPage(m, q, b)
      BY <3>1
    <3>3. m \in MapRec /\ ~m.panic /\ m.s.used /\ m.f + Cost(m.s) = f + Cost(s)
      BY <2>3 DEF Mapped
    <3>4. /\ h \in MapRec /\ ~h.panic /\ h.s.used /\ h.f + Cost(h.s) = m.f + Cost(m.s)
          /\ DOMAIN h.s.user = IF h.ok THEN DOMAIN m.s.user \cup {q} ELSE DOMAIN m.s.user
      <4>1. m \in MapRec /\ m.ok /\ ~m.panic /\ m.s.used /\ q \in Nat /\ q \notin DOMAIN m.s.user
        BY <2>8, <3>1, <3>3
      <4> HIDE <3>1, <3>3
      <4> QED
        BY <3>2, <4>1, MapPageMaps
    <3>5. \E j \in 0 .. i + 1 : DOMAIN h.s.user = DOMAIN s.user \cup (first .. first + j - 1) /\ (h.ok => j = i + 1)
      <4>1. CASE h.ok
        <5>1. (first .. first + i - 1) \cup {q} = first .. first + (i + 1) - 1
          BY <2>4
        <5>2. DOMAIN h.s.user = DOMAIN s.user \cup (first .. first + (i + 1) - 1)
          BY <2>6, <2>8, <3>4, <4>1, <5>1
        <5> QED
          BY <5>2
      <4>2. CASE ~h.ok
        <5>1. i \in 0 .. i + 1 /\ DOMAIN h.s.user = DOMAIN s.user \cup (first .. first + i - 1)
          BY <2>6, <2>8, <3>4, <4>2
        <5> QED
          BY <4>2, <5>1
      <4> QED
        BY <4>1, <4>2
    <3> QED
      BY <2>5, <3>2, <3>3, <3>4, <3>5 DEF Mapped
  <2> QED
    BY <2>7, <2>8
<1> HIDE DEF S
<1>6. n \in S
  BY <1>4, <1>5, NatWhole
<1> QED
  BY <1>2, <1>6 DEF S

(* Growing and shrinking.                                                  *)

LEMMA BelowIs ==
  /\ Below(0) = {}
  /\ \A a \in Nat : Below(a) \in PageSets /\ (a # 0 => 0 \in Below(a)) /\ \A p : p \in Below(a) <=> p \in Nat /\ p < PageUp(a)
<1>1. PageUp(0) = 0
  <2>1. PageUp(0) \in Nat /\ PageUp(0) * PGSIZE < PGSIZE /\ PGSIZE \in Nat
    BY PageUpIn, MemoryAssumption DEF MemoryAssumption
  <2>2. PICK d, g \in Nat : d = PageUp(0) /\ g = PGSIZE
    BY <2>1
  <2>3. d >= 1 => d * g >= g
    BY <2>2
  <2> QED
    BY <2>1, <2>2, <2>3
<1>2. ASSUME NEW a \in Nat
      PROVE  Below(a) \in PageSets /\ (a # 0 => 0 \in Below(a)) /\ \A p : p \in Below(a) <=> p \in Nat /\ p < PageUp(a)
  <2>1. PICK d \in Nat : d = PageUp(a) /\ (a # 0 => d # 0)
    BY PageUpIn
  <2>2. 0 .. d - 1 \in PageSets
    BY FS_Interval DEF PageSets
  <2> QED
    BY <2>1, <2>2 DEF Below
<1>3. Below(0) = {}
  BY <1>1 DEF Below
<1> QED
  BY <1>2, <1>3

(* A table, the free pages and a size, after s with f pages of old bytes   *)
(* grew or shrank.                                                         *)
Kept(s, f, r) ==
  r.s \in Table /\ r.s.used /\ r.f \in Nat /\ r.f + Cost(r.s) = f + Cost(s) /\ r.sz \in Nat /\ ~r.panic
Grown(s, f, old, r) ==
  /\ Kept(s, f, r)
  /\ DOMAIN r.s.user \in {Below(r.sz), Below(old)} /\ (r.sz # 0 => DOMAIN r.s.user = Below(r.sz))

LEMMA DeallocuvmFrees ==
  ASSUME NEW s \in Table, s.used, NEW f \in Nat, NEW old \in Nat, NEW new \in Nat,
         NEW r, r = Deallocuvm(s, f, old, new)
  PROVE  /\ Kept(s, f, r) /\ r.sz = IF new >= old THEN old ELSE new
         /\ new >= old => DOMAIN r.s.user = DOMAIN s.user
         /\ new < old => DOMAIN r.s.user = {p \in DOMAIN s.user : p < PageUp(new) \/ p >= PageUp(old)}
<1>1. CASE new >= old
  <2>1. r = [s |-> s, f |-> f, sz |-> old, panic |-> FALSE]
    BY <1>1 DEF Deallocuvm
  <2>2. r.s = s /\ r.f = f /\ r.sz = old /\ ~r.panic
    BY <2>1
  <2> QED
    BY <1>1, <2>2 DEF Kept
<1>2. CASE new < old
  <2> DEFINE gone == {p \in DOMAIN s.user : p >= PageUp(new) /\ p < PageUp(old)}
  <2>1. PICK D \in PageSets : D = DOMAIN s.user /\ s.user \in [D -> BOOLEAN]
    BY MapsAre DEF Table
  <2>2. PICK G : G = gone
    OBVIOUS
  <2>3. PICK w : w = [p \in D \ G |-> s.user[p]]
    OBVIOUS
  <2>4. G \subseteq D /\ D \ G = {p \in DOMAIN s.user : p < PageUp(new) \/ p >= PageUp(old)}
    <3>1. PageUp(new) \in Nat /\ PageUp(old) \in Nat /\ \A p \in D : p \in Nat
      BY PageUpIn DEF PageSets
    <3> QED
      BY <2>1, <2>2, <3>1
  <2>5. D \ G \in PageSets /\ Cardinality(D) = Cardinality(D \ G) + Cardinality(G)
        /\ Cardinality(D \ G) \in Nat /\ Cardinality(G) \in Nat
    <3>1. IsFiniteSet(D) /\ IsFiniteSet(G) /\ IsFiniteSet(D \ G)
      BY <2>4, FS_Subset DEF PageSets
    <3>2. Cardinality(D \ G) = Cardinality(D) - Cardinality(D \cap G) /\ D \cap G = G
      BY <2>4, <3>1, FS_Difference
    <3>3. Cardinality(D) \in Nat /\ Cardinality(G) \in Nat /\ Cardinality(D \ G) \in Nat
      BY <3>1, FS_CardinalityType
    <3>4. D \ G \in PageSets
      BY <3>1 DEF PageSets
    <3>5. Cardinality(D \ G) = Cardinality(D) - Cardinality(G)
      BY <3>2
    <3> QED
      BY <3>3, <3>4, <3>5
  <2>6. w \in [D \ G -> BOOLEAN] /\ DOMAIN w = D \ G
    BY <2>1, <2>3
  <2>7. w \in UserMaps
    BY <2>5, <2>6, MapsAre
  <2>8. PICK d : d = Remade(s, s.tabs, w)
    OBVIOUS
  <2>9. d \in Table /\ d.used = s.used /\ d.tabs = s.tabs /\ d.user = w
    <3>1. s.tabs \in PageSets
      BY DEF Table
    <3> QED
      BY <2>7, <2>8, <3>1 DEF Remade, Table
  <2>10. r = [s |-> [s EXCEPT !.user = w], f |-> f + Cardinality(G), sz |-> new, panic |-> FALSE]
    <3>1. ~(new >= old)
      BY <1>2
    <3> QED
      BY <2>1, <2>2, <2>3, <3>1 DEF Deallocuvm, Kfree
  <2>11. d = [s EXCEPT !.user = w]
    BY <2>8 DEF Remade, Table
  <2>12. r.s = d /\ r.f = f + Cardinality(G) /\ r.sz = new /\ ~r.panic
    BY <2>10, <2>11
  <2>13. Cost(s) = Cost(d) + Cardinality(G) /\ Cost(d) \in Nat
    <3>1. Cost(s) = 1 + KernTables + Cardinality(s.tabs) + Cardinality(D)
      BY <2>1, CostIs
    <3>2. Cost(d) = 1 + KernTables + Cardinality(s.tabs) + Cardinality(D \ G)
      BY <2>6, <2>9, CostIs
    <3>3. Cardinality(s.tabs) \in Nat /\ KernTables \in Nat /\ Cost(d) \in Nat
      BY <2>9, CostIs, MemoryAssumption DEF MemoryAssumption
    <3> QED
      BY <2>5, <3>1, <3>2, <3>3
  <2>14. Kept(s, f, r)
    <3>1. r.s \in Table /\ r.s.used /\ r.sz \in Nat /\ ~r.panic
      BY <2>9, <2>12
    <3>2. r.f \in Nat /\ r.f + Cost(d) = f + Cost(s)
      BY <2>5, <2>12, <2>13
    <3> QED
      BY <2>12, <3>1, <3>2 DEF Kept
  <2> QED
    BY <1>2, <2>4, <2>6, <2>9, <2>12, <2>14
<1> QED
  BY <1>1, <1>2

LEMMA AllocuvmAllocs ==
  ASSUME NEW s \in Table, s.used, NEW f \in Nat, NEW old \in Nat, NEW new \in Nat,
         DOMAIN s.user = Below(old), NEW r, r = Allocuvm(s, f, old, new)
  PROVE  Grown(s, f, old, r) /\ r.sz \in {0, old, new} /\ (r.sz = new \/ r.sz = 0 \/ new < old)
<1> DEFINE n == PageUp(new) - PageUp(old)
           flag == [p \in Below(new) |-> TRUE]
<1>1. PageUp(old) \in Nat /\ PageUp(new) \in Nat
  BY PageUpIn
<1>2. CASE new >= KERNBASE
  <2>1. r = [s |-> s, f |-> f, sz |-> 0, panic |-> FALSE]
    BY <1>2 DEF Allocuvm
  <2>2. r.s = s /\ r.f = f /\ r.sz = 0 /\ ~r.panic
    BY <2>1
  <2> QED
    BY <2>2 DEF Grown, Kept
<1>3. CASE new < old /\ ~(new >= KERNBASE)
  <2>1. r = [s |-> s, f |-> f, sz |-> old, panic |-> FALSE]
    BY <1>3 DEF Allocuvm
  <2>2. r.s = s /\ r.f = f /\ r.sz = old /\ ~r.panic
    BY <2>1
  <2> QED
    BY <1>3, <2>2 DEF Grown, Kept
<1>4. CASE new >= old /\ ~(new >= KERNBASE)
  <2>1. n \in Nat /\ ~(new < old)
    BY <1>1, <1>4, PageUpOrder
  <2>2. PICK m : m = MapAll(s, f, PageUp(old), n, flag)
    OBVIOUS
  <2>3. \A p \in PageUp(old) .. PageUp(old) + n - 1 : flag[p] \in BOOLEAN /\ p \notin DOMAIN s.user
    <3> TAKE p \in PageUp(old) .. PageUp(old) + n - 1
    <3>1. p \in Nat /\ p < PageUp(new) /\ ~(p < PageUp(old))
      BY <1>1
    <3>2. p \in Below(new) /\ p \notin Below(old)
      BY <3>1, BelowIs
    <3> QED
      BY <3>2
  <2> HIDE DEF flag
  <2>4. Mapped(s, f, PageUp(old), n, m)
    BY <1>1, <2>1, <2>2, <2>3, MapAllMaps
  <2>5. /\ m.s \in Table /\ m.s.used /\ m.f \in Nat /\ m.f + Cost(m.s) = f + Cost(s)
        /\ ~m.panic /\ m.ok \in BOOLEAN
    BY <2>4 DEF Mapped, MapRec
  <2>6. PICK k \in 0 .. n : DOMAIN m.s.user = Below(old) \cup (PageUp(old) .. PageUp(old) + k - 1) /\ (m.ok => k = n)
    BY <2>4 DEF Mapped
  <2>7. CASE m.ok
    <3>1. r = [s |-> m.s, f |-> m.f, sz |-> new, panic |-> FALSE]
      BY <1>4, <2>1, <2>2, <2>7 DEF Allocuvm, flag
    <3>2. r.s = m.s /\ r.f = m.f /\ r.sz = new /\ ~r.panic
      BY <3>1
    <3>3. DOMAIN m.s.user = Below(new)
      BY <1>1, <2>1, <2>6, <2>7 DEF Below
    <3> QED
      BY <2>5, <3>2, <3>3 DEF Grown, Kept
  <2>8. CASE ~m.ok
    <3>1. PICK d : d = Deallocuvm(m.s, m.f, new, old)
      OBVIOUS
    <3>2. r = [s |-> d.s, f |-> d.f, sz |-> 0, panic |-> m.panic]
      BY <1>4, <2>1, <2>2, <2>8, <3>1 DEF Allocuvm, flag
    <3>3. r.s = d.s /\ r.f = d.f /\ r.sz = 0 /\ ~r.panic
      BY <2>5, <3>2
    <3>a. PICK x \in Table, y \in Nat : x = m.s /\ y = m.f /\ x.used
      BY <2>5
    <3>4. /\ Kept(m.s, m.f, d)
          /\ old >= new => DOMAIN d.s.user = DOMAIN m.s.user
          /\ old < new => DOMAIN d.s.user = {p \in DOMAIN m.s.user : p < PageUp(old) \/ p >= PageUp(new)}
      <4>1. d = Deallocuvm(x, y, new, old)
        BY <3>1, <3>a
      <4>2. /\ Kept(x, y, d)
            /\ old >= new => DOMAIN d.s.user = DOMAIN x.user
            /\ old < new => DOMAIN d.s.user = {p \in DOMAIN x.user : p < PageUp(old) \/ p >= PageUp(new)}
        <5>1. x \in Table /\ x.used /\ y \in Nat /\ new \in Nat /\ old \in Nat
          BY <3>a
        <5> QED
          BY <4>1, <5>1, DeallocuvmFrees, SMTT(40)
      <4> QED
        BY <3>a, <4>2
    <3>5. DOMAIN d.s.user = Below(old)
      <4>1. CASE old = new
        <5>1. k = 0
          BY <1>1, <4>1
        <5>2. PageUp(old) .. PageUp(old) + k - 1 = {}
          BY <1>1, <5>1
        <5>3. DOMAIN m.s.user = Below(old)
          BY <2>6, <5>2
        <5> QED
          BY <3>4, <4>1, <5>3
      <4>2. CASE old < new
        <5>1. PICK a, b \in Nat : a = PageUp(old) /\ b = PageUp(new) /\ n = b - a
          BY <1>1
        <5>2. Below(old) = 0 .. a - 1 /\ DOMAIN m.s.user = (0 .. a - 1) \cup (a .. a + k - 1)
          BY <2>6, <5>1 DEF Below
        <5>3. DOMAIN d.s.user = {p \in (0 .. a - 1) \cup (a .. a + k - 1) : p < a \/ p >= b}
          BY <3>4, <4>2, <5>1, <5>2
        <5>4. \A p \in a .. a + k - 1 : ~(p < a \/ p >= b)
          BY <5>1
        <5> QED
          <6>1. \A p : p \in DOMAIN d.s.user <=> p \in 0 .. a - 1
            <7>1. \A p \in 0 .. a - 1 : p < a
              BY <5>1
            <7> QED
              BY <5>3, <5>4, <7>1
          <6> QED
            BY <5>2, <6>1
      <4> QED
        BY <1>4, <4>1, <4>2
    <3> QED
      BY <2>5, <3>3, <3>4, <3>5 DEF Grown, Kept
  <2> QED
    BY <2>5, <2>7, <2>8
<1> QED
  BY <1>2, <1>3, <1>4, MemoryAssumption DEF MemoryAssumption

-----------------------------------------------------------------------------
(* The pages all page tables take.                                         *)

CostsUpto(S, n, g) == g = [i \in 0 .. n |-> IF i = 0 THEN 0 ELSE g[i - 1] + Cost(S[i])]

LEMMA CostsExist ==
  ASSUME NEW S
  PROVE  \A n \in Nat : \E g : CostsUpto(S, n, g)
<1> DEFINE N == {n \in Nat : \E g : CostsUpto(S, n, g)}
<1>1. 0 \in N
  <2> DEFINE g == [i \in 0 .. 0 |-> 0]
  <2>1. CostsUpto(S, 0, g)
    BY DEF CostsUpto
  <2> QED
    BY <2>1
<1>2. ASSUME NEW n \in Nat, n \in N PROVE n + 1 \in N
  <2>1. PICK g : CostsUpto(S, n, g)
    BY <1>2
  <2> DEFINE h == [i \in 0 .. n + 1 |-> IF i = n + 1 THEN g[n] + Cost(S[n + 1]) ELSE g[i]]
  <2>2. \A i \in 0 .. n : h[i] = g[i] /\ g[i] = IF i = 0 THEN 0 ELSE g[i - 1] + Cost(S[i])
    BY <2>1 DEF CostsUpto
  <2>3. /\ h = [i \in 0 .. n + 1 |-> h[i]]
        /\ h[n + 1] = g[n] + Cost(S[n + 1])
        /\ 0 \in 0 .. n /\ n \in 0 .. n
    OBVIOUS
  <2> HIDE DEF h
  <2>4. h = [i \in 0 .. n + 1 |-> IF i = 0 THEN 0 ELSE h[i - 1] + Cost(S[i])]
    <3>1. \A i \in 0 .. n + 1 : h[i] = IF i = 0 THEN 0 ELSE h[i - 1] + Cost(S[i])
      <4> TAKE i \in 0 .. n + 1
      <4>1. CASE i = n + 1
        <5>1. h[n] = g[n]
          BY <2>2, <2>3
        <5>2. i - 1 = n /\ i # 0
          BY <4>1
        <5> QED
          BY <2>3, <4>1, <5>1, <5>2
      <4>2. CASE i = 0
        BY <2>2, <2>3, <4>2
      <4>3. CASE i \in 1 .. n
        <5>1. i - 1 \in 0 .. n /\ i \in 0 .. n
          BY <4>3
        <5>2. h[i] = g[i] /\ h[i - 1] = g[i - 1] /\ g[i] = g[i - 1] + Cost(S[i])
          BY <2>2, <4>3, <5>1
        <5> QED
          BY <4>3, <5>2
      <4> QED
        BY <4>1, <4>2, <4>3
    <3> QED
      BY <2>3, <3>1
  <2>5. CostsUpto(S, n + 1, h)
    BY <2>4 DEF CostsUpto
  <2> QED
    BY <2>5
<1> HIDE DEF N
<1>3. Nat \subseteq N
  BY <1>1, <1>2, NatWhole
<1> QED
  BY <1>3 DEF N

LEMMA CostsAre ==
  ASSUME NEW S
  PROVE  \E g : /\ Costs(S) = g[MemSpaces] /\ g[0] = 0
                /\ \A i \in SpaceNo : g[i] = g[i - 1] + Cost(S[i])
<1> DEFINE g == CHOOSE g : CostsUpto(S, MemSpaces, g)
<1>1. MemSpaces \in Nat
  BY MemoryAssumption DEF MemoryAssumption
<1>2. CostsUpto(S, MemSpaces, g)
  BY <1>1, CostsExist
<1>3. Costs(S) = g[MemSpaces]
  BY DEF Costs, CostsUpto
<1> HIDE DEF g
<1>4. g[0] = 0 /\ \A i \in SpaceNo : g[i] = g[i - 1] + Cost(S[i])
  BY <1>1, <1>2 DEF CostsUpto, SpaceNo
<1> QED
  BY <1>3, <1>4

LEMMA CostsChange ==
  ASSUME NEW S \in [SpaceNo -> Table], NEW i \in SpaceNo, NEW s \in Table,
         NEW T, T = [S EXCEPT ![i] = s]
  PROVE  /\ Costs(S) \in Nat /\ Costs(T) \in Nat /\ Cost(S[i]) \in Nat /\ Cost(s) \in Nat
         /\ Costs(T) + Cost(S[i]) = Costs(S) + Cost(s)
<1>1. MemSpaces \in Nat /\ i \in Nat /\ i # 0
  BY MemoryAssumption DEF MemoryAssumption, SpaceNo
<1>2. PICK g : /\ Costs(S) = g[MemSpaces] /\ g[0] = 0
               /\ \A j \in SpaceNo : g[j] = g[j - 1] + Cost(S[j])
  BY CostsAre
<1>3. PICK h : /\ Costs(T) = h[MemSpaces] /\ h[0] = 0
               /\ \A j \in SpaceNo : h[j] = h[j - 1] + Cost(T[j])
  BY CostsAre
<1>4. PICK a \in Nat, b \in Nat : a = Cost(S[i]) /\ b = Cost(s)
  BY CostIs
<1>5. \A j \in SpaceNo : Cost(S[j]) \in Nat
  BY CostIs
<1>6. T[i] = s /\ \A j \in SpaceNo : j # i => T[j] = S[j]
  OBVIOUS
<1> DEFINE N == {n \in Nat : n <= MemSpaces =>
                   g[n] \in Nat /\ h[n] \in Nat /\ IF n < i THEN h[n] = g[n] ELSE h[n] + a = g[n] + b}
<1>7. 0 \in N
  BY <1>1, <1>2, <1>3
<1>8. ASSUME NEW n \in Nat, n \in N PROVE n + 1 \in N
  <2>1. SUFFICES ASSUME n + 1 <= MemSpaces
                 PROVE  /\ g[n + 1] \in Nat /\ h[n + 1] \in Nat
                        /\ IF n + 1 < i THEN h[n + 1] = g[n + 1] ELSE h[n + 1] + a = g[n + 1] + b
    OBVIOUS
  <2>2. PICK j \in SpaceNo : j = n + 1 /\ j - 1 = n
    BY <1>1, <2>1 DEF SpaceNo
  <2>3. g[j] = g[n] + Cost(S[j]) /\ h[j] = h[n] + Cost(T[j]) /\ Cost(S[j]) \in Nat
    BY <1>2, <1>3, <1>5, <2>2
  <2>4. g[n] \in Nat /\ h[n] \in Nat /\ IF n < i THEN h[n] = g[n] ELSE h[n] + a = g[n] + b
    BY <1>1, <1>8, <2>1
  <2>5. CASE j = i
    <3>1. g[j] = g[n] + a /\ h[j] = h[n] + b /\ h[n] = g[n]
      BY <1>1, <1>4, <1>6, <2>2, <2>3, <2>4, <2>5
    <3> QED
      BY <1>1, <2>2, <2>4, <2>5, <3>1
  <2>6. CASE j # i
    <3>1. PICK c \in Nat : c = Cost(S[j]) /\ g[j] = g[n] + c /\ h[j] = h[n] + c
      BY <1>6, <2>3, <2>6
    <3>2. n < i <=> n + 1 < i
      BY <1>1, <2>2, <2>6
    <3> QED
      BY <2>2, <2>4, <3>1, <3>2
  <2> QED
    BY <2>5, <2>6
<1> HIDE DEF N
<1>9. MemSpaces \in N
  BY <1>1, <1>7, <1>8, NatWhole
<1>10. g[MemSpaces] \in Nat /\ h[MemSpaces] \in Nat /\ h[MemSpaces] + a = g[MemSpaces] + b
  BY <1>1, <1>9 DEF N, SpaceNo
<1> QED
  BY <1>2, <1>3, <1>4, <1>10

(* No table, and the first one.                                            *)
LEMMA NoTables ==
  /\ NoTable \in Table /\ NewTable \in Table /\ NewTable.used /\ ~NoTable.used
  /\ Cost(NoTable) = 0 /\ Cost(NewTable) = 1 + KernTables
  /\ DOMAIN NewTable.user = {} /\ DOMAIN NoTable.user = {} /\ NewTable.tabs = {}
  /\ Costs([i \in SpaceNo |-> NoTable]) = 0
<1>1. {} \in PageSets /\ NoPages \in UserMaps /\ DOMAIN NoPages = {}
  <2>1. {} \in PageSets
    BY FS_EmptySet DEF PageSets
  <2>2. NoPages \in [{} -> BOOLEAN]
    BY DEF NoPages
  <2> QED
    BY <2>1, <2>2, MapsAre DEF NoPages
<1>2. /\ NoTable \in Table /\ ~NoTable.used /\ DOMAIN NoTable.user = {}
      /\ NewTable \in Table /\ NewTable.used /\ DOMAIN NewTable.user = {} /\ NewTable.tabs = {}
  BY <1>1 DEF NoTable, NewTable, Table
<1>3. Cost(NoTable) = 0
  BY <1>2 DEF Cost
<1>4. Cost(NewTable) = 1 + KernTables
  <2>1. Cost(NewTable) = 1 + KernTables + 0 + 0
    BY <1>2, FS_EmptySet DEF Cost
  <2> QED
    BY <2>1, MemoryAssumption DEF MemoryAssumption
<1>5. Costs([i \in SpaceNo |-> NoTable]) = 0
  <2>1. PICK S : S = [i \in SpaceNo |-> NoTable]
    OBVIOUS
  <2>2. PICK g : /\ Costs(S) = g[MemSpaces] /\ g[0] = 0
                 /\ \A j \in SpaceNo : g[j] = g[j - 1] + Cost(S[j])
    BY CostsAre
  <2>3. \A j \in SpaceNo : g[j] = g[j - 1] + 0
    BY <1>3, <2>1, <2>2
  <2> DEFINE N == {n \in Nat : n <= MemSpaces => g[n] = 0}
  <2>4. MemSpaces \in Nat
    BY MemoryAssumption DEF MemoryAssumption
  <2>5. 0 \in N
    BY <2>2
  <2>6. ASSUME NEW n \in Nat, n \in N PROVE n + 1 \in N
    <3>1. ASSUME n + 1 <= MemSpaces PROVE g[n + 1] = 0
      <4>1. n + 1 \in SpaceNo /\ (n + 1) - 1 = n /\ g[n] = 0
        BY <2>4, <2>6, <3>1 DEF SpaceNo
      <4> QED
        BY <2>3, <4>1
    <3> QED
      BY <3>1
  <2> HIDE DEF N
  <2>7. MemSpaces \in N
    BY <2>4, <2>5, <2>6, NatWhole
  <2> QED
    BY <2>1, <2>2, <2>4, <2>7 DEF N
<1> QED
  BY <1>2, <1>3, <1>4, <1>5

-----------------------------------------------------------------------------
(* The calls on page tables.                                               *)

LEMMA ClearpteuKeeps ==
  ASSUME NEW s \in Table, NEW p, NEW r, r = Clearpteu(s, p)
  PROVE  r \in Table /\ r.used = s.used /\ DOMAIN r.user = DOMAIN s.user /\ Cost(r) = Cost(s)
<1>1. PICK D \in PageSets : D = DOMAIN s.user /\ s.user \in [D -> BOOLEAN]
  BY MapsAre DEF Table
<1>2. PICK u : u = [s.user EXCEPT ![p] = FALSE]
  OBVIOUS
<1>3. u \in [D -> BOOLEAN] /\ DOMAIN u = D
  BY <1>1, <1>2
<1>4. u \in UserMaps
  BY <1>1, <1>3, MapsAre
<1>5. r = [s EXCEPT !.user = u]
  BY <1>2 DEF Clearpteu
<1>6. r \in Table /\ r.used = s.used /\ r.user = u /\ r.tabs = s.tabs
  BY <1>4, <1>5 DEF Table
<1>7. Cost(r) = Cost(s)
  BY <1>1, <1>3, <1>6 DEF Cost
<1> QED
  BY <1>1, <1>3, <1>6, <1>7

LEMMA CopyuvmCopies ==
  ASSUME NEW s \in Table, NEW f \in Nat, NEW sz \in Nat, Below(sz) \subseteq DOMAIN s.user,
         NEW c, c = Copyuvm(s, f, sz)
  PROVE  /\ c.ok \in BOOLEAN /\ (~c.ok => c.f = f)
         /\ c.ok => c.s \in Table /\ c.s.used /\ DOMAIN c.s.user = Below(sz) /\ c.f \in Nat /\ c.f + Cost(c.s) = f
<1> DEFINE m == MapAll(NewTable, f - 1 - KernTables, 0, PageUp(sz), s.user)
<1>1. CASE SetupkvmFits(f) /\ m.ok
  <2>1. PICK k \in Nat : k = 1 + KernTables /\ k = Cost(NewTable)
    BY NoTables, MemoryAssumption DEF MemoryAssumption
  <2>2. PICK h \in Nat : h = f - 1 - KernTables /\ h + k = f
    BY <1>1, <2>1, MemoryAssumption DEF MemoryAssumption, SetupkvmFits, Kalloced
  <2>3. PICK n \in Nat : n = PageUp(sz)
    BY PageUpIn
  <2>4. PICK r : r = MapAll(NewTable, h, 0, n, s.user)
    OBVIOUS
  <2>5. r = m
    BY <2>2, <2>3, <2>4
  <2>6. \A p \in 0 .. 0 + n - 1 : s.user[p] \in BOOLEAN /\ p \notin DOMAIN NewTable.user
    <3>1. PICK D \in PageSets : D = DOMAIN s.user /\ s.user \in [D -> BOOLEAN]
      BY MapsAre DEF Table
    <3>2. \A p \in 0 .. n - 1 : p \in D
      BY <2>3, <3>1 DEF Below
    <3>3. \A p \in 0 .. n - 1 : s.user[p] \in BOOLEAN
      BY <3>1, <3>2
    <3> QED
      BY <3>3, NoTables
  <2>7. Mapped(NewTable, h, 0, n, r)
    BY <2>4, <2>6, NoTables, MapAllMaps
  <2>8. /\ r.s \in Table /\ r.s.used /\ r.f \in Nat /\ r.f + Cost(r.s) = h + Cost(NewTable)
        /\ DOMAIN r.s.user = DOMAIN NewTable.user \cup (0 .. 0 + n - 1)
    BY <1>1, <2>5, <2>7 DEF Mapped, MapRec
  <2>9. c = [ok |-> TRUE, s |-> r.s, f |-> r.f]
    BY <1>1, <2>5 DEF Copyuvm
  <2>10. c.ok /\ c.s = r.s /\ c.f = r.f
    BY <2>9
  <2>11. DOMAIN r.s.user = Below(sz)
    BY <2>3, <2>8, NoTables DEF Below
  <2> QED
    BY <2>1, <2>2, <2>8, <2>10, <2>11
<1>2. CASE ~(SetupkvmFits(f) /\ m.ok)
  <2>1. c = [ok |-> FALSE, s |-> NoTable, f |-> f]
    BY <1>2 DEF Copyuvm
  <2> QED
    BY <2>1
<1> QED
  BY <1>1, <1>2

LEMMA GrowprocGrows ==
  ASSUME MemTypes(mproc, mspace), NEW t \in MemSlot, mproc[t].pgdir \in SpaceNo, mproc[t].main \in MemSlot,
         Space(t).used, DOMAIN Space(t).user = Below(mproc[t].sz),
         NEW f \in Nat, NEW n \in Int, NEW g, g = Growproc(t, f, n)
  PROVE  /\ Grown(Space(t), f, mproc[t].sz, g)
         /\ g.sz > mproc[t].sz => LimitOf(t) = 0 \/ g.sz <= LimitOf(t)
<1>1. PICK s \in Table, old \in Nat, limit \in Nat : s = Space(t) /\ old = mproc[t].sz /\ limit = LimitOf(t)
  BY DEF MemTypes, MemRec, Space, LimitOf
<1>2. PICK new \in Nat : new = (mproc[t].sz + n) % MemUInt
  <2>1. PICK b \in Nat \ {0} : b = KERNBASE
    BY MemoryAssumption DEF MemoryAssumption
  <2>2. PICK k \in Nat \ {0} : k = MemUInt
    BY <2>1 DEF MemUInt
  <2>3. PICK i \in Int : i = old + n
    OBVIOUS
  <2>4. i % k \in Nat
    BY <2>2
  <2> QED
    BY <1>1, <2>2, <2>3, <2>4
<1>3. s.used /\ DOMAIN s.user = Below(old)
  BY <1>1
<1>4. CASE n > 0 /\ LimitOf(t) # 0 /\ LimitOf(t) < new
  <2>1. g = [s |-> s, f |-> f, sz |-> 0, panic |-> FALSE]
    BY <1>1, <1>2, <1>4 DEF Growproc
  <2>2. g.s = s /\ g.f = f /\ g.sz = 0 /\ ~g.panic
    BY <2>1
  <2>3. Grown(s, f, old, g)
    BY <1>3, <2>2 DEF Grown, Kept
  <2> QED
    BY <1>1, <2>2, <2>3
<1>5. CASE n > 0 /\ ~(LimitOf(t) # 0 /\ LimitOf(t) < new)
  <2>1. g = Allocuvm(s, f, old, new)
    BY <1>1, <1>2, <1>5 DEF Growproc
  <2>2. Grown(s, f, old, g) /\ g.sz \in {0, old, new}
    BY <1>3, <2>1, AllocuvmAllocs
  <2>3. g.sz > old => g.sz = new
    BY <2>2
  <2>4. new > old => limit = 0 \/ new <= limit
    BY <1>1, <1>5
  <2> QED
    BY <1>1, <2>2, <2>3, <2>4
<1>6. CASE ~(n > 0)
  <2>1. g = Deallocuvm(s, f, old, new)
    BY <1>1, <1>2, <1>6 DEF Growproc
  <2>2. /\ Kept(s, f, g) /\ g.sz = IF new >= old THEN old ELSE new
        /\ new >= old => DOMAIN g.s.user = DOMAIN s.user
        /\ new < old => DOMAIN g.s.user = {p \in DOMAIN s.user : p < PageUp(new) \/ p >= PageUp(old)}
    BY <1>3, <2>1, DeallocuvmFrees
  <2>3. DOMAIN g.s.user = Below(g.sz) /\ ~(g.sz > old)
    <3>1. CASE new >= old
      BY <1>3, <2>2, <3>1
    <3>2. CASE new < old
      <4>1. PageUp(new) \in Nat /\ PageUp(old) \in Nat /\ PageUp(new) <= PageUp(old)
        BY <3>2, PageUpIn, PageUpOrder
      <4>2. \A p : p \in DOMAIN g.s.user <=> p \in Below(new)
        BY <1>3, <2>2, <3>2, <4>1, BelowIs
      <4>3. g.sz = new /\ DOMAIN g.s.user \in SUBSET Nat /\ Below(new) \in SUBSET Nat
        BY <2>2, <3>2, <4>2, BelowIs DEF PageSets
      <4> QED
        BY <3>2, <4>2, <4>3, SMTT(40)
    <3> QED
      BY <3>1, <3>2
  <2>4. Grown(s, f, old, g)
    BY <2>2, <2>3 DEF Grown
  <2> QED
    BY <1>1, <2>3, <2>4
<1> QED
  BY <1>4, <1>5, <1>6

-----------------------------------------------------------------------------
(* The changes the actions are made of, one slot or one table at a time.   *)

LEMMA MemFields ==
  ASSUME NEW p \in MemRec
  PROVE  /\ p.state \in MemStates /\ p.main \in 0 .. MemSlots /\ p.parent \in 0 .. MemSlots
         /\ p.sz \in Nat /\ p.nsz \in Nat /\ p.memlim \in Nat /\ p.stacksize \in Nat /\ p.prog \in Seq(Segment)
         /\ p.pgdir # NoSpace => p.pgdir \in SpaceNo
         /\ p.new # NoSpace => p.new \in SpaceNo
<1>1. \A i \in 0 .. MemSpaces : i # NoSpace => i \in SpaceNo
  BY MemoryAssumption DEF MemoryAssumption, NoSpace, SpaceNo
<1> QED
  BY <1>1 DEF MemRec

(* Fields the invariant does not look at.                                  *)
Alike(p, q) ==
  /\ q.state = p.state /\ q.main = p.main /\ q.pgdir = p.pgdir /\ q.sz = p.sz
  /\ q.at = p.at /\ q.new = p.new /\ q.nsz = p.nsz
  /\ p.state = "UNUSED" => q = p
  /\ p.state = "EMBRYO" => q.parent = p.parent

LEMMA AlikeKeeps ==
  ASSUME NEW P, NEW S, Parts(P, S), NEW Q \in [MemSlot -> MemRec], \A u \in MemSlot : Alike(P[u], Q[u])
  PROVE  Parts(Q, S) /\ InUse(Q) = InUse(P)
<1>1. P \in [MemSlot -> MemRec] /\ S \in [SpaceNo -> Table]
  BY DEF Parts, MemTypes
<1>2. \A u \in MemSlot : /\ Q[u].state = P[u].state /\ Q[u].main = P[u].main /\ Q[u].pgdir = P[u].pgdir /\ Q[u].sz = P[u].sz
                         /\ Q[u].at = P[u].at /\ Q[u].new = P[u].new /\ Q[u].nsz = P[u].nsz
                         /\ P[u].state = "UNUSED" => Q[u] = P[u]
                         /\ P[u].state = "EMBRYO" => Q[u].parent = P[u].parent
  BY DEF Alike
<1>3. SlotsInv(Q)
  BY <1>2 DEF Parts, SlotsInv
<1>4. EmbryosInv(Q)
  BY <1>2 DEF Parts, EmbryosInv
<1>5. ZombiesInv(Q)
  BY <1>2 DEF Parts, ZombiesInv
<1>6. ExecInv(Q, S)
  BY <1>2 DEF Parts, ExecInv, Living
<1>7. SharesInv(Q, S)
  BY <1>2 DEF Parts, SharesInv, Living
<1>8. HoldersInv(Q, S)
  BY <1>2 DEF Parts, HoldersInv, Living
<1>9. InUse(Q) = InUse(P)
  BY <1>2 DEF InUse
<1> QED
  BY <1>1, <1>3, <1>4, <1>5, <1>6, <1>7, <1>8, <1>9 DEF Parts, MemTypes

(* The pages and the size of the process of t.                             *)
LEMMA ResizedKeeps ==
  ASSUME NEW P, NEW S, Parts(P, S), NEW t \in MemSlot, P[t].state = "RUN",
         NEW R \in [SpaceNo -> Table], \A j \in SpaceNo : j # P[t].pgdir => R[j] = S[j],
         R[P[t].pgdir].used, NEW sz \in Nat, sz # 0, DOMAIN R[P[t].pgdir].user \in {{}, Below(sz)},
         NEW Q, Q = Sized(P, t, sz)
  PROVE  Parts(Q, R) /\ InUse(Q) = InUse(P) /\ P[t].pgdir \in SpaceNo
<1>1. P \in [MemSlot -> MemRec] /\ S \in [SpaceNo -> Table]
  BY DEF Parts, MemTypes
<1>a. \A p \in MemRec : LET q == [p EXCEPT !.sz = sz] IN
        /\ q \in MemRec /\ q.state = p.state /\ q.main = p.main /\ q.pgdir = p.pgdir
        /\ q.at = p.at /\ q.new = p.new /\ q.nsz = p.nsz /\ q.parent = p.parent /\ q.sz = sz
  BY DEF MemRec
<1>b. Q = [u \in MemSlot |-> IF P[u].main = P[t].main THEN [P[u] EXCEPT !.sz = sz] ELSE P[u]]
  BY DEF Sized
<1>2. Q \in [MemSlot -> MemRec]
  BY <1>1, <1>a, <1>b
<1>3. \A u \in MemSlot : /\ Q[u].state = P[u].state /\ Q[u].main = P[u].main /\ Q[u].pgdir = P[u].pgdir
                         /\ Q[u].at = P[u].at /\ Q[u].new = P[u].new /\ Q[u].nsz = P[u].nsz /\ Q[u].parent = P[u].parent
                         /\ Q[u].sz = IF P[u].main = P[t].main THEN sz ELSE P[u].sz
  BY <1>1, <1>a, <1>b
<1>4. P[t].main \in MemSlot /\ P[t].pgdir # NoSpace /\ Living(P[t])
  BY DEF Parts, SlotsInv, SharesInv, Living
<1>5. PICK i \in SpaceNo : i = P[t].pgdir
  BY <1>1, <1>4, MemFields
<1>6. R[i].used /\ DOMAIN R[i].user \in {{}, Below(sz)} /\ \A j \in SpaceNo : j # i => R[j] = S[j]
  BY <1>5
<1>7. \A u \in MemSlot : P[u].state = "UNUSED" => Q[u] = P[u]
  <2> TAKE u \in MemSlot
  <2>1. P[u].state = "UNUSED" => P[u].main = 0
    BY DEF Parts, SlotsInv, MemFree
  <2>2. P[t].main # 0
    BY <1>4 DEF MemSlot
  <2> QED
    BY <1>b, <2>1, <2>2
<1>8. SlotsInv(Q)
  BY <1>3, <1>7 DEF Parts, SlotsInv
<1>9. EmbryosInv(Q)
  BY <1>3 DEF Parts, EmbryosInv
<1>10. ZombiesInv(Q)
  BY <1>3 DEF Parts, ZombiesInv
<1>11. \A u \in MemSlot : P[u].new # NoSpace => P[u].new \in SpaceNo /\ P[u].new # i
  <2> TAKE u \in MemSlot
  <2>1. P[u].new # NoSpace => P[u].new # i
    BY <1>4, <1>5 DEF Parts, ExecInv
  <2> QED
    BY <1>1, <2>1, MemFields
<1>12. ExecInv(Q, R)
  BY <1>3, <1>6, <1>11 DEF Parts, ExecInv, Living
<1>13. \A u \in MemSlot : Living(P[u]) => /\ P[u].pgdir \in SpaceNo
                                          /\ P[u].main = P[t].main => P[u].pgdir = i
                                          /\ P[u].main # P[t].main => P[u].pgdir # i
  <2> TAKE u \in MemSlot
  <2>1. Living(P[u]) => P[u].pgdir # NoSpace /\ (P[u].main = P[t].main <=> P[u].pgdir = P[t].pgdir)
    BY <1>4 DEF Parts, SharesInv
  <2> QED
    BY <1>1, <1>5, <2>1, MemFields
<1>14. SharesInv(Q, R)
  <2> SUFFICES ASSUME NEW v \in MemSlot, Living(Q[v])
               PROVE  /\ Q[v].pgdir # NoSpace /\ Q[v].sz # 0
                      /\ DOMAIN R[Q[v].pgdir].user \in {{}, Below(Q[v].sz)}
                      /\ \A u \in MemSlot : Living(Q[u]) =>
                           /\ Q[u].main = Q[v].main => Q[u].sz = Q[v].sz
                           /\ Q[u].main = Q[v].main <=> Q[u].pgdir = Q[v].pgdir
    BY DEF SharesInv
  <2>1. Living(P[v]) /\ \A u \in MemSlot : Living(Q[u]) => Living(P[u])
    BY <1>3 DEF Living
  <2>2. /\ P[v].pgdir # NoSpace /\ P[v].sz # 0
        /\ DOMAIN S[P[v].pgdir].user \in {{}, Below(P[v].sz)}
        /\ \A u \in MemSlot : Living(P[u]) =>
             /\ P[u].main = P[v].main => P[u].sz = P[v].sz
             /\ P[u].main = P[v].main <=> P[u].pgdir = P[v].pgdir
    BY <2>1 DEF Parts, SharesInv
  <2>3. DOMAIN R[Q[v].pgdir].user \in {{}, Below(Q[v].sz)}
    <3>1. CASE P[v].main = P[t].main
      <4>1. P[v].pgdir = i
        BY <1>13, <2>1, <3>1
      <4>2. Q[v].pgdir = i /\ Q[v].sz = sz
        BY <1>3, <3>1, <4>1
      <4> QED
        BY <1>6, <4>2
    <3>2. CASE P[v].main # P[t].main
      <4>1. R[P[v].pgdir] = S[P[v].pgdir]
        <5>1. P[v].pgdir \in SpaceNo /\ P[v].pgdir # i
          BY <1>13, <2>1, <3>2
        <5> QED
          BY <1>6, <5>1
      <4> QED
        BY <1>3, <2>2, <3>2, <4>1
    <3> QED
      BY <3>1, <3>2
  <2>4. Q[v].sz # 0 /\ Q[v].pgdir # NoSpace
    BY <1>3, <2>2
  <2>5. ASSUME NEW u \in MemSlot, Living(Q[u])
        PROVE  /\ Q[u].main = Q[v].main => Q[u].sz = Q[v].sz
               /\ Q[u].main = Q[v].main <=> Q[u].pgdir = Q[v].pgdir
    <3>1. /\ P[u].main = P[v].main => P[u].sz = P[v].sz
          /\ P[u].main = P[v].main <=> P[u].pgdir = P[v].pgdir
      BY <2>1, <2>2, <2>5
    <3> QED
      BY <1>3, <3>1
  <2> QED
    BY <2>3, <2>4, <2>5
<1>15. HoldersInv(Q, R)
  <2>1. S[i].used
    BY <1>4, <1>5 DEF Parts, HoldersInv
  <2>2. \A j \in SpaceNo : R[j].used <=> S[j].used
    BY <1>6, <2>1
  <2> QED
    BY <1>3, <2>2 DEF Parts, HoldersInv, Living
<1>16. InUse(Q) = InUse(P)
  BY <1>3 DEF InUse
<1> QED
  BY <1>2, <1>5, <1>6, <1>8, <1>9, <1>10, <1>12, <1>14, <1>15, <1>16 DEF Parts, MemTypes

(* How many slots are in use.                                              *)
LEMMA InUseCounts ==
  ASSUME NEW P
  PROVE  IsFiniteSet(InUse(P)) /\ Cardinality(InUse(P)) \in Nat
<1>1. IsFiniteSet(MemSlot)
  BY FS_Interval, MemoryAssumption DEF MemSlot, MemoryAssumption
<1> QED
  BY <1>1, FS_Subset, FS_CardinalityType DEF InUse

LEMMA InUseChanges ==
  ASSUME NEW P, NEW Q, NEW u \in MemSlot, \A v \in MemSlot : v # u => Q[v].state = P[v].state
  PROVE  /\ P[u].state = "UNUSED" /\ Q[u].state # "UNUSED" => Cardinality(InUse(Q)) = Cardinality(InUse(P)) + 1
         /\ P[u].state # "UNUSED" /\ Q[u].state = "UNUSED" => Cardinality(InUse(Q)) = Cardinality(InUse(P)) - 1
         /\ (P[u].state = "UNUSED" <=> Q[u].state = "UNUSED") => InUse(Q) = InUse(P)
<1>1. IsFiniteSet(InUse(P)) /\ IsFiniteSet(InUse(Q))
  BY InUseCounts
<1>2. CASE P[u].state = "UNUSED" /\ Q[u].state # "UNUSED"
  <2>1. InUse(Q) = InUse(P) \cup {u} /\ u \notin InUse(P)
    BY <1>2 DEF InUse
  <2> QED
    BY <1>1, <1>2, <2>1, FS_AddElement
<1>3. CASE P[u].state # "UNUSED" /\ Q[u].state = "UNUSED"
  <2>1. InUse(Q) = InUse(P) \ {u} /\ u \in InUse(P)
    BY <1>3 DEF InUse
  <2> QED
    BY <1>1, <1>3, <2>1, FS_RemoveElement
<1>4. CASE P[u].state = "UNUSED" <=> Q[u].state = "UNUSED"
  <2>1. InUse(Q) = InUse(P)
    BY <1>4 DEF InUse
  <2> QED
    BY <1>4, <2>1
<1> QED
  BY <1>2, <1>3, <1>4

(* A free slot is nobody's main thread, and not the parent of an embryo.   *)
LEMMA FreeSlot ==
  ASSUME NEW P, NEW S, Parts(P, S), NEW u \in MemSlot, P[u].state = "UNUSED"
  PROVE  /\ P[u].main = 0 /\ P[u].new = NoSpace /\ P[u].at = "user"
         /\ \A v \in MemSlot : P[v].main # u /\ (P[v].state = "EMBRYO" => P[v].parent # u)
<1>1. P[u].main = 0 /\ P[u].new = NoSpace /\ P[u].at = "user"
  BY DEF Parts, SlotsInv, MemFree
<1>2. ASSUME NEW v \in MemSlot, P[v].main = u PROVE FALSE
  <2>1. P[v].state # "UNUSED"
    BY <1>2 DEF Parts, SlotsInv, MemFree, MemSlot
  <2>2. P[u].main = u
    BY <1>2, <2>1 DEF Parts, SlotsInv
  <2> QED
    BY <1>1, <2>2 DEF MemSlot
<1>3. ASSUME NEW v \in MemSlot, P[v].state = "EMBRYO", P[v].parent = u PROVE FALSE
  <2>1. P[u].at = "fork"
    BY <1>3 DEF Parts, EmbryosInv
  <2> QED
    BY <1>1, <2>1
<1> QED
  BY <1>1, <1>2, <1>3

(* Another thread u in the process of t.                                   *)
LEMMA ThreadAdded ==
  ASSUME NEW P, NEW S, Parts(P, S), NEW t \in MemSlot, P[t].state = "RUN",
         NEW u \in MemSlot, P[u].state = "UNUSED", NEW r \in MemRec, r.state = "RUN", r.at = "user", r.new = NoSpace,
         r.main = P[t].main, r.pgdir = P[t].pgdir, r.sz = P[t].sz, NEW Q, Q = [P EXCEPT ![u] = r]
  PROVE  Parts(Q, S) /\ Cardinality(InUse(Q)) = Cardinality(InUse(P)) + 1
<1>1. P \in [MemSlot -> MemRec] /\ S \in [SpaceNo -> Table]
  BY DEF Parts, MemTypes
<1>2. Q \in [MemSlot -> MemRec] /\ Q[u] = r /\ \A v \in MemSlot : v # u => Q[v] = P[v]
  BY <1>1
<1>3. /\ P[u].main = 0 /\ P[u].new = NoSpace /\ P[u].at = "user"
      /\ \A v \in MemSlot : P[v].main # u /\ (P[v].state = "EMBRYO" => P[v].parent # u)
  BY FreeSlot
<1>4. t # u /\ P[t].main \in MemSlot /\ P[P[t].main].main = P[t].main /\ P[t].main # u
  BY <1>3 DEF Parts, SlotsInv
<1>5. SlotsInv(Q)
  BY <1>2, <1>3, <1>4 DEF Parts, SlotsInv
<1>6. EmbryosInv(Q)
  <2>1. \A e \in MemSlot : P[e].state = "EMBRYO" => P[t].main # e
    BY DEF Parts, EmbryosInv
  <2> QED
    BY <1>2, <1>3, <1>4, <2>1 DEF Parts, EmbryosInv
<1>7. ZombiesInv(Q)
  <2>1. \A e \in MemSlot : P[e].state = "ZOMBIE" /\ P[e].main = e => P[t].main # e
    BY DEF Parts, ZombiesInv
  <2> QED
    BY <1>2, <1>3, <1>4, <2>1 DEF Parts, ZombiesInv
<1>8. ExecInv(Q, S)
  <2>1. Living(P[t])
    BY DEF Living
  <2> QED
    BY <1>2, <1>3, <1>4, <2>1 DEF Parts, ExecInv, Living
<1>9. SharesInv(Q, S)
  <2>1. Living(P[t]) /\ ~Living(P[u])
    BY DEF Living
  <2>2. \A v \in MemSlot : LET w == IF v = u THEN t ELSE v IN
          /\ w \in MemSlot /\ (Living(Q[v]) => Living(P[w])) /\ Q[v].main = P[w].main
          /\ Q[v].pgdir = P[w].pgdir /\ Q[v].sz = P[w].sz
    BY <1>2, <1>4, <2>1 DEF Living
  <2> QED
    BY <2>2 DEF Parts, SharesInv
<1>10. HoldersInv(Q, S)
  <2>1. Living(P[t]) /\ ~Living(P[u]) /\ Living(Q[u])
    BY <1>2 DEF Living
  <2>2. P[u].new = NoSpace /\ \A i \in SpaceNo : i # NoSpace
    BY <1>3 DEF NoSpace, SpaceNo
  <2>3. \A i \in SpaceNo : (\E v \in MemSlot : i = Q[v].new \/ (Living(Q[v]) /\ i = Q[v].pgdir))
                        <=> \E v \in MemSlot : i = P[v].new \/ (Living(P[v]) /\ i = P[v].pgdir)
    BY <1>2, <1>4, <2>1, <2>2
  <2> QED
    BY <2>3 DEF Parts, HoldersInv
<1>11. Cardinality(InUse(Q)) = Cardinality(InUse(P)) + 1
  BY <1>2, InUseChanges
<1> QED
  BY <1>1, <1>2, <1>5, <1>6, <1>7, <1>8, <1>9, <1>10, <1>11 DEF Parts, MemTypes

LEMMA MemFreeIs ==
  /\ MemFree \in MemRec /\ MemFree.state = "UNUSED" /\ MemFree.main = 0 /\ MemFree.pgdir = NoSpace /\ MemFree.sz = 0
  /\ MemFree.parent = 0 /\ MemFree.at = "user" /\ MemFree.new = NoSpace /\ MemFree.nsz = 0
<1>1. 0 \in 0 .. MemSlots /\ 0 \in 0 .. MemSpaces /\ 0 \in Nat /\ 1 \in Nat /\ <<>> \in Seq(Segment)
  BY MemoryAssumption DEF MemoryAssumption
<1> QED
  BY <1>1 DEF MemFree, MemRec, MemStates, NoSpace

(* The caller of fork() goes into it and comes back.                       *)
Moved(p, q, at) ==
  /\ q \in MemRec /\ q.state = p.state /\ q.at = at /\ q.main = p.main /\ q.pgdir = p.pgdir
  /\ q.sz = p.sz /\ q.new = p.new /\ q.nsz = p.nsz /\ q.parent = p.parent

LEMMA MovedIs ==
  ASSUME NEW p \in MemRec, NEW at \in {"user", "fork"}
  PROVE  Moved(p, [p EXCEPT !.at = at], at)
BY DEF MemRec, Moved

(* fork() of t: the child u is an EMBRYO first.                            *)
LEMMA EmbryoAdded ==
  ASSUME NEW P, NEW S, Parts(P, S), NEW t \in MemSlot, P[t].state = "RUN", P[t].at = "user",
         NEW u \in MemSlot, P[u].state = "UNUSED",
         NEW Q \in [MemSlot -> MemRec], Moved(P[t], Q[t], "fork"), \A v \in MemSlot : v # u /\ v # t => Q[v] = P[v],
         Q[u].state = "EMBRYO", Q[u].main = u, Q[u].parent = t, Q[u].at = "user", Q[u].new = NoSpace
  PROVE  Parts(Q, S) /\ Cardinality(InUse(Q)) = Cardinality(InUse(P)) + 1
<1>1. P \in [MemSlot -> MemRec] /\ S \in [SpaceNo -> Table] /\ t # u
  BY DEF Parts, MemTypes
<1>5. /\ Q[t].state = "RUN" /\ Q[t].at = "fork" /\ Q[t].main = P[t].main /\ Q[t].pgdir = P[t].pgdir
      /\ Q[t].sz = P[t].sz /\ Q[t].new = P[t].new /\ Q[t].nsz = P[t].nsz /\ Q[t].parent = P[t].parent
  BY DEF Moved
<1>7. /\ P[u].main = 0 /\ P[u].new = NoSpace /\ P[u].at = "user"
      /\ \A v \in MemSlot : P[v].main # u /\ (P[v].state = "EMBRYO" => P[v].parent # u)
  BY FreeSlot
<1>8. P[t].main \in MemSlot /\ P[P[t].main].main = P[t].main /\ P[t].main # u /\ P[t].new = NoSpace
  BY <1>7 DEF Parts, SlotsInv, ExecInv
<1>9. SlotsInv(Q)
  BY <1>1, <1>5, <1>7, <1>8 DEF Parts, SlotsInv
<1>10. EmbryosInv(Q)
  <2>1. \A e \in MemSlot : P[e].state = "EMBRYO" => P[e].parent # t
    BY DEF Parts, EmbryosInv
  <2> QED
    BY <1>1, <1>5, <1>7, <1>8, <2>1 DEF Parts, EmbryosInv
<1>11. ZombiesInv(Q)
  BY <1>1, <1>5, <1>7, <1>8 DEF Parts, ZombiesInv
<1>12. ExecInv(Q, S)
  BY <1>1, <1>5, <1>7, <1>8 DEF Parts, ExecInv, Living
<1>13. SharesInv(Q, S)
  BY <1>1, <1>5, <1>7, <1>8 DEF Parts, SharesInv, Living
<1>14. HoldersInv(Q, S)
  <2>1. \A v \in MemSlot : Q[v].new = P[v].new /\ (Living(Q[v]) <=> Living(P[v])) /\ (Living(P[v]) => Q[v].pgdir = P[v].pgdir)
    BY <1>1, <1>5, <1>7 DEF Living
  <2>2. \A i \in SpaceNo : (\E v \in MemSlot : i = Q[v].new \/ (Living(Q[v]) /\ i = Q[v].pgdir))
                        <=> \E v \in MemSlot : i = P[v].new \/ (Living(P[v]) /\ i = P[v].pgdir)
    BY <2>1
  <2> QED
    BY <2>2 DEF Parts, HoldersInv
<1>15. Cardinality(InUse(Q)) = Cardinality(InUse(P)) + 1
  <2>1. \A v \in MemSlot : v # u => Q[v].state = P[v].state
    BY <1>1, <1>5
  <2>2. Q[u].state # "UNUSED"
    OBVIOUS
  <2> QED
    BY <2>1, <2>2, InUseChanges
<1> QED
  BY <1>1, <1>9, <1>10, <1>11, <1>12, <1>13, <1>14, <1>15 DEF Parts, MemTypes

(* The child of fork() gets a copy, or the slot is given up.               *)
LEMMA EmbryoRuns ==
  ASSUME NEW P, NEW S, Parts(P, S), NEW t \in MemSlot, P[t].state = "RUN", P[t].at = "fork",
         NEW u \in MemSlot, P[u].state = "EMBRYO", P[u].parent = t,
         NEW id \in SpaceNo, ~S[id].used,
         NEW R \in [SpaceNo -> Table], R[id].used, DOMAIN R[id].user = Below(P[t].sz), \A i \in SpaceNo : i # id => R[i] = S[i],
         NEW Q \in [MemSlot -> MemRec], Moved(P[t], Q[t], "user"), \A v \in MemSlot : v # u /\ v # t => Q[v] = P[v],
         Q[u].state = "RUN", Q[u].main = u, Q[u].at = "user", Q[u].new = NoSpace, Q[u].pgdir = id, Q[u].sz = P[t].sz
  PROVE  Parts(Q, R) /\ InUse(Q) = InUse(P)
<1>1. P \in [MemSlot -> MemRec] /\ S \in [SpaceNo -> Table] /\ t # u
  BY DEF Parts, MemTypes
<1>2. /\ Q[t].state = "RUN" /\ Q[t].at = "user" /\ Q[t].main = P[t].main /\ Q[t].pgdir = P[t].pgdir
      /\ Q[t].sz = P[t].sz /\ Q[t].new = P[t].new /\ Q[t].nsz = P[t].nsz /\ Q[t].parent = P[t].parent
  BY DEF Moved
<1>5. P[u].main = u /\ \A v \in MemSlot : P[v].main = u => v = u
  BY DEF Parts, EmbryosInv
<1>6. \A v \in MemSlot : P[v].new # id /\ (Living(P[v]) => P[v].pgdir # id)
  BY DEF Parts, HoldersInv
<1>7. P[t].new = NoSpace /\ P[u].new = NoSpace /\ id # NoSpace
  BY DEF Parts, ExecInv, SlotsInv, SpaceNo, NoSpace
<1>8. Living(P[t]) /\ P[t].main \in MemSlot /\ P[t].sz # 0
  BY DEF Parts, SlotsInv, SharesInv, Living
<1>9. SlotsInv(Q)
  BY <1>1, <1>2, <1>5, <1>8 DEF Parts, SlotsInv
<1>10. EmbryosInv(Q)
  <2>1. \A e \in MemSlot : P[e].state = "EMBRYO" /\ P[e].parent = t => e = u
    BY DEF Parts, EmbryosInv
  <2>2. P[u].at = "user"
    BY DEF Parts, SlotsInv
  <2>3. \A e \in MemSlot : Q[e].state = "EMBRYO" => e # t /\ e # u /\ Q[e] = P[e]
    BY <1>2
  <2>4. \A v \in MemSlot : Q[v].at = "fork" => v # t /\ v # u /\ Q[v] = P[v]
    BY <1>2
  <2>5. \A e \in MemSlot : P[e].state = "EMBRYO" =>
          /\ P[e].main = e /\ \A v \in MemSlot : P[v].main = e => v = e
          /\ P[e].parent \in MemSlot /\ P[P[e].parent].at = "fork"
    BY DEF Parts, EmbryosInv
  <2>6. ASSUME NEW e \in MemSlot, Q[e].state = "EMBRYO"
        PROVE  /\ Q[e].main = e /\ \A v \in MemSlot : Q[v].main = e => v = e
               /\ Q[e].parent \in MemSlot /\ Q[Q[e].parent].at = "fork"
    <3>1. e # t /\ e # u /\ Q[e] = P[e] /\ P[e].state = "EMBRYO"
      BY <2>3, <2>6
    <3>2. P[e].parent # t /\ P[e].parent # u
      BY <2>1, <2>2, <2>5, <3>1
    <3>3. \A v \in MemSlot : Q[v].main = e => v = e
      BY <1>2, <2>5, <3>1
    <3> QED
      BY <2>5, <3>1, <3>2, <3>3
  <2>7. ASSUME NEW v \in MemSlot, Q[v].at = "fork"
        PROVE  /\ \E e \in MemSlot : Q[e].state = "EMBRYO" /\ Q[e].parent = v
               /\ \A e, d \in MemSlot : Q[e].state = "EMBRYO" /\ Q[e].parent = v
                                          /\ Q[d].state = "EMBRYO" /\ Q[d].parent = v => e = d
    <3>1. v # t /\ v # u /\ P[v].at = "fork"
      BY <2>4, <2>7
    <3>2. PICK e \in MemSlot : P[e].state = "EMBRYO" /\ P[e].parent = v
      BY <3>1 DEF Parts, EmbryosInv
    <3>3. e # u /\ e # t /\ Q[e] = P[e]
      BY <3>1, <3>2
    <3>4. \A d, h \in MemSlot : P[d].state = "EMBRYO" /\ P[d].parent = v
                                /\ P[h].state = "EMBRYO" /\ P[h].parent = v => d = h
      BY <3>1 DEF Parts, EmbryosInv
    <3> QED
      BY <2>3, <3>2, <3>3, <3>4
  <2> QED
    BY <2>6, <2>7 DEF EmbryosInv
<1>11. ZombiesInv(Q)
  BY <1>1, <1>2, <1>5 DEF Parts, ZombiesInv
<1>12. ExecInv(Q, R)
  <2>1. \A v \in MemSlot : /\ Q[v].new = P[v].new /\ (Q[v].new # NoSpace => Q[v].at = P[v].at /\ Q[v].nsz = P[v].nsz /\ v # t /\ v # u)
                           /\ Q[v].at \in {"load", "commit"} => Q[v].at = P[v].at /\ v # t /\ v # u
                           /\ v # t /\ v # u => Q[v] = P[v]
    BY <1>2, <1>7
  <2>2. \A v \in MemSlot : P[v].new # NoSpace => P[v].new \in SpaceNo /\ R[P[v].new] = S[P[v].new]
    BY <1>1, <1>6, MemFields
  <2>3. \A v \in MemSlot : Living(Q[v]) => (Living(P[v]) /\ Q[v].pgdir = P[v].pgdir) \/ Q[v].pgdir = id
    BY <1>2, <1>8 DEF Living
  <2> QED
    BY <1>6, <1>7, <2>1, <2>2, <2>3 DEF Parts, ExecInv
<1>13. SharesInv(Q, R)
  <2>1. \A v \in MemSlot : v # u => /\ (Living(Q[v]) => Living(P[v])) /\ Q[v].pgdir = P[v].pgdir
                                    /\ Q[v].sz = P[v].sz /\ Q[v].main = P[v].main
    BY <1>2, <1>8 DEF Living
  <2>2. \A v \in MemSlot : Living(P[v]) => P[v].pgdir \in SpaceNo /\ R[P[v].pgdir] = S[P[v].pgdir]
    <3> TAKE v \in MemSlot
    <3>1. Living(P[v]) => P[v].pgdir # NoSpace
      BY DEF Parts, SharesInv
    <3> QED
      BY <1>1, <1>6, <3>1, MemFields
  <2>3. ASSUME NEW v \in MemSlot, Living(Q[v]), v # u
        PROVE  /\ Q[v].pgdir # NoSpace /\ Q[v].sz # 0
               /\ DOMAIN R[Q[v].pgdir].user \in {{}, Below(Q[v].sz)}
               /\ \A w \in MemSlot : Living(Q[w]) =>
                    /\ Q[w].main = Q[v].main => Q[w].sz = Q[v].sz
                    /\ Q[w].main = Q[v].main <=> Q[w].pgdir = Q[v].pgdir
    <3>1. Living(P[v])
      BY <2>1, <2>3
    <3>2. /\ P[v].pgdir # NoSpace /\ P[v].sz # 0
          /\ DOMAIN S[P[v].pgdir].user \in {{}, Below(P[v].sz)}
          /\ \A w \in MemSlot : Living(P[w]) =>
               /\ P[w].main = P[v].main => P[w].sz = P[v].sz
               /\ P[w].main = P[v].main <=> P[w].pgdir = P[v].pgdir
      BY <3>1 DEF Parts, SharesInv
    <3>3. Q[u].main # P[v].main /\ Q[u].pgdir # P[v].pgdir
      BY <1>5, <1>6, <2>3, <3>1
    <3> QED
      BY <2>1, <2>2, <2>3, <3>1, <3>2, <3>3
  <2>4. \A w \in MemSlot : w # u => Q[w].main # u
    BY <1>5, <2>1
  <2>5. \A w \in MemSlot : w # u /\ Living(Q[w]) => Q[w].pgdir # id
    BY <1>6, <2>1
  <2>6. Q[u].pgdir = id /\ Q[u].sz # 0 /\ Q[u].main = u /\ DOMAIN R[id].user = Below(Q[u].sz)
    BY <1>8
  <2> QED
    BY <1>7, <2>3, <2>4, <2>5, <2>6 DEF SharesInv
<1>14. HoldersInv(Q, R)
  <2>1. \A v \in MemSlot : Q[v].new = P[v].new /\ (v # u => (Living(Q[v]) <=> Living(P[v])) /\ Q[v].pgdir = P[v].pgdir)
    BY <1>2, <1>7, <1>8 DEF Living
  <2>2. Living(Q[u]) /\ ~Living(P[u]) /\ Q[u].pgdir = id
    BY DEF Living
  <2>3. \A i \in SpaceNo : i # id =>
          ((\E v \in MemSlot : i = Q[v].new \/ (Living(Q[v]) /\ i = Q[v].pgdir))
             <=> \E v \in MemSlot : i = P[v].new \/ (Living(P[v]) /\ i = P[v].pgdir))
    BY <2>1, <2>2
  <2> QED
    BY <2>2, <2>3 DEF Parts, HoldersInv
<1>15. InUse(Q) = InUse(P)
  <2>1. \A v \in MemSlot : P[v].state = "UNUSED" <=> Q[v].state = "UNUSED"
    BY <1>2
  <2> QED
    BY <2>1 DEF InUse
<1> QED
  BY <1>1, <1>9, <1>10, <1>11, <1>12, <1>13, <1>14, <1>15 DEF Parts, MemTypes

LEMMA EmbryoGone ==
  ASSUME NEW P, NEW S, Parts(P, S), NEW t \in MemSlot, P[t].state = "RUN", P[t].at = "fork",
         NEW u \in MemSlot, P[u].state = "EMBRYO", P[u].parent = t,
         NEW Q \in [MemSlot -> MemRec], Moved(P[t], Q[t], "user"), Q[u] = MemFree, \A v \in MemSlot : v # u /\ v # t => Q[v] = P[v]
  PROVE  Parts(Q, S) /\ Cardinality(InUse(Q)) = Cardinality(InUse(P)) - 1
<1>1. P \in [MemSlot -> MemRec] /\ S \in [SpaceNo -> Table] /\ t # u
  BY DEF Parts, MemTypes
<1>2. /\ Q[t].state = "RUN" /\ Q[t].at = "user" /\ Q[t].main = P[t].main /\ Q[t].pgdir = P[t].pgdir
      /\ Q[t].sz = P[t].sz /\ Q[t].new = P[t].new /\ Q[t].nsz = P[t].nsz /\ Q[t].parent = P[t].parent
  BY DEF Moved
<1>5. P[u].main = u /\ \A v \in MemSlot : P[v].main = u => v = u
  BY DEF Parts, EmbryosInv
<1>7. P[t].new = NoSpace /\ P[u].new = NoSpace
  BY DEF Parts, ExecInv, SlotsInv
<1>8. Living(P[t]) /\ P[t].main \in MemSlot /\ ~Living(P[u])
  BY DEF Parts, SlotsInv, Living
<1>9. SlotsInv(Q)
  BY <1>1, <1>2, <1>5, <1>8, MemFreeIs DEF Parts, SlotsInv
<1>10. EmbryosInv(Q)
  <2>1. \A e \in MemSlot : P[e].state = "EMBRYO" /\ P[e].parent = t => e = u
    BY DEF Parts, EmbryosInv
  <2>2. P[u].at = "user"
    BY DEF Parts, SlotsInv
  <2>3. \A e \in MemSlot : Q[e].state = "EMBRYO" => e # t /\ e # u /\ Q[e] = P[e]
    BY <1>2, MemFreeIs
  <2>4. \A v \in MemSlot : Q[v].at = "fork" => v # t /\ v # u /\ Q[v] = P[v]
    BY <1>2, MemFreeIs
  <2>5. \A e \in MemSlot : P[e].state = "EMBRYO" =>
          /\ P[e].main = e /\ \A v \in MemSlot : P[v].main = e => v = e
          /\ P[e].parent \in MemSlot /\ P[P[e].parent].at = "fork"
    BY DEF Parts, EmbryosInv
  <2>6. ASSUME NEW e \in MemSlot, Q[e].state = "EMBRYO"
        PROVE  /\ Q[e].main = e /\ \A v \in MemSlot : Q[v].main = e => v = e
               /\ Q[e].parent \in MemSlot /\ Q[Q[e].parent].at = "fork"
    <3>1. e # t /\ e # u /\ Q[e] = P[e] /\ P[e].state = "EMBRYO"
      BY <2>3, <2>6
    <3>2. P[e].parent # t /\ P[e].parent # u
      BY <2>1, <2>2, <2>5, <3>1
    <3>3. \A v \in MemSlot : Q[v].main = e => v = e
      <4>1. Q[u].main # e
        BY MemFreeIs DEF MemSlot
      <4> QED
        BY <1>2, <2>5, <3>1, <4>1
    <3> QED
      BY <2>5, <3>1, <3>2, <3>3
  <2>7. ASSUME NEW v \in MemSlot, Q[v].at = "fork"
        PROVE  /\ \E e \in MemSlot : Q[e].state = "EMBRYO" /\ Q[e].parent = v
               /\ \A e, d \in MemSlot : Q[e].state = "EMBRYO" /\ Q[e].parent = v
                                          /\ Q[d].state = "EMBRYO" /\ Q[d].parent = v => e = d
    <3>1. v # t /\ v # u /\ P[v].at = "fork"
      BY <2>4, <2>7
    <3>2. PICK e \in MemSlot : P[e].state = "EMBRYO" /\ P[e].parent = v
      BY <3>1 DEF Parts, EmbryosInv
    <3>3. e # u /\ e # t /\ Q[e] = P[e]
      BY <3>1, <3>2
    <3>4. \A d, h \in MemSlot : P[d].state = "EMBRYO" /\ P[d].parent = v
                                /\ P[h].state = "EMBRYO" /\ P[h].parent = v => d = h
      BY <3>1 DEF Parts, EmbryosInv
    <3> QED
      BY <2>3, <3>2, <3>3, <3>4
  <2> QED
    BY <2>6, <2>7 DEF EmbryosInv
<1>11. ZombiesInv(Q)
  <2>1. \A v \in MemSlot : Q[v].state = "ZOMBIE" => v # t /\ v # u /\ Q[v] = P[v]
    BY <1>2, MemFreeIs
  <2>2. \A v \in MemSlot : v # u => Q[v].main = P[v].main
    BY <1>2
  <2>3. Q[u].main = 0 /\ \A v \in MemSlot : v # 0
    BY MemFreeIs DEF MemSlot
  <2> QED
    BY <2>1, <2>2, <2>3 DEF Parts, ZombiesInv
<1>12. \A v \in MemSlot : /\ Q[v].new = P[v].new /\ (v # u => Q[v].pgdir = P[v].pgdir /\ Q[v].sz = P[v].sz /\ Q[v].main = P[v].main)
                          /\ Q[v].at \in {"load", "commit"} <=> P[v].at \in {"load", "commit"}
                          /\ (P[v].new # NoSpace => Q[v] = P[v])
                          /\ Living(Q[v]) <=> Living(P[v])
                          /\ Living(P[v]) => v # u
  BY <1>1, <1>2, <1>7, <1>8, MemFreeIs DEF Living, Parts, SlotsInv
<1>13. ExecInv(Q, S)
  BY <1>12 DEF Parts, ExecInv
<1>14. SharesInv(Q, S)
  BY <1>12 DEF Parts, SharesInv
<1>15. HoldersInv(Q, S)
  <2>1. \A i \in SpaceNo : (\E v \in MemSlot : i = Q[v].new \/ (Living(Q[v]) /\ i = Q[v].pgdir))
                        <=> \E v \in MemSlot : i = P[v].new \/ (Living(P[v]) /\ i = P[v].pgdir)
    BY <1>12
  <2> QED
    BY <2>1 DEF Parts, HoldersInv
<1>16. Cardinality(InUse(Q)) = Cardinality(InUse(P)) - 1
  <2>1. \A v \in MemSlot : v # u => Q[v].state = P[v].state
    BY <1>1, <1>2
  <2>2. Q[u].state = "UNUSED"
    BY MemFreeIs
  <2> QED
    BY <2>1, <2>2, InUseChanges
<1> QED
  BY <1>1, <1>9, <1>10, <1>11, <1>13, <1>14, <1>15, <1>16 DEF Parts, MemTypes

(* exec() of t starts, goes on or gives up, with its page table id.        *)
LEMMA ExecMoves ==
  ASSUME NEW P, NEW S, Parts(P, S), NEW t \in MemSlot, P[t].state = "RUN", P[t].at # "fork",
         NEW id \in SpaceNo, P[t].new = id \/ (P[t].new = NoSpace /\ ~S[id].used),
         NEW R \in [SpaceNo -> Table], \A i \in SpaceNo : i # id => R[i] = S[i],
         NEW Q \in [MemSlot -> MemRec], \A v \in MemSlot : v # t => Q[v] = P[v],
         Q[t].state = "RUN", Q[t].main = P[t].main, Q[t].pgdir = P[t].pgdir, Q[t].sz = P[t].sz,
         \/ /\ Q[t].at \in {"load", "commit"} /\ Q[t].new = id /\ R[id].used
            /\ DOMAIN R[id].user = Below(Q[t].nsz) /\ (Q[t].at = "commit" => Q[t].nsz # 0)
         \/ Q[t].at = "user" /\ Q[t].new = NoSpace /\ ~R[id].used
  PROVE  Parts(Q, R) /\ InUse(Q) = InUse(P)
<1>1. P \in [MemSlot -> MemRec] /\ S \in [SpaceNo -> Table] /\ id # NoSpace
  BY DEF Parts, MemTypes, SpaceNo, NoSpace
<1>2. Living(P[t]) /\ P[t].main \in MemSlot /\ \A v \in MemSlot : (Living(Q[v]) <=> Living(P[v])) /\ Q[v].state = P[v].state
                     /\ Q[v].main = P[v].main /\ Q[v].pgdir = P[v].pgdir /\ Q[v].sz = P[v].sz
  BY DEF Living, Parts, SlotsInv
<1>3. \A v \in MemSlot : v # t => P[v].new # id
  <2>1. CASE P[t].new = id
    BY <1>1, <2>1 DEF Parts, ExecInv
  <2>2. CASE ~S[id].used
    BY <2>2 DEF Parts, HoldersInv
  <2> QED
    BY <2>1, <2>2
<1>4. \A v \in MemSlot : Living(P[v]) => P[v].pgdir # id
  <2>1. CASE P[t].new = id
    BY <1>1, <2>1 DEF Parts, ExecInv
  <2>2. CASE ~S[id].used
    BY <2>2 DEF Parts, HoldersInv
  <2> QED
    BY <2>1, <2>2
<1>5. SlotsInv(Q)
  BY <1>2 DEF Parts, SlotsInv
<1>6. EmbryosInv(Q)
  <2>1. \A v \in MemSlot : Q[v].state = "EMBRYO" => v # t /\ Q[v] = P[v]
    OBVIOUS
  <2>2. \A v \in MemSlot : P[v].state = "EMBRYO" => v # t /\ Q[v] = P[v]
    OBVIOUS
  <2>3. \A v \in MemSlot : Q[v].at = "fork" <=> P[v].at = "fork"
    OBVIOUS
  <2> QED
    BY <1>2, <2>1, <2>2, <2>3 DEF Parts, EmbryosInv
<1>7. ZombiesInv(Q)
  BY <1>2 DEF Parts, ZombiesInv
<1>8. \A v \in MemSlot : v # t /\ P[v].new # NoSpace => P[v].new \in SpaceNo /\ R[P[v].new] = S[P[v].new]
  BY <1>1, <1>3, MemFields
<1>9. \A v \in MemSlot : Living(P[v]) => P[v].pgdir \in SpaceNo /\ R[P[v].pgdir] = S[P[v].pgdir]
  <2> TAKE v \in MemSlot
  <2>1. Living(P[v]) => P[v].pgdir # NoSpace
    BY DEF Parts, SharesInv
  <2> QED
    BY <1>1, <1>4, <2>1, MemFields
<1>10. ExecInv(Q, R)
  <2> SUFFICES ASSUME NEW v \in MemSlot
               PROVE  /\ Q[v].new # NoSpace <=> Q[v].at \in {"load", "commit"}
                      /\ Q[v].at = "commit" => Q[v].nsz # 0
                      /\ Q[v].new # NoSpace =>
                           /\ DOMAIN R[Q[v].new].user = Below(Q[v].nsz)
                           /\ \A u \in MemSlot : Q[u].new = Q[v].new => u = v
                           /\ \A u \in MemSlot : Living(Q[u]) => Q[u].pgdir # Q[v].new
    BY DEF ExecInv
  <2>1. CASE v = t
    <3>1. /\ Q[t].new # NoSpace <=> Q[t].at \in {"load", "commit"}
          /\ Q[t].at = "commit" => Q[t].nsz # 0
          /\ Q[t].new # NoSpace => Q[t].new = id /\ DOMAIN R[id].user = Below(Q[t].nsz)
      BY <1>1
    <3>2. \A u \in MemSlot : Q[u].new = id => u = t
      BY <1>3
    <3>3. \A u \in MemSlot : Living(Q[u]) => Q[u].pgdir # id
      BY <1>2, <1>4
    <3> QED
      BY <2>1, <3>1, <3>2, <3>3
  <2>2. CASE v # t
    <3>1. Q[v] = P[v]
      BY <2>2
    <3>2. /\ P[v].new # NoSpace <=> P[v].at \in {"load", "commit"}
          /\ P[v].at = "commit" => P[v].nsz # 0
          /\ P[v].new # NoSpace =>
               /\ DOMAIN S[P[v].new].user = Below(P[v].nsz)
               /\ \A u \in MemSlot : P[u].new = P[v].new => u = v
               /\ \A u \in MemSlot : Living(P[u]) => P[u].pgdir # P[v].new
      BY DEF Parts, ExecInv
    <3>3. P[v].new # NoSpace => Q[t].new # P[v].new
      BY <1>3, <2>2
    <3> QED
      BY <1>2, <1>8, <2>2, <3>1, <3>2, <3>3
  <2> QED
    BY <2>1, <2>2
<1>11. SharesInv(Q, R)
  BY <1>2, <1>9 DEF Parts, SharesInv
<1>12. HoldersInv(Q, R)
  <2>1. \A i \in SpaceNo : i # id =>
          ((\E v \in MemSlot : i = Q[v].new \/ (Living(Q[v]) /\ i = Q[v].pgdir))
             <=> \E v \in MemSlot : i = P[v].new \/ (Living(P[v]) /\ i = P[v].pgdir))
    <3>1. \A i \in SpaceNo : i # id => i # Q[t].new /\ i # P[t].new
      BY DEF SpaceNo, NoSpace
    <3> QED
      BY <1>2, <3>1
  <2>2. R[id].used <=> \E v \in MemSlot : id = Q[v].new \/ (Living(Q[v]) /\ id = Q[v].pgdir)
    BY <1>1, <1>2, <1>3, <1>4
  <2> QED
    BY <2>1, <2>2 DEF Parts, HoldersInv
<1>13. InUse(Q) = InUse(P)
  BY <1>2 DEF InUse
<1> QED
  BY <1>5, <1>6, <1>7, <1>10, <1>11, <1>12, <1>13 DEF Parts, MemTypes

(* The other threads O of the process of t have ended.                     *)
OthersLeft(P, t, O, Q) ==
  /\ P[t].state = "RUN"
  /\ O \in SUBSET MemSlot /\ \A u \in MemSlot : u \in O <=> (u # t /\ P[u].state # "UNUSED" /\ P[u].main = P[t].main)
  /\ \A u \in O : P[u].at = "user"
  /\ Q \in [MemSlot -> MemRec] /\ \A u \in O : Q[u] = MemFree
  /\ \A u \in MemSlot : u \notin O /\ u # t => Alike(P[u], Q[u])
  /\ Q[t].state = "RUN" /\ Q[t].main = t /\ Q[t].pgdir = P[t].pgdir /\ Q[t].sz = P[t].sz
  /\ Q[t].at = P[t].at /\ Q[t].new = P[t].new /\ Q[t].nsz = P[t].nsz

LEMMA OthersGone ==
  ASSUME NEW P, NEW S, Parts(P, S), NEW t \in MemSlot, NEW O, NEW Q, OthersLeft(P, t, O, Q)
  PROVE  Parts(Q, S) /\ InUse(Q) = InUse(P) \ O /\ O \subseteq InUse(P) /\ \A v \in MemSlot : Q[v].main = t => v = t
<1>0. /\ P[t].state = "RUN"
      /\ O \in SUBSET MemSlot /\ \A u \in MemSlot : u \in O <=> (u # t /\ P[u].state # "UNUSED" /\ P[u].main = P[t].main)
      /\ \A u \in O : P[u].at = "user"
      /\ Q \in [MemSlot -> MemRec] /\ \A u \in O : Q[u] = MemFree
      /\ \A u \in MemSlot : u \notin O /\ u # t => Alike(P[u], Q[u])
      /\ Q[t].state = "RUN" /\ Q[t].main = t /\ Q[t].pgdir = P[t].pgdir /\ Q[t].sz = P[t].sz
      /\ Q[t].at = P[t].at /\ Q[t].new = P[t].new /\ Q[t].nsz = P[t].nsz
  BY DEF OthersLeft
<1> USE <1>0
<1>1. P \in [MemSlot -> MemRec] /\ S \in [SpaceNo -> Table] /\ \A v \in MemSlot : v # 0
  BY DEF Parts, MemTypes, MemSlot
<1>2. Living(P[t]) /\ P[t].main \in MemSlot /\ P[P[t].main].main = P[t].main /\ ~(t \in O) /\ O \subseteq MemSlot
  BY DEF Living, Parts, SlotsInv
<1>3. \A u \in O : Living(P[u]) /\ P[u].new = NoSpace /\ P[u].pgdir = P[t].pgdir /\ P[u].main = P[t].main
  <2> TAKE u \in O
  <2>1. u \in MemSlot /\ u # t /\ P[u].state # "UNUSED" /\ P[u].main = P[t].main
    OBVIOUS
  <2>2. P[u].state # "EMBRYO"
    BY <2>1 DEF Parts, EmbryosInv
  <2>3. Living(P[u])
    BY <1>1, <2>1, <2>2, MemFields DEF Living, MemStates
  <2>4. P[u].new = NoSpace
    BY <2>1 DEF Parts, ExecInv
  <2>5. P[u].pgdir = P[t].pgdir
    BY <1>2, <2>1, <2>3 DEF Parts, SharesInv
  <2> QED
    BY <2>1, <2>3, <2>4, <2>5
<1>4. \A v \in MemSlot : v \notin O /\ v # t => P[v].main # P[t].main /\ P[v].main # t
  <2> SUFFICES ASSUME NEW v \in MemSlot, v \notin O, v # t PROVE P[v].main # P[t].main /\ P[v].main # t
    OBVIOUS
  <2>1. P[v].state = "UNUSED" => P[v].main = 0
    BY MemFreeIs DEF Parts, SlotsInv
  <2>2. P[v].state # "UNUSED" => P[v].main # P[t].main
    OBVIOUS
  <2>3. P[v].state # "UNUSED" /\ P[v].main = t => P[t].main = t
    BY DEF Parts, SlotsInv
  <2> QED
    BY <1>1, <1>2, <2>1, <2>2, <2>3
<1>5. \A v \in MemSlot : v \notin O /\ v # t =>
        /\ Q[v].state = P[v].state /\ Q[v].main = P[v].main /\ Q[v].pgdir = P[v].pgdir /\ Q[v].sz = P[v].sz
        /\ Q[v].at = P[v].at /\ Q[v].new = P[v].new /\ Q[v].nsz = P[v].nsz
        /\ P[v].state = "UNUSED" => Q[v] = P[v]
        /\ P[v].state = "EMBRYO" => Q[v].parent = P[v].parent
  BY DEF Alike
<1>6. \A v \in O : Q[v] = MemFree /\ Q[v].state = "UNUSED" /\ Q[v].main = 0 /\ Q[v].at = "user" /\ Q[v].new = NoSpace
  BY MemFreeIs
<1>7. \A v \in MemSlot : Q[v].main = t => v = t
  BY <1>1, <1>4, <1>5, <1>6
<1>8. SlotsInv(Q)
  <2> SUFFICES ASSUME NEW v \in MemSlot
               PROVE  /\ Q[v].state = "UNUSED" => Q[v] = MemFree
                      /\ Q[v].state # "RUN" => Q[v].at = "user"
                      /\ Q[v].state # "UNUSED" => Q[v].main \in MemSlot /\ Q[Q[v].main].main = Q[v].main
    BY DEF SlotsInv
  <2>1. CASE v \in O
    BY <1>6, <2>1
  <2>2. CASE v = t
    BY <2>2
  <2>3. CASE v \notin O /\ v # t
    <3>1. /\ P[v].state = "UNUSED" => P[v] = MemFree
          /\ P[v].state # "RUN" => P[v].at = "user"
          /\ P[v].state # "UNUSED" => P[v].main \in MemSlot /\ P[P[v].main].main = P[v].main
      BY DEF Parts, SlotsInv
    <3>2. P[v].state # "UNUSED" => P[v].main \notin O /\ P[v].main # t
      BY <1>3, <1>4, <2>3, <3>1
    <3> QED
      BY <1>5, <2>3, <3>1, <3>2
  <2> QED
    BY <2>1, <2>2, <2>3
<1>9. EmbryosInv(Q)
  <2>1. \A e \in MemSlot : P[e].state = "EMBRYO" => e \notin O /\ e # t
    BY <1>3 DEF Living
  <2>2. \A e \in MemSlot : Q[e].state = "EMBRYO" <=> P[e].state = "EMBRYO"
    BY <1>5, <1>6, <2>1
  <2>3. \A v \in MemSlot : Q[v].at = "fork" <=> P[v].at = "fork"
    BY <1>5, <1>6
  <2>4. \A e \in MemSlot : P[e].state = "EMBRYO" => Q[e].main = P[e].main /\ Q[e].parent = P[e].parent
    BY <1>5, <2>1
  <2>5. \A e, v \in MemSlot : P[e].state = "EMBRYO" /\ Q[v].main = e => P[v].main = e
    BY <1>1, <1>5, <1>6, <2>1
  <2> QED
    BY <2>2, <2>3, <2>4, <2>5 DEF Parts, EmbryosInv
<1>10. ZombiesInv(Q)
  <2>1. \A e, v \in MemSlot : Q[e].state = "ZOMBIE" /\ Q[e].main = e /\ Q[v].main = e =>
          P[e].state = "ZOMBIE" /\ P[e].main = e /\ P[v].main = e
    BY <1>1, <1>5, <1>6
  <2> QED
    BY <2>1 DEF Parts, ZombiesInv
<1>11. \A v \in MemSlot : /\ Q[v].new = P[v].new /\ (v \notin O => Q[v].at = P[v].at /\ Q[v].nsz = P[v].nsz)
                          /\ (Q[v].at \in {"load", "commit"} <=> P[v].at \in {"load", "commit"})
                          /\ Q[v].at = "commit" => v \notin O
                          /\ v \in O => Q[v].new = NoSpace
                          /\ Living(Q[v]) => Living(P[v]) /\ Q[v].pgdir = P[v].pgdir /\ Q[v].sz = P[v].sz /\ v \notin O
  BY <1>2, <1>3, <1>5, <1>6 DEF Living
<1>12. ExecInv(Q, S)
  BY <1>11 DEF Parts, ExecInv
<1>13. SharesInv(Q, S)
  <2>1. \A v, w \in MemSlot : Living(Q[v]) /\ Living(Q[w]) => (Q[v].main = Q[w].main <=> P[v].main = P[w].main)
    BY <1>4, <1>5, <1>11
  <2> QED
    BY <1>11, <2>1 DEF Parts, SharesInv
<1>14. HoldersInv(Q, S)
  <2>1. Living(Q[t])
    BY DEF Living
  <2>2. \A v \in MemSlot : v \notin O => (Living(Q[v]) <=> Living(P[v]))
    BY <1>2, <1>5, <2>1 DEF Living
  <2>3. \A i \in SpaceNo : (\E v \in MemSlot : i = Q[v].new \/ (Living(Q[v]) /\ i = Q[v].pgdir))
                        <=> \E v \in MemSlot : i = P[v].new \/ (Living(P[v]) /\ i = P[v].pgdir)
    BY <1>3, <1>11, <2>1, <2>2
  <2> QED
    BY <2>3 DEF Parts, HoldersInv
<1>15. InUse(Q) = InUse(P) \ O /\ O \subseteq InUse(P)
  BY <1>2, <1>5, <1>6 DEF InUse
<1> QED
  BY <1>1, <1>7, <1>8, <1>9, <1>10, <1>12, <1>13, <1>14, <1>15 DEF Parts, MemTypes

(* A thread ends, the last one of its process if it is the main one.       *)
LEMMA ThreadEnds ==
  ASSUME NEW P, NEW S, Parts(P, S), NEW t \in MemSlot, P[t].state = "RUN", P[t].at = "user",
         P[t].main = t => \A v \in MemSlot : P[v].main = t => v = t,
         NEW Q \in [MemSlot -> MemRec], \A u \in MemSlot : u # t => Alike(P[u], Q[u]),
         Q[t].state = "ZOMBIE", Q[t].main = P[t].main, Q[t].pgdir = P[t].pgdir, Q[t].sz = P[t].sz,
         Q[t].at = "user", Q[t].new = P[t].new
  PROVE  Parts(Q, S) /\ InUse(Q) = InUse(P)
<1>1. P \in [MemSlot -> MemRec] /\ S \in [SpaceNo -> Table]
  BY DEF Parts, MemTypes
<1>2. P[t].main \in MemSlot /\ P[P[t].main].main = P[t].main /\ P[t].new = NoSpace
  BY DEF Parts, SlotsInv, ExecInv
<1>3. \A v \in MemSlot : v # t =>
        /\ Q[v].state = P[v].state /\ Q[v].sz = P[v].sz /\ Q[v].at = P[v].at /\ Q[v].nsz = P[v].nsz
        /\ P[v].state = "UNUSED" => Q[v] = P[v]
        /\ P[v].state = "EMBRYO" => Q[v].parent = P[v].parent
  BY DEF Alike
<1>4. \A v \in MemSlot : /\ Q[v].main = P[v].main /\ Q[v].pgdir = P[v].pgdir /\ Q[v].sz = P[v].sz /\ Q[v].new = P[v].new
                         /\ Q[v].at = P[v].at
                         /\ (Living(Q[v]) <=> Living(P[v]))
  BY DEF Alike, Living
<1>5. SlotsInv(Q)
  BY <1>2, <1>3, <1>4 DEF Parts, SlotsInv
<1>6. EmbryosInv(Q)
  <2>1. \A e \in MemSlot : /\ Q[e].state = "EMBRYO" <=> P[e].state = "EMBRYO"
                           /\ P[e].state = "EMBRYO" => Q[e].parent = P[e].parent
    BY <1>3
  <2> QED
    BY <1>4, <2>1 DEF Parts, EmbryosInv
<1>7. ZombiesInv(Q)
  BY <1>3, <1>4 DEF Parts, ZombiesInv
<1>8. ExecInv(Q, S)
  BY <1>2, <1>3, <1>4 DEF Parts, ExecInv
<1>9. SharesInv(Q, S)
  BY <1>4 DEF Parts, SharesInv
<1>10. HoldersInv(Q, S)
  BY <1>4 DEF Parts, HoldersInv
<1>11. InUse(Q) = InUse(P)
  BY <1>3 DEF InUse
<1> QED
  BY <1>1, <1>5, <1>6, <1>7, <1>8, <1>9, <1>10, <1>11 DEF Parts, MemTypes

(* What a slot that held a ZOMBIE was, once it is free.                    *)
LEMMA SlotFreed ==
  ASSUME NEW P, NEW S, Parts(P, S), NEW u \in MemSlot, P[u].state = "ZOMBIE",
         P[u].main = u => \A v \in MemSlot : P[v].main = u => v = u,
         NEW Q \in [MemSlot -> MemRec], Q[u] = MemFree, \A v \in MemSlot : v # u => Q[v] = P[v]
  PROVE  /\ SlotsInv(Q) /\ EmbryosInv(Q) /\ ZombiesInv(Q) /\ Cardinality(InUse(Q)) = Cardinality(InUse(P)) - 1
         /\ P[u].new = NoSpace /\ P[u].at = "user" /\ ~Living(Q[u]) /\ Q[u].new = NoSpace /\ Q[u].at = "user"
<1>1. P \in [MemSlot -> MemRec] /\ \A v \in MemSlot : v # 0
  BY DEF Parts, MemTypes, MemSlot
<1>2. Q[u].state = "UNUSED" /\ Q[u].main = 0 /\ Q[u].at = "user" /\ Q[u].new = NoSpace /\ ~Living(Q[u])
  BY MemFreeIs DEF Living
<1>3. P[u].at = "user" /\ P[u].main \in MemSlot /\ P[P[u].main].main = P[u].main
  BY DEF Parts, SlotsInv
<1>4. P[u].new = NoSpace
  BY <1>3 DEF Parts, ExecInv
<1>5. \A v \in MemSlot : v # u => P[v].main # u
  <2> SUFFICES ASSUME NEW v \in MemSlot, v # u, P[v].main = u PROVE FALSE
    OBVIOUS
  <2>1. P[v].state # "UNUSED"
    BY <1>1, MemFreeIs DEF Parts, SlotsInv
  <2>2. P[u].main = u
    BY <2>1 DEF Parts, SlotsInv
  <2> QED
    BY <2>2
<1>6. SlotsInv(Q)
  BY <1>2, <1>5 DEF Parts, SlotsInv
<1>7. EmbryosInv(Q)
  <2>1. \A v \in MemSlot : /\ Q[v].state = "EMBRYO" <=> P[v].state = "EMBRYO"
                           /\ P[v].state = "EMBRYO" => v # u /\ Q[v] = P[v]
                           /\ Q[v].at = "fork" <=> P[v].at = "fork"
    BY <1>2, <1>3
  <2>2. \A v, e \in MemSlot : Q[v].main = e => P[v].main = e
    BY <1>1, <1>2
  <2> QED
    BY <2>1, <2>2 DEF Parts, EmbryosInv
<1>8. ZombiesInv(Q)
  BY <1>1, <1>2 DEF Parts, ZombiesInv
<1>9. Cardinality(InUse(Q)) = Cardinality(InUse(P)) - 1
  BY <1>2, InUseChanges
<1> QED
  BY <1>2, <1>3, <1>4, <1>6, <1>7, <1>8, <1>9

(* thread_join() frees a thread u of the process of t.                     *)
LEMMA ThreadFreed ==
  ASSUME NEW P, NEW S, Parts(P, S), NEW u \in MemSlot, P[u].state = "ZOMBIE", NEW t \in MemSlot, P[t].state = "RUN",
         P[t].main = P[u].main, P[u].main # u,
         NEW Q \in [MemSlot -> MemRec], Q[u] = MemFree, \A v \in MemSlot : v # u => Q[v] = P[v]
  PROVE  Parts(Q, S) /\ Cardinality(InUse(Q)) = Cardinality(InUse(P)) - 1
<1>1. /\ SlotsInv(Q) /\ EmbryosInv(Q) /\ ZombiesInv(Q) /\ Cardinality(InUse(Q)) = Cardinality(InUse(P)) - 1
      /\ P[u].new = NoSpace /\ P[u].at = "user" /\ ~Living(Q[u]) /\ Q[u].new = NoSpace /\ Q[u].at = "user"
  BY SlotFreed
<1>2. Living(P[u]) /\ Living(P[t]) /\ t # u
  BY DEF Living
<1>3. P[u].pgdir = P[t].pgdir
  BY <1>2 DEF Parts, SharesInv
<1>4. ExecInv(Q, S)
  BY <1>1 DEF Parts, ExecInv
<1>5. SharesInv(Q, S)
  BY <1>1 DEF Parts, SharesInv
<1>6. HoldersInv(Q, S)
  <2>1. \A i \in SpaceNo : (\E v \in MemSlot : i = Q[v].new \/ (Living(Q[v]) /\ i = Q[v].pgdir))
                        <=> \E v \in MemSlot : i = P[v].new \/ (Living(P[v]) /\ i = P[v].pgdir)
    BY <1>1, <1>2, <1>3
  <2> QED
    BY <2>1 DEF Parts, HoldersInv
<1> QED
  BY <1>1, <1>4, <1>5, <1>6 DEF Parts, MemTypes

(* wait() frees the process u and its page table.                          *)
LEMMA ProcessFreed ==
  ASSUME NEW P, NEW S, Parts(P, S), NEW u \in MemSlot, P[u].state = "ZOMBIE", P[u].main = u,
         NEW Q \in [MemSlot -> MemRec], Q[u] = MemFree, \A v \in MemSlot : v # u => Q[v] = P[v],
         NEW R \in [SpaceNo -> Table], R[P[u].pgdir] = NoTable, \A i \in SpaceNo : i # P[u].pgdir => R[i] = S[i]
  PROVE  Parts(Q, R) /\ Cardinality(InUse(Q)) = Cardinality(InUse(P)) - 1 /\ P[u].pgdir \in SpaceNo
<1>1. \A v \in MemSlot : P[v].main = u => v = u
  BY DEF Parts, ZombiesInv
<1>2. /\ SlotsInv(Q) /\ EmbryosInv(Q) /\ ZombiesInv(Q) /\ Cardinality(InUse(Q)) = Cardinality(InUse(P)) - 1
      /\ P[u].new = NoSpace /\ P[u].at = "user" /\ ~Living(Q[u]) /\ Q[u].new = NoSpace /\ Q[u].at = "user"
  BY <1>1, SlotFreed
<1>3. P \in [MemSlot -> MemRec] /\ S \in [SpaceNo -> Table] /\ Living(P[u])
  BY DEF Parts, MemTypes, Living
<1>4. P[u].pgdir \in SpaceNo
  BY <1>3, MemFields DEF Parts, SharesInv
<1>5. \A v \in MemSlot : v # u /\ Living(P[v]) => P[v].pgdir # P[u].pgdir /\ P[v].pgdir \in SpaceNo
  <2> SUFFICES ASSUME NEW v \in MemSlot, v # u, Living(P[v]) PROVE P[v].pgdir # P[u].pgdir /\ P[v].pgdir \in SpaceNo
    OBVIOUS
  <2>1. P[v].pgdir # NoSpace /\ (P[u].main = P[v].main <=> P[u].pgdir = P[v].pgdir)
    BY <1>3 DEF Parts, SharesInv
  <2> QED
    BY <1>1, <1>3, <2>1, MemFields
<1>6. \A v \in MemSlot : P[v].new # P[u].pgdir
  <2>1. \A v \in MemSlot : P[v].new # NoSpace => P[u].pgdir # P[v].new
    BY <1>3 DEF Parts, ExecInv
  <2> QED
    BY <1>4, <2>1 DEF SpaceNo, NoSpace
<1>7. \A v \in MemSlot : P[v].new # NoSpace => P[v].new \in SpaceNo /\ R[P[v].new] = S[P[v].new]
  BY <1>3, <1>6, MemFields
<1>8. \A v \in MemSlot : v # u /\ Living(P[v]) => R[P[v].pgdir] = S[P[v].pgdir]
  BY <1>5
<1>9. ExecInv(Q, R)
  BY <1>2, <1>7 DEF Parts, ExecInv
<1>10. SharesInv(Q, R)
  BY <1>2, <1>8 DEF Parts, SharesInv
<1>11. HoldersInv(Q, R)
  <2>1. \A i \in SpaceNo : i # P[u].pgdir =>
          ((\E v \in MemSlot : i = Q[v].new \/ (Living(Q[v]) /\ i = Q[v].pgdir))
             <=> \E v \in MemSlot : i = P[v].new \/ (Living(P[v]) /\ i = P[v].pgdir))
    BY <1>2
  <2>2. ~\E v \in MemSlot : P[u].pgdir = Q[v].new \/ (Living(Q[v]) /\ P[u].pgdir = Q[v].pgdir)
    <3>1. P[u].pgdir # NoSpace
      BY <1>4 DEF SpaceNo, NoSpace
    <3> QED
      BY <1>2, <1>5, <1>6, <3>1
  <2>3. ~R[P[u].pgdir].used
    BY NoTables
  <2> QED
    BY <2>1, <2>2, <2>3 DEF Parts, HoldersInv
<1> QED
  BY <1>2, <1>4, <1>9, <1>10, <1>11 DEF Parts, MemTypes

(* exec() commits: t, alone, changes its page table.                       *)
LEMMA Commits ==
  ASSUME NEW P, NEW S, Parts(P, S), NEW t \in MemSlot, P[t].state = "RUN", P[t].at = "commit",
         \A v \in MemSlot : P[v].main = P[t].main => v = t,
         NEW Q \in [MemSlot -> MemRec], \A v \in MemSlot : v # t => Q[v] = P[v],
         Q[t].state = "RUN", Q[t].main = P[t].main, Q[t].at = "user", Q[t].pgdir = P[t].new, Q[t].sz = P[t].nsz,
         Q[t].new = NoSpace,
         NEW R \in [SpaceNo -> Table], R[P[t].pgdir] = NoTable, \A i \in SpaceNo : i # P[t].pgdir => R[i] = S[i]
  PROVE  Parts(Q, R) /\ InUse(Q) = InUse(P) /\ P[t].pgdir \in SpaceNo
<1>1. P \in [MemSlot -> MemRec] /\ S \in [SpaceNo -> Table] /\ Living(P[t]) /\ P[t].main \in MemSlot /\ P[t].main # 0
  BY DEF Parts, MemTypes, Living, SlotsInv, MemSlot
<1>2. P[t].pgdir \in SpaceNo
  BY <1>1, MemFields DEF Parts, SharesInv
<1>3. /\ P[t].new \in SpaceNo /\ P[t].new # P[t].pgdir /\ P[t].new # NoSpace /\ P[t].nsz # 0
      /\ DOMAIN S[P[t].new].user = Below(P[t].nsz)
      /\ \A u \in MemSlot : P[u].new = P[t].new => u = t
      /\ \A u \in MemSlot : Living(P[u]) => P[u].pgdir # P[t].new
  <2>1. P[t].new # NoSpace /\ P[t].nsz # 0
    BY DEF Parts, ExecInv
  <2>2. /\ DOMAIN S[P[t].new].user = Below(P[t].nsz)
        /\ \A u \in MemSlot : P[u].new = P[t].new => u = t
        /\ \A u \in MemSlot : Living(P[u]) => P[u].pgdir # P[t].new
    BY <2>1 DEF Parts, ExecInv
  <2> QED
    BY <1>1, <2>1, <2>2, MemFields
<1>4. \A v \in MemSlot : v # t /\ Living(P[v]) => P[v].pgdir # P[t].pgdir /\ P[v].pgdir \in SpaceNo
  <2> SUFFICES ASSUME NEW v \in MemSlot, v # t, Living(P[v]) PROVE P[v].pgdir # P[t].pgdir /\ P[v].pgdir \in SpaceNo
    OBVIOUS
  <2>1. P[v].pgdir # NoSpace /\ (P[t].main = P[v].main <=> P[t].pgdir = P[v].pgdir)
    BY <1>1 DEF Parts, SharesInv
  <2> QED
    BY <1>1, <2>1, MemFields
<1>5. \A v \in MemSlot : P[v].new # P[t].pgdir
  <2>1. \A v \in MemSlot : P[v].new # NoSpace => P[t].pgdir # P[v].new
    BY <1>1 DEF Parts, ExecInv
  <2> QED
    BY <1>2, <2>1 DEF SpaceNo, NoSpace
<1>6. \A v \in MemSlot : P[v].new # NoSpace => P[v].new \in SpaceNo /\ R[P[v].new] = S[P[v].new]
  BY <1>1, <1>5, MemFields
<1>7. \A v \in MemSlot : v # t /\ Living(P[v]) => R[P[v].pgdir] = S[P[v].pgdir]
  BY <1>4
<1>8. SlotsInv(Q)
  BY DEF Parts, SlotsInv
<1>9. EmbryosInv(Q)
  <2>1. \A v \in MemSlot : /\ Q[v].state = "EMBRYO" <=> P[v].state = "EMBRYO"
                           /\ P[v].state = "EMBRYO" => v # t /\ Q[v] = P[v]
                           /\ Q[v].at = "fork" <=> P[v].at = "fork"
                           /\ Q[v].main = P[v].main
    OBVIOUS
  <2> QED
    BY <2>1 DEF Parts, EmbryosInv
<1>10. ZombiesInv(Q)
  BY DEF Parts, ZombiesInv
<1>11. ExecInv(Q, R)
  <2>1. Living(Q[t]) /\ \A v \in MemSlot : v # t /\ P[v].new # NoSpace => P[v].new # P[t].new
    BY <1>3 DEF Living
  <2> QED
    BY <1>1, <1>6, <2>1 DEF Parts, ExecInv
<1>12. SharesInv(Q, R)
  <2>1. \A v \in MemSlot : v # t /\ Living(P[v]) => P[v].main # P[t].main /\ P[v].pgdir # P[t].new
    BY <1>3
  <2>2. R[Q[t].pgdir] = S[P[t].new]
    BY <1>3
  <2>3. DOMAIN R[Q[t].pgdir].user = Below(Q[t].sz) /\ Q[t].sz # 0 /\ Q[t].pgdir # NoSpace
    BY <1>3, <2>2
  <2> QED
    BY <1>7, <2>1, <2>3 DEF Parts, SharesInv
<1>13. HoldersInv(Q, R)
  <2>1. Living(Q[t]) /\ P[t].pgdir # NoSpace
    BY <1>2 DEF Living, SpaceNo, NoSpace
  <2>2. \A i \in SpaceNo : i # P[t].pgdir =>
          ((\E v \in MemSlot : i = Q[v].new \/ (Living(Q[v]) /\ i = Q[v].pgdir))
             <=> \E v \in MemSlot : i = P[v].new \/ (Living(P[v]) /\ i = P[v].pgdir))
    <3>1. \A i \in SpaceNo : i # NoSpace
      BY DEF SpaceNo, NoSpace
    <3> QED
      BY <1>1, <2>1, <3>1
  <2>3. ~\E v \in MemSlot : P[t].pgdir = Q[v].new \/ (Living(Q[v]) /\ P[t].pgdir = Q[v].pgdir)
    BY <1>3, <1>4, <1>5, <2>1
  <2>4. ~R[P[t].pgdir].used
    BY NoTables
  <2> QED
    BY <2>2, <2>3, <2>4 DEF Parts, HoldersInv
<1>14. InUse(Q) = InUse(P)
  BY DEF InUse
<1> QED
  BY <1>2, <1>8, <1>9, <1>10, <1>11, <1>12, <1>13, <1>14 DEF Parts, MemTypes

-----------------------------------------------------------------------------
(* The actions.                                                            *)

LEMMA MemFirstIn ==
  ASSUME NEW T \in SUBSET Nat, T # {}
  PROVE  MemFirst(T) \in T
<1>1. \E d \in T : \A e \in T : d <= e
  BY LeastNumber
<1> QED
  BY <1>1 DEF MemFirst

(* One table changed and k slots more are in use.                          *)
LEMMA PagesMove ==
  ASSUME NEW P, NEW Q, NEW S \in [SpaceNo -> Table], NEW R \in [SpaceNo -> Table],
         NEW i \in SpaceNo, \A j \in SpaceNo : j # i => R[j] = S[j],
         NEW f, NEW n, PagesInv(P, S, f, n), NEW g \in Nat, NEW k \in Int,
         Cardinality(InUse(Q)) = Cardinality(InUse(P)) + k, g + k + Cost(R[i]) = f + Cost(S[i])
  PROVE  PagesInv(Q, R, g, n)
<1>1. R = [S EXCEPT ![i] = R[i]]
  OBVIOUS
<1>2. PICK s \in Table : s = R[i]
  OBVIOUS
<1>3. /\ Costs(S) \in Nat /\ Costs(R) \in Nat /\ Cost(S[i]) \in Nat /\ Cost(s) \in Nat
      /\ Costs(R) + Cost(S[i]) = Costs(S) + Cost(s)
  BY <1>1, <1>2, CostsChange
<1>4. Cardinality(InUse(P)) \in Nat /\ Cardinality(InUse(Q)) \in Nat
  BY InUseCounts
<1>5. f \in Nat /\ n = f + Cardinality(InUse(P)) + Costs(S)
  BY DEF PagesInv
<1> HIDE DEF InUse
<1>6. n = g + Cardinality(InUse(Q)) + Costs(R)
  BY <1>2, <1>3, <1>4, <1>5
<1> QED
  BY <1>6 DEF PagesInv

(* No table changed.                                                       *)
LEMMA PagesStay ==
  ASSUME NEW P, NEW Q, NEW S \in [SpaceNo -> Table],
         NEW f, NEW n, PagesInv(P, S, f, n), NEW g \in Nat, NEW k \in Int,
         Cardinality(InUse(Q)) = Cardinality(InUse(P)) + k, g + k = f
  PROVE  PagesInv(Q, S, g, n)
<1>1. 1 \in SpaceNo
  BY MemoryAssumption DEF MemoryAssumption, SpaceNo
<1>2. Cost(S[1]) \in Nat /\ f \in Nat
  BY <1>1, CostIs DEF PagesInv
<1>3. g + k + Cost(S[1]) = f + Cost(S[1])
  BY <1>2
<1> QED
  BY <1>1, <1>3, PagesMove

(* Who runs has a page table; it can run its code if its pages are there.  *)
LEMMA RunnerHas ==
  ASSUME NEW P, NEW S, Parts(P, S), NEW t \in MemSlot, P[t].state = "RUN"
  PROVE  /\ P \in [MemSlot -> MemRec] /\ S \in [SpaceNo -> Table] /\ Living(P[t])
         /\ P[t].pgdir \in SpaceNo /\ P[t].main \in MemSlot /\ P[P[t].main].main = P[t].main
         /\ S[P[t].pgdir] \in Table /\ S[P[t].pgdir].used /\ P[t].sz \in Nat /\ P[t].sz # 0
         /\ 0 \in DOMAIN S[P[t].pgdir].user => DOMAIN S[P[t].pgdir].user = Below(P[t].sz)
         /\ \A u \in MemSlot : P[u].main = P[t].main => P[u].sz = P[t].sz /\ Living(P[u])
<1>1. P \in [MemSlot -> MemRec] /\ S \in [SpaceNo -> Table] /\ Living(P[t])
  BY DEF Parts, MemTypes, Living
<1>2. P[t].pgdir # NoSpace /\ P[t].sz # 0 /\ DOMAIN S[P[t].pgdir].user \in {{}, Below(P[t].sz)}
  BY <1>1 DEF Parts, SharesInv
<1>3. P[t].pgdir \in SpaceNo /\ P[t].sz \in Nat
  BY <1>1, <1>2, MemFields
<1>4. S[P[t].pgdir].used
  BY <1>1, <1>3 DEF Parts, HoldersInv
<1>5. P[t].main \in MemSlot /\ P[P[t].main].main = P[t].main
  BY DEF Parts, SlotsInv
<1>6. ASSUME NEW u \in MemSlot, P[u].main = P[t].main PROVE P[u].sz = P[t].sz /\ Living(P[u])
  <2>1. P[u].state # "UNUSED"
    <3>1. P[u].state = "UNUSED" => P[u].main = 0
      BY MemFreeIs DEF Parts, SlotsInv
    <3> QED
      BY <1>5, <1>6, <3>1 DEF MemSlot
  <2>2. P[u].state # "EMBRYO"
    BY <1>6 DEF Parts, EmbryosInv
  <2>3. Living(P[u])
    BY <1>1, <2>1, <2>2, MemFields DEF Living, MemStates
  <2> QED
    BY <1>1, <1>6, <2>3 DEF Parts, SharesInv
<1> QED
  BY <1>1, <1>2, <1>3, <1>4, <1>5, <1>6

(* A size a process has already.                                           *)
LEMMA SizedSame ==
  ASSUME NEW P, NEW S, Parts(P, S), NEW t \in MemSlot, P[t].state = "RUN"
  PROVE  P = Sized(P, t, P[t].sz)
<1>1. P \in [MemSlot -> MemRec] /\ \A u \in MemSlot : P[u].main = P[t].main => P[u].sz = P[t].sz
  BY RunnerHas
<1>2. \A p \in MemRec : [p EXCEPT !.sz = p.sz] = p
  BY DEF MemRec
<1>3. \A u \in MemSlot : P[u].main = P[t].main => [P[u] EXCEPT !.sz = P[t].sz] = P[u]
  BY <1>1, <1>2
<1> QED
  BY <1>1, <1>3 DEF Sized

(* What a step may do to the sizes, given the limits.                      *)
LimitStep(P, Q) ==
  \A t \in MemSlot :
    (Living(P[t]) /\ Q[t].pgdir = P[t].pgdir /\ Q[t].main = P[t].main /\ Q[t].sz > P[t].sz)
      => P[P[t].main].memlim = 0 \/ Q[t].sz <= P[P[t].main].memlim
StepKeeps == MemInv' /\ LimitStep(mproc, mproc')

LEMMA SizedLimit ==
  ASSUME NEW P, NEW S, Parts(P, S), NEW t \in MemSlot, P[t].state = "RUN", NEW sz \in Nat,
         sz > P[t].sz => P[P[t].main].memlim = 0 \/ sz <= P[P[t].main].memlim,
         NEW Q, \A u \in MemSlot : Living(P[u]) => Q[u].sz = IF P[u].main = P[t].main THEN sz ELSE P[u].sz
  PROVE  LimitStep(P, Q)
<1>1. P \in [MemSlot -> MemRec] /\ \A u \in MemSlot : P[u].main = P[t].main => P[u].sz = P[t].sz
  BY RunnerHas
<1>2. \A u \in MemSlot : P[u].sz \in Nat
  BY <1>1, MemFields
<1> QED
  BY <1>1, <1>2 DEF LimitStep

LEMMA SbrkKeeps ==
  ASSUME MemInv, NEW t \in MemSlot, Sbrk(t)
  PROVE  StepKeeps
<1>1. PICK n \in SbrkArgs : LET g == Growproc(t, frames, n)
    IN  /\ MemCalls(t)
        /\ mspace' = [mspace EXCEPT ![mproc[t].pgdir] = g.s]
        /\ frames' = g.f
        /\ mproc' = IF g.sz = 0 THEN mproc ELSE Sized(mproc, t, g.sz)
        /\ mpanic' = g.panic
        /\ UNCHANGED mpages
  BY DEF Sbrk
<1>2. PICK g : g = Growproc(t, frames, n)
  OBVIOUS
<1>3. PICK P, S, Q, R, f, d, m : /\ P = mproc /\ S = mspace /\ Q = mproc' /\ R = mspace' /\ f = frames /\ d = frames'
                                 /\ m = mpages /\ m = mpages'
  BY <1>1
<1>4. Parts(P, S) /\ PagesInv(P, S, f, m) /\ P[t].state = "RUN" /\ 0 \in DOMAIN S[P[t].pgdir].user
  BY <1>1, <1>3 DEF MemInv, MemCalls, MemAt, Space
<1>5. /\ P \in [MemSlot -> MemRec] /\ S \in [SpaceNo -> Table] /\ P[t].pgdir \in SpaceNo /\ P[t].main \in MemSlot
      /\ S[P[t].pgdir] \in Table /\ S[P[t].pgdir].used /\ P[t].sz \in Nat /\ P[t].sz # 0
      /\ DOMAIN S[P[t].pgdir].user = Below(P[t].sz)
  BY <1>4, RunnerHas
<1>6. PICK i \in SpaceNo, s \in Table, old \in Nat : i = P[t].pgdir /\ s = S[i] /\ old = P[t].sz
  BY <1>5
<1>7. f \in Nat /\ n \in Int
  BY <1>4, MemoryAssumption DEF PagesInv, MemoryAssumption
<1>8. Grown(s, f, old, g) /\ (g.sz > old => LimitOf(t) = 0 \/ g.sz <= LimitOf(t))
  <2>1. Space(t) = s /\ mproc[t].sz = old
    BY <1>3, <1>6 DEF Space
  <2>2. MemTypes(mproc, mspace) /\ mproc[t].pgdir \in SpaceNo /\ mproc[t].main \in MemSlot /\ Space(t).used
        /\ DOMAIN Space(t).user = Below(mproc[t].sz)
    BY <1>3, <1>5, <1>6, <2>1 DEF MemInv, Parts
  <2>3. frames \in Nat
    BY <1>3, <1>7
  <2>4. Grown(Space(t), frames, mproc[t].sz, g) /\ (g.sz > mproc[t].sz => LimitOf(t) = 0 \/ g.sz <= LimitOf(t))
    BY <1>2, <1>7, <2>2, <2>3, GrowprocGrows
  <2> QED
    BY <1>3, <2>1, <2>4
<1>9. g.s \in Table /\ g.s.used /\ g.f \in Nat /\ g.f + Cost(g.s) = f + Cost(s) /\ g.sz \in Nat
  BY <1>8 DEF Grown, Kept
<1>10. PICK sz \in Nat, gs \in Table, gf \in Nat : sz = (IF g.sz = 0 THEN old ELSE g.sz) /\ gs = g.s /\ gf = g.f
  BY <1>9
<1>11. sz # 0 /\ DOMAIN gs.user \in {{}, Below(sz)} /\ gs.used
  BY <1>5, <1>6, <1>8, <1>9, <1>10, BelowIs DEF Grown
<1>12. R = [S EXCEPT ![P[t].pgdir] = gs] /\ d = gf
  BY <1>1, <1>2, <1>3, <1>10
<1>13. Q = Sized(P, t, sz)
  <2>1. CASE g.sz = 0
    <3>1. Q = P /\ sz = P[t].sz
      BY <1>1, <1>2, <1>3, <1>6, <1>10, <2>1
    <3> QED
      BY <1>4, <3>1, SizedSame
  <2>2. CASE g.sz # 0
    BY <1>1, <1>2, <1>3, <1>10, <2>2
  <2> QED
    BY <2>1, <2>2
<1>r. R \in [SpaceNo -> Table] /\ R[i] = gs /\ \A j \in SpaceNo : j # i => R[j] = S[j]
  BY <1>5, <1>6, <1>12
<1>14. Parts(Q, R) /\ InUse(Q) = InUse(P)
  BY <1>4, <1>6, <1>11, <1>r, <1>13, ResizedKeeps
<1>15. PagesInv(Q, R, d, m)
  <2>1. R \in [SpaceNo -> Table] /\ R[i] = gs /\ \A j \in SpaceNo : j # i => R[j] = S[j]
    BY <1>r
  <2>2. gf + 0 + Cost(R[i]) = f + Cost(S[i])
    BY <1>6, <1>9, <1>10, <2>1
  <2>3. Cardinality(InUse(Q)) = Cardinality(InUse(P)) + 0
    BY <1>14, InUseCounts
  <2>4. PagesInv(P, S, f, m) /\ gf \in Nat /\ 0 \in Int /\ S \in [SpaceNo -> Table]
    BY <1>4, <1>5
  <2>5. PagesInv(Q, R, gf, m)
    BY <2>1, <2>2, <2>3, <2>4, PagesMove
  <2> QED
    BY <1>12, <2>5
<1>16. LimitStep(P, Q)
  <2>1. sz > P[t].sz => P[P[t].main].memlim = 0 \/ sz <= P[P[t].main].memlim
    BY <1>3, <1>6, <1>8, <1>10 DEF LimitOf
  <2>2. \A p \in MemRec : [p EXCEPT !.sz = sz].sz = sz
    BY DEF MemRec
  <2>3. \A u \in MemSlot : Q[u].sz = IF P[u].main = P[t].main THEN sz ELSE P[u].sz
    BY <1>5, <1>13, <2>2 DEF Sized
  <2> QED
    BY <1>4, <2>1, <2>3, SizedLimit
<1> QED
  BY <1>3, <1>14, <1>15, <1>16 DEF StepKeeps, MemInv

LEMMA CreateKeeps ==
  ASSUME MemInv, NEW t \in MemSlot, Create(t)
  PROVE  StepKeeps
<1> DEFINE u == MemFirst(MemUnused)
           gr == Growproc(t, frames - 1, 2 * PGSIZE)
           guard == (gr.sz - 2 * PGSIZE) \div PGSIZE
<1>1. PICK P, S, Q, R, f, d, m, g : /\ P = mproc /\ S = mspace /\ Q = mproc' /\ R = mspace' /\ f = frames /\ d = frames'
                                    /\ m = mpages /\ g = gr
  OBVIOUS
<1>2. MemCalls(t) /\ mpages' = m
  BY <1>1 DEF Create
<1>3. \/ Q = P /\ R = S /\ d = f
      \/ /\ f >= 1 /\ g.sz = 0 /\ Q = P
         /\ R = [S EXCEPT ![P[t].pgdir] = g.s] /\ d = g.f + 1
      \/ /\ MemUnused # {} /\ f >= 1 /\ g.sz # 0
         /\ R = [S EXCEPT ![P[t].pgdir] = Clearpteu(g.s, guard)] /\ d = g.f
         /\ Q = [Sized(P, t, g.sz) EXCEPT ![u] =
              [MemFree EXCEPT !.state = "RUN", !.main = P[t].main, !.pgdir = P[t].pgdir,
                              !.sz = g.sz, !.parent = P[P[t].main].parent]]
  BY <1>1 DEF Create, Kalloced, Kfree
<1>4. Parts(P, S) /\ PagesInv(P, S, f, m) /\ P[t].state = "RUN" /\ 0 \in DOMAIN S[P[t].pgdir].user
  BY <1>1, <1>2 DEF MemInv, MemCalls, MemAt, Space
<1>5. /\ P \in [MemSlot -> MemRec] /\ S \in [SpaceNo -> Table] /\ P[t].pgdir \in SpaceNo /\ P[t].main \in MemSlot
      /\ S[P[t].pgdir] \in Table /\ S[P[t].pgdir].used /\ P[t].sz \in Nat /\ P[t].sz # 0
      /\ DOMAIN S[P[t].pgdir].user = Below(P[t].sz) /\ \A v \in MemSlot : P[v].main = P[t].main => P[v].sz = P[t].sz
  BY <1>4, RunnerHas
<1>6. PICK i \in SpaceNo, s \in Table, old \in Nat : i = P[t].pgdir /\ s = S[i] /\ old = P[t].sz
  BY <1>5
<1>7. f \in Nat
  BY <1>4 DEF PagesInv
<1>8. CASE Q = P /\ R = S /\ d = f
  <2>1. LimitStep(P, P)
    BY <1>5, MemFields DEF LimitStep
  <2> QED
    BY <1>1, <1>2, <1>4, <1>8, <2>1 DEF StepKeeps, MemInv
<1>9. ASSUME f >= 1
      PROVE  /\ Grown(s, f - 1, old, g) /\ (g.sz > old => LimitOf(t) = 0 \/ g.sz <= LimitOf(t))
             /\ g.s \in Table /\ g.s.used /\ g.f \in Nat /\ g.f + Cost(g.s) = f - 1 + Cost(s) /\ g.sz \in Nat
  <2>1. Space(t) = s /\ mproc[t].sz = old
    BY <1>1, <1>6 DEF Space
  <2>2. MemTypes(mproc, mspace) /\ mproc[t].pgdir \in SpaceNo /\ mproc[t].main \in MemSlot /\ Space(t).used
        /\ DOMAIN Space(t).user = Below(mproc[t].sz)
    BY <1>1, <1>5, <1>6, <2>1 DEF MemInv, Parts
  <2>3. frames - 1 \in Nat /\ 2 * PGSIZE \in Int
    BY <1>1, <1>7, <1>9, MemoryAssumption DEF MemoryAssumption
  <2>4. Grown(Space(t), frames - 1, mproc[t].sz, g) /\ (g.sz > mproc[t].sz => LimitOf(t) = 0 \/ g.sz <= LimitOf(t))
    BY <1>1, <2>2, <2>3, GrowprocGrows
  <2>5. Grown(s, f - 1, old, g)
    BY <1>1, <2>1, <2>4
  <2> QED
    BY <2>1, <2>4, <2>5 DEF Grown, Kept
<1>10. CASE /\ f >= 1 /\ g.sz = 0 /\ Q = P
            /\ R = [S EXCEPT ![P[t].pgdir] = g.s] /\ d = g.f + 1
  <2>1. PICK gs \in Table, gf \in Nat : gs = g.s /\ gf = g.f /\ gs.used /\ gf + Cost(gs) = f - 1 + Cost(s)
    BY <1>9, <1>10
  <2>2. R \in [SpaceNo -> Table] /\ R[i] = gs /\ \A j \in SpaceNo : j # i => R[j] = S[j]
    BY <1>5, <1>6, <1>10, <2>1
  <2>3. DOMAIN gs.user \in {{}, Below(old)}
    BY <1>9, <1>10, <2>1, BelowIs DEF Grown
  <2>4. Q = Sized(P, t, old)
    BY <1>4, <1>6, <1>10, SizedSame
  <2>5. Parts(Q, R) /\ InUse(Q) = InUse(P)
    BY <1>4, <1>5, <1>6, <2>1, <2>2, <2>3, <2>4, ResizedKeeps
  <2>6. PagesInv(Q, R, d, m)
    <3>1. d \in Nat /\ d + 0 + Cost(R[i]) = f + Cost(S[i]) /\ Cardinality(InUse(Q)) = Cardinality(InUse(P)) + 0
      <4>1. Cost(gs) \in Nat /\ Cost(s) \in Nat /\ Cardinality(InUse(P)) \in Nat
        BY CostIs, InUseCounts
      <4> QED
        BY <1>6, <1>7, <1>10, <2>1, <2>2, <2>5, <4>1
    <3>2. PagesInv(P, S, f, m) /\ 0 \in Int /\ S \in [SpaceNo -> Table]
      BY <1>4, <1>5
    <3> QED
      BY <2>2, <3>1, <3>2, PagesMove
  <2>7. LimitStep(P, Q)
    BY <1>5, <1>10, MemFields DEF LimitStep
  <2> QED
    BY <1>1, <1>2, <2>5, <2>6, <2>7 DEF StepKeeps, MemInv
<1>11. CASE /\ MemUnused # {} /\ f >= 1 /\ g.sz # 0
            /\ R = [S EXCEPT ![P[t].pgdir] = Clearpteu(g.s, guard)] /\ d = g.f
            /\ Q = [Sized(P, t, g.sz) EXCEPT ![u] =
                 [MemFree EXCEPT !.state = "RUN", !.main = P[t].main, !.pgdir = P[t].pgdir,
                                 !.sz = g.sz, !.parent = P[P[t].main].parent]]
  <2>0. PICK c : c = Clearpteu(g.s, guard)
    OBVIOUS
  <2>1. PICK gf \in Nat, sz \in Nat : /\ gf = g.f /\ sz = g.sz /\ c = Clearpteu(g.s, guard)
                                      /\ gf + Cost(g.s) = f - 1 + Cost(s) /\ g.s \in Table /\ g.s.used
    BY <1>9, <1>11, <2>0
  <2>2. c \in Table /\ c.used /\ DOMAIN c.user = Below(sz) /\ Cost(c) = Cost(g.s) /\ sz # 0
    BY <1>9, <1>11, <2>1, ClearpteuKeeps DEF Grown
  <2>3. R \in [SpaceNo -> Table] /\ R[i] = c /\ \A j \in SpaceNo : j # i => R[j] = S[j]
    BY <1>5, <1>6, <1>11, <2>1, <2>2
  <2>4. PICK Z : Z = Sized(P, t, sz)
    OBVIOUS
  <2>5. Parts(Z, R) /\ InUse(Z) = InUse(P)
    BY <1>4, <1>5, <1>6, <2>2, <2>3, <2>4, ResizedKeeps
  <2>6. PICK w \in MemSlot : w = u /\ P[w].state = "UNUSED"
    <3>1. MemUnused \in SUBSET Nat /\ MemUnused # {}
      BY <1>11 DEF MemUnused, MemSlot
    <3>2. u \in MemUnused
      BY <3>1, MemFirstIn
    <3> QED
      BY <1>1, <3>2 DEF MemUnused
  <2>7. Z \in [MemSlot -> MemRec] /\ \A v \in MemSlot : /\ Z[v].state = P[v].state /\ Z[v].main = P[v].main /\ Z[v].pgdir = P[v].pgdir
                                                        /\ Z[v].sz = IF P[v].main = P[t].main THEN sz ELSE P[v].sz
    <3>1. \A p \in MemRec : LET q == [p EXCEPT !.sz = sz] IN
            q \in MemRec /\ q.state = p.state /\ q.main = p.main /\ q.pgdir = p.pgdir /\ q.sz = sz
      BY DEF MemRec
    <3> QED
      BY <1>5, <2>4, <3>1 DEF Sized
  <2>8. PICK r : r = [MemFree EXCEPT !.state = "RUN", !.main = P[t].main, !.pgdir = P[t].pgdir,
                                     !.sz = sz, !.parent = P[P[t].main].parent]
    OBVIOUS
  <2>9. /\ r \in MemRec /\ r.state = "RUN" /\ r.at = "user" /\ r.new = NoSpace
        /\ r.main = P[t].main /\ r.pgdir = P[t].pgdir /\ r.sz = sz
    <3>1. /\ P[t].main \in 0 .. MemSlots /\ P[t].pgdir \in 0 .. MemSpaces /\ P[P[t].main].parent \in 0 .. MemSlots
          /\ "RUN" \in MemStates
      BY <1>5 DEF MemRec, MemStates
    <3>2. PICK a \in 0 .. MemSlots, b \in 0 .. MemSpaces, e \in 0 .. MemSlots :
            a = P[t].main /\ b = P[t].pgdir /\ e = P[P[t].main].parent
      BY <3>1
    <3>3. r = [MemFree EXCEPT !.state = "RUN", !.main = a, !.pgdir = b, !.sz = sz, !.parent = e]
      BY <2>8, <3>2
    <3>4. r \in MemRec
      BY <3>1, <3>3, MemFreeIs DEF MemRec
    <3>5. r.state = "RUN" /\ r.at = "user" /\ r.new = NoSpace /\ r.main = a /\ r.pgdir = b /\ r.sz = sz
      BY <3>3, MemFreeIs DEF MemRec
    <3> QED
      BY <3>2, <3>4, <3>5
  <2>10. Q = [Z EXCEPT ![w] = r]
    BY <1>11, <2>1, <2>4, <2>6, <2>8
  <2>11. Parts(Q, R) /\ Cardinality(InUse(Q)) = Cardinality(InUse(Z)) + 1
    <3>1. Z[t].state = "RUN" /\ Z[w].state = "UNUSED" /\ r.main = Z[t].main /\ r.pgdir = Z[t].pgdir /\ r.sz = Z[t].sz
      BY <1>4, <2>6, <2>7, <2>9
    <3>2. r \in MemRec /\ r.state = "RUN" /\ r.at = "user" /\ r.new = NoSpace
      BY <2>9
    <3> QED
      BY <2>5, <2>10, <3>1, <3>2, ThreadAdded
  <2>12. PagesInv(Q, R, d, m)
    <3>1. d \in Nat /\ d + 1 + Cost(R[i]) = f + Cost(S[i]) /\ Cardinality(InUse(Q)) = Cardinality(InUse(P)) + 1
      <4>1. Cost(c) \in Nat /\ Cost(s) \in Nat
        BY <2>2, CostIs
      <4> QED
        BY <1>6, <1>7, <1>11, <2>1, <2>2, <2>3, <2>5, <2>11, <4>1
    <3>2. PagesInv(P, S, f, m) /\ 1 \in Int /\ S \in [SpaceNo -> Table]
      BY <1>4, <1>5
    <3> QED
      BY <2>3, <3>1, <3>2, PagesMove
  <2>13. LimitStep(P, Q)
    <3>1. sz > P[t].sz => P[P[t].main].memlim = 0 \/ sz <= P[P[t].main].memlim
      BY <1>1, <1>6, <1>9, <1>11, <2>1 DEF LimitOf
    <3>2. \A v \in MemSlot : Living(P[v]) => Q[v].sz = IF P[v].main = P[t].main THEN sz ELSE P[v].sz
      <4>1. ~Living(P[w])
        BY <2>6 DEF Living
      <4> QED
        BY <2>7, <2>10, <4>1
    <3> QED
      BY <1>4, <3>1, <3>2, SizedLimit
  <2> QED
    BY <1>1, <1>2, <2>11, <2>12, <2>13 DEF StepKeeps, MemInv
<1> QED
  BY <1>3, <1>8, <1>10, <1>11

LEMMA NothingGrows ==
  ASSUME NEW P \in [MemSlot -> MemRec], NEW Q,
         \A v \in MemSlot : Living(P[v]) => Q[v].sz = P[v].sz \/ Q[v].sz = 0 \/ Q[v].pgdir # P[v].pgdir
  PROVE  LimitStep(P, Q)
<1>1. \A v \in MemSlot : P[v].sz \in Nat
  BY MemFields
<1>2. ASSUME NEW v \in MemSlot, Living(P[v]), Q[v].pgdir = P[v].pgdir PROVE ~(Q[v].sz > P[v].sz)
  BY <1>1, <1>2
<1> QED
  BY <1>2 DEF LimitStep

LEMMA ForkStartKeeps ==
  ASSUME MemInv, NEW t \in MemSlot, ForkStart(t)
  PROVE  StepKeeps
<1>1. PICK P, S, Q, f, m, u : /\ P = mproc /\ S = mspace /\ Q = mproc' /\ f = frames
                              /\ m = mpages /\ u = MemFirst(MemUnused)
  OBVIOUS
<1>2. /\ MemCalls(t) /\ MemUnused # {} /\ f >= 1 /\ frames' = f - 1 /\ mspace' = S /\ mpages' = m
      /\ Q = [P EXCEPT ![u] = [MemFree EXCEPT !.state = "EMBRYO", !.main = u, !.parent = t], ![t].at = "fork"]
  BY <1>1 DEF ForkStart, Kalloced
<1>3. Parts(P, S) /\ PagesInv(P, S, f, m) /\ P[t].state = "RUN" /\ P[t].at = "user"
  BY <1>1, <1>2 DEF MemInv, MemCalls, MemAt
<1>4. u \in MemSlot /\ P[u].state = "UNUSED"
  <2>1. MemUnused \in SUBSET Nat
    BY DEF MemUnused, MemSlot
  <2>2. u \in MemUnused
    BY <1>1, <1>2, <2>1, MemFirstIn
  <2> QED
    BY <1>1, <2>2 DEF MemUnused
<1>5. P \in [MemSlot -> MemRec] /\ S \in [SpaceNo -> Table] /\ f \in Nat
  BY <1>3 DEF Parts, MemTypes, PagesInv
<1>6. PICK r, q : r = [MemFree EXCEPT !.state = "EMBRYO", !.main = u, !.parent = t] /\ q = [P[t] EXCEPT !.at = "fork"]
  OBVIOUS
<1>7. /\ r \in MemRec /\ r.state = "EMBRYO" /\ r.main = u /\ r.parent = t /\ r.at = "user" /\ r.new = NoSpace
  <2>1. u \in 0 .. MemSlots /\ t \in 0 .. MemSlots
    BY <1>4, MemoryAssumption DEF MemoryAssumption, MemSlot
  <2>2. r \in MemRec
    BY <1>6, <2>1, MemFreeIs DEF MemRec, MemStates
  <2> QED
    BY <1>6, <2>2, MemFreeIs DEF MemRec
<1>8. Moved(P[t], q, "fork") /\ q \in MemRec
  BY <1>5, <1>6, MovedIs DEF Moved
<1>9. Q = [P EXCEPT ![u] = r, ![t] = q]
  <2>1. t # u
    BY <1>3, <1>4
  <2> QED
    BY <1>2, <1>4, <1>5, <1>6, <2>1
<1>10. Q \in [MemSlot -> MemRec] /\ Q[u] = r /\ Q[t] = q /\ \A v \in MemSlot : v # u /\ v # t => Q[v] = P[v]
  <2>1. t # u
    BY <1>3, <1>4
  <2> QED
    BY <1>4, <1>5, <1>7, <1>8, <1>9, <2>1
<1>11. Parts(Q, S) /\ Cardinality(InUse(Q)) = Cardinality(InUse(P)) + 1
  <2>1. /\ Moved(P[t], Q[t], "fork") /\ Q[u].state = "EMBRYO" /\ Q[u].main = u /\ Q[u].parent = t
        /\ Q[u].at = "user" /\ Q[u].new = NoSpace
    BY <1>7, <1>8, <1>10
  <2> QED
    BY <1>3, <1>4, <1>10, <2>1, EmbryoAdded
<1>12. PagesInv(Q, S, f - 1, m)
  <2>1. f - 1 \in Nat /\ 1 \in Int /\ (f - 1) + 1 = f
    BY <1>2, <1>5
  <2> QED
    BY <1>3, <1>11, <1>5, <2>1, PagesStay
<1>13. LimitStep(P, Q)
  <2>1. \A v \in MemSlot : Living(P[v]) => v # u
    BY <1>4 DEF Living
  <2>4. \A v \in MemSlot : v # u => Q[v].sz = P[v].sz
    BY <1>8, <1>10 DEF Moved
  <2> QED
    BY <1>5, <2>1, <2>4, NothingGrows
<1> QED
  BY <1>1, <1>2, <1>11, <1>12, <1>13 DEF StepKeeps, MemInv

LEMMA ForkCopiesKeeps ==
  ASSUME MemInv, NEW t \in MemSlot, ForkCopies(t)
  PROVE  StepKeeps
<1> DEFINE child == CHOOSE u \in MemSlot : mproc[u].state = "EMBRYO" /\ mproc[u].parent = t
           missing == ~(Below(mproc[t].sz) \subseteq DOMAIN Space(t).user)
           cp == Copyuvm(Space(t), frames, mproc[t].sz)
<1>1. PICK P, S, Q, R, f, d, m, u, c, id :
        /\ P = mproc /\ S = mspace /\ Q = mproc' /\ R = mspace' /\ f = frames /\ d = frames'
        /\ m = mpages /\ u = child /\ c = cp /\ id = MemFirst(FreeSpaces)
  OBVIOUS
<1>2. MemAt(t, "fork") /\ FreeSpaces # {} /\ mpages' = m
  BY <1>1 DEF ForkCopies
<1>3. \/ Q = P /\ R = S /\ d = f
      \/ /\ ~missing /\ c.ok /\ R = [S EXCEPT ![id] = c.s] /\ d = c.f
         /\ Q = [[P EXCEPT ![t].at = "user"] EXCEPT ![u] =
                   [@ EXCEPT !.state = "RUN", !.pgdir = id, !.sz = P[t].sz,
                             !.memlim = P[P[t].main].memlim, !.stacksize = P[P[t].main].stacksize]]
      \/ /\ ~missing /\ ~c.ok /\ R = S /\ d = c.f + 1
         /\ Q = [[P EXCEPT ![t].at = "user"] EXCEPT ![u] = MemFree]
  BY <1>1 DEF ForkCopies, Kfree
<1>4. Parts(P, S) /\ PagesInv(P, S, f, m) /\ P[t].state = "RUN" /\ P[t].at = "fork"
  BY <1>1, <1>2 DEF MemInv, MemAt
<1>5. /\ P \in [MemSlot -> MemRec] /\ S \in [SpaceNo -> Table] /\ f \in Nat /\ P[t].main \in MemSlot
      /\ S[P[t].pgdir] \in Table /\ P[t].sz \in Nat
  BY <1>4, RunnerHas DEF PagesInv
<1>6. u \in MemSlot /\ P[u].state = "EMBRYO" /\ P[u].parent = t /\ u # t
  <2>1. \E v \in MemSlot : P[v].state = "EMBRYO" /\ P[v].parent = t
    BY <1>4 DEF Parts, EmbryosInv
  <2> QED
    BY <1>1, <1>4, <2>1
<1>7. id \in SpaceNo /\ ~S[id].used
  <2>1. FreeSpaces \in SUBSET Nat
    BY DEF FreeSpaces
  <2>2. id \in FreeSpaces
    BY <1>1, <1>2, <2>1, MemFirstIn
  <2> QED
    BY <1>1, <2>2 DEF FreeSpaces, SpaceNo
<1>8. ~missing => /\ c.ok \in BOOLEAN /\ (~c.ok => c.f = f)
                  /\ c.ok => /\ c.s \in Table /\ c.s.used /\ DOMAIN c.s.user = Below(P[t].sz)
                             /\ c.f \in Nat /\ c.f + Cost(c.s) = f
  <2>1. PICK s \in Table, sz \in Nat : s = S[P[t].pgdir] /\ sz = P[t].sz
    BY <1>5
  <2>2. c = Copyuvm(s, f, sz) /\ (~missing => Below(sz) \subseteq DOMAIN s.user)
    BY <1>1, <2>1 DEF Space
  <2> HIDE DEF missing
  <2> QED
    BY <1>5, <2>1, <2>2, CopyuvmCopies
<1>9. Q = P => LimitStep(P, Q)
  BY <1>5, NothingGrows
<1>10. CASE Q = P /\ R = S /\ d = f
  BY <1>1, <1>2, <1>4, <1>9, <1>10 DEF StepKeeps, MemInv
<1>11. PICK b : b = [P[t] EXCEPT !.at = "user"]
  OBVIOUS
<1>12. Moved(P[t], b, "user") /\ b \in MemRec /\ b.sz = P[t].sz
  BY <1>5, <1>11, MovedIs DEF Moved
<1>13. CASE /\ ~missing /\ c.ok /\ R = [S EXCEPT ![id] = c.s] /\ d = c.f
            /\ Q = [[P EXCEPT ![t].at = "user"] EXCEPT ![u] =
                      [@ EXCEPT !.state = "RUN", !.pgdir = id, !.sz = P[t].sz,
                                !.memlim = P[P[t].main].memlim, !.stacksize = P[P[t].main].stacksize]]
  <2>1. c.s \in Table /\ c.s.used /\ DOMAIN c.s.user = Below(P[t].sz) /\ c.f \in Nat /\ c.f + Cost(c.s) = f
    BY <1>8, <1>13
  <2>2. R \in [SpaceNo -> Table] /\ R[id] = c.s /\ \A j \in SpaceNo : j # id => R[j] = S[j]
    BY <1>5, <1>7, <1>13, <2>1
  <2>3. PICK r : r = [P[u] EXCEPT !.state = "RUN", !.pgdir = id, !.sz = P[t].sz,
                                  !.memlim = P[P[t].main].memlim, !.stacksize = P[P[t].main].stacksize]
    OBVIOUS
  <2>4. /\ r \in MemRec /\ r.state = "RUN" /\ r.pgdir = id /\ r.sz = P[t].sz /\ r.main = P[u].main
        /\ r.at = P[u].at /\ r.new = P[u].new
    <3>1. PICK x \in Nat, y \in Nat, z \in Nat, j \in 0 .. MemSpaces :
            x = P[t].sz /\ y = P[P[t].main].memlim /\ z = P[P[t].main].stacksize /\ j = id
      <4>1. id \in 0 .. MemSpaces
        BY <1>7 DEF SpaceNo
      <4> QED
        BY <1>5, <4>1, MemFields
    <3>2. r = [P[u] EXCEPT !.state = "RUN", !.pgdir = j, !.sz = x, !.memlim = y, !.stacksize = z]
      BY <2>3, <3>1
    <3>3. PICK p \in MemRec : p = P[u]
      BY <1>5, <1>6
    <3>4. r = [p EXCEPT !.state = "RUN", !.pgdir = j, !.sz = x, !.memlim = y, !.stacksize = z]
      BY <3>2, <3>3
    <3>5. /\ r \in MemRec /\ r.state = "RUN" /\ r.pgdir = j /\ r.sz = x /\ r.main = p.main
          /\ r.at = p.at /\ r.new = p.new
      BY <3>4 DEF MemRec, MemStates
    <3> QED
      BY <3>1, <3>3, <3>5
  <2>5. Q = [P EXCEPT ![t] = b, ![u] = r]
    <3>1. [P EXCEPT ![t].at = "user"] = [P EXCEPT ![t] = b] /\ [P EXCEPT ![t] = b][u] = P[u]
      BY <1>5, <1>6, <1>11
    <3> QED
      BY <1>5, <1>6, <1>13, <2>3, <3>1
  <2>6. Q \in [MemSlot -> MemRec] /\ Q[t] = b /\ Q[u] = r /\ \A v \in MemSlot : v # u /\ v # t => Q[v] = P[v]
    BY <1>5, <1>6, <1>12, <2>4, <2>5
  <2>7. P[u].main = u /\ P[u].at = "user" /\ P[u].new = NoSpace
    BY <1>4, <1>6 DEF Parts, EmbryosInv, SlotsInv, ExecInv
  <2>8. Parts(Q, R) /\ InUse(Q) = InUse(P)
    <3>1. R[id].used /\ DOMAIN R[id].user = Below(P[t].sz) /\ Moved(P[t], Q[t], "user")
      BY <1>12, <2>1, <2>2, <2>6
    <3>2. Q[u].state = "RUN" /\ Q[u].main = u /\ Q[u].at = "user" /\ Q[u].new = NoSpace /\ Q[u].pgdir = id /\ Q[u].sz = P[t].sz
      BY <2>4, <2>6, <2>7
    <3>3. R \in [SpaceNo -> Table] /\ \A j \in SpaceNo : j # id => R[j] = S[j]
      BY <2>2
    <3>4. Q \in [MemSlot -> MemRec] /\ \A v \in MemSlot : v # u /\ v # t => Q[v] = P[v]
      BY <2>6
    <3> QED
      BY <1>4, <1>6, <1>7, <3>1, <3>2, <3>3, <3>4, EmbryoRuns
  <2>9. PagesInv(Q, R, d, m)
    <3>1. Cost(S[id]) = 0
      BY <1>7 DEF Cost
    <3>2. Cost(R[id]) = Cost(c.s) /\ Cost(c.s) \in Nat
      BY <2>1, <2>2, CostIs
    <3>3. d \in Nat /\ d + 0 + Cost(R[id]) = f + Cost(S[id]) /\ Cardinality(InUse(Q)) = Cardinality(InUse(P)) + 0
      BY <1>5, <1>13, <2>1, <2>8, <3>1, <3>2, InUseCounts
    <3>4. PagesInv(P, S, f, m) /\ 0 \in Int /\ S \in [SpaceNo -> Table]
      BY <1>4, <1>5
    <3> QED
      BY <1>7, <2>2, <3>3, <3>4, PagesMove
  <2>10. LimitStep(P, Q)
    <3>1. ~Living(P[u])
      BY <1>6 DEF Living
    <3>2. \A v \in MemSlot : v # u => Q[v].sz = P[v].sz
      BY <1>12, <2>6
    <3> QED
      BY <1>5, <3>1, <3>2, NothingGrows
  <2> QED
    BY <1>1, <1>2, <2>8, <2>9, <2>10 DEF StepKeeps, MemInv
<1>14. CASE /\ ~missing /\ ~c.ok /\ R = S /\ d = c.f + 1
            /\ Q = [[P EXCEPT ![t].at = "user"] EXCEPT ![u] = MemFree]
  <2>1. Q = [P EXCEPT ![t] = b, ![u] = MemFree]
    <3>1. [P EXCEPT ![t].at = "user"] = [P EXCEPT ![t] = b]
      BY <1>5, <1>11
    <3> QED
      BY <1>5, <1>6, <1>14, <3>1
  <2>2. Q \in [MemSlot -> MemRec] /\ Q[t] = b /\ Q[u] = MemFree /\ \A v \in MemSlot : v # u /\ v # t => Q[v] = P[v]
    BY <1>5, <1>6, <1>12, <2>1, MemFreeIs
  <2>3. Parts(Q, S) /\ Cardinality(InUse(Q)) = Cardinality(InUse(P)) - 1
    <3>1. Moved(P[t], Q[t], "user")
      BY <1>12, <2>2
    <3> QED
      BY <1>4, <1>6, <2>2, <3>1, EmbryoGone
  <2>4. PagesInv(Q, S, d, m)
    <3>1. d \in Nat /\ d + (0 - 1) = f /\ Cardinality(InUse(Q)) = Cardinality(InUse(P)) + (0 - 1)
      BY <1>5, <1>8, <1>14, <2>3, InUseCounts
    <3>2. PagesInv(P, S, f, m) /\ (0 - 1) \in Int /\ S \in [SpaceNo -> Table]
      BY <1>4, <1>5
    <3> QED
      BY <3>1, <3>2, PagesStay
  <2>5. LimitStep(P, Q)
    <3>1. \A v \in MemSlot : Q[v].sz = P[v].sz \/ Q[v].sz = 0
      BY <1>12, <2>2, MemFreeIs
    <3> QED
      BY <1>5, <3>1, NothingGrows
  <2> QED
    BY <1>1, <1>2, <1>14, <2>3, <2>4, <2>5 DEF StepKeeps, MemInv
<1> QED
  BY <1>3, <1>10, <1>13, <1>14

LEMMA SetLimitKeeps ==
  ASSUME MemInv, NEW t \in MemSlot, SetLimit(t)
  PROVE  StepKeeps
<1>1. PICK P, S, Q, f, m : P = mproc /\ S = mspace /\ Q = mproc' /\ f = frames /\ m = mpages
  OBVIOUS
<1>2. PICK u \in MemSlot, limit \in Limits : /\ P[u].state # "UNUSED" /\ Q = [P EXCEPT ![P[u].main].memlim = limit]
                                            /\ mspace' = S /\ frames' = f /\ mpages' = m
  BY <1>1 DEF SetLimit
<1>3. Parts(P, S) /\ PagesInv(P, S, f, m)
  BY <1>1 DEF MemInv
<1>4. P \in [MemSlot -> MemRec] /\ S \in [SpaceNo -> Table] /\ f \in Nat /\ limit \in Nat
  BY <1>3, MemoryAssumption DEF Parts, MemTypes, PagesInv, MemoryAssumption
<1>5. PICK w \in MemSlot : w = P[u].main /\ P[w].state # "UNUSED"
  BY <1>2, <1>3, MemFreeIs DEF Parts, SlotsInv, MemSlot
<1>0. PICK r : r = [P[w] EXCEPT !.memlim = limit]
  OBVIOUS
<1>6. PICK p \in MemRec : p = P[w] /\ r = [p EXCEPT !.memlim = limit]
  BY <1>0, <1>4
<1>7. r \in MemRec /\ Alike(p, r)
  BY <1>4, <1>5, <1>6 DEF MemRec, Alike
<1>8. Q \in [MemSlot -> MemRec] /\ \A v \in MemSlot : Q[v] = IF v = w THEN r ELSE P[v]
  BY <1>2, <1>4, <1>5, <1>6, <1>7
<1>9. \A v \in MemSlot : Alike(P[v], Q[v])
  BY <1>6, <1>7, <1>8 DEF Alike
<1>10. Parts(Q, S) /\ InUse(Q) = InUse(P)
  BY <1>3, <1>8, <1>9, AlikeKeeps
<1>11. PagesInv(Q, S, f, m)
  BY <1>3, <1>10 DEF PagesInv
<1>12. LimitStep(P, Q)
  <2>1. \A v \in MemSlot : Q[v].sz = P[v].sz
    BY <1>9 DEF Alike
  <2> QED
    BY <1>4, <2>1, NothingGrows
<1> QED
  BY <1>1, <1>2, <1>10, <1>11, <1>12 DEF StepKeeps, MemInv

LEMMA ExecStartKeeps ==
  ASSUME MemInv, NEW t \in MemSlot, ExecStart(t)
  PROVE  StepKeeps
<1>1. PICK P, S, Q, R, f, d, m, id : /\ P = mproc /\ S = mspace /\ Q = mproc' /\ R = mspace' /\ f = frames /\ d = frames'
                                     /\ m = mpages /\ id = MemFirst(FreeSpaces)
  OBVIOUS
<1>2. MemCalls(t) /\ mpages' = m
  BY <1>1 DEF ExecStart
<1>3. PICK program \in Programs, st \in StackSizes \cup {P[t].stacksize} :
        \/ /\ f >= 1 + KernTables /\ FreeSpaces # {} /\ R = [S EXCEPT ![id] = NewTable] /\ d = f - 1 - KernTables
           /\ Q = [[P EXCEPT ![t].stacksize = st] EXCEPT ![t] =
                     [@ EXCEPT !.at = "load", !.new = id, !.nsz = 0, !.prog = program]]
        \/ Q = [P EXCEPT ![t].stacksize = st] /\ R = S /\ d = f
  BY <1>1 DEF ExecStart, SetupkvmFits, Kalloced
<1>4. Parts(P, S) /\ PagesInv(P, S, f, m) /\ P[t].state = "RUN" /\ P[t].at = "user"
  BY <1>1, <1>2 DEF MemInv, MemCalls, MemAt
<1>5. P \in [MemSlot -> MemRec] /\ S \in [SpaceNo -> Table] /\ f \in Nat /\ st \in Nat /\ program \in Seq(Segment)
  <2>1. P \in [MemSlot -> MemRec] /\ S \in [SpaceNo -> Table] /\ f \in Nat
    BY <1>4 DEF Parts, MemTypes, PagesInv
  <2>2. P[t].stacksize \in Nat
    BY <2>1, MemFields
  <2> QED
    BY <2>1, <2>2, MemoryAssumption DEF MemoryAssumption
<1>0. PICK c : c = [P[t] EXCEPT !.stacksize = st]
  OBVIOUS
<1>6. PICK p \in MemRec : p = P[t] /\ c = [p EXCEPT !.stacksize = st]
  BY <1>0, <1>5
<1>7. c \in MemRec /\ Alike(p, c) /\ c.state = "RUN" /\ c.main = p.main /\ c.pgdir = p.pgdir /\ c.sz = p.sz
  BY <1>4, <1>5, <1>6 DEF MemRec, Alike
<1>8. CASE Q = [P EXCEPT ![t].stacksize = st] /\ R = S /\ d = f
  <2>1. Q \in [MemSlot -> MemRec] /\ \A v \in MemSlot : Q[v] = IF v = t THEN c ELSE P[v]
    BY <1>5, <1>6, <1>7, <1>8
  <2>2. \A v \in MemSlot : Alike(P[v], Q[v])
    BY <1>6, <1>7, <2>1 DEF Alike
  <2>3. Parts(Q, S) /\ InUse(Q) = InUse(P)
    BY <1>4, <2>1, <2>2, AlikeKeeps
  <2>4. PagesInv(Q, S, f, m)
    BY <1>4, <2>3 DEF PagesInv
  <2>5. \A v \in MemSlot : Q[v].sz = P[v].sz
    BY <2>2 DEF Alike
  <2>6. LimitStep(P, Q)
    BY <1>5, <2>5, NothingGrows
  <2> QED
    BY <1>1, <1>2, <1>8, <2>3, <2>4, <2>6 DEF StepKeeps, MemInv
<1>9. CASE /\ f >= 1 + KernTables /\ FreeSpaces # {} /\ R = [S EXCEPT ![id] = NewTable] /\ d = f - 1 - KernTables
           /\ Q = [[P EXCEPT ![t].stacksize = st] EXCEPT ![t] =
                     [@ EXCEPT !.at = "load", !.new = id, !.nsz = 0, !.prog = program]]
  <2>1. id \in SpaceNo /\ ~S[id].used
    <3>1. FreeSpaces \in SUBSET Nat
      BY DEF FreeSpaces
    <3>2. id \in FreeSpaces
      BY <1>1, <1>9, <3>1, MemFirstIn
    <3> QED
      BY <1>1, <3>2 DEF FreeSpaces, SpaceNo
  <2>2. R \in [SpaceNo -> Table] /\ R[id] = NewTable /\ \A j \in SpaceNo : j # id => R[j] = S[j]
    BY <1>5, <1>9, <2>1, NoTables
  <2>3. PICK j, r :
          /\ j \in 0 .. MemSpaces
          /\ j = id /\ r = [c EXCEPT !.at = "load", !.new = j, !.nsz = 0, !.prog = program]
    <3>1. id \in 0 .. MemSpaces
      BY <2>1 DEF SpaceNo
    <3> QED
      BY <3>1
  <2>4. /\ r \in MemRec /\ r.state = "RUN" /\ r.main = c.main /\ r.pgdir = c.pgdir /\ r.sz = c.sz
        /\ r.at = "load" /\ r.new = j /\ r.nsz = 0
    BY <1>5, <1>7, <2>3 DEF MemRec
  <2>5. Q \in [MemSlot -> MemRec] /\ Q[t] = r /\ \A v \in MemSlot : v # t => Q[v] = P[v]
    <3>1. [P EXCEPT ![t].stacksize = st] = [P EXCEPT ![t] = c]
      BY <1>5, <1>6
    <3>2. Q = [P EXCEPT ![t] = r]
      BY <1>5, <1>9, <2>3, <3>1
    <3> QED
      BY <1>5, <2>4, <3>2
  <2>6. Parts(Q, R) /\ InUse(Q) = InUse(P)
    <3>1. P[t].new = NoSpace
      BY <1>4 DEF Parts, ExecInv
    <3>2. /\ Q[t].state = "RUN" /\ Q[t].main = P[t].main /\ Q[t].pgdir = P[t].pgdir /\ Q[t].sz = P[t].sz
          /\ Q[t].at = "load" /\ Q[t].new = id
      BY <1>6, <1>7, <2>3, <2>4, <2>5
    <3>3. R[id].used /\ DOMAIN R[id].user = Below(Q[t].nsz)
      BY <2>2, <2>4, <2>5, NoTables, BelowIs
    <3>4. Q[t].at # "commit" /\ P[t].at # "fork"
      BY <1>4, <3>2
    <3> QED
      BY <1>4, <2>1, <2>2, <2>5, <3>1, <3>2, <3>3, <3>4, ExecMoves
  <2>7. PagesInv(Q, R, d, m)
    <3>1. Cost(S[id]) = 0 /\ Cost(R[id]) = 1 + KernTables /\ KernTables \in Nat
      BY <2>1, <2>2, NoTables, MemoryAssumption DEF Cost, MemoryAssumption
    <3>2. d \in Nat /\ d + 0 + Cost(R[id]) = f + Cost(S[id]) /\ Cardinality(InUse(Q)) = Cardinality(InUse(P)) + 0
      BY <1>5, <1>9, <2>6, <3>1, InUseCounts
    <3>3. PagesInv(P, S, f, m) /\ 0 \in Int /\ S \in [SpaceNo -> Table]
      BY <1>4, <1>5
    <3> QED
      BY <2>1, <2>2, <3>2, <3>3, PagesMove
  <2>8. LimitStep(P, Q)
    <3>1. \A v \in MemSlot : Q[v].sz = P[v].sz
      BY <1>6, <1>7, <2>4, <2>5
    <3> QED
      BY <1>5, <3>1, NothingGrows
  <2> QED
    BY <1>1, <1>2, <2>6, <2>7, <2>8 DEF StepKeeps, MemInv
<1> QED
  BY <1>3, <1>8, <1>9

(* The new page table of exec() grows by one call of allocuvm(), or all of *)
(* it is freed.                                                            *)
LEMMA ExecHolds ==
  ASSUME NEW P, NEW S, Parts(P, S), NEW t \in MemSlot, P[t].state = "RUN", P[t].at = "load"
  PROVE  /\ P \in [MemSlot -> MemRec] /\ S \in [SpaceNo -> Table]
         /\ P[t].new \in SpaceNo /\ S[P[t].new] \in Table /\ S[P[t].new].used /\ DOMAIN S[P[t].new].user = Below(P[t].nsz)
         /\ P[t].nsz \in Nat /\ P[t].stacksize \in Nat /\ P[t].prog \in Seq(Segment)
<1>1. P \in [MemSlot -> MemRec] /\ S \in [SpaceNo -> Table]
  BY DEF Parts, MemTypes
<1>2. P[t].new # NoSpace /\ DOMAIN S[P[t].new].user = Below(P[t].nsz)
  BY DEF Parts, ExecInv
<1>3. P[t].new \in SpaceNo /\ P[t].nsz \in Nat /\ P[t].stacksize \in Nat /\ P[t].prog \in Seq(Segment)
  BY <1>1, <1>2, MemFields
<1>4. S[P[t].new].used
  BY <1>3 DEF Parts, HoldersInv
<1> QED
  BY <1>1, <1>2, <1>3, <1>4

LEMMA ExecBadKeeps ==
  ASSUME MemInv, NEW t \in MemSlot, mproc[t].state = "RUN", mproc[t].at = "load",
         NEW s \in Table, s.used, NEW g \in Nat, g + Cost(s) = frames + Cost(mspace[mproc[t].new]), ExecBad(t, s, g)
  PROVE  StepKeeps
<1>1. PICK P, S, Q, R, f, d, m : /\ P = mproc /\ S = mspace /\ Q = mproc' /\ R = mspace' /\ f = frames /\ d = frames'
                                 /\ m = mpages
  OBVIOUS
<1>2. /\ R = [S EXCEPT ![P[t].new] = NoTable] /\ d = g + Cost(s) /\ mpages' = m
      /\ Q = [P EXCEPT ![t] = [@ EXCEPT !.at = "user", !.new = NoSpace, !.nsz = 0, !.prog = <<>>]]
  BY <1>1 DEF ExecBad, Bad, Kfree
<1>3. Parts(P, S) /\ PagesInv(P, S, f, m) /\ P[t].state = "RUN" /\ P[t].at = "load" /\ g + Cost(s) = f + Cost(S[P[t].new])
  BY <1>1 DEF MemInv
<1>4. P \in [MemSlot -> MemRec] /\ S \in [SpaceNo -> Table] /\ P[t].new \in SpaceNo /\ S[P[t].new] \in Table
  BY <1>3, ExecHolds
<1>0. PICK r : r = [P[t] EXCEPT !.at = "user", !.new = NoSpace, !.nsz = 0, !.prog = <<>>]
  OBVIOUS
<1>5. PICK p \in MemRec, id \in SpaceNo :
        p = P[t] /\ id = p.new /\ r = [p EXCEPT !.at = "user", !.new = NoSpace, !.nsz = 0, !.prog = <<>>]
  BY <1>4, <1>0
<1>6. /\ r \in MemRec /\ r.state = p.state /\ r.main = p.main /\ r.pgdir = p.pgdir /\ r.sz = p.sz
      /\ r.at = "user" /\ r.new = NoSpace
  <2>1. NoSpace \in 0 .. MemSpaces /\ <<>> \in Seq(Segment)
    BY MemoryAssumption DEF MemoryAssumption, NoSpace
  <2> QED
    BY <1>5, <2>1 DEF MemRec
<1>7. Q \in [MemSlot -> MemRec] /\ Q[t] = r /\ \A v \in MemSlot : v # t => Q[v] = P[v]
  BY <1>2, <1>4, <1>5, <1>6
<1>8. R \in [SpaceNo -> Table] /\ R[id] = NoTable /\ \A j \in SpaceNo : j # id => R[j] = S[j]
  BY <1>2, <1>4, <1>5, NoTables
<1>9. Parts(Q, R) /\ InUse(Q) = InUse(P)
  <2>1. P[t].new = id /\ ~R[id].used /\ P[t].at # "fork"
    BY <1>3, <1>5, <1>8, NoTables
  <2>2. /\ Q[t].state = "RUN" /\ Q[t].main = P[t].main /\ Q[t].pgdir = P[t].pgdir /\ Q[t].sz = P[t].sz
        /\ Q[t].at = "user" /\ Q[t].new = NoSpace
    BY <1>3, <1>5, <1>6, <1>7
  <2> QED
    BY <1>3, <1>7, <1>8, <2>1, <2>2, ExecMoves
<1>10. PagesInv(Q, R, d, m)
  <2>1. f \in Nat /\ Cost(s) \in Nat /\ Cost(R[id]) = 0 /\ Cost(S[id]) \in Nat
    BY <1>3, <1>4, <1>8, NoTables, CostIs DEF PagesInv
  <2>2. d \in Nat /\ d + 0 + Cost(R[id]) = f + Cost(S[id]) /\ Cardinality(InUse(Q)) = Cardinality(InUse(P)) + 0
    BY <1>2, <1>3, <1>5, <1>9, <2>1, InUseCounts
  <2>3. PagesInv(P, S, f, m) /\ 0 \in Int /\ S \in [SpaceNo -> Table]
    BY <1>3, <1>4
  <2> QED
    BY <1>8, <2>2, <2>3, PagesMove
<1>11. LimitStep(P, Q)
  <2>1. r.sz = P[t].sz
    BY <1>5, <1>6
  <2>2. \A v \in MemSlot : Q[v].sz = P[v].sz
    BY <1>7, <2>1
  <2> QED
    BY <1>4, <2>2, NothingGrows
<1> QED
  BY <1>1, <1>2, <1>9, <1>10, <1>11 DEF StepKeeps, MemInv

LEMMA ExecGoesKeeps ==
  ASSUME MemInv, NEW t \in MemSlot, mproc[t].state = "RUN", mproc[t].at = "load",
         NEW s \in Table, s.used, NEW g \in Nat, g + Cost(s) = frames + Cost(mspace[mproc[t].new]),
         NEW at \in {"load", "commit"}, NEW sz \in Nat, NEW prog \in Seq(Segment),
         sz # 0, DOMAIN s.user = Below(sz), ExecGoes(t, s, g, at, sz, prog)
  PROVE  StepKeeps
<1>1. PICK P, S, Q, R, f, d, m : /\ P = mproc /\ S = mspace /\ Q = mproc' /\ R = mspace' /\ f = frames /\ d = frames'
                                 /\ m = mpages
  OBVIOUS
<1>2. /\ R = [S EXCEPT ![P[t].new] = s] /\ d = g /\ mpages' = m
      /\ Q = [P EXCEPT ![t] = [@ EXCEPT !.at = at, !.nsz = sz, !.prog = prog]]
  BY <1>1 DEF ExecGoes
<1>3. Parts(P, S) /\ PagesInv(P, S, f, m) /\ P[t].state = "RUN" /\ P[t].at = "load" /\ g + Cost(s) = f + Cost(S[P[t].new])
  BY <1>1 DEF MemInv
<1>4. P \in [MemSlot -> MemRec] /\ S \in [SpaceNo -> Table] /\ P[t].new \in SpaceNo /\ S[P[t].new] \in Table
  BY <1>3, ExecHolds
<1>0. PICK r : r = [P[t] EXCEPT !.at = at, !.nsz = sz, !.prog = prog]
  OBVIOUS
<1>5. PICK p \in MemRec, id \in SpaceNo :
        p = P[t] /\ id = p.new /\ r = [p EXCEPT !.at = at, !.nsz = sz, !.prog = prog]
  BY <1>4, <1>0
<1>6. /\ r \in MemRec /\ r.state = p.state /\ r.main = p.main /\ r.pgdir = p.pgdir /\ r.sz = p.sz
      /\ r.at = at /\ r.new = p.new /\ r.nsz = sz
  BY <1>5 DEF MemRec
<1>7. Q \in [MemSlot -> MemRec] /\ Q[t] = r /\ \A v \in MemSlot : v # t => Q[v] = P[v]
  BY <1>2, <1>4, <1>5, <1>6
<1>8. R \in [SpaceNo -> Table] /\ R[id] = s /\ \A j \in SpaceNo : j # id => R[j] = S[j]
  BY <1>2, <1>4, <1>5
<1>9. Parts(Q, R) /\ InUse(Q) = InUse(P)
  <2>1. P[t].new = id /\ R[id].used /\ P[t].at # "fork"
    BY <1>3, <1>5, <1>8
  <2>2. /\ Q[t].state = "RUN" /\ Q[t].main = P[t].main /\ Q[t].pgdir = P[t].pgdir /\ Q[t].sz = P[t].sz
        /\ Q[t].at \in {"load", "commit"} /\ Q[t].new = id /\ Q[t].nsz # 0 /\ DOMAIN R[id].user = Below(Q[t].nsz)
    BY <1>3, <1>5, <1>6, <1>7, <1>8
  <2> QED
    BY <1>3, <1>7, <1>8, <2>1, <2>2, ExecMoves
<1>10. PagesInv(Q, R, d, m)
  <2>1. f \in Nat /\ Cost(s) \in Nat /\ Cost(S[id]) \in Nat
    BY <1>3, <1>4, CostIs DEF PagesInv
  <2>2. d \in Nat /\ d + 0 + Cost(R[id]) = f + Cost(S[id]) /\ Cardinality(InUse(Q)) = Cardinality(InUse(P)) + 0
    BY <1>2, <1>3, <1>5, <1>8, <1>9, <2>1, InUseCounts
  <2>3. PagesInv(P, S, f, m) /\ 0 \in Int /\ S \in [SpaceNo -> Table]
    BY <1>3, <1>4
  <2> QED
    BY <1>8, <2>2, <2>3, PagesMove
<1>11. LimitStep(P, Q)
  <2>1. r.sz = P[t].sz
    BY <1>5, <1>6
  <2>2. \A v \in MemSlot : Q[v].sz = P[v].sz
    BY <1>7, <2>1
  <2> QED
    BY <1>4, <2>2, NothingGrows
<1> QED
  BY <1>1, <1>2, <1>9, <1>10, <1>11 DEF StepKeeps, MemInv

LEMMA ExecLoadKeeps ==
  ASSUME MemInv, NEW t \in MemSlot, ExecLoad(t)
  PROVE  StepKeeps
<1> DEFINE seg == Head(mproc[t].prog)
           ar == Allocuvm(mspace[mproc[t].new], frames, mproc[t].nsz, seg.vaddr + seg.memsz)
<1>1. mproc[t].state = "RUN" /\ mproc[t].at = "load" /\ mproc[t].prog # <<>>
  BY DEF ExecLoad, MemAt
<1>0. PICK a : a = ar
  OBVIOUS
<1>2. PICK s \in Table, f \in Nat, nsz \in Nat, prog \in Seq(Segment) :
        /\ s = mspace[mproc[t].new] /\ f = frames /\ nsz = mproc[t].nsz /\ prog = mproc[t].prog /\ a = ar
        /\ s.used /\ DOMAIN s.user = Below(nsz)
  <2>1. Parts(mproc, mspace) /\ frames \in Nat
    BY DEF MemInv, PagesInv
  <2> QED
    BY <1>0, <1>1, <2>1, ExecHolds
<1>3. PICK end \in Nat : end = seg.vaddr + seg.memsz
  <2>1. Head(prog) \in Segment
    BY <1>1, <1>2
  <2> QED
    BY <1>2, <2>1 DEF Segment
<1>4. Grown(s, f, nsz, a)
  BY <1>2, <1>3, AllocuvmAllocs
<1>5. /\ a.s \in Table /\ a.s.used /\ a.f \in Nat /\ a.f + Cost(a.s) = f + Cost(s) /\ a.sz \in Nat
      /\ a.sz # 0 => DOMAIN a.s.user = Below(a.sz)
  BY <1>4 DEF Grown, Kept
<1>6. \/ a.sz # 0 /\ ExecGoes(t, a.s, a.f, "load", a.sz, Tail(prog))
      \/ ExecBad(t, a.s, a.f)
  BY <1>2 DEF ExecLoad
<1>7. CASE a.sz # 0 /\ ExecGoes(t, a.s, a.f, "load", a.sz, Tail(prog))
  <2>1. Tail(prog) \in Seq(Segment) /\ "load" \in {"load", "commit"}
    BY <1>1, <1>2
  <2> QED
    BY <1>1, <1>2, <1>5, <1>7, <2>1, ExecGoesKeeps
<1>8. CASE ExecBad(t, a.s, a.f)
  BY <1>1, <1>2, <1>5, <1>8, ExecBadKeeps
<1> QED
  BY <1>6, <1>7, <1>8

LEMMA ExecStackKeeps ==
  ASSUME MemInv, NEW t \in MemSlot, ExecStack(t)
  PROVE  StepKeeps
<1> DEFINE b == PageUp(mproc[t].nsz) * PGSIZE
           ar == Allocuvm(mspace[mproc[t].new], frames, b, b + (mproc[t].stacksize + 1) * PGSIZE)
<1>1. mproc[t].state = "RUN" /\ mproc[t].at = "load"
  BY DEF ExecStack, MemAt
<1>0. PICK a : a = ar
  OBVIOUS
<1>2. PICK s \in Table, f \in Nat, nsz \in Nat, st \in Nat :
        /\ s = mspace[mproc[t].new] /\ f = frames /\ nsz = mproc[t].nsz /\ st = mproc[t].stacksize /\ a = ar
        /\ s.used /\ DOMAIN s.user = Below(nsz)
  <2>1. Parts(mproc, mspace) /\ frames \in Nat
    BY DEF MemInv, PagesInv
  <2> QED
    BY <1>0, <1>1, <2>1, ExecHolds
<1>3. PICK k \in Nat, g \in Nat : k = PageUp(nsz) /\ g = PGSIZE
  BY PageUpIn, MemoryAssumption DEF MemoryAssumption
<1>4. PICK base \in Nat, top \in Nat : base = k * g /\ top = base + (st + 1) * g
  OBVIOUS
<1>5. a = Allocuvm(s, f, base, top) /\ DOMAIN s.user = Below(base)
  <2>1. PageUp(base) = PageUp(nsz)
    BY <1>3, <1>4, PageUpOfPages
  <2> QED
    BY <1>2, <1>3, <1>4, <2>1 DEF Below
<1>6. Grown(s, f, base, a)
  BY <1>2, <1>5, AllocuvmAllocs
<1>7. /\ a.s \in Table /\ a.s.used /\ a.f \in Nat /\ a.f + Cost(a.s) = f + Cost(s) /\ a.sz \in Nat
      /\ a.sz # 0 => DOMAIN a.s.user = Below(a.sz)
  BY <1>6 DEF Grown, Kept
<1>8. PICK c : c = Clearpteu(a.s, base \div PGSIZE)
  OBVIOUS
<1>9. c \in Table /\ c.used = a.s.used /\ DOMAIN c.user = DOMAIN a.s.user /\ Cost(c) = Cost(a.s)
  BY <1>7, <1>8, ClearpteuKeeps
<1>10. \/ a.sz # 0 /\ ExecGoes(t, c, a.f, "commit", a.sz, <<>>)
       \/ ExecBad(t, a.s, a.f)
  BY <1>2, <1>3, <1>4, <1>8 DEF ExecStack
<1>11. CASE a.sz # 0 /\ ExecGoes(t, c, a.f, "commit", a.sz, <<>>)
  <2>1. <<>> \in Seq(Segment) /\ "commit" \in {"load", "commit"}
    OBVIOUS
  <2> QED
    BY <1>1, <1>2, <1>7, <1>9, <1>11, <2>1, ExecGoesKeeps
<1>12. CASE ExecBad(t, a.s, a.f)
  BY <1>1, <1>2, <1>7, <1>12, ExecBadKeeps
<1> QED
  BY <1>10, <1>11, <1>12

(* The thread that thread_kill_others() leaves.                            *)
LEMMA OthersGo ==
  ASSUME Parts(mproc, mspace), NEW t \in MemSlot, mproc[t].state = "RUN", OthersLeave(t),
         NEW P, P = mproc, NEW S, S = mspace, NEW W, W = WithoutOthers(t), NEW O, O = Others(t)
  PROVE  /\ Parts(W, S) /\ W \in [MemSlot -> MemRec] /\ \A v \in MemSlot : W[v].main = t => v = t
         /\ W[t].state = "RUN" /\ W[t].main = t /\ W[t].at = P[t].at /\ W[t].new = P[t].new
         /\ W[t].pgdir = P[t].pgdir /\ W[t].sz = P[t].sz /\ W[t].nsz = P[t].nsz
         /\ \A u \in MemSlot : u # t => W[u].sz = P[u].sz \/ W[u].sz = 0
         /\ Cardinality(O) \in Nat /\ Cardinality(InUse(W)) = Cardinality(InUse(P)) - Cardinality(O)
<1>1. P \in [MemSlot -> MemRec] /\ Parts(P, S) /\ P[t].state = "RUN"
  BY DEF Parts, MemTypes
<1>2. O = {u \in MemSlot : P[u].state # "UNUSED" /\ P[u].main = P[t].main} \ {t} /\ \A u \in O : P[u].at = "user"
  BY DEF Others, OthersLeave, MemThreads
<1>3. W = [u \in MemSlot |->
             IF u \in O THEN MemFree
             ELSE IF u = t THEN [P[t] EXCEPT !.main = t]
             ELSE [P[u] EXCEPT !.parent = IF @ \in O THEN 1 ELSE @]]
  BY DEF WithoutOthers
<1>4. t \in 0 .. MemSlots /\ 1 \in 0 .. MemSlots
  BY MemoryAssumption DEF MemoryAssumption, MemSlot
<1>5. /\ W[t] \in MemRec /\ W[t].state = P[t].state /\ W[t].main = t /\ W[t].at = P[t].at /\ W[t].new = P[t].new
      /\ W[t].pgdir = P[t].pgdir /\ W[t].sz = P[t].sz /\ W[t].nsz = P[t].nsz
  <2>1. PICK p \in MemRec : p = P[t]
    BY <1>1
  <2>2. W[t] = [p EXCEPT !.main = t]
    BY <1>2, <1>3, <2>1
  <2>3. /\ W[t] \in MemRec /\ W[t].state = p.state /\ W[t].main = t /\ W[t].at = p.at /\ W[t].new = p.new
        /\ W[t].pgdir = p.pgdir /\ W[t].sz = p.sz /\ W[t].nsz = p.nsz
    BY <1>4, <2>2 DEF MemRec
  <2> QED
    BY <2>1, <2>3
<1>6. \A u \in O : u \in MemSlot /\ W[u] = MemFree
  BY <1>2, <1>3
<1>7. ASSUME NEW u \in MemSlot, u \notin O, u # t
      PROVE  W[u] \in MemRec /\ Alike(P[u], W[u])
  <2>1. PICK p \in MemRec, a \in 0 .. MemSlots : p = P[u] /\ a = IF P[u].parent \in O THEN 1 ELSE P[u].parent
    <3>1. P[u] \in MemRec /\ P[u].parent \in 0 .. MemSlots
      BY <1>1, MemFields
    <3> QED
      BY <1>4, <3>1
  <2>2. W[u] = [p EXCEPT !.parent = a]
    BY <1>3, <1>7, <2>1
  <2>3. /\ W[u] \in MemRec /\ W[u].state = p.state /\ W[u].main = p.main /\ W[u].at = p.at /\ W[u].new = p.new
        /\ W[u].pgdir = p.pgdir /\ W[u].sz = p.sz /\ W[u].nsz = p.nsz /\ W[u].parent = a
    BY <2>2 DEF MemRec
  <2>4. p.state = "UNUSED" \/ p.state = "EMBRYO" => a = p.parent
    <3>1. p.state = "UNUSED" => P[u].parent = 0
      BY <1>1, <2>1, MemFreeIs DEF Parts, SlotsInv
    <3>2. p.state = "EMBRYO" => P[u].parent \notin O
      BY <1>1, <1>2, <2>1 DEF Parts, EmbryosInv
    <3>3. 0 \notin O
      BY <1>2 DEF MemSlot
    <3> QED
      BY <2>1, <3>1, <3>2, <3>3
  <2>5. p.parent = a => W[u] = p
    BY <2>2 DEF MemRec
  <2> QED
    BY <2>1, <2>3, <2>4, <2>5 DEF Alike
<1>8. W \in [MemSlot -> MemRec]
  <2>1. \A u \in MemSlot : W[u] \in MemRec
    BY <1>5, <1>6, <1>7, MemFreeIs
  <2> QED
    BY <1>3, <2>1
<1>9. Parts(W, S) /\ InUse(W) = InUse(P) \ O /\ O \subseteq InUse(P) /\ \A v \in MemSlot : W[v].main = t => v = t
  <2>1. \A u \in MemSlot : u \notin O /\ u # t => Alike(P[u], W[u])
    BY <1>7
  <2>2. /\ W[t].state = "RUN" /\ W[t].main = t /\ W[t].pgdir = P[t].pgdir /\ W[t].sz = P[t].sz
        /\ W[t].at = P[t].at /\ W[t].new = P[t].new /\ W[t].nsz = P[t].nsz
    BY <1>1, <1>5
  <2>3. \A u \in O : W[u] = MemFree
    BY <1>6
  <2>4. O \in SUBSET MemSlot /\ \A u \in MemSlot : u \in O <=> (u # t /\ P[u].state # "UNUSED" /\ P[u].main = P[t].main)
    BY <1>2
  <2>5. \A u \in O : P[u].at = "user"
    BY <1>2
  <2>6. Parts(P, S) /\ P[t].state = "RUN"
    BY <1>1
  <2>7. W \in [MemSlot -> MemRec]
    BY <1>8
  <2> QED
    <3>1. OthersLeft(P, t, O, W)
      BY <2>1, <2>2, <2>3, <2>4, <2>5, <2>6, <2>7 DEF OthersLeft
    <3> QED
      BY <2>6, <3>1, OthersGone
<1>10. Cardinality(O) \in Nat /\ Cardinality(InUse(W)) = Cardinality(InUse(P)) - Cardinality(O)
  <2>1. IsFiniteSet(InUse(P)) /\ Cardinality(InUse(P)) \in Nat
    BY InUseCounts
  <2>2. IsFiniteSet(O) /\ IsFiniteSet(InUse(P) \ O) /\ InUse(P) \cap O = O
    BY <1>9, <2>1, FS_Subset
  <2>3. Cardinality(InUse(P) \ O) = Cardinality(InUse(P)) - Cardinality(InUse(P) \cap O)
    BY <2>1, FS_Difference
  <2>4. Cardinality(O) \in Nat
    BY <2>2, FS_CardinalityType
  <2> QED
    BY <1>9, <2>1, <2>2, <2>3, <2>4
<1>11. \A u \in MemSlot : u # t => W[u].sz = P[u].sz \/ W[u].sz = 0
  BY <1>6, <1>7, MemFreeIs DEF Alike
<1> QED
  BY <1>1, <1>5, <1>8, <1>9, <1>10, <1>11

LEMMA ExecCommitKeeps ==
  ASSUME MemInv, NEW t \in MemSlot, ExecCommit(t)
  PROVE  StepKeeps
<1>1. PICK P, S, Q, R, f, d, m, W, O : /\ P = mproc /\ S = mspace /\ Q = mproc' /\ R = mspace' /\ f = frames /\ d = frames'
                                       /\ m = mpages /\ W = WithoutOthers(t) /\ O = Others(t)
  OBVIOUS
<1>2. /\ MemAt(t, "commit") /\ OthersLeave(t) /\ R = [S EXCEPT ![P[t].pgdir] = NoTable]
      /\ d = f + (Cardinality(O) + Cost(S[P[t].pgdir])) /\ mpages' = m
      /\ Q = [W EXCEPT ![t] = [@ EXCEPT !.at = "user", !.pgdir = P[t].new, !.sz = P[t].nsz, !.new = NoSpace, !.nsz = 0]]
  BY <1>1 DEF ExecCommit, Kfree, Space
<1>3. Parts(P, S) /\ PagesInv(P, S, f, m) /\ P[t].state = "RUN" /\ P[t].at = "commit"
  BY <1>1, <1>2 DEF MemInv, MemAt
<1>4. /\ P \in [MemSlot -> MemRec] /\ S \in [SpaceNo -> Table] /\ f \in Nat /\ P[t].pgdir \in SpaceNo
      /\ S[P[t].pgdir] \in Table
  BY <1>3, RunnerHas DEF PagesInv
<1>5. P[t].new # NoSpace /\ P[t].new \in SpaceNo /\ P[t].nsz \in Nat /\ P[t].new # P[t].pgdir
  <2>1. P[t].new # NoSpace /\ P[t].new # P[t].pgdir
    BY <1>3 DEF Parts, ExecInv, Living
  <2> QED
    BY <1>4, <2>1, MemFields
<1>6. /\ Parts(W, S) /\ W \in [MemSlot -> MemRec] /\ \A v \in MemSlot : W[v].main = t => v = t
      /\ W[t].state = "RUN" /\ W[t].main = t /\ W[t].at = P[t].at /\ W[t].new = P[t].new
      /\ W[t].pgdir = P[t].pgdir /\ W[t].sz = P[t].sz /\ W[t].nsz = P[t].nsz
      /\ \A u \in MemSlot : u # t => W[u].sz = P[u].sz \/ W[u].sz = 0
      /\ Cardinality(O) \in Nat /\ Cardinality(InUse(W)) = Cardinality(InUse(P)) - Cardinality(O)
  <2>1. Parts(mproc, mspace) /\ mproc[t].state = "RUN"
    BY <1>1, <1>3
  <2> QED
    BY <1>1, <1>2, <2>1, OthersGo
<1>0. PICK r : r = [W[t] EXCEPT !.at = "user", !.pgdir = P[t].new, !.sz = P[t].nsz, !.new = NoSpace, !.nsz = 0]
  OBVIOUS
<1>7. PICK w \in MemRec, id \in 0 .. MemSpaces, z \in Nat :
        /\ w = W[t] /\ id = P[t].new /\ z = P[t].nsz
        /\ r = [w EXCEPT !.at = "user", !.pgdir = id, !.sz = z, !.new = NoSpace, !.nsz = 0]
  <2>1. P[t].new \in 0 .. MemSpaces
    BY <1>5 DEF SpaceNo
  <2> QED
    BY <1>0, <1>5, <1>6, <2>1
<1>8. /\ r \in MemRec /\ r.state = w.state /\ r.main = w.main /\ r.at = "user" /\ r.pgdir = id /\ r.sz = z
      /\ r.new = NoSpace
  <2>1. NoSpace \in 0 .. MemSpaces
    BY MemoryAssumption DEF MemoryAssumption, NoSpace
  <2> QED
    BY <1>7, <2>1 DEF MemRec
<1>9. Q \in [MemSlot -> MemRec] /\ Q[t] = r /\ \A v \in MemSlot : v # t => Q[v] = W[v]
  <2>1. Q = [W EXCEPT ![t] = r]
    BY <1>2, <1>6, <1>7
  <2> QED
    BY <1>6, <1>8, <2>1
<1>10. R \in [SpaceNo -> Table] /\ R[P[t].pgdir] = NoTable /\ \A j \in SpaceNo : j # P[t].pgdir => R[j] = S[j]
  BY <1>2, <1>4, NoTables
<1>11. Parts(Q, R) /\ InUse(Q) = InUse(W)
  <2>1. W[t].at = "commit" /\ \A v \in MemSlot : W[v].main = W[t].main => v = t
    BY <1>3, <1>6
  <2>2. /\ Q[t].state = "RUN" /\ Q[t].main = W[t].main /\ Q[t].at = "user" /\ Q[t].pgdir = W[t].new /\ Q[t].sz = W[t].nsz
        /\ Q[t].new = NoSpace
    BY <1>6, <1>7, <1>8, <1>9
  <2>3. R[W[t].pgdir] = NoTable /\ \A j \in SpaceNo : j # W[t].pgdir => R[j] = S[j]
    BY <1>6, <1>10
  <2> QED
    BY <1>6, <1>9, <1>10, <2>1, <2>2, <2>3, Commits
<1>12. PagesInv(Q, R, d, m)
  <2>1. PICK i \in SpaceNo, k \in Nat : i = P[t].pgdir /\ k = Cardinality(O)
    BY <1>4, <1>6
  <2>2. Cost(R[i]) = 0 /\ Cost(S[i]) \in Nat
    BY <1>4, <1>10, <2>1, NoTables, CostIs
  <2>3. d \in Nat /\ d + (0 - k) + Cost(R[i]) = f + Cost(S[i]) /\ (0 - k) \in Int
    BY <1>2, <1>4, <2>1, <2>2
  <2>4. Cardinality(InUse(Q)) = Cardinality(InUse(P)) + (0 - k)
    BY <1>6, <1>11, <2>1, InUseCounts
  <2>5. PagesInv(P, S, f, m) /\ S \in [SpaceNo -> Table] /\ R \in [SpaceNo -> Table] /\ \A j \in SpaceNo : j # i => R[j] = S[j]
    BY <1>3, <1>4, <1>10, <2>1
  <2> QED
    BY <2>3, <2>4, <2>5, PagesMove
<1>13. LimitStep(P, Q)
  <2>1. Q[t].pgdir # P[t].pgdir
    BY <1>5, <1>7, <1>8, <1>9
  <2>2. \A v \in MemSlot : v # t => Q[v].sz = P[v].sz \/ Q[v].sz = 0
    BY <1>6, <1>9
  <2> QED
    BY <1>4, <2>1, <2>2, NothingGrows
<1> QED
  BY <1>1, <1>2, <1>11, <1>12, <1>13 DEF StepKeeps, MemInv

LEMMA MemExitKeeps ==
  ASSUME MemInv, NEW t \in MemSlot, MemExit(t)
  PROVE  StepKeeps
<1>1. PICK P, S, Q, f, d, m, W, O : /\ P = mproc /\ S = mspace /\ Q = mproc' /\ f = frames /\ d = frames'
                                    /\ m = mpages /\ W = WithoutOthers(t) /\ O = Others(t)
  OBVIOUS
<1>2. /\ MemAt(t, "user") /\ OthersLeave(t) /\ mspace' = S /\ mpages' = m
      /\ \/ Q = P /\ d = f + 0
         \/ /\ t # 1 /\ d = f + Cardinality(O)
            /\ Q = [u \in MemSlot |-> IF W[u].parent = t THEN [W[u] EXCEPT !.parent = 1]
                                      ELSE IF u = t THEN [W[t] EXCEPT !.state = "ZOMBIE"] ELSE W[u]]
  BY <1>1 DEF MemExit, Kfree
<1>3. Parts(P, S) /\ PagesInv(P, S, f, m) /\ P[t].state = "RUN" /\ P[t].at = "user"
  BY <1>1, <1>2 DEF MemInv, MemAt
<1>4. P \in [MemSlot -> MemRec] /\ S \in [SpaceNo -> Table] /\ f \in Nat
  BY <1>3 DEF Parts, MemTypes, PagesInv
<1>5. CASE Q = P /\ d = f + 0
  <2>1. d = f
    BY <1>4, <1>5
  <2>2. LimitStep(P, P)
    BY <1>4, NothingGrows
  <2> QED
    BY <1>1, <1>2, <1>3, <1>5, <2>1, <2>2 DEF StepKeeps, MemInv
<1>6. CASE /\ t # 1 /\ d = f + Cardinality(O)
           /\ Q = [u \in MemSlot |-> IF W[u].parent = t THEN [W[u] EXCEPT !.parent = 1]
                                     ELSE IF u = t THEN [W[t] EXCEPT !.state = "ZOMBIE"] ELSE W[u]]
  <2>1. /\ Parts(W, S) /\ W \in [MemSlot -> MemRec] /\ \A v \in MemSlot : W[v].main = t => v = t
        /\ W[t].state = "RUN" /\ W[t].main = t /\ W[t].at = P[t].at /\ W[t].new = P[t].new
        /\ W[t].pgdir = P[t].pgdir /\ W[t].sz = P[t].sz
        /\ \A u \in MemSlot : u # t => W[u].sz = P[u].sz \/ W[u].sz = 0
        /\ Cardinality(O) \in Nat /\ Cardinality(InUse(W)) = Cardinality(InUse(P)) - Cardinality(O)
    <3>1. Parts(mproc, mspace) /\ mproc[t].state = "RUN"
      BY <1>1, <1>3
    <3> QED
      BY <1>1, <1>2, <3>1, OthersGo
  <2>2. ASSUME NEW u \in MemSlot, u # t \/ W[t].parent = t
        PROVE  Q[u] \in MemRec /\ Alike(W[u], Q[u])
    <3>1. CASE W[u].parent = t
      <4>1. PICK p \in MemRec : p = W[u]
        BY <2>1
      <4>2. Q[u] = [p EXCEPT !.parent = 1]
        BY <1>6, <3>1, <4>1
      <4>3. 1 \in 0 .. MemSlots
        BY MemoryAssumption DEF MemoryAssumption
      <4>4. /\ Q[u] \in MemRec /\ Q[u].state = p.state /\ Q[u].main = p.main /\ Q[u].pgdir = p.pgdir /\ Q[u].sz = p.sz
            /\ Q[u].at = p.at /\ Q[u].new = p.new /\ Q[u].nsz = p.nsz
        BY <4>2, <4>3 DEF MemRec
      <4>5. p.state # "UNUSED"
        BY <2>1, <3>1, <4>1, MemFreeIs DEF Parts, SlotsInv, MemSlot
      <4>6. p.state # "EMBRYO"
        BY <1>3, <2>1, <3>1, <4>1 DEF Parts, EmbryosInv
      <4> QED
        BY <4>1, <4>4, <4>5, <4>6 DEF Alike
    <3>2. CASE W[u].parent # t
      <4>1. Q[u] = W[u]
        BY <1>6, <2>2, <3>2
      <4> QED
        BY <2>1, <4>1 DEF Alike
    <3> QED
      BY <3>1, <3>2
  <2>3. Parts(Q, S) /\ InUse(Q) = InUse(W) /\ (Q[t].sz = P[t].sz)
    <3>1. CASE W[t].parent = t
      <4>1. \A u \in MemSlot : Q[u] \in MemRec /\ Alike(W[u], Q[u])
        BY <2>2, <3>1
      <4>2. Q \in [MemSlot -> MemRec]
        BY <1>6, <4>1
      <4>3. Parts(Q, S) /\ InUse(Q) = InUse(W)
        BY <2>1, <4>1, <4>2, AlikeKeeps
      <4> QED
        BY <2>1, <4>1, <4>3 DEF Alike
    <3>2. CASE W[t].parent # t
      <4>1. PICK w, r :
              /\ w \in MemRec
              /\ w = W[t] /\ r = [w EXCEPT !.state = "ZOMBIE"]
        BY <2>1
      <4>2. /\ r \in MemRec /\ r.state = "ZOMBIE" /\ r.main = w.main /\ r.pgdir = w.pgdir /\ r.sz = w.sz
            /\ r.at = w.at /\ r.new = w.new
        BY <4>1 DEF MemRec, MemStates
      <4>3. Q[t] = r
        BY <1>6, <3>2, <4>1
      <4>4. \A u \in MemSlot : u # t => Q[u] \in MemRec /\ Alike(W[u], Q[u])
        BY <2>2
      <4>5. Q \in [MemSlot -> MemRec]
        <5>1. \A u \in MemSlot : Q[u] \in MemRec
          BY <4>2, <4>3, <4>4
        <5> QED
          BY <1>6, <5>1
      <4>6. /\ Q[t].state = "ZOMBIE" /\ Q[t].main = W[t].main /\ Q[t].pgdir = W[t].pgdir /\ Q[t].sz = W[t].sz
            /\ Q[t].at = "user" /\ Q[t].new = W[t].new /\ W[t].at = "user"
        BY <1>3, <2>1, <4>1, <4>2, <4>3
      <4>7. Parts(Q, S) /\ InUse(Q) = InUse(W)
        BY <2>1, <4>4, <4>5, <4>6, ThreadEnds
      <4> QED
        BY <2>1, <4>6, <4>7
    <3> QED
      BY <3>1, <3>2
  <2>4. PagesInv(Q, S, d, m)
    <3>1. PICK k \in Nat : k = Cardinality(O)
      BY <2>1
    <3>2. d \in Nat /\ d + (0 - k) = f /\ (0 - k) \in Int
      BY <1>4, <1>6, <3>1
    <3>3. Cardinality(InUse(Q)) = Cardinality(InUse(P)) + (0 - k)
      BY <2>1, <2>3, <3>1, InUseCounts
    <3> QED
      BY <1>3, <1>4, <3>2, <3>3, PagesStay
  <2>5. LimitStep(P, Q)
    <3>1. \A u \in MemSlot : u # t => Q[u].sz = P[u].sz \/ Q[u].sz = 0
      BY <2>1, <2>2 DEF Alike
    <3> QED
      BY <1>4, <2>3, <3>1, NothingGrows
  <2> QED
    BY <1>1, <1>2, <2>3, <2>4, <2>5 DEF StepKeeps, MemInv
<1> QED
  BY <1>2, <1>5, <1>6

LEMMA MemThreadExitKeeps ==
  ASSUME MemInv, NEW t \in MemSlot, MemThreadExit(t)
  PROVE  StepKeeps
<1>1. PICK P, S, Q, f, m : P = mproc /\ S = mspace /\ Q = mproc' /\ f = frames /\ m = mpages
  OBVIOUS
<1>2. /\ MemAt(t, "user") /\ P[t].main # t /\ mspace' = S /\ frames' = f /\ mpages' = m
      /\ Q = [u \in MemSlot |-> IF u = t THEN [P[t] EXCEPT !.state = "ZOMBIE"]
                                ELSE [P[u] EXCEPT !.parent = IF @ = t THEN 1 ELSE @]]
  BY <1>1 DEF MemThreadExit
<1>3. Parts(P, S) /\ PagesInv(P, S, f, m) /\ P[t].state = "RUN" /\ P[t].at = "user"
  BY <1>1, <1>2 DEF MemInv, MemAt
<1>4. P \in [MemSlot -> MemRec] /\ S \in [SpaceNo -> Table] /\ f \in Nat
  BY <1>3 DEF Parts, MemTypes, PagesInv
<1>5. /\ Q[t] \in MemRec /\ Q[t].state = "ZOMBIE" /\ Q[t].main = P[t].main /\ Q[t].pgdir = P[t].pgdir /\ Q[t].sz = P[t].sz
      /\ Q[t].at = P[t].at /\ Q[t].new = P[t].new
  <2>1. PICK p \in MemRec : p = P[t]
    BY <1>4
  <2>2. Q[t] = [p EXCEPT !.state = "ZOMBIE"]
    BY <1>2, <2>1
  <2>3. /\ Q[t] \in MemRec /\ Q[t].state = "ZOMBIE" /\ Q[t].main = p.main /\ Q[t].pgdir = p.pgdir /\ Q[t].sz = p.sz
        /\ Q[t].at = p.at /\ Q[t].new = p.new
    BY <2>2 DEF MemRec, MemStates
  <2> QED
    BY <2>1, <2>3
<1>6. ASSUME NEW u \in MemSlot, u # t PROVE Q[u] \in MemRec /\ Alike(P[u], Q[u])
  <2>1. PICK p \in MemRec, a \in 0 .. MemSlots : p = P[u] /\ a = IF P[u].parent = t THEN 1 ELSE P[u].parent
    <3>1. P[u] \in MemRec /\ P[u].parent \in 0 .. MemSlots
      BY <1>4, MemFields
    <3>2. 1 \in 0 .. MemSlots
      BY MemoryAssumption DEF MemoryAssumption
    <3> QED
      BY <3>1, <3>2
  <2>2. Q[u] = [p EXCEPT !.parent = a]
    BY <1>2, <1>6, <2>1
  <2>3. /\ Q[u] \in MemRec /\ Q[u].state = p.state /\ Q[u].main = p.main /\ Q[u].at = p.at /\ Q[u].new = p.new
        /\ Q[u].pgdir = p.pgdir /\ Q[u].sz = p.sz /\ Q[u].nsz = p.nsz /\ Q[u].parent = a
    BY <2>2 DEF MemRec
  <2>4. p.state = "UNUSED" \/ p.state = "EMBRYO" => a = p.parent
    <3>1. p.state = "UNUSED" => P[u].parent # t
      BY <1>3, <2>1, MemFreeIs DEF Parts, SlotsInv, MemSlot
    <3>2. p.state = "EMBRYO" => P[u].parent # t
      BY <1>3, <2>1 DEF Parts, EmbryosInv
    <3> QED
      BY <2>1, <3>1, <3>2
  <2>5. p.parent = a => Q[u] = p
    BY <2>2 DEF MemRec
  <2> QED
    BY <2>1, <2>3, <2>4, <2>5 DEF Alike
<1>7. Q \in [MemSlot -> MemRec]
  <2>1. \A u \in MemSlot : Q[u] \in MemRec
    BY <1>5, <1>6
  <2> QED
    BY <1>2, <2>1
<1>8. Parts(Q, S) /\ InUse(Q) = InUse(P)
  <2>1. \A u \in MemSlot : u # t => Alike(P[u], Q[u])
    BY <1>6
  <2>2. Q[t].at = "user" /\ P[t].main # t
    BY <1>2, <1>3, <1>5
  <2> QED
    BY <1>3, <1>5, <1>7, <2>1, <2>2, ThreadEnds
<1>9. PagesInv(Q, S, f, m)
  BY <1>3, <1>8 DEF PagesInv
<1>10. LimitStep(P, Q)
  <2>1. \A u \in MemSlot : Q[u].sz = P[u].sz
    BY <1>5, <1>6 DEF Alike
  <2> QED
    BY <1>4, <2>1, NothingGrows
<1> QED
  BY <1>1, <1>2, <1>8, <1>9, <1>10 DEF StepKeeps, MemInv

(* A slot is freed by thread_join() or wait().                             *)
LEMMA FreeingIs ==
  ASSUME NEW P \in [MemSlot -> MemRec], NEW u \in MemSlot, NEW Q, Q = [P EXCEPT ![u] = MemFree]
  PROVE  /\ Q \in [MemSlot -> MemRec] /\ Q[u] = MemFree /\ \A v \in MemSlot : v # u => Q[v] = P[v]
         /\ LimitStep(P, Q)
<1>1. Q \in [MemSlot -> MemRec] /\ Q[u] = MemFree /\ \A v \in MemSlot : v # u => Q[v] = P[v]
  BY MemFreeIs
<1>2. \A v \in MemSlot : Q[v].sz = P[v].sz \/ Q[v].sz = 0
  BY <1>1, MemFreeIs
<1> QED
  BY <1>1, <1>2, NothingGrows

LEMMA MemJoinKeeps ==
  ASSUME MemInv, NEW t \in MemSlot, MemJoin(t)
  PROVE  StepKeeps
<1>1. PICK P, S, Q, f, m : P = mproc /\ S = mspace /\ Q = mproc' /\ f = frames /\ m = mpages
  OBVIOUS
<1>2. PICK u \in MemSlot : /\ u # t /\ P[u].state = "ZOMBIE" /\ P[u].main = P[t].main /\ P[t].main = t /\ P[t].state = "RUN"
                           /\ Q = [P EXCEPT ![u] = MemFree] /\ mspace' = S /\ frames' = f + 1 /\ mpages' = m
  BY <1>1 DEF MemJoin, Others, MemThreads, MemCalls, MemAt, Kfree
<1>3. Parts(P, S) /\ PagesInv(P, S, f, m)
  BY <1>1 DEF MemInv
<1>4. P \in [MemSlot -> MemRec] /\ S \in [SpaceNo -> Table] /\ f \in Nat
  BY <1>3 DEF Parts, MemTypes, PagesInv
<1>5. Q \in [MemSlot -> MemRec] /\ Q[u] = MemFree /\ (\A v \in MemSlot : v # u => Q[v] = P[v]) /\ LimitStep(P, Q)
  BY <1>2, <1>4, FreeingIs
<1>6. Parts(Q, S) /\ Cardinality(InUse(Q)) = Cardinality(InUse(P)) - 1
  <2>1. P[u].state = "ZOMBIE" /\ P[t].state = "RUN" /\ P[t].main = P[u].main /\ P[u].main # u
    BY <1>2
  <2>2. Q \in [MemSlot -> MemRec] /\ Q[u] = MemFree /\ \A v \in MemSlot : v # u => Q[v] = P[v]
    BY <1>5
  <2> QED
    BY <1>3, <2>1, <2>2, ThreadFreed
<1>7. PagesInv(Q, S, f + 1, m)
  <2>1. f + 1 \in Nat /\ (f + 1) + (0 - 1) = f /\ (0 - 1) \in Int
    BY <1>4
  <2>2. Cardinality(InUse(Q)) = Cardinality(InUse(P)) + (0 - 1)
    BY <1>6, InUseCounts
  <2> QED
    BY <1>3, <1>4, <2>1, <2>2, PagesStay
<1> QED
  BY <1>1, <1>2, <1>5, <1>6, <1>7 DEF StepKeeps, MemInv

LEMMA MemWaitKeeps ==
  ASSUME MemInv, NEW t \in MemSlot, MemWait(t)
  PROVE  StepKeeps
<1>1. PICK P, S, Q, R, f, d, m : /\ P = mproc /\ S = mspace /\ Q = mproc' /\ R = mspace' /\ f = frames /\ d = frames'
                                 /\ m = mpages
  OBVIOUS
<1>2. PICK u \in MemSlot : /\ P[u].state = "ZOMBIE" /\ P[u].main = u /\ Q = [P EXCEPT ![u] = MemFree]
                           /\ R = [S EXCEPT ![P[u].pgdir] = NoTable] /\ d = f + (1 + Cost(S[P[u].pgdir])) /\ mpages' = m
  BY <1>1 DEF MemWait, Reaped, Space, Kfree
<1>3. Parts(P, S) /\ PagesInv(P, S, f, m)
  BY <1>1 DEF MemInv
<1>4. P \in [MemSlot -> MemRec] /\ S \in [SpaceNo -> Table] /\ f \in Nat
  BY <1>3 DEF Parts, MemTypes, PagesInv
<1>5. PICK i \in SpaceNo : i = P[u].pgdir
  <2>1. P[u].pgdir # NoSpace
    BY <1>2, <1>3 DEF Parts, SharesInv, Living
  <2> QED
    BY <1>4, <2>1, MemFields
<1>6. Q \in [MemSlot -> MemRec] /\ Q[u] = MemFree /\ (\A v \in MemSlot : v # u => Q[v] = P[v]) /\ LimitStep(P, Q)
  BY <1>2, <1>4, FreeingIs
<1>7. R \in [SpaceNo -> Table] /\ R[P[u].pgdir] = NoTable /\ \A j \in SpaceNo : j # P[u].pgdir => R[j] = S[j]
  BY <1>2, <1>4, <1>5, NoTables
<1>8. Parts(Q, R) /\ Cardinality(InUse(Q)) = Cardinality(InUse(P)) - 1
  <2>1. P[u].state = "ZOMBIE" /\ P[u].main = u
    BY <1>2
  <2>2. Q \in [MemSlot -> MemRec] /\ Q[u] = MemFree /\ \A v \in MemSlot : v # u => Q[v] = P[v]
    BY <1>6
  <2> QED
    BY <1>3, <1>7, <2>1, <2>2, ProcessFreed
<1>9. PagesInv(Q, R, d, m)
  <2>1. Cost(R[i]) = 0 /\ Cost(S[i]) \in Nat
    BY <1>4, <1>5, <1>7, NoTables, CostIs
  <2>2. d \in Nat /\ d + (0 - 1) + Cost(R[i]) = f + Cost(S[i]) /\ (0 - 1) \in Int
    BY <1>2, <1>4, <1>5, <2>1
  <2>3. Cardinality(InUse(Q)) = Cardinality(InUse(P)) + (0 - 1)
    BY <1>8, InUseCounts
  <2>4. PagesInv(P, S, f, m) /\ S \in [SpaceNo -> Table] /\ R \in [SpaceNo -> Table] /\ \A j \in SpaceNo : j # i => R[j] = S[j]
    BY <1>3, <1>4, <1>5, <1>7
  <2> QED
    BY <2>2, <2>3, <2>4, PagesMove
<1> QED
  BY <1>1, <1>2, <1>6, <1>8, <1>9 DEF StepKeeps, MemInv

-----------------------------------------------------------------------------
(* The specification.                                                      *)

LEMMA InitcodeIs ==
  ASSUME NEW s, s = Inituvm(NewTable)
  PROVE  s \in Table /\ s.used /\ DOMAIN s.user = {0} /\ Cost(s) = KernTables + 3
<1>1. NewTable \in Table /\ NewTable.used
  BY NoTables
<1>2. {0} \in PageSets
  <2>1. IsFiniteSet({0}) /\ {0} \in SUBSET Nat
    BY FS_Singleton
  <2> QED
    BY <2>1 DEF PageSets
<1>3. PICK u : u = [p \in {0} |-> TRUE]
  OBVIOUS
<1>4. u \in [{0} -> BOOLEAN] /\ DOMAIN u = {0}
  BY <1>3
<1>5. u \in UserMaps
  BY <1>2, <1>4, MapsAre
<1>6. s = Remade(NewTable, {0}, u)
  BY <1>3 DEF Inituvm, Remade
<1>7. s \in Table /\ s.used = NewTable.used /\ s.tabs = {0} /\ s.user = u
  <2>1. PICK b \in Table, T \in PageSets : b = NewTable /\ T = {0}
    BY <1>1, <1>2
  <2>2. s = Remade(b, T, u) /\ u \in UserMaps
    BY <1>5, <1>6, <2>1
  <2>3. s \in Table /\ s.used = b.used /\ s.tabs = T /\ s.user = u
    BY <2>2, RemadeTable
  <2> QED
    BY <2>1, <2>3
<1>8. Cardinality({0}) = 1
  BY FS_Singleton
<1> QED
  <2>1. s \in Table /\ s.used
    BY <1>1, <1>7
  <2>2. Cost(s) = 1 + KernTables + Cardinality(s.tabs) + Cardinality(DOMAIN s.user)
    BY <2>1, CostIs
  <2>3. Cardinality(s.tabs) = 1 /\ Cardinality(DOMAIN s.user) = 1 /\ DOMAIN s.user = {0}
    BY <1>4, <1>7, <1>8
  <2>4. KernTables \in Nat
    BY MemoryAssumption DEF MemoryAssumption
  <2> QED
    BY <2>1, <2>2, <2>3, <2>4

LEMMA MemoryStarts ==
  ASSUME MemoryInit
  PROVE  MemInv
<1>1. PICK P, S, f, n, s, N : /\ P = mproc /\ S = mspace /\ f = frames /\ n = mpages /\ s = Inituvm(NewTable)
                              /\ N = [i \in SpaceNo |-> NoTable]
  OBVIOUS
<1>2. PICK r : r = [MemFree EXCEPT !.state = "RUN", !.main = 1, !.pgdir = 1, !.sz = PGSIZE]
  OBVIOUS
<1>3. 1 \in MemSlot /\ 1 \in SpaceNo /\ 1 \in 0 .. MemSlots /\ 1 \in 0 .. MemSpaces /\ PGSIZE \in Nat /\ PGSIZE # 0
  BY MemoryAssumption DEF MemoryAssumption, MemSlot, SpaceNo
<1>4. /\ r \in MemRec /\ r.state = "RUN" /\ r.main = 1 /\ r.pgdir = 1 /\ r.sz = PGSIZE
      /\ r.at = "user" /\ r.new = NoSpace /\ r.parent = 0
  <2>1. r \in MemRec
    BY <1>2, <1>3, MemFreeIs DEF MemRec, MemStates
  <2> QED
    BY <1>2, <2>1, MemFreeIs DEF MemRec
<1>5. P = [t \in MemSlot |-> IF t = 1 THEN r ELSE MemFree]
  BY <1>1, <1>2 DEF MemoryInit
<1>6. P \in [MemSlot -> MemRec] /\ P[1] = r /\ \A t \in MemSlot : t # 1 => P[t] = MemFree
  BY <1>3, <1>4, <1>5, MemFreeIs
<1>7. S = [i \in SpaceNo |-> IF i = 1 THEN s ELSE NoTable] /\ n \in MemPages /\ f = n - (1 + Cost(S[1]))
  <2>1. S = [i \in SpaceNo |-> IF i = 1 THEN s ELSE NoTable]
    BY <1>1 DEF MemoryInit, SpaceNo
  <2>2. n \in MemPages /\ f = (0 + n) - (1 + Cost(S[1]))
    BY <1>1 DEF MemoryInit, Freerange, Kfree
  <2>3. n \in Nat
    BY <2>2, MemoryAssumption DEF MemoryAssumption
  <2> QED
    BY <2>1, <2>2, <2>3
<1>8. s \in Table /\ s.used /\ DOMAIN s.user = {0} /\ Cost(s) = KernTables + 3
  BY <1>1, InitcodeIs
<1>9. S \in [SpaceNo -> Table] /\ S[1] = s /\ \A i \in SpaceNo : i # 1 => S[i] = NoTable
  BY <1>3, <1>7, <1>8, NoTables
<1>10. Below(PGSIZE) = {0}
  <2>1. PICK g \in Nat \ {0} : g = PGSIZE
    BY <1>3
  <2>2. 1 * g = g /\ 1 \in Nat
    BY <2>1
  <2>3. PageUp(PGSIZE) = 1
    BY <2>1, <2>2, PageUpOfPages
  <2> QED
    BY <2>3 DEF Below
<1>11. \A t \in MemSlot : Living(P[t]) <=> t = 1
  BY <1>3, <1>4, <1>6, MemFreeIs DEF Living
<1>12. MemTypes(P, S)
  BY <1>6, <1>9 DEF MemTypes
<1>13. SlotsInv(P)
  BY <1>3, <1>4, <1>6, MemFreeIs DEF SlotsInv
<1>14. EmbryosInv(P)
  <2>1. \A t \in MemSlot : P[t].state # "EMBRYO" /\ P[t].at # "fork"
    BY <1>4, <1>6, MemFreeIs
  <2> QED
    BY <2>1 DEF EmbryosInv
<1>15. ZombiesInv(P)
  <2>1. \A t \in MemSlot : P[t].state # "ZOMBIE"
    BY <1>4, <1>6, MemFreeIs
  <2> QED
    BY <2>1 DEF ZombiesInv
<1>16. ExecInv(P, S)
  <2>1. \A t \in MemSlot : P[t].new = NoSpace /\ P[t].at = "user"
    BY <1>4, <1>6, MemFreeIs
  <2> QED
    BY <2>1 DEF ExecInv
<1>17. SharesInv(P, S)
  <2>1. P[1].pgdir = 1 /\ P[1].sz = PGSIZE /\ DOMAIN S[1].user = Below(PGSIZE) /\ 1 # NoSpace
    BY <1>4, <1>6, <1>8, <1>9, <1>10 DEF NoSpace
  <2> QED
    BY <1>3, <1>11, <2>1 DEF SharesInv
<1>18. HoldersInv(P, S)
  <2>1. \A i \in SpaceNo : S[i].used <=> i = 1
    BY <1>3, <1>8, <1>9, NoTables
  <2>2. \A t \in MemSlot : P[t].new = NoSpace
    BY <1>4, <1>6, MemFreeIs
  <2>3. \A i \in SpaceNo : i # NoSpace
    BY DEF SpaceNo, NoSpace
  <2>4. P[1].pgdir = 1
    BY <1>4, <1>6
  <2> QED
    BY <1>3, <1>11, <2>1, <2>2, <2>3, <2>4 DEF HoldersInv
<1>19. PagesInv(P, S, f, n)
  <2>1. InUse(P) = {1}
    BY <1>3, <1>4, <1>6, MemFreeIs DEF InUse
  <2>2. Cardinality(InUse(P)) = 1
    BY <2>1, FS_Singleton
  <2>3. N \in [SpaceNo -> Table] /\ Costs(N) = 0 /\ N[1] = NoTable
    BY <1>1, <1>3, NoTables
  <2>4. S = [N EXCEPT ![1] = s]
    BY <1>1, <1>7
  <2>5. Costs(S) \in Nat /\ Costs(S) + Cost(N[1]) = Costs(N) + Cost(s)
    BY <1>3, <1>8, <2>3, <2>4, CostsChange
  <2>6. Costs(S) = KernTables + 3
    <3>1. Cost(N[1]) = 0 /\ Costs(N) = 0 /\ Cost(s) = KernTables + 3 /\ KernTables \in Nat
      BY <1>8, <2>3, NoTables, MemoryAssumption DEF MemoryAssumption
    <3> QED
      BY <2>5, <3>1
  <2>7. n \in Nat /\ n >= KernTables + 4 /\ KernTables \in Nat
    BY <1>7, MemoryAssumption DEF MemoryAssumption
  <2> QED
    BY <1>7, <1>8, <1>9, <2>2, <2>6, <2>7 DEF PagesInv
<1> QED
  BY <1>1, <1>12, <1>13, <1>14, <1>15, <1>16, <1>17, <1>18, <1>19 DEF MemInv, Parts

LEMMA MemoryStepKeeps ==
  ASSUME MemInv, MemoryNext
  PROVE  StepKeeps
<1>1. PICK t \in MemSlot :
        \/ Sbrk(t) \/ Create(t) \/ ForkStart(t) \/ ForkCopies(t) \/ SetLimit(t) \/ ExecStart(t) \/ ExecLoad(t)
        \/ ExecStack(t) \/ ExecCommit(t) \/ MemExit(t) \/ MemThreadExit(t) \/ MemJoin(t) \/ MemWait(t)
  BY DEF MemoryNext
<1>2. CASE Sbrk(t)
  BY <1>2, SbrkKeeps
<1>3. CASE Create(t)
  BY <1>3, CreateKeeps
<1>4. CASE ForkStart(t)
  BY <1>4, ForkStartKeeps
<1>5. CASE ForkCopies(t)
  BY <1>5, ForkCopiesKeeps
<1>6. CASE SetLimit(t)
  BY <1>6, SetLimitKeeps
<1>7. CASE ExecStart(t)
  BY <1>7, ExecStartKeeps
<1>8. CASE ExecLoad(t)
  BY <1>8, ExecLoadKeeps
<1>9. CASE ExecStack(t)
  BY <1>9, ExecStackKeeps
<1>10. CASE ExecCommit(t)
  BY <1>10, ExecCommitKeeps
<1>11. CASE MemExit(t)
  BY <1>11, MemExitKeeps
<1>12. CASE MemThreadExit(t)
  BY <1>12, MemThreadExitKeeps
<1>13. CASE MemJoin(t)
  BY <1>13, MemJoinKeeps
<1>14. CASE MemWait(t)
  BY <1>14, MemWaitKeeps
<1> QED
  BY <1>1, <1>2, <1>3, <1>4, <1>5, <1>6, <1>7, <1>8, <1>9, <1>10, <1>11, <1>12, <1>13, <1>14

LEMMA InvMeansOwnedOnce ==
  ASSUME MemInv
  PROVE  MemoryOwnedOnce
<1>1. Parts(mproc, mspace) /\ PagesInv(mproc, mspace, frames, mpages)
  BY DEF MemInv
<1>2. PagesAccounted
  BY <1>1 DEF PagesAccounted, PagesInv, InUse, Parts, HoldersInv, Living, MemLive, SpaceNo
<1>3. SizesMapped
  <2> SUFFICES ASSUME NEW t \in MemSlot, MemLive(t)
               PROVE  /\ DOMAIN Space(t).user = {} \/ DOMAIN Space(t).user = Below(mproc[t].sz)
                      /\ \A u \in MemThreads(mproc[t].main) :
                           mproc[u].state # "EMBRYO" => mproc[u].sz = mproc[t].sz /\ mproc[u].pgdir = mproc[t].pgdir
    BY DEF SizesMapped
  <2>1. Living(mproc[t])
    BY DEF Living, MemLive
  <2>2. DOMAIN mspace[mproc[t].pgdir].user \in {{}, Below(mproc[t].sz)}
    BY <1>1, <2>1 DEF Parts, SharesInv
  <2>3. ASSUME NEW u \in MemThreads(mproc[t].main), mproc[u].state # "EMBRYO"
        PROVE  mproc[u].sz = mproc[t].sz /\ mproc[u].pgdir = mproc[t].pgdir
    <3>1. u \in MemSlot /\ mproc[u].state # "UNUSED" /\ mproc[u].main = mproc[t].main
      BY DEF MemThreads
    <3>2. mproc[u].state \in MemStates
      BY <1>1, <3>1, MemFields DEF Parts, MemTypes
    <3>3. Living(mproc[u])
      BY <2>3, <3>1, <3>2 DEF Living, MemStates
    <3> QED
      BY <1>1, <2>1, <3>1, <3>3 DEF Parts, SharesInv
  <2> QED
    BY <2>2, <2>3 DEF Space
<1> QED
  BY <1>2, <1>3 DEF MemoryOwnedOnce

(* MemInv is inductive.                                                    *)
THEOREM MemInvHolds == MemorySpec => []MemInv
<1>1. MemoryInit => MemInv
  BY MemoryStarts
<1>2. MemInv /\ [MemoryNext]_memvars => MemInv'
  <2>1. ASSUME MemInv, MemoryNext PROVE MemInv'
    BY <2>1, MemoryStepKeeps DEF StepKeeps
  <2>2. ASSUME MemInv, UNCHANGED memvars PROVE MemInv'
    <3>1. mproc' = mproc /\ mspace' = mspace /\ frames' = frames /\ mpages' = mpages
      BY <2>2 DEF memvars
    <3> QED
      BY <2>2, <3>1 DEF MemInv
  <2> QED
    BY <2>1, <2>2
<1> QED
  BY <1>1, <1>2, PTL DEF MemorySpec

(* kalloc.c, vm.c, proc.c and exec.c of project02: every page is free or   *)
(* has one owner, a page table is in use exactly while somebody has it,    *)
(* and the threads of a process share one page table in which the pages of *)
(* the one size are mapped, whatever fails half way.                       *)
THEOREM MemoryStaysOwnedOnce == MemorySpec => []MemoryOwnedOnce
<1>1. MemInv => MemoryOwnedOnce
  BY InvMeansOwnedOnce
<1> QED
  BY <1>1, MemInvHolds, PTL

(* growproc() and setmemorylimit() of project02: no call makes a process   *)
(* larger than its limit, whichever of its threads calls.                  *)
THEOREM LimitStays == MemorySpec => LimitHolds
<1> DEFINE Small == \A t \in MemSlot :
       (MemLive(t) /\ mproc'[t].pgdir = mproc[t].pgdir /\ mproc'[t].main = mproc[t].main
                   /\ mproc'[t].sz > mproc[t].sz)
         => LimitOf(t) = 0 \/ mproc'[t].sz <= LimitOf(t)
<1>1. MemInv /\ [MemoryNext]_memvars => [Small]_memvars
  <2>1. ASSUME MemInv, MemoryNext PROVE Small
    <3>1. LimitStep(mproc, mproc')
      BY <2>1, MemoryStepKeeps DEF StepKeeps
    <3> QED
      BY <3>1 DEF LimitStep, Living, MemLive, LimitOf
  <2> QED
    BY <2>1
<1>2. MemorySpec => [][Small]_memvars
  BY <1>1, MemInvHolds, PTL DEF MemorySpec
<1> QED
  BY <1>2 DEF LimitHolds
=============================================================================
