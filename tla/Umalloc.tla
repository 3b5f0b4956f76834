------------------------------ MODULE Umalloc ------------------------------
(* malloc() and free() of user programs (umalloc.c).  Memory is counted in *)
(* headers: a block is its header and what follows, an address the number  *)
(* of a header.  base is address 0, below the heap and never next to it.   *)
(* What is no header of a block on the list or given out is not kept: it   *)
(* is the user's.                                                          *)
EXTENDS Integers, FiniteSets

CONSTANTS
  HeapEnd,         \* bound: sbrk() fails beyond
  MoreUnits,       \* what morecore() asks for at least: 4096
  Requests         \* nunits of the calls of malloc(), with the header

VARIABLES
  hdr,             \* the headers: s.ptr and s.size at each address
  freep,           \* 0 is &base; -1 before the first call
  brk,             \* end of the heap
  live,            \* blocks malloc() has given out: address and nunits asked for
  core             \* addresses morecore() got

mallocvars == <<hdr, freep, brk, live, core>>

Base == 0
HeapStart == 2
NullPtr == -1
NoHeader == [ptr |-> NullPtr, size |-> 0]
UmallocInit ==
  /\ hdr = [a \in 0 .. HeapEnd |-> NoHeader]
  /\ freep = NullPtr /\ brk = HeapStart /\ live = {} /\ core = {}

-----------------------------------------------------------------------------
(* A walk of the list from p to the first of some blocks, and the list as  *)
(* a set.                                                                  *)
RECURSIVE Walk(_, _, _), Ring(_, _, _)
Walk(h, p, S) == IF p \in S THEN p ELSE Walk(h, h[p].ptr, S)
Ring(h, p, seen) == IF p \in seen \/ p = NullPtr THEN seen ELSE Ring(h, h[p].ptr, seen \cup {p})

(* free(): the place for bp is between p and p->s.ptr, or at the end of    *)
(* the list where addresses wrap.                                          *)
Between(h, bp, p) == p < bp /\ bp < h[p].ptr
AtEnd(h, bp, p) == p >= h[p].ptr /\ (bp > p \/ bp < h[p].ptr)
PlaceFor(h, bp, p) == Between(h, bp, p) \/ AtEnd(h, bp, p)
JoinsAbove(h, bp, p) ==
  LET next == h[p].ptr
  IN  IF bp + h[bp].size = next
      THEN [h EXCEPT ![bp] = [ptr |-> h[next].ptr, size |-> @.size + h[next].size], ![next] = NoHeader]
      ELSE [h EXCEPT ![bp].ptr = next]
JoinsBelow(h, bp, p) ==
  IF p + h[p].size = bp
  THEN [h EXCEPT ![p] = [ptr |-> h[bp].ptr, size |-> @.size + h[bp].size], ![bp] = NoHeader]
  ELSE [h EXCEPT ![p].ptr = bp]
Freed(h, fp, bp) ==      \* the list and the new freep
  LET p == Walk(h, fp, {q \in Ring(h, fp, {}) : PlaceFor(h, bp, q)})
  IN  [hdr |-> JoinsBelow(JoinsAbove(h, bp, p), bp, p), freep |-> p]

(* morecore(): what sbrk() gave becomes a block and is freed.              *)
MoreOf(n) == IF n < MoreUnits THEN MoreUnits ELSE n
Morecore(h, fp, n) == Freed([h EXCEPT ![brk].size = MoreOf(n)], fp, brk)

(* malloc(), on a list that has a block large enough: the first found from *)
(* freep on, of which the end is given out.                                *)
Fits(h, fp, n) == \E a \in Ring(h, fp, {}) : h[a].size >= n
Preceding(h, fp, n) == Walk(h, fp, {q \in Ring(h, fp, {}) : h[h[q].ptr].size >= n})
TailOf(p, size, n) == p + (size - n)
Taken(s, n) ==
  LET prev == Preceding(s.hdr, s.freep, n)
      p == s.hdr[prev].ptr
      rest == s.hdr[p].size - n
      a == TailOf(p, s.hdr[p].size, n)
  IN  /\ hdr' = IF rest = 0 THEN [s.hdr EXCEPT ![prev].ptr = s.hdr[p].ptr, ![p].ptr = NullPtr]
                ELSE [s.hdr EXCEPT ![p].size = rest, ![a].size = n]
      /\ freep' = prev
      /\ live' = live \cup {[at |-> a, units |-> n]}

FirstBlock == IF freep = NullPtr THEN [hdr |-> [hdr EXCEPT ![Base] = [ptr |-> Base, size |-> 0]], freep |-> Base]
         ELSE [hdr |-> hdr, freep |-> freep]
Malloc(n) ==
  /\ Fits(FirstBlock.hdr, FirstBlock.freep, n)
  /\ Taken(FirstBlock, n) /\ UNCHANGED <<brk, core>>
MallocMore(n) ==
  /\ ~Fits(FirstBlock.hdr, FirstBlock.freep, n) /\ brk + MoreOf(n) <= HeapEnd
  /\ Taken(Morecore(FirstBlock.hdr, FirstBlock.freep, n), n)
  /\ core' = core \cup (brk .. brk + MoreOf(n) - 1) /\ brk' = brk + MoreOf(n)
MallocFails(n) ==
  /\ ~Fits(FirstBlock.hdr, FirstBlock.freep, n) /\ brk + MoreOf(n) > HeapEnd
  /\ hdr' = FirstBlock.hdr /\ freep' = FirstBlock.freep /\ UNCHANGED <<brk, live, core>>
Free(b) ==
  LET s == Freed(hdr, freep, b.at)
  IN  hdr' = s.hdr /\ freep' = s.freep /\ live' = live \ {b} /\ UNCHANGED <<brk, core>>
SbrkElsewhere ==      \* the program grows its heap itself
  brk < HeapEnd /\ brk' = brk + 1 /\ UNCHANGED <<hdr, freep, live, core>>

UmallocNext ==
  \/ \E n \in Requests : Malloc(n) \/ MallocMore(n) \/ MallocFails(n)
  \/ \E b \in live : Free(b)
  \/ SbrkElsewhere
UmallocSpec == UmallocInit /\ [][UmallocNext]_mallocvars

-----------------------------------------------------------------------------
FreeBlocksOf == Ring(hdr, freep, {}) \ {Base}
Extent(at, n) == at .. at + n - 1

(* Every unit that came from sbrk() belongs to one block, given out or on  *)
(* the list, and each block given out has the size that was asked for.     *)
EachUnitOnce ==
  LET blocks == {Extent(b.at, hdr[b.at].size) : b \in live} \cup {Extent(a, hdr[a].size) : a \in FreeBlocksOf}
  IN  freep # NullPtr =>
        /\ UNION blocks = core /\ Cardinality(blocks) = Cardinality(live) + Cardinality(FreeBlocksOf)
        /\ \A x, y \in blocks : x # y => x \cap y = {}
        /\ \A b \in live : hdr[b.at].size = b.units

(* The list goes around once in the order of addresses, from wherever      *)
(* freep stands, and no two free blocks are left side by side.             *)
ListMerged ==
  freep # NullPtr =>
    /\ Base \in Ring(hdr, freep, {}) /\ Ring(hdr, Base, {}) = Ring(hdr, freep, {})
    /\ \A a \in Ring(hdr, freep, {}) : a < hdr[a].ptr \/ hdr[a].ptr = Base
    /\ \A a, b \in FreeBlocksOf : a + hdr[a].size # b
=============================================================================
