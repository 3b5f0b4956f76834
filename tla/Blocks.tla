------------------------------- MODULE Blocks -------------------------------
(***************************************************************************)
(* The blocks of files in project03/xv6-public: bmap() and itrunc() with   *)
(* single, double and triple indirect blocks, balloc() and bfree() on the  *)
(* bitmap, readi() and writei(), the parts filewrite() cuts a write into,  *)
(* and the image mkfs.c starts from.                                       *)
(*                                                                         *)
(* A call works on a disk d, a record, under locks that make it one step:  *)
(*   used     blocks marked in the bitmap                                  *)
(*   addrs    addrs[] of each inode; 0 is no block                         *)
(*   index    the block numbers an index block holds                       *)
(*   content  what a data block holds: the file and the number it is for   *)
(*   size     of each file, in units, BlockUnits to a block                *)
(*   log      blocks log_write() was given in this operation               *)
(*   at       the block bmap() returns                                     *)
(***************************************************************************)
EXTENDS Integers, Sequences, FiniteSets, FiniteSetsExt, SequencesExt

CONSTANTS
  NDIRECT, NINDIRECT,
  FSSIZE, nmeta,      \* blocks of the disk, and how many come before data
  BPB,                \* bits in a block of the bitmap
  BlockUnits,         \* BSIZE; reads and writes are in these units
  WriteReserve,       \* MAXOPBLOCKS
  Files, MaxBlocks,   \* the files, and bounds on their length in blocks
  ImageBlocks         \* their lengths in the image, a set of functions

N2INDIRECT == NINDIRECT * NINDIRECT
N3INDIRECT == N2INDIRECT * NINDIRECT
MAXFILE == NDIRECT + NINDIRECT + N2INDIRECT + N3INDIRECT

ASSUME BlocksAssumption ==
  /\ NDIRECT \in Nat \ {0} /\ NINDIRECT \in Nat \ {0, 1}
  /\ nmeta \in Nat \ {0} /\ FSSIZE > nmeta /\ BPB \in Nat \ {0}
  /\ BlockUnits \in Nat \ {0} /\ WriteReserve \in 6 .. 100
  /\ \A f \in Files : MaxBlocks[f] <= MAXFILE
  /\ \A k \in ImageBlocks, f \in Files : k[f] <= NDIRECT + NINDIRECT

VARIABLES disk, freed_twice

blockvars == <<disk, freed_twice>>

Block == 0 .. FSSIZE - 1
NoBlock == 0
NoBlocks == [k \in 0 .. NINDIRECT - 1 |-> NoBlock]
Nothing == <<>>

(* Blocks of metadata are told apart by what they are.                     *)
BitmapBlock(b) == <<"bitmap", b \div BPB>>
DataBlock(b) == <<"block", b>>
InodeBlock == <<"inode", 0>>

Logged(d, x) == [d EXCEPT !.log = @ \cup {x}]

-----------------------------------------------------------------------------
(* balloc(), with bzero(), and bfree().  What a free block holds is not    *)
(* looked at before balloc() zeroes it, and forgotten.                     *)

FreeBlocks(d) == Block \ d.used
Balloc(d) ==
  LET b == CHOOSE b \in FreeBlocks(d) : \A c \in FreeBlocks(d) : b <= c
  IN  [d EXCEPT !.used = @ \cup {b}, !.at = b, !.index[b] = NoBlocks,
                !.content[b] = Nothing,
                !.log = @ \cup {BitmapBlock(b), DataBlock(b)}]

Bfree(d, b) ==
  [d EXCEPT !.used = @ \ {b}, !.index[b] = NoBlocks, !.content[b] = Nothing,
            !.log = @ \cup {BitmapBlock(b)}, !.twice = @ \/ b \notin d.used]

-----------------------------------------------------------------------------
(* bmap(): the entries on the way from the inode to block number bn.       *)
(* Mutant: the middle index of the triple level is the last one's.         *)

IndicesMixed(bn) ==
  LET b1 == bn - NDIRECT
      b2 == b1 - NINDIRECT
      b3 == b2 - N2INDIRECT
  IN  CASE bn < NDIRECT -> <<bn>>
        [] bn >= NDIRECT /\ b1 < NINDIRECT -> <<NDIRECT, b1>>
        [] b1 >= NINDIRECT /\ b2 < N2INDIRECT ->
             <<NDIRECT + 1, b2 \div NINDIRECT, b2 % NINDIRECT>>
        [] OTHER -> <<NDIRECT + 2, b3 \div N2INDIRECT, b3 % NINDIRECT, b3 % NINDIRECT>>

Indices(bn) ==
  LET b1 == bn - NDIRECT
      b2 == b1 - NINDIRECT
      b3 == b2 - N2INDIRECT
  IN  CASE bn < NDIRECT -> <<bn>>
        [] bn >= NDIRECT /\ b1 < NINDIRECT -> <<NDIRECT, b1>>
        [] b1 >= NINDIRECT /\ b2 < N2INDIRECT ->
             <<NDIRECT + 1, b2 \div NINDIRECT, b2 % NINDIRECT>>
        [] b2 >= N2INDIRECT /\ b3 < N3INDIRECT ->
             <<NDIRECT + 2, b3 \div N2INDIRECT,
               (b3 % N2INDIRECT) \div NINDIRECT, b3 % NINDIRECT>>

(* An entry of the inode (block 0) or of an index block.  A missing block  *)
(* is allocated and its number written; the inode is written by writei().  *)
Entry(d, f, b, k) == IF b = NoBlock THEN d.addrs[f][k] ELSE d.index[b][k]

Descend(f, d, k) ==
  LET b == d.at
      new == Balloc(d)
  IN  IF Entry(d, f, b, k) # NoBlock THEN [d EXCEPT !.at = Entry(d, f, b, k)]
      ELSE IF b = NoBlock THEN [new EXCEPT !.addrs[f][k] = new.at]
      ELSE Logged([new EXCEPT !.index[b][k] = new.at], DataBlock(b))

Bmap(d, f, bn) ==
  LET step(e, k) == Descend(f, e, k)
  IN  FoldLeft(step, [d EXCEPT !.at = NoBlock], Indices(bn))

(* Where block number bn of f is, without allocating.                      *)
BlockOf(d, f, bn) ==
  LET step(b, k) == Entry(d, f, b, k)
  IN  FoldLeft(step, NoBlock, Indices(bn))

-----------------------------------------------------------------------------
(* itrunc(): the index blocks of a level below b, then b.                  *)

Below(d, b) == {d.index[b][k] : k \in DOMAIN d.index[b]} \ {NoBlock}
BlocksOf(d, f, level) ==
  LET a == d.addrs[f][NDIRECT + level - 1]
      b1 == Below(d, a)
      b2 == UNION {Below(d, b) : b \in b1}
  IN  CASE a = NoBlock -> {}
        [] a # NoBlock /\ level = 1 -> {a} \cup b1
        [] a # NoBlock /\ level = 2 -> {a} \cup b1 \cup b2
        [] a # NoBlock /\ level = 3 ->
             {a} \cup b1 \cup b2 \cup UNION {Below(d, b) : b \in b2}
Direct(d, f) == {d.addrs[f][k] : k \in 0 .. NDIRECT - 1} \ {NoBlock}

ToFree(d, f) ==
  Direct(d, f) \cup BlocksOf(d, f, 1) \cup BlocksOf(d, f, 2) \cup BlocksOf(d, f, 3)

Itrunc(d, f) ==
  LET free(b, e0) == Bfree(e0, b)
      e == FoldSet(free, d, ToFree(d, f))
  IN  Logged([e EXCEPT !.addrs[f] = [k \in DOMAIN @ |-> NoBlock], !.size[f] = 0,
                       !.at = NoBlock], InodeBlock)

-----------------------------------------------------------------------------
(* writei(), block by block, and the size of a part in filewrite().        *)

LastBlock(off, n) == (off + n - 1) \div BlockUnits
Writei(d, f, off, n) ==
  LET put(e, bn) ==
        LET g == Bmap(e, f, bn)
        IN  Logged([g EXCEPT !.content[g.at] = <<f, bn>>], DataBlock(g.at))
      bns == [i \in 1 .. LastBlock(off, n) - off \div BlockUnits + 1 |->
                off \div BlockUnits + i - 1]
      e == FoldLeft(put, d, bns)
  IN  IF off + n > d.size[f]
      THEN Logged([e EXCEPT !.size[f] = off + n], InodeBlock) ELSE e

MaxPart == ((WriteReserve - 1 - 1 - 2) \div 2) * BlockUnits

-----------------------------------------------------------------------------
(* mkfs.c: iappend() takes free blocks in turn and knows one indirect      *)
(* block; balloc() then marks all blocks below freeblock.                  *)

NoFiles ==
  [used |-> {}, addrs |-> [f \in Files |-> [k \in 0 .. NDIRECT + 2 |-> NoBlock]],
   index |-> [b \in Block |-> NoBlocks], content |-> [b \in Block |-> Nothing],
   size |-> [f \in Files |-> 0], log |-> {}, at |-> nmeta, twice |-> FALSE]

TakeBlock(d, f, where, k) ==
  IF Entry(d, f, where, k) # NoBlock THEN d
  ELSE LET e == [d EXCEPT !.at = @ + 1]
       IN  IF where = NoBlock THEN [e EXCEPT !.addrs[f][k] = d.at]
           ELSE [e EXCEPT !.index[where][k] = d.at]

Iappend(d, f) ==      \* one block
  LET fbn == d.size[f] \div BlockUnits
      top == IF fbn < NDIRECT THEN TakeBlock(d, f, NoBlock, fbn)
             ELSE TakeBlock(d, f, NoBlock, NDIRECT)
      e == IF fbn < NDIRECT THEN top
           ELSE TakeBlock(top, f, top.addrs[f][NDIRECT], fbn - NDIRECT)
      x == IF fbn < NDIRECT THEN e.addrs[f][fbn]
           ELSE e.index[e.addrs[f][NDIRECT]][fbn - NDIRECT]
  IN  [e EXCEPT !.content[x] = <<f, fbn>>, !.size[f] = @ + BlockUnits]

Image(k) ==
  LET file(d, f) == FoldLeft(LAMBDA e, i : Iappend(e, f), d, [i \in 1 .. k[f] |-> i])
      made == FoldSet(LAMBDA f, d : file(d, f), NoFiles, Files)
  IN  [made EXCEPT !.used = 0 .. made.at - 1, !.at = NoBlock]

-----------------------------------------------------------------------------
BlocksInit ==
  /\ \E k \in ImageBlocks : disk = Image(k)
  /\ freed_twice = FALSE

(* One part of filewrite() at the end of the file.  Bounds: MaxBlocks, and *)
(* the disk does not fill.                                                 *)
WritePart(f, n) ==
  /\ disk.size[f] + n <= MaxBlocks[f] * BlockUnits
  /\ Cardinality(FreeBlocks(disk)) > WriteReserve
  /\ disk' = [Writei([disk EXCEPT !.log = {}], f, disk.size[f], n) EXCEPT !.at = NoBlock]
  /\ UNCHANGED freed_twice

(* iput() of the last reference to a file without links.                   *)
Truncate(f) ==
  /\ disk.size[f] > 0
  /\ disk' = Itrunc([disk EXCEPT !.log = {}], f)
  /\ freed_twice' = disk'.twice

BlocksNext ==
  \E f \in Files : Truncate(f) \/ \E n \in {1, MaxPart} : WritePart(f, n)

BlocksSpec == BlocksInit /\ [][BlocksNext]_blockvars

-----------------------------------------------------------------------------
(* Properties.                                                             *)

(* What was written to a block number is there, at every level and across  *)
(* the boundaries of levels: no two numbers of one file or of two share a  *)
(* block, and mkfs and the kernel agree where blocks are.                  *)
ContentKept ==
  \A f \in Files : \A bn \in 0 .. LastBlock(0, disk.size[f]) :
    disk.content[BlockOf(disk, f, bn)] = <<f, bn>>

(* The bitmap marks exactly the metadata and the blocks of files, and each *)
(* block belongs to one file: nothing leaks when a file is truncated and   *)
(* nothing is freed that is in use, or twice.                              *)
InFiles == UNION {ToFree(disk, f) : f \in Files}
BitmapExact ==
  /\ disk.used = (0 .. nmeta - 1) \cup InFiles
  /\ \A f, g \in Files : f # g => ToFree(disk, f) \cap ToFree(disk, g) = {}
  /\ ~freed_twice

(* A part of a write logs no more blocks than begin_op() reserved, as long *)
(* as its new blocks are marked in one block of the bitmap.                *)
BitmapBlocks == {x \in disk.log : x[1] = "bitmap"}
PartsFit ==
  Cardinality(BitmapBlocks) <= 1 => Cardinality(disk.log) <= WriteReserve
=============================================================================
