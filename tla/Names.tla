------------------------------- MODULE Names -------------------------------
(***************************************************************************)
(* Path names and the names in directories (project01: skipelem(), namex() *)
(* and dirlink() of fs.c, string.c) and the name exec() gives a process.   *)
(* A name is DIRSIZ bytes without a terminator if it fills them; namex()   *)
(* has one buffer for all elements of a path, on its stack and not         *)
(* initialised.                                                            *)
(***************************************************************************)
EXTENDS Integers, Sequences, FiniteSetsExt

CONSTANTS Letters,     \* the characters of names, besides Slash
          Slash,
          Nul,
          DIRSIZ,
          NameSize,    \* sizeof(p->name)
          PathMax      \* bound: the longest path

ASSUME NamesConstants ==
  /\ DIRSIZ \in Nat \ {0} /\ NameSize \in Nat \ {0} /\ PathMax \in Nat
  /\ {Slash, Nul} \cap Letters = {} /\ Slash # Nul

VARIABLES npath,       \* the rest of the path namex() walks
          nname,       \* its buffer name[DIRSIZ]
          nelem,       \* the element in the buffer: what the path says
          nentry,      \* de.name of the directory's entry
          nlinked,     \* the element dirlink() made the entry for
          pname        \* p->name after exec(npath)

namesvars == <<npath, nname, nelem, nentry, nlinked, pname>>

Char == Letters \cup {Slash}
PathNames == UNION {[1..n -> Char] : n \in 0..PathMax}
Cells(n) == 1..n
AnyName == [Cells(DIRSIZ) -> Letters \cup {Nul}]

NamesInit ==
  /\ npath = <<>> /\ nelem = <<>> /\ nlinked = <<>>
  /\ nname = [i \in Cells(DIRSIZ) |-> Nul]
  /\ nentry = [i \in Cells(DIRSIZ) |-> Nul]
  /\ pname = [i \in Cells(NameSize) |-> Nul]

-----------------------------------------------------------------------------
(* string.c; a source is a sequence of characters followed by Nul *)

CharAt(t, i) == IF i <= Len(t) THEN t[i] ELSE Nul

\* The cells of s after strncpy(s, t, n), t a string of n cells or a shorter one.
Strncpy(t, n) == [i \in 1..n |-> IF \E j \in 1..i : CharAt(t, j) = Nul THEN Nul ELSE t[i]]

\* safestrcpy(s, t, n): the terminator it copied and the one it adds.
Safestrcpy(s, t, n) ==
  [i \in 1..n |-> IF i <= Len(t) /\ i < n THEN t[i] ELSE IF i <= Len(t) + 2 THEN Nul ELSE s[i]]

\* strncmp(p, q, n) = 0 for cells p and q.
Strncmp(p, q, n) == \A i \in 1..n : (\A j \in 1..(i - 1) : p[j] = q[j] /\ p[j] # Nul) => p[i] = q[i]

Namecmp(s, t) == Strncmp(s, t, DIRSIZ)

-----------------------------------------------------------------------------
(* fs.c *)

\* The slashes a path begins with, and its first element after them.
Leading(p) == Max({0} \cup {i \in DOMAIN p : \A j \in 1..i : p[j] = Slash})
Unslashed(p) == SubSeq(p, Leading(p) + 1, Len(p))
ElemLen(p) == Max({0} \cup {i \in DOMAIN p : \A j \in 1..i : p[j] # Slash})

\* name after the copy: terminated if there is room, the rest as it was.
\* Mutant: without the terminator.
CopiedRaw(e) == [i \in Cells(DIRSIZ) |-> IF i <= Len(e) THEN e[i] ELSE nname[i]]
Copied(e) == [i \in Cells(DIRSIZ) |-> IF i <= Len(e) THEN e[i] ELSE IF i = Len(e) + 1 THEN Nul ELSE nname[i]]

Skipelem(p) == LET q == Unslashed(p) IN
  [elem |-> SubSeq(q, 1, ElemLen(q)), rest |-> Unslashed(SubSeq(q, ElemLen(q) + 1, Len(q)))]

\* namex(): starts on a path, steps to the next element, which dirlookup() or
\* dirlink() then uses; nameiparent() stops where the rest is empty.
NamexStarts ==
  /\ npath = <<>> /\ npath' \in PathNames
  /\ nelem' = <<>> /\ nname' \in AnyName
  /\ UNCHANGED <<nentry, nlinked, pname>>
NamexSteps ==
  /\ Unslashed(npath) # <<>>
  /\ LET r == Skipelem(npath) IN npath' = r.rest /\ nname' = Copied(r.elem) /\ nelem' = r.elem
  /\ UNCHANGED <<nentry, nlinked, pname>>

Dirlink ==
  /\ nelem # <<>> /\ npath = <<>>
  /\ nentry' = Strncpy(nname, DIRSIZ) /\ nlinked' = nelem
  /\ UNCHANGED <<npath, nname, nelem, pname>>

\* exec.c: the name of a process is what follows the last slash of the path.
LastElem(p) == SubSeq(p, Max({0} \cup {i \in DOMAIN p : p[i] = Slash}) + 1, Len(p))
ExecNames ==
  /\ pname' = Safestrcpy(pname, LastElem(npath), NameSize)
  /\ UNCHANGED <<npath, nname, nelem, nentry, nlinked>>

NamesNext == NamexStarts \/ NamexSteps \/ Dirlink \/ ExecNames
NamesSpec == NamesInit /\ [][NamesNext]_namesvars

-----------------------------------------------------------------------------
(* dirlookup() with what is in the buffer finds the entry just when the    *)
(* element and the one the entry was made for agree in their first DIRSIZ  *)
(* characters, whatever earlier elements left in the buffer.               *)
Cut(e) == SubSeq(e, 1, IF Len(e) < DIRSIZ THEN Len(e) ELSE DIRSIZ)
NameFoundIffSame ==
  nelem # <<>> /\ nlinked # <<>> => (Namecmp(nname, nentry) <=> Cut(nelem) = Cut(nlinked))

(* The path left after an element begins with the next one, so that        *)
(* nameiparent() sees an empty rest exactly at the last element, whatever  *)
(* slashes are doubled or trail (fs.c:587).                                *)
RestIsNext == nelem # <<>> /\ npath # <<>> => Head(npath) # Slash

(* The name of a process is a terminated string (string.c:81).             *)
ProcessNameEnds == \E i \in Cells(NameSize) : pname[i] = Nul
=============================================================================
