----------------------------- MODULE MlfqProofs -----------------------------
(***************************************************************************)
(* Proofs about Mlfq, for every number of processes, every quantum and     *)
(* boost period and all system calls: types, and that the run queues are   *)
(* what scheduler() takes them for.                                        *)
(***************************************************************************)
EXTENDS Mlfq, FiniteSetTheorems, WellFoundedInduction, TLAPS

(* The record the operators of MlfqQueues work on.                         *)
KRecord ==
  [mlfq : [LevelsAndBefore -> Seq(Proc)], state : [Proc -> States],
   qlevel : [Proc -> LevelsAndBefore], tq : [Proc -> Int],
   priority : [Proc -> Int], schedlock : BOOLEAN]

(* The queues: no process twice in one, and who is in one is RUNNABLE and  *)
(* has that qlevel, so no process is in two.                               *)
QInv(k) ==
  \A lev \in LevelsAndBefore :
    /\ IsInjective(k.mlfq[lev])
    /\ \A q \in Range(k.mlfq[lev]) : k.state[q] = "RUNNABLE" /\ k.qlevel[q] = lev

(* Every RUNNABLE process, p perhaps apart, is in the queue of its level.  *)
QAllBut(k, p) ==
  \A q \in Proc \ {p} : k.state[q] = "RUNNABLE" => q \in Range(k.mlfq[k.qlevel[q]])
QAll(k) == QAllBut(k, NoProc)

NotQueued(k, p) == \A lev \in LevelsAndBefore : p \notin Range(k.mlfq[lev])

(* e is k with p linked into the queue of lev.                             *)
Links(k, e, p, lev) ==
  /\ e \in KRecord
  /\ e.state = k.state /\ e.tq = k.tq /\ e.priority = k.priority /\ e.schedlock = k.schedlock
  /\ e.qlevel = [k.qlevel EXCEPT ![p] = lev]
  /\ \A l \in LevelsAndBefore \ {lev} : e.mlfq[l] = k.mlfq[l]
  /\ Range(e.mlfq[lev]) = Range(k.mlfq[lev]) \cup {p}
  /\ IsInjective(k.mlfq[lev]) /\ p \notin Range(k.mlfq[lev]) => IsInjective(e.mlfq[lev])

-----------------------------------------------------------------------------
(* Sequences: one more element, two sequences one after the other, one     *)
(* element less.                                                           *)

LEMMA InsertsAt ==
  ASSUME NEW S, NEW s \in Seq(S), NEW p \in S, NEW i \in 1 .. Len(s) + 1
  PROVE  /\ InsertAt(s, i, p) \in Seq(S)
         /\ Range(InsertAt(s, i, p)) = Range(s) \cup {p}
         /\ IsInjective(s) /\ p \notin Range(s) => IsInjective(InsertAt(s, i, p))
         /\ Len(InsertAt(s, i, p)) = Len(s) + 1 /\ InsertAt(s, i, p)[i] = p
         /\ \A j \in 1 .. i - 1 : InsertAt(s, i, p)[j] = s[j]
         /\ \A j \in i + 1 .. Len(s) + 1 : InsertAt(s, i, p)[j] = s[j - 1]
<1> DEFINE n == Len(s)
<1>1. n \in Nat /\ DOMAIN s = 1 .. n /\ i \in 1 .. n + 1
  OBVIOUS
<1>a. /\ SubSeq(s, 1, i - 1) \in Seq(S) /\ Len(SubSeq(s, 1, i - 1)) = i - 1
      /\ \A j \in 1 .. i - 1 : SubSeq(s, 1, i - 1)[j] = s[j]
  BY <1>1
<1>b. /\ SubSeq(s, i, n) \in Seq(S) /\ Len(SubSeq(s, i, n)) = n - i + 1
      /\ \A j \in 1 .. n - i + 1 : SubSeq(s, i, n)[j] = s[i + j - 1]
  BY <1>1
<1>2. PICK x \in Seq(S) : x = SubSeq(s, 1, i - 1)
  BY <1>a
<1>3. PICK y \in Seq(S) : y = SubSeq(s, i, n)
  BY <1>b
<1>4. Len(x) = i - 1 /\ \A j \in 1 .. i - 1 : x[j] = s[j]
  BY <1>a, <1>2
<1>5. Len(y) = n - i + 1 /\ \A j \in 1 .. n - i + 1 : y[j] = s[i + j - 1]
  BY <1>b, <1>3
<1>6. PICK t : t = InsertAt(s, i, p)
  OBVIOUS
<1>7. t = (x \o <<p>>) \o y
  BY <1>2, <1>3, <1>6 DEF InsertAt
<1>8. PICK z : z = x \o <<p>>
  OBVIOUS
<1>c. Len(<<p>>) = 1 /\ <<p>>[1] = p /\ <<p>> \in Seq(S)
  OBVIOUS
<1>d. /\ z \in Seq(S) /\ Len(z) = i /\ z[i] = p
      /\ \A j \in 1 .. i - 1 : z[j] = x[j]
  BY <1>1, <1>4, <1>8, <1>c
<1>9. /\ t \in Seq(S) /\ Len(t) = n + 1 /\ DOMAIN t = 1 .. n + 1
      /\ \A j \in 1 .. i : t[j] = z[j]
      /\ \A j \in 1 .. n - i + 1 : t[i + j] = y[j]
  BY <1>1, <1>5, <1>7, <1>8, <1>d
<1>10. t[i] = p /\ \A j \in 1 .. i - 1 : t[j] = s[j]
  BY <1>1, <1>4, <1>d, <1>9
<1>11. \A j \in i + 1 .. n + 1 : t[j] = s[j - 1]
  <2> TAKE j \in i + 1 .. n + 1
  <2>1. j - i \in 1 .. n - i + 1 /\ i + (j - i) = j /\ i + (j - i) - 1 = j - 1
    BY <1>1
  <2> QED
    BY ZenonT(60), <1>5, <1>9, <2>1
<1>12. \A j \in 1 .. n + 1 : j \in 1 .. i - 1 \/ j = i \/ j \in i + 1 .. n + 1
  BY <1>1
<1>13. \A j \in 1 .. i - 1 : j \in 1 .. n
  BY <1>1
<1>14. \A j \in i + 1 .. n + 1 : j - 1 \in 1 .. n /\ j - 1 \notin 1 .. i - 1
  BY <1>1
<1>15. Range(t) \subseteq Range(s) \cup {p}
  <2>1. \A j \in 1 .. n + 1 : t[j] = p \/ \E l \in 1 .. n : t[j] = s[l]
    BY <1>10, <1>11, <1>12, <1>13, <1>14
  <2> QED
    BY <1>1, <1>9, <2>1 DEF Range
<1>16. \A j \in 1 .. n : \E l \in 1 .. n + 1 : t[l] = s[j]
  <2> TAKE j \in 1 .. n
  <2>1. CASE j < i
    BY <1>1, <1>10, <2>1
  <2>2. CASE j >= i
    <3>1. j + 1 \in i + 1 .. n + 1 /\ (j + 1) - 1 = j /\ j + 1 \in 1 .. n + 1
      BY <1>1, <2>2
    <3> QED
      BY <1>11, <3>1
  <2> QED
    BY <1>1, <2>1, <2>2
<1>17. Range(s) \cup {p} \subseteq Range(t)
  <2>1. i \in 1 .. n + 1
    BY <1>1
  <2>2. \A j \in 1 .. n : s[j] \in Range(t)
    BY <1>9, <1>16 DEF Range
  <2>3. p \in Range(t)
    BY <1>9, <1>10, <2>1 DEF Range
  <2> QED
    BY <1>1, <2>2, <2>3 DEF Range
<1>18. ASSUME IsInjective(s), p \notin Range(s), NEW j \in 1 .. n + 1, NEW l \in 1 .. n + 1, t[j] = t[l]
       PROVE  j = l
  <2>1. \A m \in 1 .. n : s[m] # p
    BY <1>1, <1>18 DEF Range
  <2>2. \A m, o \in 1 .. n : s[m] = s[o] => m = o
    BY <1>1, <1>18 DEF IsInjective
  <2>3. PICK a \in 0 .. n : IF j = i THEN a = 0 ELSE a \in 1 .. n /\ t[j] = s[a] /\ a = (IF j < i THEN j ELSE j - 1)
    BY SMTT(30), <1>1, <1>10, <1>11, <1>12, <1>13, <1>14
  <2>4. PICK b \in 0 .. n : IF l = i THEN b = 0 ELSE b \in 1 .. n /\ t[l] = s[b] /\ b = (IF l < i THEN l ELSE l - 1)
    BY <1>1, <1>10, <1>11, <1>12, <1>13, <1>14
  <2>5. CASE j = i
    BY <1>10, <1>18, <2>1, <2>4, <2>5
  <2>6. CASE l = i
    BY <1>10, <1>18, <2>1, <2>3, <2>6
  <2>7. CASE j # i /\ l # i
    <3>1. a = b
      BY <1>18, <2>2, <2>3, <2>4, <2>7
    <3> QED
      BY <1>1, <2>3, <2>4, <2>7, <3>1
  <2> QED
    BY <2>5, <2>6, <2>7
<1>19. IsInjective(s) /\ p \notin Range(s) => IsInjective(t)
  BY <1>9, <1>18 DEF IsInjective
<1> QED
  BY <1>6, <1>9, <1>10, <1>11, <1>15, <1>17, <1>19

LEMMA AppendInserts ==
  ASSUME NEW S, NEW s \in Seq(S), NEW p \in S
  PROVE  Append(s, p) = InsertAt(s, Len(s) + 1, p)
<1>1. SubSeq(s, 1, (Len(s) + 1) - 1) = s
  <2>1. (Len(s) + 1) - 1 = Len(s) /\ SubSeq(s, 1, Len(s)) = s
    OBVIOUS
  <2> QED
    BY <2>1
<1>2. SubSeq(s, Len(s) + 1, Len(s)) = <<>>
  OBVIOUS
<1>3. (s \o <<p>>) \o <<>> = s \o <<p>>
  OBVIOUS
<1>4. s \o <<p>> = Append(s, p)
  OBVIOUS
<1> QED
  BY <1>1, <1>2, <1>3, <1>4 DEF InsertAt

LEMMA Concatenates ==
  ASSUME NEW S, NEW s \in Seq(S), NEW t \in Seq(S)
  PROVE  /\ s \o t \in Seq(S) /\ Range(s \o t) = Range(s) \cup Range(t)
         /\ IsInjective(s) /\ IsInjective(t) /\ Range(s) \cap Range(t) = {} => IsInjective(s \o t)
<1> DEFINE n == Len(s)
           m == Len(t)
<1>1. n \in Nat /\ m \in Nat /\ DOMAIN s = 1 .. n /\ DOMAIN t = 1 .. m
  OBVIOUS
<1>2. PICK u : u = s \o t
  OBVIOUS
<1>a. u \in Seq(S)
  BY <1>2
<1>3. /\ DOMAIN u = 1 .. n + m
      /\ \A i \in 1 .. n : u[i] = s[i]
      /\ \A i \in 1 .. m : u[n + i] = t[i]
  BY <1>1, <1>2
<1>4. \A i \in 1 .. n + m : i \in 1 .. n \/ (i - n \in 1 .. m /\ i = n + (i - n))
  BY <1>1
<1>5. \A i \in 1 .. n : i \in 1 .. n + m
  BY <1>1
<1>6. \A i \in 1 .. m : n + i \in 1 .. n + m
  BY <1>1
<1>7. Range(u) = Range(s) \cup Range(t)
  <2>1. \A i \in 1 .. n + m : u[i] \in Range(s) \cup Range(t)
    BY <1>1, <1>3, <1>4 DEF Range
  <2>2. \A i \in 1 .. n : s[i] \in Range(u)
    BY <1>3, <1>5 DEF Range
  <2>3. \A i \in 1 .. m : t[i] \in Range(u)
    BY <1>3, <1>6 DEF Range
  <2> QED
    BY <1>1, <1>3, <2>1, <2>2, <2>3 DEF Range
<1>8. ASSUME IsInjective(s), IsInjective(t), Range(s) \cap Range(t) = {},
             NEW i \in 1 .. n + m, NEW j \in 1 .. n + m, u[i] = u[j]
      PROVE  i = j
  <2>1. \A a, b \in 1 .. n : s[a] = s[b] => a = b
    BY <1>1, <1>8 DEF IsInjective
  <2>a. \A a, b \in 1 .. m : t[a] = t[b] => a = b
    BY <1>1, <1>8 DEF IsInjective
  <2>b. \A a \in 1 .. n, b \in 1 .. m : s[a] # t[b]
    <3>1. \A a \in 1 .. n : s[a] \in Range(s)
      BY <1>1 DEF Range
    <3>2. \A b \in 1 .. m : t[b] \in Range(t)
      BY <1>1 DEF Range
    <3> QED
      BY <1>8, <3>1, <3>2
  <2>2. CASE i \in 1 .. n /\ j \in 1 .. n
    BY <1>3, <1>8, <2>1, <2>2
  <2>c. ASSUME NEW l \in 1 .. n + m, l \notin 1 .. n
        PROVE  l - n \in 1 .. m /\ u[l] = t[l - n]
    <3>1. l - n \in 1 .. m /\ l = n + (l - n)
      BY <1>4, <2>c
    <3> QED
      BY <1>3, <3>1
  <2>3. CASE i \in 1 .. n /\ j \notin 1 .. n
    BY <1>3, <1>8, <2>b, <2>c, <2>3
  <2>4. CASE i \notin 1 .. n /\ j \in 1 .. n
    BY <1>3, <1>8, <2>b, <2>c, <2>4
  <2>5. CASE i \notin 1 .. n /\ j \notin 1 .. n
    <3>1. i - n = j - n
      BY <1>8, <2>a, <2>c, <2>5
    <3> QED
      BY <1>1, <3>1
  <2> QED
    BY <2>2, <2>3, <2>4, <2>5
<1>9. IsInjective(s) /\ IsInjective(t) /\ Range(s) \cap Range(t) = {} => IsInjective(u)
  BY <1>3, <1>8 DEF IsInjective
<1> QED
  BY <1>2, <1>a, <1>7, <1>9

LEMMA RemovesAt ==
  ASSUME NEW S, NEW s \in Seq(S), NEW i \in 1 .. Len(s)
  PROVE  /\ RemoveAt(s, i) \in Seq(S)
         /\ IsInjective(s) => IsInjective(RemoveAt(s, i)) /\ Range(RemoveAt(s, i)) = Range(s) \ {s[i]}
         /\ Len(RemoveAt(s, i)) = Len(s) - 1 /\ \A j \in 1 .. i - 1 : RemoveAt(s, i)[j] = s[j]
         /\ \A j \in i .. Len(s) - 1 : RemoveAt(s, i)[j] = s[j + 1]
<1> DEFINE n == Len(s)
<1>1. n \in Nat /\ DOMAIN s = 1 .. n
  OBVIOUS
<1>a. /\ SubSeq(s, 1, i - 1) \in Seq(S) /\ Len(SubSeq(s, 1, i - 1)) = i - 1
      /\ \A j \in 1 .. i - 1 : SubSeq(s, 1, i - 1)[j] = s[j]
  BY <1>1
<1>b. /\ SubSeq(s, i + 1, n) \in Seq(S) /\ Len(SubSeq(s, i + 1, n)) = n - i
      /\ \A j \in 1 .. n - i : SubSeq(s, i + 1, n)[j] = s[i + j]
  <2>1. PICK a \in 1 .. n + 1 : a = i + 1
    BY <1>1
  <2>2. /\ SubSeq(s, a, n) \in Seq(S) /\ Len(SubSeq(s, a, n)) = n - a + 1
        /\ \A j \in 1 .. n - a + 1 : SubSeq(s, a, n)[j] = s[a + j - 1]
    BY <1>1
  <2>3. n - a + 1 = n - i /\ \A j \in Int : a + j - 1 = i + j
    BY <1>1, <2>1
  <2>4. PICK u : u = SubSeq(s, a, n)
    OBVIOUS
  <2>5. u \in Seq(S) /\ Len(u) = n - i /\ \A j \in 1 .. n - i : u[j] = s[i + j]
    <3>1. u \in Seq(S) /\ Len(u) = n - a + 1 /\ \A j \in 1 .. n - a + 1 : u[j] = s[a + j - 1]
      BY <2>2, <2>4
    <3>2. \A j \in 1 .. n - i : j \in 1 .. n - a + 1 /\ a + j - 1 = i + j
      BY <2>3
    <3>3. \A j \in 1 .. n - i : u[j] = s[i + j]
      BY <3>1, <3>2
    <3> QED
      BY <2>3, <3>1, <3>3
  <2> QED
    BY <2>1, <2>4, <2>5
<1>2. PICK x \in Seq(S) : x = SubSeq(s, 1, i - 1)
  BY <1>a
<1>3. PICK y \in Seq(S) : y = SubSeq(s, i + 1, n)
  BY <1>b
<1>4. Len(x) = i - 1 /\ \A j \in 1 .. i - 1 : x[j] = s[j]
  BY <1>a, <1>2
<1>5. Len(y) = n - i /\ \A j \in 1 .. n - i : y[j] = s[i + j]
  BY <1>b, <1>3
<1>6. PICK t : t = x \o y
  OBVIOUS
<1>c. t \in Seq(S) /\ t = RemoveAt(s, i)
  BY <1>2, <1>3, <1>6 DEF RemoveAt
<1>7. /\ DOMAIN t = 1 .. n - 1
      /\ \A j \in 1 .. i - 1 : t[j] = s[j]
      /\ \A j \in 1 .. n - i : t[(i - 1) + j] = s[i + j]
  <2>1. /\ Len(x) \in Nat /\ Len(y) \in Nat /\ DOMAIN t = 1 .. Len(x) + Len(y)
        /\ \A j \in 1 .. Len(x) : t[j] = x[j]
        /\ \A j \in 1 .. Len(y) : t[Len(x) + j] = y[j]
    BY <1>6
  <2>2. Len(x) + Len(y) = n - 1
    BY <1>1, <1>4, <1>5
  <2> QED
    BY <1>4, <1>5, <2>1, <2>2
<1>8. \A j \in i .. n - 1 : t[j] = s[j + 1]
  <2> TAKE j \in i .. n - 1
  <2>1. j - i + 1 \in 1 .. n - i /\ (i - 1) + (j - i + 1) = j /\ i + (j - i + 1) = j + 1
    BY <1>1
  <2> QED
    BY <1>7, <2>1
<1>9. /\ \A j \in 1 .. n - 1 : j \in 1 .. i - 1 \/ j \in i .. n - 1
      /\ \A j \in 1 .. i - 1 : j \in 1 .. n - 1 /\ j \in 1 .. n /\ j # i
      /\ \A j \in i .. n - 1 : j \in 1 .. n - 1 /\ j + 1 \in 1 .. n /\ j + 1 # i /\ j + 1 \notin 1 .. i - 1
  BY <1>1
<1>10. ASSUME IsInjective(s)
       PROVE  IsInjective(t) /\ Range(t) = Range(s) \ {s[i]}
  <2>1. \A a, b \in 1 .. n : s[a] = s[b] => a = b
    BY <1>1, <1>10 DEF IsInjective
  <2>2. ASSUME NEW j \in 1 .. n - 1, NEW l \in 1 .. n - 1, t[j] = t[l] PROVE j = l
    <3>1. PICK a \in 1 .. n : t[j] = s[a] /\ a = (IF j < i THEN j ELSE j + 1)
      BY <1>1, <1>7, <1>8, <1>9
    <3>2. PICK b \in 1 .. n : t[l] = s[b] /\ b = (IF l < i THEN l ELSE l + 1)
      BY <1>1, <1>7, <1>8, <1>9
    <3>3. a = b
      BY <2>1, <2>2, <3>1, <3>2
    <3> QED
      BY <1>1, <3>1, <3>2, <3>3
  <2>3. \A j \in 1 .. n - 1 : t[j] \in Range(s) \ {s[i]}
    <3> TAKE j \in 1 .. n - 1
    <3>1. PICK a \in 1 .. n : t[j] = s[a] /\ a # i
      BY <1>1, <1>7, <1>8, <1>9
    <3> QED
      BY <1>1, <2>1, <3>1 DEF Range
  <2>4. \A a \in 1 .. n : a # i => \E j \in 1 .. n - 1 : t[j] = s[a]
    <3> TAKE a \in 1 .. n
    <3>1. CASE a < i
      BY <1>1, <1>7, <1>9, <3>1
    <3>2. CASE a > i
      <4>1. a - 1 \in i .. n - 1 /\ (a - 1) + 1 = a /\ a - 1 \in 1 .. n - 1
        BY <1>1, <3>2
      <4> QED
        BY <1>8, <4>1
    <3> QED
      BY <1>1, <3>1, <3>2
  <2>5. IsInjective(t)
    BY <1>7, <2>2 DEF IsInjective
  <2>6. Range(s) \ {s[i]} \subseteq Range(t)
    <3>1. \A a \in 1 .. n : a # i => s[a] \in Range(t)
      BY <1>7, <2>4 DEF Range
    <3> QED
      BY <1>1, <3>1 DEF Range
  <2>7. Range(t) \subseteq Range(s) \ {s[i]}
    BY <1>7, <2>3 DEF Range
  <2> QED
    BY <2>5, <2>6, <2>7
<1>11. Len(t) = n - 1
  <2>1. Len(t) \in Nat /\ DOMAIN t = 1 .. Len(t) /\ n - 1 \in Nat
    BY <1>1, <1>c
  <2> QED
    BY <1>7, <2>1
<1> QED
  BY <1>c, <1>7, <1>8, <1>10, <1>11

(* A set of numbers that has an element has a first one.                   *)
LEMMA LeastOf ==
  ASSUME NEW S \in SUBSET Nat, S # {}
  PROVE  \E d \in S : \A e \in S : d <= e
<1> DEFINE R == OpToRel(<, Nat)
<1>1. IsWellFoundedOn(R, Nat)
  BY NatLessThanWellFounded
<1>2. \A d, e \in Nat : e < d => <<e, d>> \in R
  BY DEF OpToRel
<1> HIDE DEF R
<1>3. PICK d \in S : \A e \in S : ~(<<e, d>> \in R)
  BY <1>1, WFMin
<1>4. ASSUME NEW e \in S PROVE d <= e
  <2>1. ~(e < d) /\ e \in Nat /\ d \in Nat
    BY <1>2, <1>3
  <2> QED
    BY <2>1
<1> QED
  BY <1>4

(* Induction for a set.                                                    *)
LEMMA NatSet ==
  ASSUME NEW S, 0 \in S, \A n \in Nat : n \in S => n + 1 \in S
  PROVE  Nat \subseteq S
<1> SUFFICES ASSUME Nat \ S # {} PROVE FALSE
  OBVIOUS
<1>1. PICK d \in Nat \ S : \A e \in Nat \ S : d <= e
  BY LeastOf
<1>2. d # 0 /\ d - 1 \in Nat /\ (d - 1) + 1 = d
  BY <1>1
<1>3. d - 1 \in S
  BY <1>1, <1>2
<1> QED
  BY <1>1, <1>2, <1>3
-----------------------------------------------------------------------------
(* The operators of MlfqQueues on the record: enqueue() and movefront()    *)
(* link a process, wherever the walk along the priorities ends.            *)

LEMMA LevelsAre == LevelsAndBefore = -1 .. 2 /\ Levels \subseteq LevelsAndBefore
BY DEF LevelsAndBefore, Levels

LEMMA PrioPositionIn ==
  ASSUME NEW s \in Seq(Proc), s # <<>>, NEW prio \in [Proc -> Int], NEW p \in Proc
  PROVE  /\ PrioPosition(s, prio, p) \in 1 .. Len(s)
         /\ \/ PrioPosition(s, prio, p) = Len(s)
            \/ prio[p] < prio[s[PrioPosition(s, prio, p) + 1]]
         /\ \A j \in 1 .. PrioPosition(s, prio, p) - 1 : prio[p] >= prio[s[j + 1]]
<1> DEFINE n == Len(s)
           stops(i) == i = n \/ prio[p] < prio[s[i + 1]]
           S == {i \in 1 .. n : stops(i)}
           ok(i) == stops(i) /\ \A j \in 1 .. i - 1 : prio[p] >= prio[s[j + 1]]
<1>1. n \in Nat \ {0} /\ \A i \in 1 .. n : s[i] \in Proc
  OBVIOUS
<1>2. S \in SUBSET Nat /\ n \in S
  BY <1>1
<1>3. PICK d \in S : \A e \in S : d <= e
  BY <1>2, LeastOf
<1>4. d \in 1 .. n /\ stops(d)
  BY <1>3
<1>5. ASSUME NEW j \in 1 .. d - 1 PROVE prio[p] >= prio[s[j + 1]]
  <2>1. j \in 1 .. n /\ ~(d <= j) /\ j + 1 \in 1 .. n
    BY <1>1, <1>4
  <2>2. ~stops(j)
    BY <1>3, <2>1
  <2>3. prio[p] \in Int /\ prio[s[j + 1]] \in Int
    BY <1>1, <2>1
  <2> QED
    BY <2>2, <2>3
<1>6. \E i \in 1 .. n : ok(i)
  BY <1>4, <1>5
<1> HIDE DEF ok
<1>7. PICK c : c = CHOOSE i \in 1 .. n : ok(i)
  OBVIOUS
<1>8. c \in 1 .. n /\ ok(c)
  BY <1>6, <1>7
<1>9. PrioPosition(s, prio, p) = c
  BY <1>7 DEF PrioPosition, ok
<1> QED
  BY <1>8, <1>9 DEF ok

Relinked(k, p, lev, t) == [k EXCEPT !.mlfq[lev] = t, !.qlevel[p] = lev]

LEMMA RelinkedRecord ==
  ASSUME NEW k \in KRecord, NEW p \in Proc, NEW lev \in LevelsAndBefore, NEW t \in Seq(Proc),
         NEW e, e = Relinked(k, p, lev, t)
  PROVE  /\ e.mlfq = [k.mlfq EXCEPT ![lev] = t] /\ e.qlevel = [k.qlevel EXCEPT ![p] = lev]
         /\ e.state = k.state /\ e.tq = k.tq /\ e.priority = k.priority
         /\ e.schedlock = k.schedlock /\ e \in KRecord
<1> DEFINE m == [k.mlfq EXCEPT ![lev] = t]
           l == [k.qlevel EXCEPT ![p] = lev]
<1>1. m \in [LevelsAndBefore -> Seq(Proc)] /\ l \in [Proc -> LevelsAndBefore]
  BY DEF KRecord
<1>2. e = [k EXCEPT !.mlfq = m, !.qlevel = l]
  BY DEF KRecord, Relinked
<1> HIDE DEF m, l
<1>3. /\ e.mlfq = m /\ e.qlevel = l
      /\ e.state = k.state /\ e.tq = k.tq /\ e.priority = k.priority
      /\ e.schedlock = k.schedlock /\ e \in KRecord
  BY <1>1, <1>2 DEF KRecord
<1> QED
  BY <1>3 DEF m, l

LEMMA EnqueueLinks ==
  ASSUME NEW k \in KRecord, NEW p \in Proc, NEW lev \in LevelsAndBefore
  PROVE  Links(k, Enqueue(k, p, lev), p, lev)
<1> DEFINE s == k.mlfq[lev]
           linked == IF lev = 2 /\ s # <<>>
                     THEN InsertAt(s, PrioPosition(s, k.priority, p) + 1, p)
                     ELSE Append(s, p)
           e == Enqueue(k, p, lev)
<1>1. s \in Seq(Proc) /\ k.priority \in [Proc -> Int]
  BY DEF KRecord
<1>2. PICK i \in 1 .. Len(s) + 1 : linked = InsertAt(s, i, p)
  <2>1. CASE lev = 2 /\ s # <<>>
    <3>1. PrioPosition(s, k.priority, p) \in 1 .. Len(s)
      BY <1>1, <2>1, PrioPositionIn
    <3> QED
      BY <1>1, <2>1, <3>1
  <2>2. CASE ~(lev = 2 /\ s # <<>>)
    <3>1. linked = InsertAt(s, Len(s) + 1, p)
      BY <1>1, <2>2, AppendInserts
    <3>2. Len(s) + 1 \in 1 .. Len(s) + 1
      BY <1>1
    <3> QED
      BY <3>1, <3>2
  <2> QED
    BY <2>1, <2>2
<1>3. e = [k EXCEPT !.mlfq[lev] = linked, !.qlevel[p] = lev]
  BY DEF Enqueue
<1>4. PICK t : t = linked
  OBVIOUS
<1>5. /\ t \in Seq(Proc) /\ Range(t) = Range(s) \cup {p}
      /\ IsInjective(s) /\ p \notin Range(s) => IsInjective(t)
  BY <1>1, <1>2, <1>4, InsertsAt
<1> HIDE DEF linked
<1>6. /\ e.mlfq = [k.mlfq EXCEPT ![lev] = t] /\ e.qlevel = [k.qlevel EXCEPT ![p] = lev]
      /\ e.state = k.state /\ e.tq = k.tq /\ e.priority = k.priority /\ e.schedlock = k.schedlock
      /\ e \in KRecord
  <2>1. e = Relinked(k, p, lev, t)
    BY <1>3, <1>4 DEF Relinked
  <2> HIDE DEF e
  <2> QED
    BY <2>1, <1>5, RelinkedRecord
<1>7. e.mlfq[lev] = t /\ \A l \in LevelsAndBefore \ {lev} : e.mlfq[l] = k.mlfq[l]
  BY <1>6 DEF KRecord
<1> HIDE DEF e
<1> QED
  BY <1>5, <1>6, <1>7 DEF Links, e

LEMMA MovefrontLinks ==
  ASSUME NEW k \in KRecord, NEW p \in Proc
  PROVE  Links(k, Movefront(k, p), p, 0)
<1> DEFINE s == k.mlfq[0]
           e == Movefront(k, p)
<1>1. 0 \in LevelsAndBefore /\ s \in Seq(Proc)
  BY DEF KRecord, LevelsAndBefore, Levels
<1>2. PICK t : t = <<p>> \o s
  OBVIOUS
<1>3. <<p>> \o s = InsertAt(s, 1, p)
  <2>1. SubSeq(s, 1, 1 - 1) = <<>> /\ SubSeq(s, 1, Len(s)) = s
    BY <1>1
  <2>2. <<>> \o <<p>> = <<p>>
    OBVIOUS
  <2> QED
    BY <2>1, <2>2 DEF InsertAt
<1>4. 1 \in 1 .. Len(s) + 1
  BY <1>1
<1>5. /\ t \in Seq(Proc) /\ Range(t) = Range(s) \cup {p}
      /\ IsInjective(s) /\ p \notin Range(s) => IsInjective(t)
  <2>1. PICK i \in 1 .. Len(s) + 1 : i = 1
    BY <1>4
  <2>2. t = InsertAt(s, i, p)
    BY <1>2, <1>3, <2>1
  <2> QED
    BY <1>1, <2>2, InsertsAt
<1>6. e = Relinked(k, p, 0, t)
  BY <1>2 DEF Movefront, Relinked
<1>7. /\ e.mlfq = [k.mlfq EXCEPT ![0] = t] /\ e.qlevel = [k.qlevel EXCEPT ![p] = 0]
      /\ e.state = k.state /\ e.tq = k.tq /\ e.priority = k.priority /\ e.schedlock = k.schedlock
      /\ e \in KRecord
  <2> HIDE DEF e
  <2> QED
    BY <1>1, <1>5, <1>6, RelinkedRecord
<1>8. e.mlfq[0] = t /\ \A l \in LevelsAndBefore \ {0} : e.mlfq[l] = k.mlfq[l]
  BY <1>1, <1>7 DEF KRecord
<1> HIDE DEF e
<1> QED
  BY <1>5, <1>7, <1>8 DEF Links, e

(* Linking a RUNNABLE process that is in no queue keeps the queues.        *)
LEMMA LinksKeep ==
  ASSUME NEW k \in KRecord, NEW p \in Proc, NEW lev \in LevelsAndBefore, NEW e,
         Links(k, e, p, lev), QInv(k), NotQueued(k, p), k.state[p] = "RUNNABLE"
  PROVE  QInv(e) /\ (QAllBut(k, p) => QAll(e))
<1>1. /\ e \in KRecord /\ e.state = k.state
      /\ \A q \in Proc : e.qlevel[q] = IF q = p THEN lev ELSE k.qlevel[q]
      /\ \A l \in LevelsAndBefore \ {lev} : e.mlfq[l] = k.mlfq[l]
      /\ Range(e.mlfq[lev]) = Range(k.mlfq[lev]) \cup {p}
      /\ IsInjective(e.mlfq[lev])
  BY DEF Links, QInv, NotQueued, KRecord
<1>2. \A l \in LevelsAndBefore : Range(k.mlfq[l]) \subseteq Proc
  BY DEF KRecord, Range
<1>3. QInv(e)
  <2> SUFFICES ASSUME NEW l \in LevelsAndBefore
               PROVE  /\ IsInjective(e.mlfq[l])
                      /\ \A q \in Range(e.mlfq[l]) : e.state[q] = "RUNNABLE" /\ e.qlevel[q] = l
    BY DEF QInv
  <2>1. CASE l = lev
    BY <1>1, <1>2, <2>1 DEF QInv
  <2>2. CASE l # lev
    BY <1>1, <1>2, <2>2 DEF QInv, NotQueued
  <2> QED
    BY <2>1, <2>2
<1>4. ASSUME QAllBut(k, p), NEW q \in Proc, e.state[q] = "RUNNABLE"
      PROVE  q \in Range(e.mlfq[e.qlevel[q]])
  <2>1. CASE q = p
    BY <1>1, <2>1
  <2>2. CASE q # p
    <3>1. q \in Range(k.mlfq[k.qlevel[q]]) /\ k.qlevel[q] \in LevelsAndBefore
      BY <1>1, <1>4, <2>2 DEF QAllBut, KRecord
    <3> QED
      BY <1>1, <2>2, <3>1
  <2> QED
    BY <2>1, <2>2
<1> QED
  BY <1>3, <1>4 DEF QAll, QAllBut

(* Who is not RUNNABLE is in no queue.                                     *)
LEMMA IdleNotQueued ==
  ASSUME NEW k, NEW p, QInv(k), k.state[p] # "RUNNABLE"
  PROVE  NotQueued(k, p)
BY DEF QInv, NotQueued

(* A record with other fields of one process, or of the lock, that is in   *)
(* no queue: e is k but for p's state, quantum and priority.               *)
Alters(k, e, p) ==
  /\ e \in KRecord
  /\ e.mlfq = k.mlfq /\ e.qlevel = k.qlevel
  /\ \A q \in Proc \ {p} : e.state[q] = k.state[q]

LEMMA AltersKeep ==
  ASSUME NEW k \in KRecord, NEW p, NEW e, Alters(k, e, p), QInv(k), NotQueued(k, p)
  PROVE  /\ QInv(e) /\ NotQueued(e, p)
         /\ QAllBut(k, p) => QAllBut(e, p)
         /\ QAllBut(k, p) /\ (p \in Proc => e.state[p] # "RUNNABLE") => QAll(e)
<1>1. \A l \in LevelsAndBefore : Range(k.mlfq[l]) \subseteq Proc
  BY DEF KRecord, Range
<1>2. QInv(e) /\ NotQueued(e, p)
  BY <1>1 DEF QInv, Alters, NotQueued
<1>3. QAllBut(k, p) => QAllBut(e, p)
  BY DEF QAllBut, Alters
<1>4. QAllBut(k, p) /\ (p \in Proc => e.state[p] # "RUNNABLE") => QAll(e)
  BY DEF QAll, QAllBut, Alters
<1> QED
  BY <1>2, <1>3, <1>4
-----------------------------------------------------------------------------
(* wakeup1(): as far as process n of the table.                            *)

(* What the walk has made of k: the sleepers among the first n processes   *)
(* are RUNNABLE and linked.                                                *)
Awake(k, ws, q, n) == q <= n /\ q \in ws /\ k.state[q] = "SLEEPING"
WokenUpto(k, ws, n, e) ==
  /\ e \in KRecord /\ QInv(e) /\ (QAll(k) => QAll(e))
  /\ e.qlevel = k.qlevel /\ e.tq = k.tq /\ e.priority = k.priority /\ e.schedlock = k.schedlock
  /\ \A q \in Proc : e.state[q] = IF Awake(k, ws, q, n) THEN "RUNNABLE" ELSE k.state[q]

InState(k, p, v) == [k EXCEPT !.state[p] = v]

LEMMA StateAlters ==
  ASSUME NEW k \in KRecord, NEW p \in Proc, NEW v \in States
  PROVE  LET e == InState(k, p, v)
         IN  /\ Alters(k, e, p) /\ e.state[p] = v
             /\ e.tq = k.tq /\ e.priority = k.priority /\ e.schedlock = k.schedlock
BY DEF Alters, KRecord, InState

LEMMA WakeOneWakes ==
  ASSUME NEW k \in KRecord, NEW ws, NEW n \in Nat, n + 1 \in Proc, NEW e, WokenUpto(k, ws, n, e)
  PROVE  WokenUpto(k, ws, n + 1, WakeOne(e, ws, n + 1))
<1> PICK p \in Proc : p = n + 1
  OBVIOUS
<1>1. /\ e \in KRecord /\ QInv(e) /\ (QAll(k) => QAll(e))
      /\ e.qlevel = k.qlevel /\ e.tq = k.tq /\ e.priority = k.priority /\ e.schedlock = k.schedlock
      /\ \A q \in Proc : e.state[q] = IF Awake(k, ws, q, n) THEN "RUNNABLE" ELSE k.state[q]
  BY DEF WokenUpto
<1>2. /\ Awake(k, ws, p, p) <=> p \in ws /\ k.state[p] = "SLEEPING"
      /\ ~Awake(k, ws, p, n)
      /\ \A q \in Proc \ {p} : Awake(k, ws, q, p) <=> Awake(k, ws, q, n)
  BY DEF Awake, Proc
<1>3. e.state[p] = k.state[p]
  BY <1>1, <1>2
<1>4. CASE p \in ws /\ k.state[p] = "SLEEPING"
  <2> DEFINE r == InState(e, p, "RUNNABLE")
             w == Enqueue(r, p, e.qlevel[p])
  <2>1. /\ Alters(e, r, p) /\ r.state[p] = "RUNNABLE"
        /\ r.tq = e.tq /\ r.priority = e.priority /\ r.schedlock = e.schedlock
    BY <1>1, StateAlters DEF States
  <2>2. WakeOne(e, ws, p) = w
    BY <1>3, <1>4 DEF WakeOne, InState
  <2> HIDE DEF r
  <2>3. r \in KRecord /\ r.qlevel = e.qlevel /\ \A q \in Proc \ {p} : r.state[q] = e.state[q]
    BY <2>1 DEF Alters
  <2>4. NotQueued(e, p)
    BY <1>1, <1>3, <1>4, IdleNotQueued
  <2>5. QInv(r) /\ NotQueued(r, p) /\ (QAll(k) => QAllBut(r, p))
    <3>1. QAll(e) => QAllBut(e, p)
      BY DEF QAll, QAllBut, Proc, NoProc
    <3> QED
      BY <1>1, <2>1, <2>4, <3>1, AltersKeep
  <2>6. PICK lev \in LevelsAndBefore : lev = e.qlevel[p]
    BY <1>1 DEF KRecord
  <2>7. Links(r, w, p, lev)
    BY <2>3, <2>6, EnqueueLinks
  <2> HIDE DEF w
  <2>8. QInv(w) /\ (QAll(k) => QAll(w))
    BY <2>1, <2>3, <2>5, <2>7, LinksKeep
  <2>9. /\ w \in KRecord /\ w.state = r.state /\ w.tq = r.tq /\ w.priority = r.priority
        /\ w.schedlock = r.schedlock /\ w.qlevel = [e.qlevel EXCEPT ![p] = e.qlevel[p]]
    BY <2>3, <2>6, <2>7 DEF Links
  <2>10. w.qlevel = e.qlevel
    BY <1>1, <2>9 DEF KRecord
  <2>11. \A q \in Proc : w.state[q] = IF Awake(k, ws, q, p) THEN "RUNNABLE" ELSE k.state[q]
    BY <1>1, <1>2, <1>4, <2>1, <2>3, <2>9
  <2>12. WokenUpto(k, ws, p, w)
    BY <1>1, <2>1, <2>8, <2>9, <2>10, <2>11 DEF WokenUpto
  <2> QED
    BY <2>2, <2>12
<1>5. CASE ~(p \in ws /\ k.state[p] = "SLEEPING")
  <2>1. WakeOne(e, ws, p) = e
    BY <1>3, <1>5 DEF WakeOne
  <2>2. \A q \in Proc : e.state[q] = IF Awake(k, ws, q, p) THEN "RUNNABLE" ELSE k.state[q]
    BY <1>1, <1>2, <1>5
  <2>3. WokenUpto(k, ws, p, e)
    BY <1>1, <2>2 DEF WokenUpto
  <2> QED
    BY <2>1, <2>3
<1> QED
  BY <1>4, <1>5

(* The recursion of Wakeup1 is a function: there is one for every length   *)
(* of table, made from the one before.                                     *)
WakesUpto(k, ws, n, f) ==
  f = [p \in 0 .. n |-> IF p = 0 THEN k ELSE WakeOne(f[p - 1], ws, p)]

LEMMA WakeupExists ==
  ASSUME NEW k, NEW ws
  PROVE  \A n \in Nat : \E f : WakesUpto(k, ws, n, f)
<1> DEFINE S == {n \in Nat : \E f : WakesUpto(k, ws, n, f)}
<1>1. 0 \in S
  <2> DEFINE f == [p \in 0 .. 0 |-> k]
  <2>1. WakesUpto(k, ws, 0, f)
    BY DEF WakesUpto
  <2> QED
    BY <2>1
<1>2. ASSUME NEW n \in Nat, n \in S PROVE n + 1 \in S
  <2>1. PICK f : WakesUpto(k, ws, n, f)
    BY <1>2
  <2> DEFINE g == [p \in 0 .. n + 1 |-> IF p = n + 1 THEN WakeOne(f[n], ws, n + 1) ELSE f[p]]
  <2>2. \A p \in 0 .. n : g[p] = f[p] /\ f[p] = IF p = 0 THEN k ELSE WakeOne(f[p - 1], ws, p)
    BY <2>1 DEF WakesUpto
  <2>a. /\ g = [p \in 0 .. n + 1 |-> g[p]]
        /\ g[n + 1] = WakeOne(f[n], ws, n + 1)
        /\ 0 \in 0 .. n /\ n \in 0 .. n
    OBVIOUS
  <2> HIDE DEF g
  <2>3. \A p \in 0 .. n + 1 : g[p] = IF p = 0 THEN k ELSE WakeOne(g[p - 1], ws, p)
    <3> TAKE p \in 0 .. n + 1
    <3>1. CASE p = n + 1
      <4>1. g[p] = WakeOne(f[n], ws, p) /\ g[n] = f[n] /\ p - 1 = n /\ p # 0
        BY SMTT(30), <2>2, <2>a, <3>1
      <4> QED
        BY <4>1
    <3>2. CASE p = 0
      BY <2>2, <2>a, <3>2
    <3>3. CASE p \in 1 .. n
      <4>1. p - 1 \in 0 .. n /\ p \in 0 .. n
        BY <3>3
      <4>2. g[p] = f[p] /\ g[p - 1] = f[p - 1] /\ f[p] = WakeOne(f[p - 1], ws, p)
        BY <2>2, <3>3, <4>1
      <4> QED
        BY <3>3, <4>2
    <3> QED
      BY <3>1, <3>2, <3>3
  <2>5. WakesUpto(k, ws, n + 1, g)
    BY <2>3, <2>a DEF WakesUpto
  <2> QED
    BY <2>5
<1> HIDE DEF S
<1>3. Nat \subseteq S
  BY <1>1, <1>2, NatSet
<1> QED
  BY <1>3 DEF S

LEMMA Wakeup1Wakes ==
  ASSUME NEW k \in KRecord, QInv(k), NEW ws
  PROVE  WokenUpto(k, ws, NPROC, Wakeup1(k, ws))
<1> DEFINE f == CHOOSE f : WakesUpto(k, ws, NPROC, f)
           S == {n \in Nat : n <= NPROC => WokenUpto(k, ws, n, f[n])}
<1>1. NPROC \in Nat
  BY SizesAssumption DEF SizesAssumption
<1>2. WakesUpto(k, ws, NPROC, f)
  BY <1>1, WakeupExists
<1>3. Wakeup1(k, ws) = f[NPROC]
  BY DEF Wakeup1, WakesUpto
<1> HIDE DEF f
<1>4. \A p \in 0 .. NPROC : f[p] = IF p = 0 THEN k ELSE WakeOne(f[p - 1], ws, p)
  BY <1>2 DEF WakesUpto
<1>5. 0 \in S
  <2>1. f[0] = k /\ \A q \in Proc : ~Awake(k, ws, q, 0)
    BY <1>1, <1>4 DEF Awake, Proc
  <2> QED
    BY <2>1 DEF WokenUpto
<1>6. ASSUME NEW n \in Nat, n \in S PROVE n + 1 \in S
  <2> SUFFICES ASSUME n + 1 <= NPROC PROVE WokenUpto(k, ws, n + 1, f[n + 1])
    OBVIOUS
  <2>1. n + 1 \in Proc /\ n + 1 \in 0 .. NPROC /\ n <= NPROC /\ n + 1 # 0 /\ (n + 1) - 1 = n
    BY <1>1 DEF Proc
  <2>2. f[n + 1] = WakeOne(f[n], ws, n + 1)
    BY <1>4, <2>1
  <2>3. WokenUpto(k, ws, n, f[n])
    BY <1>6, <2>1
  <2> QED
    BY <2>1, <2>2, <2>3, WakeOneWakes
<1> HIDE DEF S
<1>7. NPROC \in S
  BY <1>1, <1>5, <1>6, NatSet
<1> QED
  BY <1>1, <1>3, <1>7 DEF S
-----------------------------------------------------------------------------
(* A record whose fields for one process are changed.                      *)
Quantumed(k, p, t) == [k EXCEPT !.tq[p] = t]
Refitted(k, p, v, t) == [k EXCEPT !.priority[p] = v, !.tq[p] = t]
Prepared(k, p, v, t, lev) == [k EXCEPT !.priority[p] = v, !.tq[p] = t, !.qlevel[p] = lev]

LEMMA QuantumedAlters ==
  ASSUME NEW k \in KRecord, NEW p \in Proc, NEW t \in Int, NEW e, e = Quantumed(k, p, t)
  PROVE  /\ Alters(k, e, p) /\ e.tq[p] = t
         /\ e.state = k.state /\ e.priority = k.priority /\ e.schedlock = k.schedlock
<1> DEFINE ts == [k.tq EXCEPT ![p] = t]
<1>1. ts \in [Proc -> Int] /\ ts[p] = t
  BY DEF KRecord
<1>2. e = [k EXCEPT !.tq = ts]
  BY DEF KRecord, Quantumed
<1> HIDE DEF ts
<1>3. /\ e \in KRecord /\ e.mlfq = k.mlfq /\ e.qlevel = k.qlevel /\ e.tq = ts
      /\ e.state = k.state /\ e.priority = k.priority /\ e.schedlock = k.schedlock
  BY <1>1, <1>2 DEF KRecord
<1> QED
  BY <1>1, <1>3 DEF Alters

LEMMA RefittedAlters ==
  ASSUME NEW k \in KRecord, NEW p \in Proc, NEW v \in Int, NEW t \in Int,
         NEW e, e = Refitted(k, p, v, t)
  PROVE  Alters(k, e, p) /\ e.state = k.state /\ e.schedlock = k.schedlock
<1> DEFINE ts == [k.tq EXCEPT ![p] = t]
           vs == [k.priority EXCEPT ![p] = v]
<1>1. ts \in [Proc -> Int] /\ vs \in [Proc -> Int]
  BY DEF KRecord
<1>2. e = [k EXCEPT !.priority = vs, !.tq = ts]
  BY DEF KRecord, Refitted
<1> HIDE DEF ts, vs
<1>3. /\ e \in KRecord /\ e.mlfq = k.mlfq /\ e.qlevel = k.qlevel
      /\ e.state = k.state /\ e.schedlock = k.schedlock
  BY <1>1, <1>2 DEF KRecord
<1> QED
  BY <1>3 DEF Alters

LEMMA PreparedRecord ==
  ASSUME NEW k \in KRecord, NEW p \in Proc, NEW v \in Int, NEW t \in Int,
         NEW lev \in LevelsAndBefore, NEW e, e = Prepared(k, p, v, t, lev)
  PROVE  /\ e \in KRecord /\ e.mlfq = k.mlfq /\ e.state = k.state /\ e.schedlock = k.schedlock
         /\ e.tq[p] = t /\ e.qlevel[p] = lev
         /\ \A q \in Proc \ {p} : e.qlevel[q] = k.qlevel[q] /\ e.tq[q] = k.tq[q]
<1> DEFINE ts == [k.tq EXCEPT ![p] = t]
           vs == [k.priority EXCEPT ![p] = v]
           ls == [k.qlevel EXCEPT ![p] = lev]
<1>1. /\ ts \in [Proc -> Int] /\ vs \in [Proc -> Int] /\ ls \in [Proc -> LevelsAndBefore]
      /\ ts[p] = t /\ ls[p] = lev
      /\ \A q \in Proc \ {p} : ls[q] = k.qlevel[q] /\ ts[q] = k.tq[q]
  BY DEF KRecord
<1>2. e = [k EXCEPT !.priority = vs, !.tq = ts, !.qlevel = ls]
  BY DEF KRecord, Prepared
<1> HIDE DEF ts, vs, ls
<1>3. /\ e \in KRecord /\ e.mlfq = k.mlfq /\ e.state = k.state /\ e.schedlock = k.schedlock
      /\ e.tq = ts /\ e.qlevel = ls
  BY <1>1, <1>2 DEF KRecord
<1> QED
  BY <1>1, <1>3

(* prboost(), for a boost that finds no scheduler lock.                    *)

Boosted(k, r, b) ==
  /\ b \in KRecord /\ QInv(b) /\ (QAll(k) => QAll(b)) /\ NotQueued(b, r)
  /\ b.state = k.state /\ b.schedlock = k.schedlock
  /\ \A q \in Proc \ {r} : b.qlevel[q] = k.qlevel[q] \/ b.qlevel[q] = 0
  /\ r \in Proc => b.tq[r] = 1 /\ b.qlevel[r] = -1
  /\ b.mlfq[2] = <<>>
  /\ \A q \in Proc \ {r} : \/ b.tq[q] = k.tq[q] /\ b.qlevel[q] = k.qlevel[q]
                           \/ b.tq[q] = Quantum0 /\ b.qlevel[q] = 0

LEMMA PrboostBoosts ==
  ASSUME NEW k \in KRecord, NEW r \in Proc \cup {NoProc}, QInv(k), ~k.schedlock,
         r \in Proc => k.state[r] = "RUNNING"
  PROVE  Boosted(k, r, Prboost(k, r))
<1> DEFINE m0 == k.mlfq[0]
           m1 == k.mlfq[1]
           m2 == k.mlfq[2]
           In(s) == {p \in Proc : p \in Range(s)}
           mq == [lev \in LevelsAndBefore |->
                    CASE lev = 0 -> m0 \o (m1 \o m2)
                      [] lev \in {1, 2} -> <<>>
                      [] OTHER -> k.mlfq[lev]]
           tqs == [p \in Proc |-> IF p \in In(m0 \o (m1 \o m2)) THEN Quantum0 ELSE k.tq[p]]
           ps == [p \in Proc |-> IF p \in In(m1 \o m2) THEN Priority0 ELSE k.priority[p]]
           qs == [p \in Proc |-> IF p \in In(m1 \o m2) THEN 0 ELSE k.qlevel[p]]
           drained == [k EXCEPT !.mlfq = mq, !.tq = tqs, !.priority = ps, !.qlevel = qs]
<1>1. /\ m0 \in Seq(Proc) /\ m1 \in Seq(Proc) /\ m2 \in Seq(Proc)
      /\ -1 \in LevelsAndBefore /\ 0 \in LevelsAndBefore /\ 1 \in LevelsAndBefore /\ 2 \in LevelsAndBefore
      /\ \A lev \in LevelsAndBefore : lev \in {-1, 0, 1, 2}
  BY LevelsAre DEF KRecord
<1>2. /\ IsInjective(m0) /\ IsInjective(m1) /\ IsInjective(m2)
      /\ Range(m0) \cap Range(m1) = {} /\ Range(m0) \cap Range(m2) = {} /\ Range(m1) \cap Range(m2) = {}
  <2>1. /\ \A q \in Range(m0) : k.qlevel[q] = 0
        /\ \A q \in Range(m1) : k.qlevel[q] = 1
        /\ \A q \in Range(m2) : k.qlevel[q] = 2
    BY <1>1 DEF QInv
  <2>2. IsInjective(m0) /\ IsInjective(m1) /\ IsInjective(m2)
    BY <1>1 DEF QInv
  <2> HIDE DEF m0, m1, m2
  <2>3. \A q : ~(q \in Range(m0) /\ q \in Range(m1)) /\ ~(q \in Range(m0) /\ q \in Range(m2))
    BY <2>1
  <2>4. \A q : ~(q \in Range(m1) /\ q \in Range(m2))
    BY <2>1
  <2> QED
    BY <2>2, <2>3, <2>4
<1>3. /\ m1 \o m2 \in Seq(Proc) /\ Range(m1 \o m2) = Range(m1) \cup Range(m2) /\ IsInjective(m1 \o m2)
  BY <1>1, <1>2, Concatenates
<1>4. PICK low \in Seq(Proc) : low = m1 \o m2
  BY <1>3
<1>5. /\ m0 \o low \in Seq(Proc) /\ Range(m0 \o low) = Range(m0) \cup Range(m1) \cup Range(m2)
      /\ IsInjective(m0 \o low)
  <2>1. Range(low) = Range(m1) \cup Range(m2) /\ IsInjective(low)
    BY <1>3, <1>4
  <2> HIDE DEF m0, m1, m2
  <2>2. Range(m0) \cap Range(low) = {}
    BY <1>2, <2>1
  <2> QED
    BY <1>1, <1>2, <2>1, <2>2, Concatenates
<1>6. PICK all \in Seq(Proc) : all = m0 \o low
  BY <1>5
<1>7. /\ mq \in [LevelsAndBefore -> Seq(Proc)]
      /\ mq[0] = all /\ mq[1] = <<>> /\ mq[2] = <<>> /\ mq[-1] = k.mlfq[-1]
  <2>1. k.mlfq[-1] \in Seq(Proc) /\ <<>> \in Seq(Proc)
    BY <1>1 DEF KRecord
  <2>2. mq[0] = all /\ mq[1] = <<>> /\ mq[2] = <<>> /\ mq[-1] = k.mlfq[-1]
    <3>1. all = m0 \o (m1 \o m2)
      BY <1>4, <1>6
    <3>2. mq[0] = m0 \o (m1 \o m2)
      <4> DEFINE cat == m0 \o (m1 \o m2)
      <4>1. mq = [lev \in LevelsAndBefore |->
                    CASE lev = 0 -> cat
                      [] lev \in {1, 2} -> <<>>
                      [] OTHER -> k.mlfq[lev]]
        OBVIOUS
      <4> HIDE DEF cat, mq
      <4>2. mq[0] = cat
        BY <1>1, <4>1
      <4> QED
        BY <4>2 DEF cat
    <3>3. mq[1] = <<>>
      BY <1>1
    <3>4. mq[2] = <<>>
      BY <1>1
    <3>5. mq[-1] = k.mlfq[-1]
      BY <1>1
    <3> QED
      BY <3>1, <3>2, <3>3, <3>4, <3>5
  <2>3. mq = [lev \in LevelsAndBefore |-> mq[lev]]
    OBVIOUS
  <2> HIDE DEF mq
  <2> QED
    BY <1>1, <2>1, <2>2, <2>3
<1>8. qs \in [Proc -> LevelsAndBefore] /\ tqs \in [Proc -> Int] /\ ps \in [Proc -> Int]
  BY <1>1, SizesAssumption DEF KRecord, SizesAssumption
<1>9. \A q \in Proc : qs[q] = IF q \in Range(m1) \cup Range(m2) THEN 0 ELSE k.qlevel[q]
  BY <1>3
<1>16. \A q \in Proc : \/ tqs[q] = k.tq[q] /\ qs[q] = k.qlevel[q]
                       \/ tqs[q] = Quantum0 /\ qs[q] = 0
  <2> TAKE q \in Proc
  <2>1. tqs[q] = IF q \in Range(m0) \cup Range(m1) \cup Range(m2) THEN Quantum0 ELSE k.tq[q]
    BY <1>4, <1>5
  <2>2. q \in Range(m0) => k.qlevel[q] = 0
    BY <1>1 DEF QInv
  <2> QED
    BY <1>9, <2>1, <2>2
<1> HIDE DEF mq, tqs, ps, qs
<1>10. /\ drained \in KRecord /\ drained.mlfq = mq /\ drained.qlevel = qs
       /\ drained.state = k.state /\ drained.schedlock = k.schedlock
  BY <1>7, <1>8 DEF KRecord
<1>17. /\ drained.mlfq[2] = <<>> /\ drained.tq \in [Proc -> Int]
       /\ \A q \in Proc : \/ drained.tq[q] = k.tq[q] /\ drained.qlevel[q] = k.qlevel[q]
                          \/ drained.tq[q] = Quantum0 /\ drained.qlevel[q] = 0
  <2>1. drained.tq = tqs /\ drained.mlfq = mq /\ drained.qlevel = qs
    BY <1>7, <1>8 DEF KRecord
  <2> HIDE DEF drained
  <2>2. drained.mlfq[2] = <<>> /\ drained.tq \in [Proc -> Int]
    BY <1>7, <1>8, <2>1
  <2>3. ASSUME NEW q \in Proc
        PROVE  \/ drained.tq[q] = k.tq[q] /\ drained.qlevel[q] = k.qlevel[q]
               \/ drained.tq[q] = Quantum0 /\ drained.qlevel[q] = 0
    <3>1. drained.tq[q] = tqs[q] /\ drained.qlevel[q] = qs[q]
      BY <2>1
    <3> QED
      BY <1>16, <3>1
  <2> QED
    BY <2>2, <2>3
<1>11. QInv(drained)
  <2>1. /\ IsInjective(all)
        /\ \A q \in Range(all) : k.state[q] = "RUNNABLE" /\ qs[q] = 0
    <3>1. \A q \in Range(m0) \cup Range(m1) \cup Range(m2) : q \in Proc /\ k.state[q] = "RUNNABLE"
      BY <1>1 DEF QInv, Range, KRecord
    <3>2. \A q \in Range(m0) : k.qlevel[q] = 0
      BY <1>1 DEF QInv
    <3> QED
      BY <1>4, <1>5, <1>6, <1>9, <3>1, <3>2
  <2>2. IsInjective(<<>>) /\ Range(<<>>) = {}
    BY DEF IsInjective, Range
  <2>3. /\ IsInjective(k.mlfq[-1])
        /\ \A q \in Range(k.mlfq[-1]) : k.state[q] = "RUNNABLE" /\ qs[q] = -1
    <3>1. \A q \in Range(k.mlfq[-1]) : q \in Proc /\ k.state[q] = "RUNNABLE" /\ k.qlevel[q] = -1
      BY SMTT(30), <1>1 DEF QInv, Range, KRecord
    <3>2. \A q \in Range(m1) \cup Range(m2) : k.qlevel[q] # -1
      BY <1>1 DEF QInv
    <3> QED
      BY <1>1, <1>9, <3>1, <3>2 DEF QInv
  <2> HIDE DEF drained
  <2> QED
    BY SMTT(30), <1>1, <1>7, <1>10, <2>1, <2>2, <2>3 DEF QInv
<1>12. QAll(k) => QAll(drained)
  <2> SUFFICES ASSUME QAll(k), NEW q \in Proc, k.state[q] = "RUNNABLE"
               PROVE  q \in Range(mq[qs[q]])
    <3> HIDE DEF drained
    <3> QED
      BY <1>10 DEF QAll, QAllBut
  <2>1. k.qlevel[q] \in {-1, 0, 1, 2} /\ q \in Range(k.mlfq[k.qlevel[q]])
    <3>1. q # NoProc
      BY DEF Proc, NoProc
    <3> QED
      BY <1>1, <3>1 DEF QAll, QAllBut, KRecord
  <2>2. CASE q \in Range(m1) \cup Range(m2)
    BY <1>4, <1>5, <1>6, <1>7, <1>9, <2>2
  <2>3. CASE q \notin Range(m1) \cup Range(m2)
    BY ZenonT(60), <1>4, <1>5, <1>6, <1>7, <1>9, <2>1, <2>3
  <2> QED
    BY <2>2, <2>3
<1>13. \A q \in Proc : qs[q] = k.qlevel[q] \/ qs[q] = 0
  BY <1>9
<1>14. CASE r = NoProc
  <2>1. Prboost(k, r) = drained
    BY <1>14 DEF Prboost, mq, tqs, ps, qs
  <2>2. NotQueued(drained, r)
    <3> HIDE DEF drained
    <3>1. \A lev \in LevelsAndBefore : Range(drained.mlfq[lev]) \subseteq Proc
      BY <1>10 DEF KRecord, Range
    <3>2. r \notin Proc
      BY <1>14 DEF Proc, NoProc
    <3> QED
      BY <3>1, <3>2 DEF NotQueued
  <2>3. r \notin Proc
    BY <1>14 DEF Proc, NoProc
  <2> HIDE DEF drained
  <2> QED
    BY <1>10, <1>11, <1>12, <1>13, <1>17, <2>1, <2>2, <2>3 DEF Boosted
<1>15. CASE r # NoProc
  <2> DEFINE b == [drained EXCEPT !.priority[r] = Priority0, !.tq[r] = 1, !.qlevel[r] = -1]
  <2>1. r \in Proc /\ k.state[r] = "RUNNING"
    BY <1>15
  <2>2. Prboost(k, r) = b
    BY <1>15 DEF Prboost, mq, tqs, ps, qs
  <2>3. NotQueued(drained, r)
    BY <1>10, <1>11, <2>1, IdleNotQueued
  <2> HIDE DEF drained
  <2>4. b = Prepared(drained, r, Priority0, 1, -1)
    BY DEF Prepared
  <2> HIDE DEF b
  <2>5. /\ b \in KRecord /\ b.mlfq = drained.mlfq /\ b.state = drained.state
        /\ b.schedlock = drained.schedlock /\ b.tq[r] = 1 /\ b.qlevel[r] = -1
        /\ \A q \in Proc \ {r} : b.qlevel[q] = qs[q] /\ b.tq[q] = drained.tq[q]
    <3>1. Priority0 \in Int
      BY SizesAssumption DEF SizesAssumption
    <3>2. PICK d \in KRecord : d = drained /\ d.qlevel = qs
      BY <1>10
    <3>3. PICK lev \in LevelsAndBefore, v \in Int : lev = -1 /\ v = Priority0
      BY <1>1, <3>1
    <3>4. b = Prepared(d, r, v, 1, lev)
      BY <2>4, <3>2, <3>3
    <3>5. /\ b \in KRecord /\ b.mlfq = d.mlfq /\ b.state = d.state /\ b.schedlock = d.schedlock
          /\ b.tq[r] = 1 /\ b.qlevel[r] = lev
          /\ \A q \in Proc \ {r} : b.qlevel[q] = d.qlevel[q] /\ b.tq[q] = d.tq[q]
      BY <2>1, <3>4, PreparedRecord
    <3> QED
      BY <3>2, <3>3, <3>5
  <2>6. QInv(b) /\ NotQueued(b, r)
    <3>1. \A lev \in LevelsAndBefore : Range(drained.mlfq[lev]) \subseteq Proc
      BY <1>10 DEF KRecord, Range
    <3> QED
      BY <1>10, <1>11, <2>3, <2>5, <3>1 DEF QInv, NotQueued
  <2>7. QAll(k) => QAll(b)
    BY <1>10, <1>12, <2>1, <2>5 DEF QAll, QAllBut
  <2> QED
    <3>1. /\ b.mlfq[2] = <<>>
          /\ \A q \in Proc \ {r} : \/ b.tq[q] = k.tq[q] /\ b.qlevel[q] = k.qlevel[q]
                                   \/ b.tq[q] = Quantum0 /\ b.qlevel[q] = 0
      BY <1>10, <1>17, <2>5
    <3> QED
      BY <1>10, <1>13, <2>2, <2>5, <2>6, <2>7, <3>1 DEF Boosted
<1> QED
  BY <1>14, <1>15

-----------------------------------------------------------------------------
(* yield() of the running process.                                         *)

Yielded(k, p, e) ==
  /\ e \in KRecord /\ QInv(e) /\ (QAllBut(k, p) => QAll(e))
  /\ \A q \in Proc : e.state[q] = IF q = p THEN "RUNNABLE" ELSE k.state[q]
  /\ \A q \in Proc \ {p} : e.qlevel[q] = k.qlevel[q]
  /\ k.qlevel[p] \in Levels \/ k.tq[p] <= 0 => e.qlevel[p] \in Levels
  /\ e.schedlock = k.schedlock

LEMMA LinksYields ==
  ASSUME NEW k \in KRecord, NEW p \in Proc, QInv(k), NotQueued(k, p), NEW x, Alters(k, x, p),
         x.state[p] = "RUNNABLE", x.schedlock = k.schedlock, NEW lev \in LevelsAndBefore,
         k.qlevel[p] \in Levels \/ k.tq[p] <= 0 => lev \in Levels
  PROVE  Yielded(k, p, Enqueue(x, p, lev))
<1> PICK e : e = Enqueue(x, p, lev)
  OBVIOUS
<1>1. x \in KRecord /\ x.qlevel = k.qlevel /\ \A q \in Proc \ {p} : x.state[q] = k.state[q]
  BY DEF Alters
<1>2. QInv(x) /\ NotQueued(x, p) /\ (QAllBut(k, p) => QAllBut(x, p))
  BY AltersKeep
<1>3. Links(x, e, p, lev)
  BY <1>1, EnqueueLinks
<1>4. QInv(e) /\ (QAllBut(x, p) => QAll(e))
  BY <1>1, <1>2, <1>3, LinksKeep
<1>5. /\ e \in KRecord /\ e.state = x.state /\ e.schedlock = x.schedlock
      /\ e.qlevel = [x.qlevel EXCEPT ![p] = lev]
  BY <1>3 DEF Links
<1>6. \A q \in Proc : e.qlevel[q] = IF q = p THEN lev ELSE k.qlevel[q]
  <2>1. k.qlevel \in [Proc -> LevelsAndBefore] /\ e.qlevel = [k.qlevel EXCEPT ![p] = lev]
    BY <1>1, <1>5 DEF KRecord
  <2> QED
    BY <2>1
<1>7. e \in KRecord /\ QInv(e) /\ (QAllBut(k, p) => QAll(e))
  BY <1>2, <1>4, <1>5
<1> QED
  BY <1>1, <1>5, <1>6, <1>7 DEF Yielded

LEMMA AltersTwice ==
  ASSUME NEW k, NEW r, NEW x, NEW p, Alters(k, r, p), Alters(r, x, p)
  PROVE  Alters(k, x, p)
BY DEF Alters

LEMMA YieldEnqueueYields ==
  ASSUME NEW k \in KRecord, NEW p \in Proc, QInv(k), NotQueued(k, p)
  PROVE  Yielded(k, p, YieldEnqueue(k, p))
<1> DEFINE r == [k EXCEPT !.state[p] = "RUNNABLE"]
           lev == k.qlevel[p]
           less == IF r.priority[p] # 0 THEN r.priority[p] - 1 ELSE r.priority[p]
           x1 == [r EXCEPT !.priority[p] = IF @ # 0 THEN @ - 1 ELSE @, !.tq[p] = 4 + Quantum0]
           x2 == [r EXCEPT !.tq[p] = 2 * (lev + 1) + Quantum0]
<1>1. lev \in LevelsAndBefore /\ k.tq[p] \in Int /\ Quantum0 \in Int
  BY SizesAssumption DEF KRecord, SizesAssumption
<1>2. /\ Alters(k, r, p) /\ r.state[p] = "RUNNABLE" /\ r.schedlock = k.schedlock
      /\ r.priority = k.priority
  <2> DEFINE i == InState(k, p, "RUNNABLE")
  <2>1. "RUNNABLE" \in States
    BY DEF States
  <2>2. /\ Alters(k, i, p) /\ i.state[p] = "RUNNABLE" /\ i.schedlock = k.schedlock
        /\ i.priority = k.priority
    BY <2>1, StateAlters
  <2>3. r = i
    BY DEF InState
  <2> HIDE DEF r, i
  <2> QED
    BY <2>2, <2>3
<1>3. /\ k.tq[p] > 0 => YieldEnqueue(k, p) = Enqueue(r, p, lev)
      /\ k.tq[p] <= 0 /\ lev = 2 => YieldEnqueue(k, p) = Enqueue(x1, p, 2)
      /\ k.tq[p] <= 0 /\ lev # 2 => YieldEnqueue(k, p) = Enqueue(x2, p, lev + 1)
  <2> DEFINE y == CASE k.tq[p] > 0 -> Enqueue(r, p, lev)
                    [] k.tq[p] <= 0 /\ lev = 2 -> Enqueue(x1, p, 2)
                    [] OTHER -> Enqueue(x2, p, lev + 1)
  <2>1. YieldEnqueue(k, p) = y
    BY DEF YieldEnqueue
  <2> HIDE DEF r, lev, x1, x2
  <2>2. k.tq[p] > 0 => ~(k.tq[p] <= 0 /\ lev = 2)
    BY <1>1
  <2>3. k.tq[p] > 0 => y = Enqueue(r, p, lev)
    BY <2>2
  <2>4. k.tq[p] <= 0 /\ lev = 2 => y = Enqueue(x1, p, 2)
    BY <2>2
  <2>5. k.tq[p] <= 0 /\ lev # 2 => y = Enqueue(x2, p, lev + 1)
    BY <1>1
  <2> QED
    BY <2>1, <2>3, <2>4, <2>5
<1>4. x1 = Refitted(r, p, less, 4 + Quantum0) /\ x2 = Quantumed(r, p, 2 * (lev + 1) + Quantum0)
  BY DEF Refitted, Quantumed
<1>5. r \in KRecord /\ 4 + Quantum0 \in Int /\ 2 * (lev + 1) + Quantum0 \in Int
  BY <1>1, <1>2, LevelsAre DEF Alters
<1> HIDE DEF r, x1, x2
<1>6. less \in Int
  <2>1. r.priority[p] \in Int
    BY <1>5 DEF KRecord
  <2> QED
    BY <2>1
<1> HIDE DEF less, lev
<1>7. CASE k.tq[p] > 0
  <2>1. lev \in Levels \/ k.tq[p] <= 0 => lev \in Levels
    BY <1>1, <1>7
  <2> QED
    BY <1>1, <1>2, <1>3, <1>7, <2>1, LinksYields DEF lev
<1>8. CASE k.tq[p] <= 0 /\ lev = 2
  <2>1. Alters(r, x1, p) /\ x1.state = r.state /\ x1.schedlock = r.schedlock
    <3>1. PICK v \in Int, t \in Int : v = less /\ t = 4 + Quantum0
      BY <1>5, <1>6
    <3> QED
      BY <1>4, <1>5, <3>1, RefittedAlters
  <2>2. Alters(k, x1, p) /\ x1.state[p] = "RUNNABLE" /\ x1.schedlock = k.schedlock
    BY <1>2, <2>1, AltersTwice
  <2>3. 2 \in LevelsAndBefore /\ 2 \in Levels
    BY DEF LevelsAndBefore, Levels
  <2> QED
    BY <1>3, <1>8, <2>2, <2>3, LinksYields
<1>9. CASE k.tq[p] <= 0 /\ lev # 2
  <2>1. Alters(r, x2, p) /\ x2.state = r.state /\ x2.schedlock = r.schedlock
    <3>1. PICK t \in Int : t = 2 * (lev + 1) + Quantum0
      BY <1>5
    <3>2. x2 = Quantumed(r, p, t)
      BY <1>4, <3>1, Zenon
    <3>3. r \in KRecord
      BY <1>5
    <3> QED
      BY <3>2, <3>3, QuantumedAlters
  <2>2. Alters(k, x2, p) /\ x2.state[p] = "RUNNABLE" /\ x2.schedlock = k.schedlock
    BY <1>2, <2>1, AltersTwice
  <2>3. lev + 1 \in LevelsAndBefore /\ lev + 1 \in Levels
    BY <1>1, <1>9 DEF LevelsAndBefore, Levels
  <2>4. PICK l \in LevelsAndBefore : l = lev + 1
    BY <2>3
  <2> QED
    BY <1>3, <1>9, <2>2, <2>3, <2>4, LinksYields
<1> QED
  BY <1>1, <1>7, <1>8, <1>9
-----------------------------------------------------------------------------
(* The head of a queue is taken off; a process is moved within L2.         *)

LEMMA TailRemoves ==
  ASSUME NEW S, NEW s \in Seq(S), s # <<>>, IsInjective(s)
  PROVE  /\ Head(s) \in S /\ Head(s) \in Range(s) /\ Tail(s) \in Seq(S)
         /\ IsInjective(Tail(s)) /\ Range(Tail(s)) = Range(s) \ {Head(s)}
<1> DEFINE n == Len(s)
<1>1. n \in Nat \ {0} /\ DOMAIN s = 1 .. n /\ Head(s) = s[1] /\ \A j \in 1 .. n : s[j] \in S
  OBVIOUS
<1>2. PICK t : t = Tail(s)
  OBVIOUS
<1>3. t \in Seq(S) /\ DOMAIN t = 1 .. n - 1 /\ \A j \in 1 .. n - 1 : t[j] = s[j + 1]
  BY <1>1, <1>2
<1>4. \A a, b \in 1 .. n : s[a] = s[b] => a = b
  BY <1>1 DEF IsInjective
<1>5. \A j \in 1 .. n - 1 : j + 1 \in 1 .. n /\ j + 1 # 1
  BY <1>1
<1>6. IsInjective(t)
  BY SMTT(30), <1>3, <1>4, <1>5 DEF IsInjective
<1>7. Range(t) \subseteq Range(s) \ {s[1]}
  <2>1. \A j \in 1 .. n - 1 : t[j] \in Range(s) /\ t[j] # s[1]
    BY <1>1, <1>3, <1>4, <1>5 DEF Range
  <2>2. \A y \in Range(t) : \E j \in 1 .. n - 1 : y = t[j]
    BY <1>3 DEF Range
  <2> QED
    BY <2>1, <2>2
<1>8. Range(s) \ {s[1]} \subseteq Range(t)
  <2>1. \A a \in 1 .. n : a # 1 => a - 1 \in 1 .. n - 1 /\ (a - 1) + 1 = a
    BY <1>1
  <2>a. \A j \in 1 .. n - 1 : t[j] \in Range(t)
    BY <1>3 DEF Range
  <2>2. \A a \in 1 .. n : a # 1 => s[a] \in Range(t)
    BY <1>3, <2>a, <2>1
  <2> QED
    BY <1>1, <2>2 DEF Range
<1>9. s[1] \in S /\ s[1] \in Range(s)
  BY <1>1 DEF Range
<1> QED
  BY <1>1, <1>2, <1>3, <1>6, <1>7, <1>8, <1>9

Requeued(k, lev, t) == [k EXCEPT !.mlfq[lev] = t]
Dispatched(k, lev, t, p, v) == [k EXCEPT !.mlfq[lev] = t, !.state[p] = v]

LEMMA DispatchedRecord ==
  ASSUME NEW k \in KRecord, NEW lev \in LevelsAndBefore, NEW t \in Seq(Proc),
         NEW p \in Proc, NEW v \in States, NEW e, e = Dispatched(k, lev, t, p, v)
  PROVE  /\ e \in KRecord /\ e.qlevel = k.qlevel /\ e.tq = k.tq
         /\ e.schedlock = k.schedlock
         /\ e.mlfq[lev] = t /\ \A l \in LevelsAndBefore \ {lev} : e.mlfq[l] = k.mlfq[l]
         /\ \A q \in Proc : e.state[q] = IF q = p THEN v ELSE k.state[q]
<1> DEFINE m == [k.mlfq EXCEPT ![lev] = t]
           ss == [k.state EXCEPT ![p] = v]
<1>1. /\ m \in [LevelsAndBefore -> Seq(Proc)] /\ ss \in [Proc -> States]
      /\ m[lev] = t /\ \A l \in LevelsAndBefore \ {lev} : m[l] = k.mlfq[l]
  BY DEF KRecord
<1>2. \A q \in Proc : ss[q] = IF q = p THEN v ELSE k.state[q]
  BY DEF KRecord
<1>3. e = [k EXCEPT !.mlfq = m, !.state = ss]
  BY DEF KRecord, Dispatched
<1> HIDE DEF m, ss
<1>4. /\ e \in KRecord /\ e.mlfq = m /\ e.state = ss /\ e.qlevel = k.qlevel /\ e.tq = k.tq
      /\ e.schedlock = k.schedlock
  BY <1>1, <1>3 DEF KRecord
<1> QED
  BY <1>1, <1>2, <1>4

(* scheduler() dispatches the head of a queue.                             *)
LEMMA DispatchKeeps ==
  ASSUME NEW k \in KRecord, QInv(k), NEW lev \in LevelsAndBefore, k.mlfq[lev] # <<>>,
         NEW p, p = Head(k.mlfq[lev]),
         NEW e, e = Dispatched(k, lev, Tail(k.mlfq[lev]), p, "RUNNING")
  PROVE  /\ p \in Proc /\ k.state[p] = "RUNNABLE"
         /\ e \in KRecord /\ QInv(e) /\ (QAll(k) => QAll(e))
         /\ e.qlevel = k.qlevel /\ e.tq = k.tq /\ e.schedlock = k.schedlock
         /\ \A q \in Proc : e.state[q] = IF q = p THEN "RUNNING" ELSE k.state[q]
<1> DEFINE s == k.mlfq[lev]
<1>1. s \in Seq(Proc) /\ IsInjective(s)
  BY DEF KRecord, QInv
<1>2. /\ p \in Proc /\ p \in Range(s) /\ Tail(s) \in Seq(Proc)
      /\ IsInjective(Tail(s)) /\ Range(Tail(s)) = Range(s) \ {p}
  BY <1>1, TailRemoves
<1>3. k.state[p] = "RUNNABLE" /\ k.qlevel[p] = lev
  BY <1>2 DEF QInv
<1>4. PICK t \in Seq(Proc) : t = Tail(s)
  BY <1>2
<1>5. e = Dispatched(k, lev, t, p, "RUNNING")
  BY <1>4
<1>6. IsInjective(t) /\ Range(t) = Range(s) \ {p}
  BY <1>2, <1>4
<1>7. /\ e \in KRecord /\ e.qlevel = k.qlevel /\ e.tq = k.tq /\ e.schedlock = k.schedlock
      /\ e.mlfq[lev] = t /\ \A l \in LevelsAndBefore \ {lev} : e.mlfq[l] = k.mlfq[l]
      /\ \A q \in Proc : e.state[q] = IF q = p THEN "RUNNING" ELSE k.state[q]
  <2>1. PICK v \in States : v = "RUNNING"
    BY DEF States
  <2>2. p \in Proc /\ e = Dispatched(k, lev, t, p, v)
    BY <1>2, <1>5, <2>1
  <2>3. /\ e \in KRecord /\ e.qlevel = k.qlevel /\ e.tq = k.tq /\ e.schedlock = k.schedlock
        /\ e.mlfq[lev] = t /\ \A l \in LevelsAndBefore \ {lev} : e.mlfq[l] = k.mlfq[l]
        /\ \A q \in Proc : e.state[q] = IF q = p THEN v ELSE k.state[q]
    BY <2>2, DispatchedRecord
  <2> QED
    BY <2>1, <2>3
<1>8. \A l \in LevelsAndBefore : Range(k.mlfq[l]) \subseteq Proc
  BY DEF KRecord, Range
<1>9. QInv(e)
  <2> SUFFICES ASSUME NEW l \in LevelsAndBefore
               PROVE  /\ IsInjective(e.mlfq[l])
                      /\ \A q \in Range(e.mlfq[l]) : e.state[q] = "RUNNABLE" /\ e.qlevel[q] = l
    BY DEF QInv
  <2>1. CASE l = lev
    BY SMTT(30), <1>6, <1>7, <1>8, <2>1 DEF QInv
  <2>2. CASE l # lev
    BY SMTT(30), <1>3, <1>7, <1>8, <2>2 DEF QInv
  <2> QED
    BY <2>1, <2>2
<1>10. ASSUME QAll(k), NEW q \in Proc \ {NoProc}, e.state[q] = "RUNNABLE"
       PROVE  q \in Range(e.mlfq[e.qlevel[q]])
  <2>1. q # p /\ k.state[q] = "RUNNABLE"
    BY <1>7, <1>10
  <2>2. q \in Range(k.mlfq[k.qlevel[q]]) /\ k.qlevel[q] \in LevelsAndBefore
    BY <1>10, <2>1 DEF QAll, QAllBut, KRecord
  <2> QED
    BY <1>6, <1>7, <2>1, <2>2
<1>11. QAll(k) => QAll(e)
  BY <1>10 DEF QAll, QAllBut
<1> QED
  BY <1>2, <1>3, <1>7, <1>9, <1>11

(* Taking a process out of its queue, to link it anew.                     *)
LEMMA RequeuedRecord ==
  ASSUME NEW k \in KRecord, NEW lev \in LevelsAndBefore, NEW t \in Seq(Proc),
         NEW e, e = Requeued(k, lev, t)
  PROVE  /\ e \in KRecord /\ e.state = k.state /\ e.qlevel = k.qlevel /\ e.tq = k.tq
         /\ e.priority = k.priority /\ e.schedlock = k.schedlock
         /\ e.mlfq[lev] = t /\ \A l \in LevelsAndBefore \ {lev} : e.mlfq[l] = k.mlfq[l]
<1> DEFINE m == [k.mlfq EXCEPT ![lev] = t]
<1>1. /\ m \in [LevelsAndBefore -> Seq(Proc)]
      /\ m[lev] = t /\ \A l \in LevelsAndBefore \ {lev} : m[l] = k.mlfq[l]
  BY DEF KRecord
<1>2. e = [k EXCEPT !.mlfq = m]
  BY DEF KRecord, Requeued
<1> HIDE DEF m
<1>3. /\ e \in KRecord /\ e.mlfq = m /\ e.state = k.state /\ e.qlevel = k.qlevel /\ e.tq = k.tq
      /\ e.priority = k.priority /\ e.schedlock = k.schedlock
  BY <1>1, <1>2 DEF KRecord
<1> QED
  BY <1>1, <1>3

Prioritized(k, p, v) == [k EXCEPT !.priority[p] = v]

LEMMA PrioritizedRecord ==
  ASSUME NEW k \in KRecord, NEW p \in Proc, NEW v \in Int, NEW e, e = Prioritized(k, p, v)
  PROVE  /\ e \in KRecord /\ e.mlfq = k.mlfq /\ e.qlevel = k.qlevel
         /\ e.state = k.state /\ e.tq = k.tq /\ e.schedlock = k.schedlock
<1> DEFINE vs == [k.priority EXCEPT ![p] = v]
<1>1. vs \in [Proc -> Int]
  BY DEF KRecord
<1>2. e = [k EXCEPT !.priority = vs]
  BY DEF KRecord, Prioritized
<1> HIDE DEF vs
<1> QED
  BY <1>1, <1>2 DEF KRecord

(* What setPriority() leaves as it is.                                     *)
Reprioritized(k, e) ==
  /\ e \in KRecord /\ QInv(e) /\ (QAll(k) => QAll(e))
  /\ e.state = k.state /\ e.tq = k.tq /\ e.schedlock = k.schedlock /\ e.qlevel = k.qlevel

LEMMA SetPriorityKeeps ==
  ASSUME NEW k \in KRecord, QInv(k), NEW caller, NEW t \in Proc, NEW v \in Int
  PROVE  Reprioritized(k, SetPriority(k, caller, t, v))
<1> DEFINE c == [k EXCEPT !.priority[t] = v]
           s == k.mlfq[2]
           place == CHOOSE i \in DOMAIN s : s[i] = t
           r == [c EXCEPT !.mlfq[2] = RemoveAt(@, place)]
<1>1. /\ c \in KRecord /\ c.mlfq = k.mlfq /\ c.qlevel = k.qlevel
      /\ c.state = k.state /\ c.tq = k.tq /\ c.schedlock = k.schedlock
  <2>1. c = Prioritized(k, t, v)
    BY DEF Prioritized
  <2> HIDE DEF c
  <2> QED
    BY <2>1, PrioritizedRecord
<1>2. \/ SetPriority(k, caller, t, v) \in {c, k}
      \/ t \in Range(s) /\ SetPriority(k, caller, t, v) = Enqueue(r, t, 2)
  BY DEF SetPriority
<1>3. 2 \in LevelsAndBefore
  BY LevelsAre
<1> HIDE DEF c
<1>4. Reprioritized(k, c)
  <2>1. QInv(c)
    BY <1>1 DEF QInv
  <2>2. QAll(k) => QAll(c)
    BY <1>1 DEF QAll, QAllBut
  <2> QED
    BY <1>1, <2>1, <2>2 DEF Reprioritized
<1>5. Reprioritized(k, k)
  BY DEF Reprioritized
<1>6. ASSUME t \in Range(s) PROVE Reprioritized(k, Enqueue(r, t, 2))
  <2>1. s \in Seq(Proc) /\ DOMAIN s = 1 .. Len(s) /\ IsInjective(s)
    BY <1>3 DEF KRecord, QInv
  <2>2. k.state[t] = "RUNNABLE" /\ k.qlevel[t] = 2
    BY <1>3, <1>6 DEF QInv
  <2>3. place \in 1 .. Len(s) /\ s[place] = t
    <3>1. \E i \in DOMAIN s : s[i] = t
      BY <1>6 DEF Range
    <3> QED
      BY <2>1, <3>1
  <2> HIDE DEF place
  <2>4. PICK u : u = RemoveAt(s, place)
    OBVIOUS
  <2>5. u \in Seq(Proc) /\ IsInjective(u) /\ Range(u) = Range(s) \ {t}
    BY <2>1, <2>3, <2>4, RemovesAt
  <2>6. r = Requeued(c, 2, u)
    BY <1>1, <2>4 DEF Requeued
  <2> HIDE DEF r
  <2>7. /\ r \in KRecord /\ r.state = k.state /\ r.qlevel = k.qlevel /\ r.tq = k.tq
        /\ r.schedlock = k.schedlock
        /\ r.mlfq[2] = u /\ \A l \in LevelsAndBefore \ {2} : r.mlfq[l] = k.mlfq[l]
    BY <1>1, <1>3, <2>5, <2>6, RequeuedRecord
  <2>8. QInv(r)
    <3> SUFFICES ASSUME NEW l \in LevelsAndBefore
                 PROVE  /\ IsInjective(r.mlfq[l])
                        /\ \A q \in Range(r.mlfq[l]) : r.state[q] = "RUNNABLE" /\ r.qlevel[q] = l
      BY DEF QInv
    <3>1. CASE l = 2
      BY <2>5, <2>7, <3>1 DEF QInv
    <3>2. CASE l # 2
      BY <2>7, <3>2 DEF QInv
    <3> QED
      BY <3>1, <3>2
  <2>9. NotQueued(r, t)
    <3> SUFFICES ASSUME NEW l \in LevelsAndBefore PROVE t \notin Range(r.mlfq[l])
      BY DEF NotQueued
    <3>1. CASE l = 2
      BY <2>5, <2>7, <3>1
    <3>2. CASE l # 2
      BY <2>2, <2>7, <3>2 DEF QInv
    <3> QED
      BY <3>1, <3>2
  <2>10. QAll(k) => QAllBut(r, t)
    <3> SUFFICES ASSUME QAll(k), NEW q \in Proc \ {t}, k.state[q] = "RUNNABLE"
                 PROVE  q \in Range(r.mlfq[k.qlevel[q]])
      BY <2>7 DEF QAllBut
    <3>1. q \in Range(k.mlfq[k.qlevel[q]]) /\ k.qlevel[q] \in LevelsAndBefore
      <4>1. q # NoProc
        BY DEF Proc, NoProc
      <4> QED
        BY <4>1 DEF QAll, QAllBut, KRecord
    <3> QED
      BY <2>5, <2>7, <3>1
  <2>11. PICK e : e = Enqueue(r, t, 2)
    OBVIOUS
  <2>12. Links(r, e, t, 2)
    BY <1>3, <2>7, <2>11, EnqueueLinks
  <2>13. QInv(e) /\ (QAllBut(r, t) => QAll(e))
    BY <1>3, <2>2, <2>7, <2>8, <2>9, <2>12, LinksKeep
  <2>14. /\ e \in KRecord /\ e.state = r.state /\ e.tq = r.tq /\ e.schedlock = r.schedlock
         /\ e.qlevel = [r.qlevel EXCEPT ![t] = 2]
    BY <2>12 DEF Links
  <2>15. e.qlevel = k.qlevel
    BY <2>2, <2>7, <2>14 DEF KRecord
  <2> QED
    BY <2>7, <2>10, <2>11, <2>13, <2>14, <2>15 DEF Reprioritized
<1> QED
  BY <1>2, <1>4, <1>5, <1>6
-----------------------------------------------------------------------------
(* What the system calls do to the record besides queueing: a process      *)
(* leaves the CPU, is made by allocproc(), is killed, unlocks.             *)

Leaving(k, p, v) == [k EXCEPT !.state[p] = v, !.schedlock = FALSE]
Born(k, p) ==
  [k EXCEPT !.state[p] = "EMBRYO", !.tq[p] = Quantum0, !.priority[p] = Priority0]
Unlocking(k, p) ==
  [k EXCEPT !.schedlock = FALSE, !.tq[p] = Quantum0, !.priority[p] = Priority0,
            !.state[p] = "RUNNABLE"]
WithLock(k, b) == [k EXCEPT !.schedlock = b]

LEMMA LeavingAlters ==
  ASSUME NEW k \in KRecord, NEW p \in Proc, NEW v \in States, NEW e, e = Leaving(k, p, v)
  PROVE  Alters(k, e, p) /\ e.state[p] = v /\ ~e.schedlock
<1> DEFINE ss == [k.state EXCEPT ![p] = v]
<1>1. ss \in [Proc -> States] /\ ss[p] = v /\ \A q \in Proc \ {p} : ss[q] = k.state[q]
  BY DEF KRecord
<1>2. e = [k EXCEPT !.state = ss, !.schedlock = FALSE]
  BY DEF KRecord, Leaving
<1> HIDE DEF ss
<1>3. /\ e \in KRecord /\ e.mlfq = k.mlfq /\ e.qlevel = k.qlevel /\ e.state = ss
      /\ e.schedlock = FALSE
  BY <1>1, <1>2 DEF KRecord
<1> QED
  BY <1>1, <1>3 DEF Alters

LEMMA KillStateAlters ==
  ASSUME NEW k \in KRecord, NEW p \in Proc, NEW e, e = KillState(k, p)
  PROVE  /\ Alters(k, e, p) /\ ~e.schedlock
         /\ e.state[p] = IF k.state[p] = "SLEEPING" THEN "RUNNABLE" ELSE k.state[p]
<1> DEFINE v == IF k.state[p] = "SLEEPING" THEN "RUNNABLE" ELSE k.state[p]
           ss == [k.state EXCEPT ![p] = v]
<1>1. v \in States
  BY DEF KRecord, States
<1>2. ss \in [Proc -> States] /\ ss[p] = v /\ \A q \in Proc \ {p} : ss[q] = k.state[q]
  BY <1>1 DEF KRecord
<1>3. e = [k EXCEPT !.schedlock = FALSE, !.state = ss]
  BY DEF KRecord, KillState
<1> HIDE DEF ss
<1>4. /\ e \in KRecord /\ e.mlfq = k.mlfq /\ e.qlevel = k.qlevel /\ e.state = ss
      /\ e.schedlock = FALSE
  BY <1>2, <1>3 DEF KRecord
<1> QED
  BY <1>2, <1>4 DEF Alters

LEMMA BornAlters ==
  ASSUME NEW k \in KRecord, NEW p \in Proc, NEW e, e = Born(k, p)
  PROVE  Alters(k, e, p) /\ e.state[p] = "EMBRYO" /\ e.schedlock = k.schedlock
<1> DEFINE ss == [k.state EXCEPT ![p] = "EMBRYO"]
           ts == [k.tq EXCEPT ![p] = Quantum0]
           vs == [k.priority EXCEPT ![p] = Priority0]
<1>1. Quantum0 \in Int /\ Priority0 \in Int /\ "EMBRYO" \in States
  BY SizesAssumption DEF SizesAssumption, States
<1>2. ss \in [Proc -> States] /\ ss[p] = "EMBRYO" /\ \A q \in Proc \ {p} : ss[q] = k.state[q]
  BY <1>1 DEF KRecord
<1>3. ts \in [Proc -> Int] /\ vs \in [Proc -> Int]
  BY <1>1 DEF KRecord
<1>4. e = [k EXCEPT !.state = ss, !.tq = ts, !.priority = vs]
  BY DEF KRecord, Born
<1> HIDE DEF ss, ts, vs
<1>5. /\ e \in KRecord /\ e.mlfq = k.mlfq /\ e.qlevel = k.qlevel /\ e.state = ss
      /\ e.schedlock = k.schedlock
  BY <1>2, <1>3, <1>4 DEF KRecord
<1> QED
  BY <1>2, <1>5 DEF Alters

LEMMA UnlockingAlters ==
  ASSUME NEW k \in KRecord, NEW p \in Proc, NEW e, e = Unlocking(k, p)
  PROVE  Alters(k, e, p) /\ e.state[p] = "RUNNABLE" /\ ~e.schedlock
<1> DEFINE ss == [k.state EXCEPT ![p] = "RUNNABLE"]
           ts == [k.tq EXCEPT ![p] = Quantum0]
           vs == [k.priority EXCEPT ![p] = Priority0]
<1>1. Quantum0 \in Int /\ Priority0 \in Int /\ "RUNNABLE" \in States
  BY SizesAssumption DEF SizesAssumption, States
<1>2. ss \in [Proc -> States] /\ ss[p] = "RUNNABLE" /\ \A q \in Proc \ {p} : ss[q] = k.state[q]
  BY <1>1 DEF KRecord
<1>3. ts \in [Proc -> Int] /\ vs \in [Proc -> Int]
  BY <1>1 DEF KRecord
<1>4. e = [k EXCEPT !.schedlock = FALSE, !.tq = ts, !.priority = vs, !.state = ss]
  BY DEF KRecord, Unlocking
<1> HIDE DEF ss, ts, vs
<1>5. /\ e \in KRecord /\ e.mlfq = k.mlfq /\ e.qlevel = k.qlevel /\ e.state = ss
      /\ e.schedlock = FALSE
  BY <1>2, <1>3, <1>4 DEF KRecord
<1> QED
  BY <1>2, <1>5 DEF Alters

LEMMA WithLockKeeps ==
  ASSUME NEW k \in KRecord, QInv(k), NEW b \in BOOLEAN, NEW e, e = WithLock(k, b)
  PROVE  /\ e \in KRecord /\ QInv(e)
         /\ e.state = k.state /\ e.qlevel = k.qlevel /\ e.schedlock = b
<1>1. /\ e \in KRecord /\ e.mlfq = k.mlfq /\ e.qlevel = k.qlevel /\ e.state = k.state
      /\ e.schedlock = b
  BY DEF KRecord, WithLock
<1> QED
  BY <1>1 DEF QInv

(* A process that is not RUNNABLE is made so, or into anything else: it    *)
(* was in no queue.                                                        *)
LEMMA IdleAlters ==
  ASSUME NEW k \in KRecord, QInv(k), NEW p \in Proc, k.state[p] # "RUNNABLE",
         NEW e, Alters(k, e, p)
  PROVE  /\ QInv(e) /\ NotQueued(e, p) /\ (QAll(k) => QAllBut(e, p))
         /\ QAll(k) /\ e.state[p] # "RUNNABLE" => QAll(e)
<1>1. NotQueued(k, p)
  BY IdleNotQueued
<1>2. QAll(k) => QAllBut(k, p)
  <2>1. \A q \in Proc : q # NoProc
    BY DEF Proc, NoProc
  <2> QED
    BY <2>1 DEF QAll, QAllBut
<1> QED
  BY <1>1, <1>2, AltersKeep

(* Wakeups, however many.                                                  *)
Awakens(k, e) ==
  /\ e \in KRecord /\ QInv(e) /\ (QAll(k) => QAll(e))
  /\ e.qlevel = k.qlevel /\ e.tq = k.tq /\ e.schedlock = k.schedlock
  /\ \A q \in Proc : e.state[q] = k.state[q] \/ (k.state[q] = "SLEEPING" /\ e.state[q] = "RUNNABLE")

LEMMA Wakeup1Awakens ==
  ASSUME NEW k \in KRecord, QInv(k), NEW ws
  PROVE  Awakens(k, Wakeup1(k, ws))
<1> PICK e : e = Wakeup1(k, ws)
  OBVIOUS
<1>1. WokenUpto(k, ws, NPROC, e)
  BY Wakeup1Wakes
<1>2. \A q \in Proc : e.state[q] = k.state[q] \/ (k.state[q] = "SLEEPING" /\ e.state[q] = "RUNNABLE")
  <2>1. \A q \in Proc : /\ Awake(k, ws, q, NPROC) => e.state[q] = "RUNNABLE"
                        /\ ~Awake(k, ws, q, NPROC) => e.state[q] = k.state[q]
    BY <1>1 DEF WokenUpto
  <2>2. \A q \in Proc : Awake(k, ws, q, NPROC) => k.state[q] = "SLEEPING"
    BY DEF Awake
  <2> QED
    BY <2>1, <2>2, Zenon
<1>3. Awakens(k, e)
  BY <1>1, <1>2 DEF WokenUpto, Awakens
<1> QED
  BY <1>3

LEMMA AwakensTwice ==
  ASSUME NEW k, NEW e, NEW f, Awakens(k, e), Awakens(e, f)
  PROVE  Awakens(k, f)
<1>1. \A q \in Proc : f.state[q] = k.state[q] \/ (k.state[q] = "SLEEPING" /\ f.state[q] = "RUNNABLE")
  BY DEF Awakens
<1> QED
  BY <1>1 DEF Awakens

(* The queues of k, for TLC's form of the property.                        *)
LEMMA InjectiveCardinality ==
  ASSUME NEW S, NEW s \in Seq(S), IsInjective(s)
  PROVE  Cardinality(Range(s)) = Len(s)
<1> DEFINE n == Len(s)
           f == [i \in 1 .. n |-> s[i]]
<1>1. n \in Nat /\ DOMAIN s = 1 .. n
  OBVIOUS
<1>2. \A i \in 1 .. n : s[i] \in Range(s)
  BY <1>1 DEF Range
<1>3. \A y \in Range(s) : \E i \in 1 .. n : s[i] = y
  BY <1>1 DEF Range
<1>4. \A i, j \in 1 .. n : s[i] = s[j] => i = j
  BY <1>1 DEF IsInjective
<1>5. f \in Bijection(1 .. n, Range(s))
  BY <1>2, <1>3, <1>4 DEF Bijection, Injection, Surjection
<1>6. IsFiniteSet(1 .. n) /\ Cardinality(1 .. n) = n
  <2>1. 1 \in Int /\ n \in Int
    BY <1>1
  <2>2. Cardinality(1 .. n) = IF 1 > n THEN 0 ELSE n - 1 + 1
    BY <2>1, FS_Interval
  <2>3. IsFiniteSet(1 .. n)
    BY <2>1, FS_Interval
  <2> QED
    BY <1>1, <2>2, <2>3
<1>7. ExistsBijection(1 .. n, Range(s))
  BY <1>5 DEF ExistsBijection
<1> QED
  BY <1>6, <1>7, FS_Bijection
-----------------------------------------------------------------------------
(* The invariant, and what a step makes of the queues.                     *)

OtherTypes ==
  /\ window \in BOOLEAN /\ cpu \in Proc \cup {NoProc} /\ level \in Levels
  /\ ticks \in 0 .. BoostTicks - 1
  /\ pc \in [Proc -> Places] /\ chan \in [Proc -> 0 .. NPROC + 2]
  /\ parent \in [Proc -> Proc \cup {NoProc}]
  /\ np \in [Proc -> Proc \cup {NoProc}]
  /\ killed \in [Proc -> BOOLEAN]

(* The process on the CPU is RUNNING.                                      *)
RunInv == cpu # NoProc => state[cpu] = "RUNNING"

(* Who is in fork() has an EMBRYO of its own.                              *)
ForkInv ==
  \A p \in Proc : pc[p] = "fork2" =>
    /\ np[p] \in Proc /\ state[np[p]] = "EMBRYO"
    /\ \A q \in Proc : pc[q] = "fork2" /\ np[q] = np[p] => q = p

MlfqInv == K \in KRecord /\ QInv(K) /\ OtherTypes /\ RunInv /\ ForkInv

(* What more holds of programs that do not kill and take no scheduler lock.*)
Peaceful == Calls \cap {"kill", "lock", "unlock"} = {}

(* Only the process x, and processes that are woken, change their state.   *)
ChangesOnly(x) ==
  \A q \in Proc \ {x} : state'[q] = state[q] \/ (state[q] = "SLEEPING" /\ state'[q] = "RUNNABLE")

(* The queues after a step that changes x.                                 *)
Queueing(x) == K' \in KRecord /\ QInv(K') /\ ChangesOnly(x)
Peaceably == ~schedlock /\ qlevel \in [Proc -> Levels] /\ QAll(K)

LEMMA Fields ==
  /\ K.mlfq = mlfq /\ K.state = state /\ K.qlevel = qlevel /\ K.tq = tq
  /\ K.priority = priority /\ K.schedlock = schedlock
BY DEF K

LEMMA Becomes ==
  ASSUME NEW k \in KRecord, Become(k)
  PROVE  /\ K' = k
         /\ state' = k.state /\ qlevel' = k.qlevel /\ schedlock' = k.schedlock
<1>1. k = [mlfq |-> k.mlfq, state |-> k.state, qlevel |-> k.qlevel, tq |-> k.tq,
           priority |-> k.priority, schedlock |-> k.schedlock]
  BY DEF KRecord
<1> QED
  BY <1>1 DEF Become, K

LEMMA Stays ==
  ASSUME MlfqInv, UNCHANGED kvars
  PROVE  K' = K /\ \A x : Queueing(x)
<1>1. K' = K /\ state' = state
  BY DEF kvars, K
<1> QED
  BY <1>1 DEF MlfqInv, Queueing, ChangesOnly

(* A process leaves the CPU, to sleep or for good.                         *)
LEMMA Leaves ==
  ASSUME MlfqInv, NEW p \in Proc, state[p] = "RUNNING", NEW k, Awakens(K, k),
         NEW v \in States, v # "RUNNABLE", NEW e, e = Leaving(k, p, v), Become(e)
  PROVE  /\ Queueing(p) /\ state'[p] = v /\ ~schedlock'
         /\ (Peaceably => Peaceably')
<1>1. /\ k \in KRecord /\ QInv(k) /\ (QAll(K) => QAll(k)) /\ k.qlevel = qlevel
      /\ \A q \in Proc : k.state[q] = state[q] \/ (state[q] = "SLEEPING" /\ k.state[q] = "RUNNABLE")
  BY Fields DEF Awakens
<1>2. k.state[p] # "RUNNABLE"
  BY <1>1
<1>3. Alters(k, e, p) /\ e.state[p] = v /\ ~e.schedlock
  <2>1. k \in KRecord
    BY <1>1
  <2> QED
    BY <2>1, LeavingAlters
<1>4. QInv(e) /\ (QAll(k) => QAll(e))
  BY <1>1, <1>2, <1>3, IdleAlters
<1>5. e \in KRecord /\ e.qlevel = k.qlevel /\ \A q \in Proc \ {p} : e.state[q] = k.state[q]
  BY <1>3 DEF Alters
<1>6. K' = e /\ state' = e.state /\ qlevel' = e.qlevel /\ schedlock' = e.schedlock
  BY <1>5, Becomes
<1>7. Queueing(p)
  BY <1>1, <1>4, <1>5, <1>6 DEF Queueing, ChangesOnly
<1>8. Peaceably => Peaceably'
  BY <1>1, <1>3, <1>4, <1>5, <1>6 DEF Peaceably
<1> QED
  BY <1>3, <1>6, <1>7, <1>8

LEMMA SelfAwakens ==
  ASSUME MlfqInv
  PROVE  Awakens(K, K)
BY DEF Awakens, MlfqInv

LEMMA Sleeps ==
  ASSUME MlfqInv, NEW p \in Proc, cpu = p, NEW ch, Sleep(K, p, ch)
  PROVE  /\ Queueing(p) /\ state'[p] = "SLEEPING" /\ ~schedlock' /\ (Peaceably => Peaceably')
         /\ cpu' = NoProc /\ level' = 0 /\ window' = FALSE
<1>1. PICK e : e = Leaving(K, p, "SLEEPING")
  OBVIOUS
<1>2. Become(e) /\ cpu' = NoProc /\ level' = 0 /\ window' = FALSE
  BY <1>1 DEF Sleep, Sched, Leaving
<1>3. state[p] = "RUNNING"
  BY DEF MlfqInv, RunInv, Proc, NoProc
<1>4. PICK v \in States : v = "SLEEPING" /\ v # "RUNNABLE"
  BY DEF States
<1>5. PICK k : k = K
  OBVIOUS
<1>6. Awakens(K, k) /\ e = Leaving(k, p, v)
  BY <1>1, <1>4, <1>5, SelfAwakens
<1>7. Queueing(p) /\ state'[p] = v /\ ~schedlock' /\ (Peaceably => Peaceably')
  BY <1>2, <1>3, <1>4, <1>6, Leaves
<1> QED
  BY <1>2, <1>4, <1>7

LEMMA Exits ==
  ASSUME MlfqInv, NEW p \in Proc, Exit(p)
  PROVE  /\ Queueing(p) /\ state'[p] = "ZOMBIE" /\ ~schedlock' /\ (Peaceably => Peaceably')
         /\ cpu' = NoProc /\ level' = 0 /\ window' = FALSE
<1> DEFINE zombieChild == \E c \in Children(p) : state[c] = "ZOMBIE"
           k1 == Wakeup1(K, On(parent[p]))
           k2 == IF zombieChild THEN Wakeup1(k1, On(initproc)) ELSE k1
<1>1. K \in KRecord /\ QInv(K)
  BY DEF MlfqInv
<1>2. PICK a : a = k1
  OBVIOUS
<1>3. Awakens(K, a)
  BY <1>1, <1>2, Wakeup1Awakens
<1>4. PICK b : b = Wakeup1(a, On(initproc))
  OBVIOUS
<1>5. Awakens(K, b)
  <2>1. a \in KRecord /\ QInv(a)
    BY <1>3 DEF Awakens
  <2>2. Awakens(a, b)
    BY <1>4, <2>1, Wakeup1Awakens
  <2> QED
    BY <1>3, <2>2, AwakensTwice
<1>6. PICK k : k = k2
  OBVIOUS
<1>7. k = a \/ k = b
  BY <1>2, <1>4, <1>6
<1>8. PICK e : e = Leaving(k, p, "ZOMBIE")
  OBVIOUS
<1>9. Become(e) /\ cpu' = NoProc /\ level' = 0 /\ window' = FALSE /\ cpu = p
  BY <1>6, <1>8 DEF Exit, Sched, Leaving, At
<1>10. state[p] = "RUNNING"
  BY <1>9 DEF MlfqInv, RunInv, Proc, NoProc
<1>11. PICK v \in States : v = "ZOMBIE" /\ v # "RUNNABLE"
  BY DEF States
<1>12. Awakens(K, k) /\ e = Leaving(k, p, v)
  BY <1>3, <1>5, <1>7, <1>8, <1>11
<1>13. Queueing(p) /\ state'[p] = v /\ ~schedlock' /\ (Peaceably => Peaceably')
  BY <1>9, <1>10, <1>11, <1>12, Leaves
<1> QED
  BY <1>9, <1>11, <1>13

-----------------------------------------------------------------------------
(* The tick: a boost, and the sleepers of sys_sleep().                     *)

Ticked(w) ==
  /\ w \in KRecord /\ QInv(w) /\ (QAll(K) => QAll(w)) /\ w.schedlock = schedlock
  /\ \A q \in Proc : w.state[q] = state[q] \/ (state[q] = "SLEEPING" /\ w.state[q] = "RUNNABLE")
  /\ \A q \in Proc \ {cpu} : w.qlevel[q] = qlevel[q] \/ w.qlevel[q] = 0
  /\ cpu \in Proc => w.qlevel[cpu] = qlevel[cpu] \/ w.tq[cpu] = 1

LEMMA Ticks ==
  ASSUME MlfqInv, ~LongLocks, TimerAllowed
  PROVE  Ticked(Tick.k) /\ Tick.ticks \in 0 .. BoostTicks - 1
<1> DEFINE boost == ticks + 1 = BoostTicks
           boosted == IF boost THEN Prboost(K, cpu) ELSE K
<1>1. /\ Tick.k = Wakeup1(boosted, On(TicksChan))
      /\ Tick.ticks = IF boost THEN 0 ELSE ticks + 1
  BY DEF Tick
<1>2. K \in KRecord /\ QInv(K) /\ cpu \in Proc \cup {NoProc}
  BY DEF MlfqInv, OtherTypes
<1>3. PICK b : b = boosted
  OBVIOUS
<1>4. Ticked(b)
  <2>1. CASE boost
    <3>1. ~K.schedlock
      BY <2>1, Fields DEF TimerAllowed
    <3>2. cpu \in Proc => K.state[cpu] = "RUNNING"
      BY Fields DEF MlfqInv, RunInv, Proc, NoProc
    <3>3. Boosted(K, cpu, Prboost(K, cpu))
      BY <1>2, <3>1, <3>2, PrboostBoosts
    <3>4. Boosted(K, cpu, b)
      BY <1>3, <2>1, <3>3
    <3> QED
      BY <3>4, Fields DEF Boosted, Ticked
  <2>2. CASE ~boost
    <3>1. b = K
      BY <1>3, <2>2
    <3> QED
      BY <1>2, <3>1, Fields DEF Ticked
  <2> QED
    BY <2>1, <2>2
<1>5. PICK w : w = Wakeup1(b, On(TicksChan))
  OBVIOUS
<1>6. Awakens(b, w)
  <2>1. b \in KRecord /\ QInv(b)
    BY <1>4 DEF Ticked
  <2> QED
    BY <1>5, <2>1, Wakeup1Awakens
<1>7. \A q \in Proc : w.state[q] = state[q] \/ (state[q] = "SLEEPING" /\ w.state[q] = "RUNNABLE")
  <2>1. \A q \in Proc : b.state[q] = state[q] \/ (state[q] = "SLEEPING" /\ b.state[q] = "RUNNABLE")
    BY <1>4 DEF Ticked
  <2>2. \A q \in Proc : w.state[q] = b.state[q] \/ (b.state[q] = "SLEEPING" /\ w.state[q] = "RUNNABLE")
    BY <1>6 DEF Awakens
  <2> QED
    BY <2>1, <2>2
<1>8. Ticked(w)
  BY <1>4, <1>6, <1>7 DEF Ticked, Awakens
<1>9. Tick.ticks \in 0 .. BoostTicks - 1
  <2>1. BoostTicks \in Nat \ {0} /\ ticks \in 0 .. BoostTicks - 1
    BY SizesAssumption DEF SizesAssumption, MlfqInv, OtherTypes
  <2> QED
    BY <1>1, <2>1
<1> QED
  BY <1>1, <1>3, <1>5, <1>8, <1>9

(* The interrupt of a process, up to the sched() of yield().               *)
LEMMA TimerYields ==
  ASSUME MlfqInv, ~LongLocks, TimerAllowed, cpu # NoProc, ~Tick.k.schedlock,
         Become(YieldEnqueue([Tick.k EXCEPT !.tq[cpu] = @ - 1], cpu))
  PROVE  /\ Queueing(cpu) /\ state'[cpu] = "RUNNABLE" /\ ~schedlock /\ ~schedlock'
         /\ \A q \in Proc \ {cpu} : state'[q] = Tick.k.state[q]
         /\ (Peaceably => Peaceably')
<1>1. PICK p \in Proc : p = cpu
  BY DEF MlfqInv, OtherTypes
<1>2. PICK w : w = Tick.k
  OBVIOUS
<1>3. Ticked(w) /\ ~w.schedlock
  BY <1>2, Ticks
<1>4. /\ w \in KRecord /\ QInv(w) /\ (QAll(K) => QAll(w))
      /\ w.schedlock = schedlock /\ state[p] = "RUNNING"
  BY <1>1, <1>3 DEF Ticked, MlfqInv, RunInv
<1>5. \A q \in Proc : w.state[q] = state[q] \/ (state[q] = "SLEEPING" /\ w.state[q] = "RUNNABLE")
  BY <1>3 DEF Ticked
<1>6. \A q \in Proc \ {p} : w.qlevel[q] = qlevel[q] \/ w.qlevel[q] = 0
  BY <1>1, <1>3 DEF Ticked
<1>7. w.qlevel[p] = qlevel[p] \/ w.tq[p] = 1
  BY <1>1, <1>3 DEF Ticked
<1>8. PICK t \in Int : t = w.tq[p] - 1
  BY <1>4 DEF KRecord
<1>9. PICK y : y = Quantumed(w, p, t)
  OBVIOUS
<1>10. Become(YieldEnqueue(y, p))
  BY <1>1, <1>2, <1>8, <1>9 DEF Quantumed
<1>11. /\ Alters(w, y, p) /\ y.tq[p] = t /\ y.state = w.state /\ y.schedlock = w.schedlock
  BY <1>4, <1>9, QuantumedAlters
<1>12. w.state[p] = "RUNNING" /\ y \in KRecord /\ y.qlevel = w.qlevel
  BY <1>4, <1>5, <1>11 DEF Alters
<1>13. QInv(y) /\ NotQueued(y, p) /\ (QAll(w) => QAllBut(y, p))
  BY <1>4, <1>11, <1>12, IdleAlters
<1>14. PICK e : e = YieldEnqueue(y, p)
  OBVIOUS
<1>15. Yielded(y, p, e)
  BY <1>12, <1>13, <1>14, YieldEnqueueYields
<1>16. /\ e \in KRecord /\ QInv(e) /\ (QAll(K) => QAll(e)) /\ e.schedlock = schedlock
  BY <1>4, <1>11, <1>13, <1>15 DEF Yielded
<1>17. /\ \A q \in Proc \ {p} : e.state[q] = w.state[q] /\ e.qlevel[q] = w.qlevel[q]
       /\ w.qlevel[p] \in Levels \/ t <= 0 => e.qlevel[p] \in Levels
  BY <1>11, <1>12, <1>15 DEF Yielded
<1>18. K' = e /\ state' = e.state /\ qlevel' = e.qlevel /\ schedlock' = e.schedlock
  BY <1>10, <1>14, <1>16, Becomes
<1>19. Queueing(p) /\ state'[p] = "RUNNABLE"
  <2>1. Queueing(p)
    BY <1>5, <1>16, <1>17, <1>18 DEF Queueing, ChangesOnly
  <2>2. e.state[p] = "RUNNABLE"
    BY <1>15 DEF Yielded
  <2> QED
    BY <1>18, <2>1, <2>2
<1>20. ASSUME Peaceably
       PROVE  Peaceably'
  <2>1. 0 \in Levels /\ \A q \in Proc : qlevel[q] \in Levels
    BY <1>20 DEF Peaceably, Levels
  <2>2. w.qlevel[p] \in Levels \/ t <= 0
    <3>1. w.tq[p] = 1 => t <= 0
      BY <1>8
    <3> QED
      BY <1>7, <2>1, <3>1
  <2>3. \A q \in Proc : e.qlevel[q] \in Levels
    BY <1>6, <1>17, <2>1, <2>2
  <2>4. e.qlevel \in [Proc -> Levels]
    <3>1. e.qlevel \in [Proc -> LevelsAndBefore]
      BY <1>16 DEF KRecord
    <3> QED
      BY <2>3, <3>1
  <2> QED
    BY <1>16, <1>18, <1>20, <2>4 DEF Peaceably
<1>21. \A q \in Proc \ {p} : state'[q] = w.state[q]
  BY <1>17, <1>18
<1> QED
  BY <1>1, <1>2, <1>3, <1>4, <1>16, <1>18, <1>19, <1>20, <1>21

LEMMA TimerTicks ==
  ASSUME MlfqInv, ~LongLocks, TimerAllowed, Become(Tick.k)
  PROVE  /\ (\A x : Queueing(x)) /\ schedlock' = schedlock /\ state' = Tick.k.state
         /\ Peaceably /\ cpu \notin Proc => Peaceably'
<1>1. PICK w : w = Tick.k
  OBVIOUS
<1>2. Ticked(w)
  BY <1>1, Ticks
<1>3. /\ w \in KRecord /\ QInv(w) /\ (QAll(K) => QAll(w)) /\ w.schedlock = schedlock
      /\ \A q \in Proc : w.state[q] = state[q] \/ (state[q] = "SLEEPING" /\ w.state[q] = "RUNNABLE")
  BY <1>2 DEF Ticked
<1>4. K' = w /\ state' = w.state /\ qlevel' = w.qlevel /\ schedlock' = w.schedlock
  BY <1>1, <1>3, Becomes
<1>5. \A x : Queueing(x)
  BY <1>3, <1>4 DEF Queueing, ChangesOnly
<1>6. ASSUME Peaceably, cpu \notin Proc
      PROVE  Peaceably'
  <2>1. 0 \in Levels /\ \A q \in Proc : qlevel[q] \in Levels
    BY <1>6 DEF Peaceably, Levels
  <2>2. \A q \in Proc : w.qlevel[q] = qlevel[q] \/ w.qlevel[q] = 0
    BY <1>2, <1>6 DEF Ticked
  <2>3. w.qlevel \in [Proc -> LevelsAndBefore]
    BY <1>3 DEF KRecord
  <2>4. w.qlevel \in [Proc -> Levels]
    BY <2>1, <2>2, <2>3
  <2> QED
    BY <1>3, <1>4, <1>6, <2>4 DEF Peaceably
<1> QED
  BY <1>1, <1>3, <1>4, <1>5, <1>6

-----------------------------------------------------------------------------
(* The other steps that move a process.                                    *)

LEMMA Dispatches ==
  ASSUME MlfqInv, SchedulerDispatch
  PROVE  /\ cpu' \in Proc /\ state[cpu'] = "RUNNABLE" /\ state'[cpu'] = "RUNNING"
         /\ Queueing(cpu') /\ (Peaceably => Peaceably')
<1>1. PICK p : p = Head(mlfq[level])
  OBVIOUS
<1>2. PICK e : e = Dispatched(K, level, Tail(K.mlfq[level]), p, "RUNNING")
  OBVIOUS
<1>3. cpu' = p /\ Become(e) /\ K.mlfq[level] # <<>> /\ p = Head(K.mlfq[level])
  BY <1>1, <1>2, Fields DEF SchedulerDispatch, Dispatched, Dequeue
<1>4. PICK lev \in LevelsAndBefore : lev = level
  BY LevelsAre DEF MlfqInv, OtherTypes
<1>5. PICK k \in KRecord : k = K /\ QInv(k)
  BY DEF MlfqInv
<1>6. e = Dispatched(k, lev, Tail(k.mlfq[lev]), p, "RUNNING")
  BY <1>2, <1>4, <1>5
<1>7. k.mlfq[lev] # <<>> /\ p = Head(k.mlfq[lev])
  BY <1>3, <1>4, <1>5
<1>8. /\ p \in Proc /\ k.state[p] = "RUNNABLE"
      /\ e \in KRecord /\ QInv(e) /\ (QAll(k) => QAll(e))
      /\ e.qlevel = k.qlevel /\ e.schedlock = k.schedlock
      /\ \A q \in Proc : e.state[q] = IF q = p THEN "RUNNING" ELSE k.state[q]
  BY <1>5, <1>6, <1>7, DispatchKeeps
<1>9. K' = e /\ state' = e.state /\ qlevel' = e.qlevel /\ schedlock' = e.schedlock
  BY <1>3, <1>8, Becomes
<1>10. k.state = state /\ k.qlevel = qlevel /\ k.schedlock = schedlock
  BY <1>5, Fields
<1>11. Queueing(p) /\ state[p] = "RUNNABLE" /\ state'[p] = "RUNNING"
  BY <1>8, <1>9, <1>10 DEF Queueing, ChangesOnly
<1>12. Peaceably => Peaceably'
  BY <1>5, <1>8, <1>9, <1>10 DEF Peaceably
<1> QED
  BY <1>3, <1>8, <1>11, <1>12

(* A process that is not RUNNABLE changes its fields and is linked nowhere.*)
LEMMA AltersQueueing ==
  ASSUME MlfqInv, NEW p \in Proc, state[p] # "RUNNABLE", NEW e, Alters(K, e, p), Become(e)
  PROVE  /\ Queueing(p) /\ state'[p] = e.state[p] /\ schedlock' = e.schedlock
         /\ ~e.schedlock /\ e.state[p] # "RUNNABLE" => (Peaceably => Peaceably')
<1>1. PICK k \in KRecord : k = K /\ QInv(k)
  BY DEF MlfqInv
<1>2. k.state = state /\ k.qlevel = qlevel /\ k.schedlock = schedlock
  BY <1>1, Fields
<1>3. Alters(k, e, p) /\ k.state[p] # "RUNNABLE"
  BY <1>1, <1>2
<1>4. QInv(e) /\ (QAll(k) /\ e.state[p] # "RUNNABLE" => QAll(e))
  BY <1>1, <1>3, IdleAlters
<1>5. e \in KRecord /\ e.qlevel = k.qlevel /\ \A q \in Proc \ {p} : e.state[q] = k.state[q]
  BY <1>3 DEF Alters
<1>6. K' = e /\ state' = e.state /\ qlevel' = e.qlevel /\ schedlock' = e.schedlock
  BY <1>5, Becomes
<1>7. Queueing(p)
  BY <1>2, <1>4, <1>5, <1>6 DEF Queueing, ChangesOnly
<1>8. ~e.schedlock /\ e.state[p] # "RUNNABLE" => (Peaceably => Peaceably')
  BY <1>1, <1>2, <1>4, <1>5, <1>6 DEF Peaceably
<1> QED
  BY <1>6, <1>7, <1>8

LEMMA FirstUnusedIn ==
  ASSUME Unused # {}
  PROVE  FirstUnused \in Proc /\ state[FirstUnused] = "UNUSED"
<1>1. PICK S : S = Unused
  OBVIOUS
<1>2. S \in SUBSET Nat /\ S # {}
  BY <1>1 DEF Unused, Proc
<1>3. PICK d \in S : \A e \in S : d <= e
  BY <1>2, LeastOf
<1>4. FirstUnused = CHOOSE q \in S : \A r \in S : q <= r
  BY <1>1 DEF FirstUnused
<1>5. FirstUnused \in S
  BY <1>3, <1>4, Zenon
<1> QED
  BY <1>1, <1>5 DEF Unused

LEMMA Forks ==
  ASSUME MlfqInv, NEW p \in Proc, ForkAlloc(p)
  PROVE  /\ FirstUnused \in Proc /\ state[FirstUnused] = "UNUSED"
         /\ state'[FirstUnused] = "EMBRYO" /\ Queueing(FirstUnused)
         /\ (Peaceably => Peaceably')
<1>1. FirstUnused \in Proc /\ state[FirstUnused] = "UNUSED"
  BY FirstUnusedIn DEF ForkAlloc
<1>2. PICK f \in Proc : f = FirstUnused
  BY <1>1
<1>3. PICK k \in KRecord : k = K
  BY DEF MlfqInv
<1>4. PICK e : e = Born(k, f)
  OBVIOUS
<1>5. Become(e)
  BY <1>2, <1>3, <1>4 DEF ForkAlloc, Born
<1>6. Alters(k, e, f) /\ e.state[f] = "EMBRYO" /\ e.schedlock = k.schedlock
  BY <1>4, BornAlters
<1>7. /\ Queueing(f) /\ state'[f] = e.state[f]
      /\ ~e.schedlock /\ e.state[f] # "RUNNABLE" => (Peaceably => Peaceably')
  BY <1>1, <1>2, <1>3, <1>5, <1>6, AltersQueueing
<1>8. Peaceably => ~e.schedlock
  BY <1>3, <1>6, Fields DEF Peaceably
<1> QED
  BY <1>1, <1>2, <1>6, <1>7, <1>8

(* A slot is given back.                                                   *)
LEMMA Frees ==
  ASSUME MlfqInv, NEW c \in Proc, state[c] # "RUNNABLE", Become([K EXCEPT !.state[c] = "UNUSED"])
  PROVE  Queueing(c) /\ state'[c] = "UNUSED" /\ (Peaceably => Peaceably')
<1>1. PICK k \in KRecord : k = K
  BY DEF MlfqInv
<1>2. PICK e : e = InState(k, c, "UNUSED")
  OBVIOUS
<1>3. Become(e)
  BY <1>1, <1>2 DEF InState
<1>4. Alters(k, e, c) /\ e.state[c] = "UNUSED" /\ e.schedlock = k.schedlock
  <2>1. PICK v \in States : v = "UNUSED"
    BY DEF States
  <2>2. e = InState(k, c, v)
    BY <1>2, <2>1
  <2> QED
    BY <2>1, <2>2, StateAlters
<1>5. /\ Queueing(c) /\ state'[c] = e.state[c]
      /\ ~e.schedlock /\ e.state[c] # "RUNNABLE" => (Peaceably => Peaceably')
  BY <1>1, <1>3, <1>4, AltersQueueing
<1>6. Peaceably => ~e.schedlock
  BY <1>1, <1>4, Fields DEF Peaceably
<1> QED
  BY <1>4, <1>5, <1>6

LEMMA Kills ==
  ASSUME MlfqInv, NEW t \in Proc, Become(KillState(K, t))
  PROVE  \A x : Queueing(x)
<1>1. PICK k \in KRecord : k = K /\ QInv(k)
  BY DEF MlfqInv
<1>2. PICK e : e = KillState(k, t)
  OBVIOUS
<1>3. /\ Alters(k, e, t)
      /\ e.state[t] = IF k.state[t] = "SLEEPING" THEN "RUNNABLE" ELSE k.state[t]
  BY <1>2, KillStateAlters
<1>4. /\ e \in KRecord /\ e.mlfq = k.mlfq /\ e.qlevel = k.qlevel
      /\ \A q \in Proc \ {t} : e.state[q] = k.state[q]
  BY <1>3 DEF Alters
<1>5. \A q \in Proc : k.state[q] = "RUNNABLE" => e.state[q] = "RUNNABLE"
  BY <1>3, <1>4
<1>6. QInv(e)
  <2>1. \A l \in LevelsAndBefore : Range(k.mlfq[l]) \subseteq Proc
    BY DEF KRecord, Range
  <2> QED
    BY <1>1, <1>4, <1>5, <2>1 DEF QInv
<1>7. K' = e /\ state' = e.state
  <2>1. Become(e)
    BY <1>1, <1>2
  <2> QED
    BY <1>4, <2>1, Becomes
<1>8. k.state = state
  BY <1>1, Fields
<1>9. \A x : ChangesOnly(x)
  BY <1>3, <1>4, <1>7, <1>8 DEF ChangesOnly
<1> QED
  BY <1>4, <1>6, <1>7, <1>9 DEF Queueing

(* A process that is not RUNNABLE is made so and linked.                   *)
LEMMA LinkedQueueing ==
  ASSUME MlfqInv, NEW p \in Proc, state[p] # "RUNNABLE", NEW r, Alters(K, r, p),
         r.state[p] = "RUNNABLE", NEW e, Links(r, e, p, 0), Become(e)
  PROVE  /\ Queueing(p) /\ state'[p] = "RUNNABLE" /\ schedlock' = r.schedlock
         /\ ~r.schedlock => (Peaceably => Peaceably')
<1>1. PICK k \in KRecord : k = K /\ QInv(k)
  BY DEF MlfqInv
<1>2. k.state = state /\ k.qlevel = qlevel /\ k.schedlock = schedlock
  BY <1>1, Fields
<1>3. Alters(k, r, p) /\ k.state[p] # "RUNNABLE"
  BY <1>1, <1>2
<1>4. QInv(r) /\ NotQueued(r, p) /\ (QAll(k) => QAllBut(r, p))
  BY <1>1, <1>3, IdleAlters
<1>5. r \in KRecord /\ r.qlevel = k.qlevel /\ \A q \in Proc \ {p} : r.state[q] = k.state[q]
  BY <1>3 DEF Alters
<1>6. 0 \in LevelsAndBefore /\ 0 \in Levels
  BY DEF LevelsAndBefore, Levels
<1>7. QInv(e) /\ (QAll(k) => QAll(e))
  BY <1>4, <1>5, <1>6, LinksKeep
<1>8. e \in KRecord /\ e.state = r.state /\ e.schedlock = r.schedlock
  BY DEF Links
<1>9. K' = e /\ state' = e.state /\ qlevel' = e.qlevel /\ schedlock' = e.schedlock
  BY <1>8, Becomes
<1>10. Queueing(p)
  BY <1>2, <1>5, <1>7, <1>8, <1>9 DEF Queueing, ChangesOnly
<1>11. ASSUME Peaceably, ~r.schedlock
       PROVE  Peaceably'
  <2>1. e.qlevel = [k.qlevel EXCEPT ![p] = 0]
    BY <1>5 DEF Links
  <2>2. e.qlevel \in [Proc -> Levels]
    BY <1>2, <1>6, <1>11, <2>1 DEF Peaceably
  <2> QED
    BY <1>1, <1>7, <1>8, <1>9, <1>11, <2>2 DEF Peaceably
<1> QED
  BY <1>8, <1>9, <1>10, <1>11

LEMMA ForkLinks ==
  ASSUME MlfqInv, NEW c \in Proc, state[c] = "EMBRYO",
         Become(Enqueue([K EXCEPT !.state[c] = "RUNNABLE"], c, 0))
  PROVE  Queueing(c) /\ state'[c] = "RUNNABLE" /\ (Peaceably => Peaceably')
<1>1. PICK k \in KRecord : k = K
  BY DEF MlfqInv
<1>2. PICK r : r = InState(k, c, "RUNNABLE")
  OBVIOUS
<1>3. PICK e : e = Enqueue(r, c, 0)
  OBVIOUS
<1>4. Become(e)
  BY <1>1, <1>2, <1>3 DEF InState
<1>5. Alters(k, r, c) /\ r.state[c] = "RUNNABLE" /\ r.schedlock = k.schedlock
  <2>1. PICK v \in States : v = "RUNNABLE"
    BY DEF States
  <2>2. r = InState(k, c, v)
    BY <1>2, <2>1
  <2> QED
    BY <2>1, <2>2, StateAlters
<1>6. Links(r, e, c, 0)
  <2>1. r \in KRecord /\ 0 \in LevelsAndBefore
    BY <1>5, LevelsAre DEF Alters
  <2> QED
    BY <1>3, <2>1, EnqueueLinks
<1>7. Queueing(c) /\ state'[c] = "RUNNABLE" /\ (~r.schedlock => (Peaceably => Peaceably'))
  BY <1>1, <1>4, <1>5, <1>6, LinkedQueueing
<1>8. Peaceably => ~r.schedlock
  BY <1>1, <1>5, Fields DEF Peaceably
<1> QED
  BY <1>7, <1>8

LEMMA Unlocks ==
  ASSUME MlfqInv, NEW p \in Proc, SchedulerUnlock(p)
  PROVE  Queueing(p) /\ state'[p] = "RUNNABLE" /\ ~schedlock' /\ (Peaceably => Peaceably')
<1>1. PICK k \in KRecord : k = K
  BY DEF MlfqInv
<1>2. PICK r : r = Unlocking(k, p)
  OBVIOUS
<1>3. PICK e : e = Movefront(r, p)
  OBVIOUS
<1>4. Become(e)
  BY <1>1, <1>2, <1>3 DEF SchedulerUnlock, Unlocking
<1>5. Alters(k, r, p) /\ r.state[p] = "RUNNABLE" /\ ~r.schedlock
  BY <1>2, UnlockingAlters
<1>6. Links(r, e, p, 0)
  <2>1. r \in KRecord
    BY <1>5 DEF Alters
  <2> QED
    BY <1>3, <2>1, MovefrontLinks
<1>7. state[p] = "RUNNING"
  BY DEF SchedulerUnlock, At, MlfqInv, RunInv, Proc, NoProc
<1> QED
  BY <1>1, <1>4, <1>5, <1>6, <1>7, LinkedQueueing

LEMMA Yields ==
  ASSUME MlfqInv, NEW p \in Proc, cpu = p, Become(YieldEnqueue(K, p))
  PROVE  Queueing(p) /\ state'[p] = "RUNNABLE" /\ (Peaceably => Peaceably')
<1>1. PICK k \in KRecord : k = K /\ QInv(k)
  BY DEF MlfqInv
<1>2. k.state = state /\ k.qlevel = qlevel /\ k.schedlock = schedlock
  BY <1>1, Fields
<1>3. k.state[p] = "RUNNING"
  BY <1>2 DEF MlfqInv, RunInv, Proc, NoProc
<1>4. NotQueued(k, p)
  BY <1>1, <1>3, IdleNotQueued
<1>5. PICK e : e = YieldEnqueue(k, p)
  OBVIOUS
<1>6. Yielded(k, p, e)
  BY <1>1, <1>4, <1>5, YieldEnqueueYields
<1>7. /\ e \in KRecord /\ QInv(e) /\ (QAllBut(k, p) => QAll(e)) /\ e.schedlock = schedlock
      /\ \A q \in Proc \ {p} : e.state[q] = state[q] /\ e.qlevel[q] = qlevel[q]
      /\ qlevel[p] \in Levels => e.qlevel[p] \in Levels
  BY <1>2, <1>6 DEF Yielded
<1>8. K' = e /\ state' = e.state /\ qlevel' = e.qlevel /\ schedlock' = e.schedlock
  <2>1. Become(e)
    BY <1>1, <1>5
  <2> QED
    BY <1>7, <2>1, Becomes
<1>9. Queueing(p) /\ state'[p] = "RUNNABLE"
  <2>1. Queueing(p)
    BY <1>7, <1>8 DEF Queueing, ChangesOnly
  <2>2. e.state[p] = "RUNNABLE"
    BY <1>6 DEF Yielded
  <2> QED
    BY <1>8, <2>1, <2>2
<1>10. ASSUME Peaceably
       PROVE  Peaceably'
  <2>1. QAll(e)
    <3>1. QAll(k) /\ \A q \in Proc : q # NoProc
      BY <1>1, <1>10 DEF Peaceably, Proc, NoProc
    <3>2. QAllBut(k, p)
      BY <3>1 DEF QAll, QAllBut
    <3> QED
      BY <1>7, <3>2
  <2>2. \A q \in Proc : e.qlevel[q] \in Levels
    BY <1>7, <1>10 DEF Peaceably
  <2>3. e.qlevel \in [Proc -> Levels]
    <3>1. e.qlevel \in [Proc -> LevelsAndBefore]
      BY <1>7 DEF KRecord
    <3> QED
      BY <2>2, <3>1
  <2> QED
    BY <1>7, <1>8, <1>10, <2>1, <2>3 DEF Peaceably
<1> QED
  BY <1>9, <1>10

LEMMA Reprioritizes ==
  ASSUME MlfqInv, NEW p \in Proc, SysSetPriority(p)
  PROVE  (\A x : Queueing(x)) /\ (Peaceably => Peaceably')
<1>1. PICK t \in Proc, v \in Int : Become(SetPriority(K, p, t, v))
  BY WorkloadAssumption DEF SysSetPriority, WorkloadAssumption
<1>2. PICK k \in KRecord : k = K /\ QInv(k)
  BY DEF MlfqInv
<1>3. PICK e : e = SetPriority(k, p, t, v)
  OBVIOUS
<1>4. Reprioritized(k, e)
  BY <1>2, <1>3, SetPriorityKeeps
<1>5. /\ e \in KRecord /\ QInv(e) /\ (QAll(k) => QAll(e))
      /\ e.state = state /\ e.schedlock = schedlock /\ e.qlevel = qlevel
  BY <1>2, <1>4, Fields DEF Reprioritized
<1>6. K' = e /\ state' = e.state /\ qlevel' = e.qlevel /\ schedlock' = e.schedlock
  <2>1. Become(e)
    BY <1>1, <1>2, <1>3
  <2> QED
    BY <1>5, <2>1, Becomes
<1>7. \A x : Queueing(x)
  BY <1>5, <1>6 DEF Queueing, ChangesOnly
<1>8. Peaceably => Peaceably'
  BY <1>2, <1>5, <1>6 DEF Peaceably
<1> QED
  BY <1>7, <1>8

LEMMA Locks ==
  ASSUME MlfqInv, NEW p \in Proc, SchedulerLock(p)
  PROVE  \A x : Queueing(x)
<1>1. PICK k \in KRecord : k = K /\ QInv(k)
  BY DEF MlfqInv
<1>2. PICK e : e = WithLock(k, TRUE)
  OBVIOUS
<1>3. e \in KRecord /\ QInv(e) /\ e.state = k.state
  BY <1>1, <1>2, WithLockKeeps
<1>4. Become(e)
  BY <1>1, <1>2 DEF SchedulerLock, WithLock
<1>5. K' = e /\ state' = state
  BY <1>1, <1>3, <1>4, Becomes, Fields
<1> QED
  BY <1>3, <1>5 DEF Queueing, ChangesOnly

-----------------------------------------------------------------------------
(* Each step keeps the invariant.                                          *)

(* The process on the CPU stays there, RUNNING, or leaves it.              *)
LEMMA RunKept ==
  ASSUME MlfqInv, NEW x, Queueing(x),
         cpu' = NoProc \/ (cpu' = cpu /\ (x \in Proc => state[x] # "RUNNING"))
  PROVE  RunInv'
<1>1. CASE cpu' = NoProc
  BY <1>1 DEF RunInv
<1>2. CASE cpu' # NoProc
  <2>1. cpu' = cpu /\ cpu \in Proc /\ state[cpu] = "RUNNING" /\ cpu # x
    BY <1>2 DEF MlfqInv, RunInv, OtherTypes
  <2>2. state'[cpu] = "RUNNING"
    BY <2>1 DEF Queueing, ChangesOnly
  <2> QED
    BY <2>1, <2>2 DEF RunInv
<1> QED
  BY <1>1, <1>2

(* A step outside fork() leaves every EMBRYO to its maker.                 *)
LEMMA ForkKept ==
  ASSUME MlfqInv, NEW x, Queueing(x), x \in Proc => state[x] # "EMBRYO",
         np' = np, \A p \in Proc : pc'[p] = "fork2" => pc[p] = "fork2"
  PROVE  ForkInv'
<1> SUFFICES ASSUME NEW p \in Proc, pc'[p] = "fork2"
             PROVE  /\ np[p] \in Proc /\ state'[np[p]] = "EMBRYO"
                    /\ \A q \in Proc : pc'[q] = "fork2" /\ np[q] = np[p] => q = p
  BY DEF ForkInv
<1>1. pc[p] = "fork2"
  OBVIOUS
<1>2. /\ np[p] \in Proc /\ state[np[p]] = "EMBRYO"
      /\ \A q \in Proc : pc[q] = "fork2" /\ np[q] = np[p] => q = p
  BY <1>1 DEF MlfqInv, ForkInv
<1>3. state'[np[p]] = "EMBRYO"
  BY <1>2 DEF Queueing, ChangesOnly
<1> QED
  BY <1>2, <1>3

LEMMA InvKept ==
  ASSUME NEW x, Queueing(x), OtherTypes', RunInv', ForkInv'
  PROVE  MlfqInv'
BY DEF MlfqInv, Queueing

(* Steps that only move the running process on.                            *)
Moves(p, l) ==
  /\ cpu = p /\ Goto(p, l) /\ UNCHANGED <<kvars, cpuvars, ticks, chan, parent, killed, np>>

LEMMA MovesKeep ==
  ASSUME MlfqInv, NEW p \in Proc, NEW l \in Places \ {"fork2"}, Moves(p, l)
  PROVE  MlfqInv' /\ (Peaceably => Peaceably')
<1>1. K' = K /\ (\A x : Queueing(x)) /\ schedlock' = schedlock /\ qlevel' = qlevel
  BY Stays DEF Moves, kvars
<1>x. PICK x : x \notin Proc /\ Queueing(x)
  BY <1>1 DEF Proc
<1>2. OtherTypes'
  BY DEF Moves, Goto, OtherTypes, MlfqInv, cpuvars
<1>3. RunInv'
  BY <1>x, RunKept DEF Moves, cpuvars
<1>4. ForkInv'
  <2>1. \A q \in Proc : pc'[q] = "fork2" => pc[q] = "fork2"
    BY DEF Moves, Goto, MlfqInv, OtherTypes
  <2> QED
    BY <1>x, <2>1, ForkKept DEF Moves
<1>5. Peaceably => Peaceably'
  BY <1>1 DEF Peaceably
<1> QED
  BY <1>1, <1>2, <1>3, <1>4, <1>5, InvKept

(* The running process leaves the CPU, to go on at l.                      *)
Parts(p, l) ==
  /\ cpu = p /\ cpu' = NoProc /\ level' = 0 /\ window' = FALSE
  /\ pc' = [pc EXCEPT ![p] = l] /\ chan' \in [Proc -> 0 .. NPROC + 2]
  /\ parent' \in [Proc -> Proc \cup {NoProc}] /\ np' = np /\ killed' = killed

LEMMA PartsKeep ==
  ASSUME MlfqInv, NEW p \in Proc, NEW l \in Places, l = "fork2" => pc[p] = "fork2",
         Parts(p, l), Queueing(p), ticks' \in 0 .. BoostTicks - 1
  PROVE  MlfqInv'
<1>1. OtherTypes'
  <2>1. pc' \in [Proc -> Places] /\ cpu' \in Proc \cup {NoProc} /\ level' \in Levels
    BY DEF Parts, OtherTypes, MlfqInv, Levels
  <2>2. window' \in BOOLEAN /\ np' \in [Proc -> Proc \cup {NoProc}] /\ killed' \in [Proc -> BOOLEAN]
    BY DEF Parts, OtherTypes, MlfqInv
  <2> QED
    BY <2>1, <2>2 DEF Parts, OtherTypes
<1>2. RunInv'
  BY RunKept DEF Parts
<1>3. ForkInv'
  <2>1. \A q \in Proc : pc'[q] = "fork2" => pc[q] = "fork2"
    BY DEF Parts, MlfqInv, OtherTypes
  <2>2. state[p] # "EMBRYO" /\ np' = np
    BY DEF Parts, MlfqInv, RunInv, Proc, NoProc
  <2> QED
    BY <2>1, <2>2, ForkKept
<1> QED
  BY <1>1, <1>2, <1>3, InvKept

(* A step under which the process on the CPU goes on, at l.                *)
Works(p, l) ==
  /\ cpu = p /\ UNCHANGED cpuvars
  /\ pc' = [pc EXCEPT ![p] = l] /\ chan' = chan
  /\ parent' \in [Proc -> Proc \cup {NoProc}] /\ np' = np
  /\ killed' \in [Proc -> BOOLEAN]

LEMMA WorksKeep ==
  ASSUME MlfqInv, NEW p \in Proc, NEW l \in Places, l = "fork2" => pc[p] = "fork2",
         Works(p, l), NEW x, Queueing(x), x \in Proc => state[x] \notin {"RUNNING", "EMBRYO"},
         ticks' \in 0 .. BoostTicks - 1
  PROVE  MlfqInv'
<1>1. OtherTypes'
  <2>1. pc' \in [Proc -> Places] /\ cpu' \in Proc \cup {NoProc} /\ level' \in Levels
    BY DEF Works, OtherTypes, MlfqInv, cpuvars
  <2>2. /\ window' \in BOOLEAN /\ np' \in [Proc -> Proc \cup {NoProc}]
        /\ chan' \in [Proc -> 0 .. NPROC + 2]
    BY DEF Works, OtherTypes, MlfqInv, cpuvars
  <2> QED
    BY <2>1, <2>2 DEF Works, OtherTypes
<1>2. RunInv'
  BY RunKept DEF Works, cpuvars
<1>3. ForkInv'
  <2>1. \A q \in Proc : pc'[q] = "fork2" => pc[q] = "fork2"
    BY DEF Works, MlfqInv, OtherTypes
  <2> QED
    BY <2>1, ForkKept DEF Works
<1> QED
  BY <1>1, <1>2, <1>3, InvKept

(* fork(): an EMBRYO is made, given up or linked.                          *)
LEMMA ForkAllocKeeps ==
  ASSUME MlfqInv, NEW p \in Proc, ForkAlloc(p)
  PROVE  MlfqInv' /\ (Peaceably => Peaceably')
<1>1. PICK f : f = FirstUnused
  OBVIOUS
<1>2. /\ f \in Proc /\ state[f] = "UNUSED" /\ state'[f] = "EMBRYO" /\ Queueing(f)
      /\ (Peaceably => Peaceably')
  BY <1>1, Forks
<1>3. /\ cpu = p /\ UNCHANGED <<cpuvars, ticks, chan, parent, killed>>
      /\ pc' = [pc EXCEPT ![p] = "fork2"] /\ np' = [np EXCEPT ![p] = f]
  BY <1>1 DEF ForkAlloc, At, Goto
<1>4. pc \in [Proc -> Places] /\ np \in [Proc -> Proc \cup {NoProc}] /\ "fork2" \in Places
  BY DEF MlfqInv, OtherTypes, Places
<1>5. OtherTypes'
  <2>1. pc' \in [Proc -> Places] /\ np' \in [Proc -> Proc \cup {NoProc}]
    BY <1>2, <1>3, <1>4
  <2> QED
    BY <1>3, <2>1 DEF OtherTypes, MlfqInv, cpuvars
<1>6. RunInv'
  BY <1>2, <1>3, RunKept DEF cpuvars
<1>7. ForkInv'
  <2>1. /\ \A q \in Proc \ {p} : np'[q] = np[q] /\ pc'[q] = pc[q]
        /\ np'[p] = f
    BY <1>3, <1>4
  <2>2. \A q \in Proc \ {p} : pc[q] = "fork2" =>
          /\ np[q] \in Proc /\ state[np[q]] = "EMBRYO" /\ np[q] # f
          /\ \A r \in Proc : pc[r] = "fork2" /\ np[r] = np[q] => r = q
    BY <1>2 DEF MlfqInv, ForkInv
  <2>3. \A q \in Proc \ {f} : state[q] = "EMBRYO" => state'[q] = "EMBRYO"
    BY <1>2 DEF Queueing, ChangesOnly
  <2> SUFFICES ASSUME NEW q \in Proc, pc'[q] = "fork2"
               PROVE  /\ np'[q] \in Proc /\ state'[np'[q]] = "EMBRYO"
                      /\ \A r \in Proc : pc'[r] = "fork2" /\ np'[r] = np'[q] => r = q
    BY DEF ForkInv
  <2>4. CASE q = p
    BY <1>2, <2>1, <2>2, <2>4
  <2>5. CASE q # p
    BY <1>2, <2>1, <2>2, <2>3, <2>5
  <2> QED
    BY <2>4, <2>5
<1> QED
  BY <1>2, <1>5, <1>6, <1>7, InvKept

(* The EMBRYO of p becomes something else.                                 *)
LEMMA ForkEndKeeps ==
  ASSUME MlfqInv, NEW p \in Proc, At(p, "fork2"), NEW c, c = np[p], Queueing(c),
         np' = [np EXCEPT ![p] = NoProc],
         pc' = [pc EXCEPT ![p] = "ret"] \/ pc' = [pc EXCEPT ![p] = "ret", ![c] = "user"],
         UNCHANGED <<cpuvars, ticks, chan, killed>>,
         parent' = parent \/ parent' = [parent EXCEPT ![c] = p]
  PROVE  MlfqInv'
<1>1. /\ cpu = p /\ pc[p] = "fork2" /\ c \in Proc /\ state[c] = "EMBRYO"
      /\ \A q \in Proc : pc[q] = "fork2" /\ np[q] = c => q = p
  BY DEF At, MlfqInv, ForkInv
<1>2. pc \in [Proc -> Places] /\ "ret" \in Places /\ "user" \in Places
  BY DEF MlfqInv, OtherTypes, Places
<1>3. pc' \in [Proc -> Places] /\ \A q \in Proc : pc'[q] = "fork2" => q # p /\ pc[q] = "fork2"
  <2>1. CASE pc' = [pc EXCEPT ![p] = "ret"]
    BY <1>2, <2>1
  <2>2. CASE pc' = [pc EXCEPT ![p] = "ret", ![c] = "user"]
    BY <1>1, <1>2, <2>2
  <2> QED
    BY <2>1, <2>2
<1>4. OtherTypes'
  <2>1. np' \in [Proc -> Proc \cup {NoProc}] /\ parent' \in [Proc -> Proc \cup {NoProc}]
    BY DEF MlfqInv, OtherTypes
  <2> QED
    BY <1>3, <2>1 DEF OtherTypes, MlfqInv, cpuvars
<1>5. RunInv'
  BY <1>1, RunKept DEF cpuvars
<1>6. ForkInv'
  <2>1. \A q \in Proc \ {p} : np'[q] = np[q]
    BY DEF MlfqInv, OtherTypes
  <2>2. \A q \in Proc \ {c} : state[q] = "EMBRYO" => state'[q] = "EMBRYO"
    BY DEF Queueing, ChangesOnly
  <2> SUFFICES ASSUME NEW q \in Proc, pc'[q] = "fork2"
               PROVE  /\ np'[q] \in Proc /\ state'[np'[q]] = "EMBRYO"
                      /\ \A r \in Proc : pc'[r] = "fork2" /\ np'[r] = np'[q] => r = q
    BY DEF ForkInv
  <2>3. q # p /\ pc[q] = "fork2" /\ np'[q] = np[q]
    BY <1>3, <2>1
  <2>4. /\ np[q] \in Proc /\ state[np[q]] = "EMBRYO" /\ np[q] # c
        /\ \A r \in Proc : pc[r] = "fork2" /\ np[r] = np[q] => r = q
    BY <1>1, <2>3 DEF MlfqInv, ForkInv
  <2> QED
    BY <1>3, <2>1, <2>2, <2>3, <2>4
<1> QED
  BY <1>4, <1>5, <1>6, InvKept

LEMMA ForkNoMemoryKeeps ==
  ASSUME MlfqInv, NEW p \in Proc, ForkNoMemory(p)
  PROVE  MlfqInv' /\ (Peaceably => Peaceably')
<1>1. PICK c : c = np[p]
  OBVIOUS
<1>2. c \in Proc /\ state[c] = "EMBRYO" /\ At(p, "fork2")
  BY <1>1 DEF ForkNoMemory, At, MlfqInv, ForkInv
<1>3. Become([K EXCEPT !.state[c] = "UNUSED"])
  BY <1>1 DEF ForkNoMemory
<1>4. Queueing(c) /\ (Peaceably => Peaceably')
  BY <1>2, <1>3, Frees
<1>5. /\ np' = [np EXCEPT ![p] = NoProc] /\ pc' = [pc EXCEPT ![p] = "ret"]
      /\ UNCHANGED <<cpuvars, ticks, chan, killed>> /\ parent' = parent
  BY DEF ForkNoMemory, Goto
<1> QED
  BY <1>1, <1>2, <1>4, <1>5, ForkEndKeeps

LEMMA ForkDoneKeeps ==
  ASSUME MlfqInv, NEW p \in Proc, ForkDone(p)
  PROVE  MlfqInv' /\ (Peaceably => Peaceably')
<1>1. PICK c : c = np[p]
  OBVIOUS
<1>2. c \in Proc /\ state[c] = "EMBRYO" /\ At(p, "fork2")
  BY <1>1 DEF ForkDone, At, MlfqInv, ForkInv
<1>3. Become(Enqueue([K EXCEPT !.state[c] = "RUNNABLE"], c, 0))
  BY <1>1 DEF ForkDone
<1>4. Queueing(c) /\ (Peaceably => Peaceably')
  BY <1>2, <1>3, ForkLinks
<1>5. /\ np' = [np EXCEPT ![p] = NoProc] /\ pc' = [pc EXCEPT ![p] = "ret", ![c] = "user"]
      /\ UNCHANGED <<cpuvars, ticks, chan, killed>> /\ parent' = [parent EXCEPT ![c] = p]
  BY <1>1 DEF ForkDone
<1> QED
  BY <1>1, <1>2, <1>4, <1>5, ForkEndKeeps

(* scheduler() and the interrupts.                                         *)
LEMMA DispatchKeepsInv ==
  ASSUME MlfqInv, SchedulerDispatch
  PROVE  MlfqInv' /\ (Peaceably => Peaceably')
<1>1. PICK p : p = cpu'
  OBVIOUS
<1>2. /\ p \in Proc /\ state[p] = "RUNNABLE" /\ state'[p] = "RUNNING"
      /\ Queueing(p) /\ (Peaceably => Peaceably')
  BY <1>1, Dispatches
<1>3. /\ pc' = [pc EXCEPT ![p] = Resume(p)] /\ chan' = [chan EXCEPT ![p] = NoChan]
      /\ level' = 0 /\ window' = FALSE /\ UNCHANGED <<ticks, parent, killed, np>>
  BY <1>1 DEF SchedulerDispatch
<1>4. pc \in [Proc -> Places] /\ Resume(p) \in Places /\ (Resume(p) = "fork2" => pc[p] = "fork2")
  <2>1. pc \in [Proc -> Places]
    BY DEF MlfqInv, OtherTypes
  <2>2. Resume(p) \in {"exitTrap", "user", pc[p]} /\ (pc[p] # "trap" => Resume(p) = pc[p])
    BY DEF Resume
  <2>3. "exitTrap" \in Places /\ "user" \in Places
    BY DEF Places
  <2> QED
    BY <1>2, <2>1, <2>2, <2>3
<1>5. OtherTypes'
  <2>1. pc' \in [Proc -> Places] /\ chan' \in [Proc -> 0 .. NPROC + 2]
    <3>1. NoChan \in 0 .. NPROC + 2
      BY SizesAssumption DEF SizesAssumption, NoChan
    <3> QED
      BY <1>3, <1>4, <3>1 DEF MlfqInv, OtherTypes
  <2>2. cpu' \in Proc \cup {NoProc} /\ level' \in Levels /\ window' \in BOOLEAN
    <3>1. cpu' \in Proc \cup {NoProc}
      BY <1>1, <1>2
    <3>2. level' = 0 /\ 0 \in Levels
      BY <1>3 DEF Levels
    <3>3. window' \in BOOLEAN
      BY <1>3, Zenon
    <3> QED
      BY <3>1, <3>2, <3>3
  <2> QED
    BY <1>3, <2>1, <2>2 DEF OtherTypes, MlfqInv
<1>6. RunInv'
  BY <1>1, <1>2 DEF RunInv
<1>7. ForkInv'
  <2>1. \A q \in Proc : pc'[q] = "fork2" => pc[q] = "fork2"
    BY <1>3, <1>4
  <2> QED
    BY <1>2, <1>3, <2>1, ForkKept
<1> QED
  BY <1>2, <1>5, <1>6, <1>7, InvKept

LEMMA TimerIdleKeeps ==
  ASSUME MlfqInv, ~LongLocks, TimerIdle
  PROVE  MlfqInv' /\ (Peaceably => Peaceably')
<1>1. /\ cpu = NoProc /\ TimerAllowed /\ Become(Tick.k) /\ ticks' = Tick.ticks
      /\ UNCHANGED <<cpuvars, procvars>>
  BY DEF TimerIdle
<1>2. PICK x : x \notin Proc
  BY DEF Proc
<1>3. Queueing(x) /\ (Peaceably => Peaceably')
  BY <1>1, TimerTicks DEF Proc, NoProc
<1>4. ticks' \in 0 .. BoostTicks - 1
  BY <1>1, Ticks
<1>5. OtherTypes'
  BY <1>1, <1>4 DEF OtherTypes, MlfqInv, cpuvars, procvars
<1>6. RunInv'
  BY <1>1, <1>3, RunKept DEF cpuvars
<1>7. ForkInv'
  BY <1>1, <1>2, <1>3, ForkKept DEF procvars
<1> QED
  BY <1>3, <1>5, <1>6, <1>7, InvKept

LEMMA TimerKillsKeeps ==
  ASSUME MlfqInv, ~LongLocks, TimerKills
  PROVE  MlfqInv'
<1>1. PICK p \in Proc : p = cpu
  BY DEF TimerKills, MlfqInv, OtherTypes
<1>2. /\ TimerAllowed /\ Become(Tick.k) /\ ticks' = Tick.ticks
      /\ pc' = [pc EXCEPT ![p] = "exitTrap"]
      /\ UNCHANGED <<cpuvars, chan, parent, killed, np>>
  BY <1>1 DEF TimerKills
<1>3. PICK x : x \notin Proc
  BY DEF Proc
<1>4. Queueing(x) /\ ticks' \in 0 .. BoostTicks - 1
  BY <1>2, TimerTicks, Ticks
<1>5. Works(p, "exitTrap")
  BY <1>1, <1>2 DEF Works, MlfqInv, OtherTypes
<1>6. PICK l \in Places : l = "exitTrap" /\ l # "fork2"
  BY DEF Places
<1> QED
  BY <1>3, <1>4, <1>5, <1>6, WorksKeep

LEMMA TimerRunningKeeps ==
  ASSUME MlfqInv, ~LongLocks, TimerRunning
  PROVE  MlfqInv' /\ (Peaceably => Peaceably')
<1>1. PICK p \in Proc : p = cpu /\ cpu # NoProc
  BY DEF TimerRunning, MlfqInv, OtherTypes
<1>2. /\ TimerAllowed /\ ticks' = Tick.ticks
      /\ UNCHANGED <<chan, parent, killed, np>>
  BY DEF TimerRunning
<1>3. ticks' \in 0 .. BoostTicks - 1
  BY <1>2, Ticks
<1>4. CASE Tick.k.schedlock
  <2>1. Become(Tick.k) /\ UNCHANGED <<cpuvars, pc>>
    BY <1>4 DEF TimerRunning
  <2>2. PICK x : x \notin Proc
    BY DEF Proc
  <2>3. Queueing(x)
    BY <1>2, <2>1, TimerTicks
  <2>4. PICK l \in Places : l = pc[p]
    BY DEF MlfqInv, OtherTypes
  <2>5. Works(p, l)
    <3>1. pc' = [pc EXCEPT ![p] = l]
      BY <2>1, <2>4 DEF MlfqInv, OtherTypes
    <3> QED
      BY <1>1, <1>2, <2>1, <3>1 DEF Works, MlfqInv, OtherTypes
  <2>6. ~Peaceably
    <3>1. PICK w : w = Tick.k
      OBVIOUS
    <3>2. Ticked(w)
      BY <1>2, <3>1, Ticks
    <3> QED
      BY <1>4, <3>1, <3>2 DEF Ticked, Peaceably
  <2> QED
    BY <1>3, <2>2, <2>3, <2>4, <2>5, <2>6, WorksKeep
<1>5. CASE ~Tick.k.schedlock
  <2>1. /\ Become(YieldEnqueue([Tick.k EXCEPT !.tq[cpu] = @ - 1], cpu))
        /\ cpu' = NoProc /\ level' = 0 /\ window' = FALSE
        /\ pc' = [pc EXCEPT ![cpu] = IF @ = "user" THEN "trap" ELSE @]
    BY <1>5 DEF TimerRunning, Sched
  <2>2. Queueing(p) /\ (Peaceably => Peaceably')
    BY <1>1, <1>2, <1>5, <2>1, TimerYields
  <2>3. PICK l \in Places : l = IF pc[p] = "user" THEN "trap" ELSE pc[p]
    BY DEF MlfqInv, OtherTypes, Places
  <2>4. l = "fork2" => pc[p] = "fork2"
    BY <2>3
  <2>5. Parts(p, l)
    BY <1>1, <1>2, <2>1, <2>3 DEF Parts, MlfqInv, OtherTypes
  <2> QED
    BY <1>3, <2>2, <2>4, <2>5, PartsKeep
<1> QED
  BY <1>4, <1>5

LEMMA IoInterruptKeeps ==
  ASSUME MlfqInv, IoInterrupt
  PROVE  MlfqInv' /\ (Peaceably => Peaceably')
<1>1. PICK k \in KRecord : k = K /\ QInv(k)
  BY DEF MlfqInv
<1>2. PICK e : e = Wakeup1(k, On(IoChan))
  OBVIOUS
<1>3. Awakens(k, e)
  BY <1>1, <1>2, Wakeup1Awakens
<1>4. Become(e) /\ UNCHANGED <<cpuvars, ticks, procvars>>
  BY <1>1, <1>2 DEF IoInterrupt
<1>5. /\ e \in KRecord /\ QInv(e) /\ (QAll(k) => QAll(e))
      /\ e.qlevel = qlevel /\ e.schedlock = schedlock
      /\ \A q \in Proc : e.state[q] = state[q] \/ (state[q] = "SLEEPING" /\ e.state[q] = "RUNNABLE")
  BY <1>1, <1>3, Fields DEF Awakens
<1>6. K' = e /\ state' = e.state /\ qlevel' = e.qlevel /\ schedlock' = e.schedlock
  BY <1>4, <1>5, Becomes
<1>7. PICK x : x \notin Proc
  BY DEF Proc
<1>8. Queueing(x)
  BY <1>5, <1>6 DEF Queueing, ChangesOnly
<1>9. OtherTypes'
  BY <1>4 DEF OtherTypes, MlfqInv, cpuvars, procvars
<1>10. RunInv'
  BY <1>4, <1>7, <1>8, RunKept DEF cpuvars
<1>11. ForkInv'
  BY <1>4, <1>7, <1>8, ForkKept DEF procvars
<1>12. Peaceably => Peaceably'
  BY <1>1, <1>5, <1>6 DEF Peaceably
<1> QED
  BY <1>8, <1>9, <1>10, <1>11, <1>12, InvKept

(* The system calls.                                                       *)
LEMMA TicksStay ==
  ASSUME MlfqInv, ticks' = ticks \/ ticks' = 0
  PROVE  ticks' \in 0 .. BoostTicks - 1
BY SizesAssumption DEF SizesAssumption, MlfqInv, OtherTypes

LEMMA WakesOf ==
  ASSUME MlfqInv, NEW p \in Proc, At(p, "user") \/ cpu = p
  PROVE  /\ cpu = p /\ state[p] = "RUNNING"
         /\ pc \in [Proc -> Places] /\ chan \in [Proc -> 0 .. NPROC + 2]
         /\ parent \in [Proc -> Proc \cup {NoProc}] /\ killed \in [Proc -> BOOLEAN]
BY DEF At, MlfqInv, RunInv, OtherTypes, Proc, NoProc

(* sleep() from wait(), sys_sleep(), exit() and I/O.                       *)
LEMMA SleepKeeps ==
  ASSUME MlfqInv, NEW p \in Proc, cpu = p, NEW ch \in 0 .. NPROC + 2, Sleep(K, p, ch),
         NEW l \in Places, l = "fork2" => pc[p] = "fork2", pc' = [pc EXCEPT ![p] = l],
         UNCHANGED <<ticks, parent, killed, np>>
  PROVE  MlfqInv' /\ (Peaceably => Peaceably')
<1>1. Queueing(p) /\ (Peaceably => Peaceably') /\ cpu' = NoProc /\ level' = 0 /\ window' = FALSE
  BY Sleeps
<1>2. chan' = [chan EXCEPT ![p] = ch]
  BY DEF Sleep
<1>3. Parts(p, l)
  BY <1>1, <1>2, WakesOf DEF Parts
<1>4. ticks' \in 0 .. BoostTicks - 1
  BY TicksStay
<1> QED
  BY <1>1, <1>3, <1>4, PartsKeep

LEMMA ChannelsAre ==
  /\ \A p \in Proc : p \in 0 .. NPROC + 2
  /\ NoChan \in 0 .. NPROC + 2 /\ TicksChan \in 0 .. NPROC + 2 /\ IoChan \in 0 .. NPROC + 2
BY SizesAssumption DEF SizesAssumption, Proc, NoChan, TicksChan, IoChan

LEMMA SleepInPlaceKeeps ==
  ASSUME MlfqInv, NEW p \in Proc, cpu = p, NEW ch \in 0 .. NPROC + 2, Sleep(K, p, ch),
         UNCHANGED <<ticks, pc, parent, killed, np>>
  PROVE  MlfqInv' /\ (Peaceably => Peaceably')
<1>1. PICK l \in Places : l = pc[p]
  BY WakesOf
<1>2. pc' = [pc EXCEPT ![p] = l]
  BY <1>1, WakesOf
<1> QED
  BY <1>1, <1>2, SleepKeeps

LEMMA SleepLoopKeeps ==
  ASSUME MlfqInv, NEW p \in Proc, cpu = p, NEW s, SleepLoop(p, s),
         UNCHANGED <<ticks, parent, killed, np>>
  PROVE  MlfqInv' /\ (Peaceably => Peaceably')
<1>1. CASE Goto(p, "ret") /\ UNCHANGED <<kvars, cpuvars, chan>>
  <2>1. PICK l \in Places \ {"fork2"} : l = "ret"
    BY DEF Places
  <2>2. Moves(p, l)
    BY <1>1, <2>1 DEF Moves
  <2> QED
    BY <2>2, MovesKeep
<1>2. CASE Goto(p, "slept") /\ Sleep(K, p, TicksChan)
  <2>1. PICK l \in Places : l = "slept" /\ l # "fork2"
    BY DEF Places
  <2>2. PICK ch \in 0 .. NPROC + 2 : ch = TicksChan
    BY ChannelsAre
  <2>3. pc' = [pc EXCEPT ![p] = l] /\ Sleep(K, p, ch)
    BY <1>2, <2>1, <2>2 DEF Goto
  <2> QED
    BY <2>1, <2>3, SleepKeeps
<1> QED
  BY <1>1, <1>2 DEF SleepLoop

LEMMA ExitKeeps ==
  ASSUME MlfqInv, NEW p \in Proc, Exit(p)
  PROVE  MlfqInv' /\ (Peaceably => Peaceably')
<1>1. Queueing(p) /\ (Peaceably => Peaceably') /\ cpu' = NoProc /\ level' = 0 /\ window' = FALSE
  BY Exits
<1>2. cpu = p
  BY DEF Exit, At
<1>3. PICK l \in Places : l = "zombie" /\ l # "fork2"
  BY DEF Places
<1>4. /\ pc' = [pc EXCEPT ![p] = l] /\ UNCHANGED <<ticks, chan, killed, np>>
      /\ parent' = [c \in Proc |-> IF parent[c] = p THEN initproc ELSE parent[c]]
  BY <1>3 DEF Exit, Goto
<1>5. parent' \in [Proc -> Proc \cup {NoProc}]
  <2>1. initproc \in Proc
    BY SizesAssumption DEF SizesAssumption, initproc, Proc
  <2> QED
    BY <1>2, <1>4, <2>1, WakesOf
<1>6. Parts(p, l)
  BY <1>1, <1>2, <1>4, <1>5, WakesOf DEF Parts
<1>7. ticks' \in 0 .. BoostTicks - 1
  BY <1>4, TicksStay
<1> QED
  BY <1>1, <1>3, <1>6, <1>7, PartsKeep

LEMMA WaitReapsKeeps ==
  ASSUME MlfqInv, NEW p \in Proc, WaitReaps(p)
  PROVE  MlfqInv' /\ (Peaceably => Peaceably')
<1> DEFINE Z == {c \in Children(p) : state[c] = "ZOMBIE"}
<1>1. PICK c : c = CHOOSE d \in Z : \A e \in Z : d <= e
  OBVIOUS
<1>2. /\ cpu = p /\ Z # {} /\ Become([K EXCEPT !.state[c] = "UNUSED"])
      /\ parent' = [parent EXCEPT ![c] = NoProc] /\ killed' = [killed EXCEPT ![c] = FALSE]
      /\ pc' = [pc EXCEPT ![p] = "ret"]
      /\ UNCHANGED <<cpuvars, ticks, chan, np>>
  BY <1>1 DEF WaitReaps, At, Goto
<1>3. c \in Proc /\ state[c] = "ZOMBIE"
  <2>1. Z \in SUBSET Nat
    BY DEF Children, Proc
  <2>2. PICK S : S = Z
    OBVIOUS
  <2>3. \E d \in S : \A e \in S : d <= e
    BY <1>2, <2>1, <2>2, LeastOf
  <2>4. c = CHOOSE d \in S : \A e \in S : d <= e
    BY <1>1, <2>2
  <2>5. c \in S
    BY <2>3, <2>4, Zenon
  <2> QED
    BY <2>2, <2>5 DEF Children
<1>4. Queueing(c) /\ (Peaceably => Peaceably')
  BY <1>2, <1>3, Frees
<1>5. PICK l \in Places : l = "ret" /\ l # "fork2"
  BY DEF Places
<1>6. Works(p, l)
  BY <1>2, <1>3, <1>5, WakesOf DEF Works
<1>7. ticks' \in 0 .. BoostTicks - 1
  BY <1>2, TicksStay
<1> QED
  BY <1>3, <1>4, <1>5, <1>6, <1>7, WorksKeep

LEMMA KillProcessKeeps ==
  ASSUME MlfqInv, NEW p \in Proc, cpu = p, NEW t \in Proc, KillProcess(t), Goto(p, "ret"),
         UNCHANGED <<cpuvars, ticks, chan, parent, np>>
  PROVE  MlfqInv'
<1>1. Become(KillState(K, t)) /\ killed' = [killed EXCEPT ![t] = TRUE]
  BY DEF KillProcess
<1>2. PICK x : x \notin Proc
  BY DEF Proc
<1>3. Queueing(x)
  BY <1>1, Kills
<1>4. PICK l \in Places : l = "ret" /\ l # "fork2"
  BY DEF Places
<1>5. Works(p, l)
  BY <1>1, <1>4, WakesOf DEF Works, Goto
<1>6. ticks' \in 0 .. BoostTicks - 1
  BY TicksStay
<1> QED
  BY <1>2, <1>3, <1>4, <1>5, <1>6, WorksKeep

LEMMA SysYieldKeeps ==
  ASSUME MlfqInv, NEW p \in Proc, SysYield(p)
  PROVE  MlfqInv' /\ (Peaceably => Peaceably')
<1>1. /\ cpu = p /\ Become(YieldEnqueue(K, p)) /\ cpu' = NoProc /\ level' = 0 /\ window' = FALSE
      /\ pc' = [pc EXCEPT ![p] = "ret"] /\ UNCHANGED <<ticks, chan, parent, killed, np>>
  BY DEF SysYield, At, Sched, Goto
<1>2. Queueing(p) /\ (Peaceably => Peaceably')
  BY <1>1, Yields
<1>3. PICK l \in Places : l = "ret" /\ l # "fork2"
  BY DEF Places
<1>4. Parts(p, l)
  BY <1>1, <1>3, WakesOf DEF Parts
<1>5. ticks' \in 0 .. BoostTicks - 1
  BY <1>1, TicksStay
<1> QED
  BY <1>2, <1>3, <1>4, <1>5, PartsKeep

LEMMA UnlockKeeps ==
  ASSUME MlfqInv, NEW p \in Proc, SchedulerUnlock(p)
  PROVE  MlfqInv' /\ (Peaceably => Peaceably')
<1>1. /\ cpu = p /\ cpu' = NoProc /\ level' = 0 /\ window' = FALSE
      /\ pc' = [pc EXCEPT ![p] = "ret"] /\ UNCHANGED <<ticks, chan, parent, killed, np>>
  BY DEF SchedulerUnlock, At, Sched, Goto
<1>2. Queueing(p) /\ (Peaceably => Peaceably')
  BY Unlocks
<1>3. PICK l \in Places : l = "ret" /\ l # "fork2"
  BY DEF Places
<1>4. Parts(p, l)
  BY <1>1, <1>3, WakesOf DEF Parts
<1>5. ticks' \in 0 .. BoostTicks - 1
  BY <1>1, TicksStay
<1> QED
  BY <1>2, <1>3, <1>4, <1>5, PartsKeep

LEMMA LockKeeps ==
  ASSUME MlfqInv, NEW p \in Proc, SchedulerLock(p)
  PROVE  MlfqInv'
<1>1. /\ cpu = p /\ ticks' = 0 /\ pc' = [pc EXCEPT ![p] = "ret"]
      /\ UNCHANGED <<cpuvars, chan, parent, killed, np>>
  BY DEF SchedulerLock, At, Goto
<1>2. PICK x : x \notin Proc
  BY DEF Proc
<1>3. Queueing(x)
  BY Locks
<1>4. PICK l \in Places : l = "ret" /\ l # "fork2"
  BY DEF Places
<1>5. Works(p, l)
  BY <1>1, <1>4, WakesOf DEF Works
<1>6. ticks' \in 0 .. BoostTicks - 1
  BY <1>1, TicksStay
<1> QED
  BY <1>2, <1>3, <1>4, <1>5, <1>6, WorksKeep

LEMMA SetPriorityKeepsInv ==
  ASSUME MlfqInv, NEW p \in Proc, SysSetPriority(p)
  PROVE  MlfqInv' /\ (Peaceably => Peaceably')
<1>1. /\ cpu = p /\ pc' = [pc EXCEPT ![p] = "ret"]
      /\ UNCHANGED <<cpuvars, ticks, chan, parent, killed, np>>
  BY DEF SysSetPriority, At, Goto
<1>2. PICK x : x \notin Proc
  BY DEF Proc
<1>3. Queueing(x) /\ (Peaceably => Peaceably')
  BY Reprioritizes
<1>4. PICK l \in Places : l = "ret" /\ l # "fork2"
  BY DEF Places
<1>5. Works(p, l)
  BY <1>1, <1>4, WakesOf DEF Works
<1>6. ticks' \in 0 .. BoostTicks - 1
  BY <1>1, TicksStay
<1> QED
  BY <1>2, <1>3, <1>4, <1>5, <1>6, WorksKeep

LEMMA SyscallKeeps ==
  ASSUME MlfqInv, NEW p \in Proc, Syscall(p)
  PROVE  MlfqInv' /\ (Peaceably => Peaceably')
<1>1. PICK l \in Places \ {"fork2"} : Goto(p, l)
  <2>1. CASE killed[p]
    <3>1. "exit" \in Places \ {"fork2"} /\ Goto(p, "exit")
      BY <2>1 DEF Syscall, Places, AllCalls
    <3> QED
      BY <3>1
  <2>2. CASE ~killed[p]
    <3>1. PICK c \in Calls : Goto(p, c)
      BY <2>2 DEF Syscall
    <3>2. Calls \subseteq AllCalls
      BY WorkloadAssumption DEF WorkloadAssumption
    <3>3. c \in Places \ {"fork2"}
      BY <3>2 DEF Places, AllCalls
    <3> QED
      BY <3>1, <3>3
  <2> QED
    BY <2>1, <2>2
<1>2. Moves(p, l)
  BY <1>1 DEF Syscall, Moves, At
<1> QED
  BY <1>2, MovesKeep

(* The calls that end or test something without touching the queues.       *)
LEMMA PassesKeep ==
  ASSUME MlfqInv, NEW p \in Proc,
         \/ SyscallReturn(p) \/ ReturnToUser(p) \/ ForkNoSlot(p) \/ WaitGivesUp(p)
         \/ KillNotFound(p) \/ SchedulerLockTest(p) \/ SchedulerUnlockTest(p) \/ IoDone(p)
  PROVE  MlfqInv' /\ (Peaceably => Peaceably')
<1>1. {"exit", "iret", "user", "ret", "lock2", "unlock2"} \subseteq Places \ {"fork2"}
  BY DEF Places, AllCalls
<1>2. \E l \in {"exit", "iret", "user", "ret", "lock2", "unlock2"} : Moves(p, l)
  <2>1. CASE SyscallReturn(p)
    <3>1. PICK l : l = IF killed[p] THEN "exit" ELSE "iret"
      OBVIOUS
    <3>2. l \in {"exit", "iret", "user", "ret", "lock2", "unlock2"}
      BY <3>1
    <3>3. Moves(p, l)
      BY <2>1, <3>1 DEF SyscallReturn, Moves, At
    <3> QED
      BY <3>2, <3>3
  <2>2. CASE ReturnToUser(p)
    <3>1. Moves(p, "user")
      BY <2>2 DEF ReturnToUser, Moves, At
    <3> QED
      BY <3>1
  <2>3. CASE ForkNoSlot(p) \/ WaitGivesUp(p) \/ KillNotFound(p) \/ IoDone(p)
    <3>1. Moves(p, "ret")
      BY <2>3 DEF ForkNoSlot, WaitGivesUp, KillNotFound, IoDone, Moves, At
    <3> QED
      BY <3>1
  <2>4. CASE SchedulerLockTest(p)
    <3>1. PICK l : l = IF schedlock THEN "ret" ELSE "lock2"
      OBVIOUS
    <3>2. l \in {"exit", "iret", "user", "ret", "lock2", "unlock2"}
      BY <3>1
    <3>3. Moves(p, l)
      BY <2>4, <3>1 DEF SchedulerLockTest, Moves, At
    <3> QED
      BY <3>2, <3>3
  <2>5. CASE SchedulerUnlockTest(p)
    <3>1. PICK l : l = IF schedlock THEN "unlock2" ELSE "ret"
      OBVIOUS
    <3>2. l \in {"exit", "iret", "user", "ret", "lock2", "unlock2"}
      BY <3>1
    <3>3. Moves(p, l)
      BY <2>5, <3>1 DEF SchedulerUnlockTest, Moves, At
    <3> QED
      BY <3>2, <3>3
  <2> QED
    BY <2>1, <2>2, <2>3, <2>4, <2>5
<1>3. PICK l \in Places \ {"fork2"} : Moves(p, l)
  BY <1>1, <1>2
<1> QED
  BY <1>3, MovesKeep

LEMMA KillTargetsIn ==
  KillTargets \subseteq Proc
BY FirstUnusedIn DEF KillTargets

LEMMA ProcessKeeps ==
  ASSUME MlfqInv, NEW p \in Proc, Process(p)
  PROVE  MlfqInv'
<1>1. CASE Syscall(p)
  BY <1>1, SyscallKeeps
<1>2. CASE \/ SyscallReturn(p) \/ ReturnToUser(p) \/ ForkNoSlot(p) \/ WaitGivesUp(p)
           \/ KillNotFound(p) \/ SchedulerLockTest(p) \/ SchedulerUnlockTest(p) \/ IoDone(p)
  BY <1>2, PassesKeep
<1>3. CASE ForkAlloc(p) \/ ForkNoMemory(p) \/ ForkDone(p)
  BY <1>3, ForkAllocKeeps, ForkNoMemoryKeeps, ForkDoneKeeps
<1>4. CASE ExitSleeps(p) \/ WaitSleeps(p) \/ IoSleeps(p)
  <2>1. \E ch \in 0 .. NPROC + 2 : Sleep(K, p, ch)
    BY <1>4, ChannelsAre DEF ExitSleeps, WaitSleeps, IoSleeps
  <2>2. cpu = p /\ UNCHANGED <<ticks, pc, parent, killed, np>>
    BY <1>4 DEF ExitSleeps, WaitSleeps, IoSleeps, At
  <2> QED
    BY <2>1, <2>2, SleepInPlaceKeeps
<1>5. CASE Exit(p)
  BY <1>5, ExitKeeps
<1>6. CASE WaitReaps(p)
  BY <1>6, WaitReapsKeeps
<1>7. CASE Kill(p)
  <2>1. PICK t \in Proc : KillProcess(t)
    BY <1>7, KillTargetsIn DEF Kill
  <2>2. cpu = p /\ Goto(p, "ret") /\ UNCHANGED <<cpuvars, ticks, chan, parent, np>>
    BY <1>7 DEF Kill, At
  <2> QED
    BY <2>1, <2>2, KillProcessKeeps
<1>8. CASE SysSleep(p) \/ SysSleepAgain(p)
  <2>1. PICK s : SleepLoop(p, s)
    BY <1>8 DEF SysSleep, SysSleepAgain
  <2>2. cpu = p /\ UNCHANGED <<ticks, parent, killed, np>>
    BY <1>8 DEF SysSleep, SysSleepAgain, At
  <2> QED
    BY <2>1, <2>2, SleepLoopKeeps
<1>9. CASE SysYield(p)
  BY <1>9, SysYieldKeeps
<1>10. CASE SchedulerLock(p)
  BY <1>10, LockKeeps
<1>11. CASE SchedulerUnlock(p)
  BY <1>11, UnlockKeeps
<1>12. CASE WrongPassword(p)
  <2>1. KillProcess(p) /\ cpu = p /\ Goto(p, "ret") /\ UNCHANGED <<cpuvars, ticks, chan, parent, np>>
    BY <1>12 DEF WrongPassword, At
  <2> QED
    BY <2>1, KillProcessKeeps
<1>13. CASE SysSetPriority(p)
  BY <1>13, SetPriorityKeepsInv
<1> QED
  BY <1>1, <1>2, <1>3, <1>4, <1>5, <1>6, <1>7, <1>8, <1>9, <1>10, <1>11, <1>12, <1>13
  DEF Process

LEMMA NextKeeps ==
  ASSUME MlfqInv, ~LongLocks, [Next]_vars
  PROVE  MlfqInv'
<1>1. CASE SchedulerDispatch
  BY <1>1, DispatchKeepsInv
<1>2. CASE SchedulerNextLevel
  <2>1. /\ cpu = NoProc /\ level' = (level + 1) % 3 /\ window' = TRUE
        /\ UNCHANGED <<kvars, cpu, ticks, procvars>>
    BY <1>2 DEF SchedulerNextLevel
  <2>2. PICK x : x \notin Proc
    BY DEF Proc
  <2>3. Queueing(x)
    BY <2>1, Stays
  <2>4. level' \in Levels
    BY <2>1 DEF MlfqInv, OtherTypes, Levels
  <2>5. OtherTypes'
    BY <2>1, <2>4 DEF MlfqInv, OtherTypes, procvars
  <2>6. RunInv'
    BY <2>1, <2>3, RunKept
  <2>7. ForkInv'
    BY <2>1, <2>2, <2>3, ForkKept DEF procvars
  <2> QED
    BY <2>3, <2>5, <2>6, <2>7, InvKept
<1>3. CASE TimerIdle
  BY <1>3, TimerIdleKeeps
<1>4. CASE TimerKills
  BY <1>4, TimerKillsKeeps
<1>5. CASE TimerRunning
  BY <1>5, TimerRunningKeeps
<1>6. CASE IoInterrupt
  BY <1>6, IoInterruptKeeps
<1>7. ASSUME NEW p \in Proc, Process(p) PROVE MlfqInv'
  BY <1>7, ProcessKeeps
<1>8. CASE UNCHANGED vars
  <2>1. UNCHANGED <<kvars, cpuvars, ticks, procvars>>
    BY <1>8 DEF vars
  <2>2. K' = K /\ state' = state
    BY <2>1 DEF kvars, K
  <2>3. OtherTypes' /\ RunInv' /\ ForkInv'
    BY <2>1, <2>2 DEF MlfqInv, OtherTypes, RunInv, ForkInv, cpuvars, procvars
  <2> QED
    BY <2>2, <2>3 DEF MlfqInv
<1> QED
  BY <1>1, <1>2, <1>3, <1>4, <1>5, <1>6, <1>7, <1>8 DEF Next

LEMMA InitHolds ==
  ASSUME Init
  PROVE  MlfqInv /\ Peaceably
<1>1. initproc \in Proc /\ 0 \in Levels /\ \A p \in Proc : p # NoProc
  BY SizesAssumption DEF SizesAssumption, initproc, Proc, NoProc, Levels
<1>2. PICK one \in Seq(Proc) : one = <<initproc>>
  <2>1. <<initproc>> \in Seq(Proc)
    BY <1>1
  <2> QED
    BY <2>1
<1>3. Range(one) = {initproc} /\ IsInjective(one)
  BY <1>2 DEF Range, IsInjective
<1>4. PICK none \in Seq(Proc) : none = <<>>
  <2>1. <<>> \in Seq(Proc)
    OBVIOUS
  <2> QED
    BY <2>1
<1>5. Range(none) = {} /\ IsInjective(none)
  BY <1>4 DEF Range, IsInjective
<1>6. mlfq = [lev \in LevelsAndBefore |-> IF lev = 0 THEN one ELSE none]
  BY <1>2, <1>4 DEF Init
<1>7. mlfq \in [LevelsAndBefore -> Seq(Proc)]
  BY <1>6
<1>8. /\ state = [p \in Proc |-> IF p = initproc THEN "RUNNABLE" ELSE "UNUSED"]
      /\ qlevel = [p \in Proc |-> 0]
  BY DEF Init
<1>9. K \in KRecord
  <2>1. state \in [Proc -> States] /\ qlevel \in [Proc -> LevelsAndBefore]
    BY <1>1, <1>8, LevelsAre DEF States
  <2>2. tq \in [Proc -> Int] /\ priority \in [Proc -> Int] /\ schedlock \in BOOLEAN
    <3>1. Quantum0 \in Int /\ Priority0 \in Int
      BY SizesAssumption DEF SizesAssumption
    <3>2. /\ tq = [p \in Proc |-> IF p = initproc THEN Quantum0 ELSE 0]
          /\ priority = [p \in Proc |-> IF p = initproc THEN Priority0 ELSE 0]
      BY DEF Init
    <3>3. tq \in [Proc -> Int] /\ priority \in [Proc -> Int]
      BY <3>1, <3>2
    <3>4. schedlock \in BOOLEAN
      BY DEF Init
    <3> QED
      BY <3>3, <3>4
  <2> QED
    BY <1>7, <2>1, <2>2 DEF K, KRecord
<1>10. QInv(K)
  <2> SUFFICES ASSUME NEW lev \in LevelsAndBefore
               PROVE  /\ IsInjective(mlfq[lev])
                      /\ \A q \in Range(mlfq[lev]) : state[q] = "RUNNABLE" /\ qlevel[q] = lev
    BY Fields DEF QInv
  <2>1. CASE lev = 0
    BY <1>1, <1>3, <1>6, <1>8, <2>1
  <2>2. CASE lev # 0
    BY <1>5, <1>6, <2>2
  <2> QED
    BY <2>1, <2>2
<1>11. OtherTypes
  <2>1. /\ window = TRUE /\ cpu = NoProc /\ level = 0 /\ ticks = 0
        /\ pc = [p \in Proc |-> "user"] /\ chan = [p \in Proc |-> NoChan]
        /\ parent = [p \in Proc |-> NoProc] /\ np = [p \in Proc |-> NoProc]
        /\ killed = [p \in Proc |-> FALSE]
    BY DEF Init
  <2>2. "user" \in Places /\ NoChan \in 0 .. NPROC + 2 /\ 0 \in 0 .. BoostTicks - 1
    BY SizesAssumption, ChannelsAre DEF SizesAssumption, Places
  <2>3. window \in BOOLEAN /\ killed \in [Proc -> BOOLEAN]
    BY <2>1
  <2> QED
    BY <1>1, <2>1, <2>2, <2>3 DEF OtherTypes
<1>12. RunInv /\ ForkInv
  BY DEF Init, RunInv, ForkInv
<1>13. QAll(K)
  <2>1. initproc \in Range(mlfq[0])
    BY <1>3, <1>6, LevelsAre, <1>1
  <2>2. \A q \in Proc : state[q] = "RUNNABLE" => q = initproc /\ qlevel[q] = 0
    BY <1>8
  <2> QED
    BY <2>1, <2>2, Fields DEF QAll, QAllBut
<1>14. ~schedlock /\ qlevel \in [Proc -> Levels]
  BY <1>1, <1>8 DEF Init
<1> QED
  BY <1>9, <1>10, <1>11, <1>12, <1>13, <1>14 DEF MlfqInv, Peaceably

-----------------------------------------------------------------------------
(* Programs that neither kill nor take the scheduler lock.                 *)

Calm == \A p \in Proc : ~killed[p] /\ pc[p] \notin {"kill", "lock", "unlock", "lock2", "unlock2"}

LEMMA CalmKept ==
  ASSUME MlfqInv, Peaceful, Calm, [Next]_vars
  PROVE  Calm'
<1>1. pc \in [Proc -> Places] /\ killed \in [Proc -> BOOLEAN]
  BY DEF MlfqInv, OtherTypes
<1>2. \A p \in Proc : ~killed[p] /\ pc[p] \notin {"kill", "lock", "unlock", "lock2", "unlock2"}
  BY DEF Calm
<1> DEFINE Bad == {"kill", "lock", "unlock", "lock2", "unlock2"}
<1>3. ASSUME killed' = killed, NEW x, NEW l, l \notin Bad, pc' = [pc EXCEPT ![x] = l] \/ pc' = pc
      PROVE  Calm'
  BY <1>1, <1>2, <1>3 DEF Calm
<1>4. CASE SchedulerDispatch
  <2>1. PICK x : pc' = [pc EXCEPT ![x] = Resume(x)] /\ x \in Proc /\ killed' = killed
    BY <1>4, Dispatches DEF SchedulerDispatch
  <2>2. Resume(x) \notin Bad
    BY <1>2, <2>1 DEF Resume
  <2> QED
    BY <1>3, <2>1, <2>2
<1>5. CASE SchedulerNextLevel \/ TimerIdle \/ IoInterrupt \/ UNCHANGED vars
  <2>1. pc' = pc /\ killed' = killed
    BY <1>5 DEF SchedulerNextLevel, TimerIdle, IoInterrupt, vars, procvars
  <2> QED
    BY <1>2, <2>1 DEF Calm
<1>6. CASE TimerKills
  <2>1. killed' = killed /\ pc' = [pc EXCEPT ![cpu] = "exitTrap"]
    BY <1>6 DEF TimerKills
  <2> QED
    BY <1>3, <2>1
<1>7. CASE TimerRunning
  <2>1. killed' = killed /\ cpu \in Proc
    BY <1>7 DEF TimerRunning, MlfqInv, OtherTypes
  <2>2. PICK l : l = IF pc[cpu] = "user" THEN "trap" ELSE pc[cpu]
    OBVIOUS
  <2>3. pc' = pc \/ pc' = [pc EXCEPT ![cpu] = l]
    BY <1>7, <2>2 DEF TimerRunning
  <2>4. l \notin Bad
    BY <1>2, <2>1, <2>2
  <2> QED
    BY <1>3, <2>1, <2>3, <2>4
<1>8. ASSUME NEW p \in Proc, Process(p)
      PROVE  Calm'
  <2>1. CASE Syscall(p)
    <3>1. PICK c \in Calls : Goto(p, c)
      BY <1>2, <2>1 DEF Syscall
    <3>2. c \notin {"kill", "lock", "unlock"} /\ c \in AllCalls
      BY WorkloadAssumption DEF WorkloadAssumption, Peaceful
    <3>3. c \notin Bad
      BY <3>2 DEF AllCalls
    <3>4. killed' = killed
      BY <2>1 DEF Syscall
    <3> QED
      BY <1>3, <3>1, <3>3, <3>4 DEF Goto
  <2>2. CASE SyscallReturn(p)
    <3>1. Goto(p, "iret") /\ killed' = killed
      BY <1>2, <2>2 DEF SyscallReturn
    <3> QED
      BY <1>3, <3>1 DEF Goto
  <2>3. CASE ReturnToUser(p) \/ ForkAlloc(p) \/ ForkNoSlot(p) \/ ForkNoMemory(p) \/ WaitGivesUp(p)
             \/ SysYield(p) \/ SysSetPriority(p) \/ IoDone(p) \/ Exit(p)
    <3>1. PICK l \in {"user", "fork2", "ret", "zombie"} : pc' = [pc EXCEPT ![p] = l]
      BY <2>3 DEF ReturnToUser, ForkAlloc, ForkNoSlot, ForkNoMemory, WaitGivesUp, SysYield,
                  SysSetPriority, IoDone, Exit, Goto
    <3>2. killed' = killed
      BY <2>3 DEF ReturnToUser, ForkAlloc, ForkNoSlot, ForkNoMemory, WaitGivesUp, SysYield,
                  SysSetPriority, IoDone, Exit
    <3> QED
      BY <1>3, <3>1, <3>2
  <2>4. CASE ForkDone(p)
    <3>1. killed' = killed /\ pc' = [pc EXCEPT ![p] = "ret", ![np[p]] = "user"]
      BY <2>4 DEF ForkDone
    <3> QED
      BY <1>1, <1>2, <3>1 DEF Calm
  <2>5. CASE ExitSleeps(p) \/ WaitSleeps(p) \/ IoSleeps(p)
    <3>1. pc' = pc /\ killed' = killed
      BY <2>5 DEF ExitSleeps, WaitSleeps, IoSleeps
    <3> QED
      BY <1>2, <3>1 DEF Calm
  <2>6. CASE SysSleep(p) \/ SysSleepAgain(p)
    <3>1. PICK s : SleepLoop(p, s)
      BY <2>6 DEF SysSleep, SysSleepAgain
    <3>2. PICK l \in {"ret", "slept"} : pc' = [pc EXCEPT ![p] = l]
      BY <3>1 DEF SleepLoop, Goto
    <3>3. killed' = killed
      BY <2>6 DEF SysSleep, SysSleepAgain
    <3> QED
      BY <1>3, <3>2, <3>3
  <2>7. CASE WaitReaps(p)
    <3>1. PICK c : killed' = [killed EXCEPT ![c] = FALSE]
      BY <2>7 DEF WaitReaps
    <3>2. pc' = [pc EXCEPT ![p] = "ret"]
      BY <2>7 DEF WaitReaps, Goto
    <3>3. \A q \in Proc : ~killed'[q]
      BY <1>1, <1>2, <3>1
    <3>4. \A q \in Proc : pc'[q] \notin Bad
      BY <1>1, <1>2, <3>2
    <3> QED
      BY <3>3, <3>4 DEF Calm
  <2>8. CASE Kill(p) \/ KillNotFound(p) \/ SchedulerLockTest(p) \/ SchedulerLock(p)
             \/ SchedulerUnlockTest(p) \/ SchedulerUnlock(p) \/ WrongPassword(p)
    <3>1. pc[p] \in Bad
      BY <2>8 DEF Kill, KillNotFound, SchedulerLockTest, SchedulerLock, SchedulerUnlockTest,
                  SchedulerUnlock, WrongPassword, At
    <3> QED
      BY <1>2, <3>1
  <2> QED
    BY <1>8, <2>1, <2>2, <2>3, <2>4, <2>5, <2>6, <2>7, <2>8 DEF Process
<1> QED
  BY <1>4, <1>5, <1>6, <1>7, <1>8 DEF Next

LEMMA PeaceKept ==
  ASSUME MlfqInv, ~LongLocks, Calm, Peaceably, [Next]_vars
  PROVE  Peaceably'
<1>1. CASE SchedulerDispatch
  BY <1>1, DispatchKeepsInv
<1>2. CASE SchedulerNextLevel \/ UNCHANGED vars
  <2>1. UNCHANGED kvars
    BY <1>2 DEF SchedulerNextLevel, vars
  <2> QED
    BY <2>1, Stays DEF Peaceably, kvars
<1>3. CASE TimerIdle
  BY <1>3, TimerIdleKeeps
<1>4. CASE TimerKills
  <2>1. cpu \in Proc /\ killed[cpu]
    BY <1>4 DEF TimerKills, MlfqInv, OtherTypes
  <2> QED
    BY <2>1 DEF Calm
<1>5. CASE TimerRunning
  BY <1>5, TimerRunningKeeps
<1>6. CASE IoInterrupt
  BY <1>6, IoInterruptKeeps
<1>7. ASSUME NEW p \in Proc, Process(p)
      PROVE  Peaceably'
  <2>1. CASE Syscall(p)
    BY <2>1, SyscallKeeps
  <2>2. CASE \/ SyscallReturn(p) \/ ReturnToUser(p) \/ ForkNoSlot(p) \/ WaitGivesUp(p)
             \/ KillNotFound(p) \/ SchedulerLockTest(p) \/ SchedulerUnlockTest(p) \/ IoDone(p)
    BY <2>2, PassesKeep
  <2>3. CASE ForkAlloc(p) \/ ForkNoMemory(p) \/ ForkDone(p)
    BY <2>3, ForkAllocKeeps, ForkNoMemoryKeeps, ForkDoneKeeps
  <2>4. CASE ExitSleeps(p) \/ WaitSleeps(p) \/ IoSleeps(p)
    <3>1. \E ch \in 0 .. NPROC + 2 : Sleep(K, p, ch)
      BY <2>4, ChannelsAre DEF ExitSleeps, WaitSleeps, IoSleeps
    <3>2. cpu = p /\ UNCHANGED <<ticks, pc, parent, killed, np>>
      BY <2>4 DEF ExitSleeps, WaitSleeps, IoSleeps, At
    <3> QED
      BY <3>1, <3>2, SleepInPlaceKeeps
  <2>5. CASE Exit(p)
    BY <2>5, ExitKeeps
  <2>6. CASE WaitReaps(p)
    BY <2>6, WaitReapsKeeps
  <2>7. CASE Kill(p) \/ SchedulerLock(p) \/ SchedulerUnlock(p) \/ WrongPassword(p)
    <3>1. pc[p] \in {"kill", "lock", "unlock", "lock2", "unlock2"}
      BY <2>7 DEF Kill, SchedulerLock, SchedulerUnlock, WrongPassword, At
    <3> QED
      BY <3>1 DEF Calm
  <2>8. CASE SysSleep(p) \/ SysSleepAgain(p)
    <3>1. PICK s : SleepLoop(p, s)
      BY <2>8 DEF SysSleep, SysSleepAgain
    <3>2. cpu = p /\ UNCHANGED <<ticks, parent, killed, np>>
      BY <2>8 DEF SysSleep, SysSleepAgain, At
    <3> QED
      BY <3>1, <3>2, SleepLoopKeeps
  <2>9. CASE SysYield(p)
    BY <2>9, SysYieldKeeps
  <2>10. CASE SysSetPriority(p)
    BY <2>10, SetPriorityKeepsInv
  <2> QED
    BY <1>7, <2>1, <2>2, <2>3, <2>4, <2>5, <2>6, <2>7, <2>8, <2>9, <2>10 DEF Process
<1> QED
  BY <1>1, <1>2, <1>3, <1>4, <1>5, <1>6, <1>7 DEF Next

-----------------------------------------------------------------------------
(* The theorems.                                                           *)

LEMMA Invariant ==
  ASSUME ~LongLocks
  PROVE  Spec => []MlfqInv
<1>1. Init => MlfqInv
  BY InitHolds
<1>2. MlfqInv /\ [Next]_vars => MlfqInv'
  BY NextKeeps
<1> QED
  BY <1>1, <1>2, PTL DEF Spec

LEMMA SlotsAre == MlfqInv => Slots = Proc
BY DEF MlfqInv, KRecord, K, Slots

(* Every variable keeps its type; ticks stays below the boost period and   *)
(* every qlevel names a queue, or the entry before them between a boost    *)
(* and the yield that follows it.                                          *)
THEOREM SchedulerTyped ==
  ASSUME ~LongLocks
  PROVE  Spec => []TypeOK
<1>1. MlfqInv => TypeOK
  <2> SUFFICES ASSUME MlfqInv PROVE TypeOK
    OBVIOUS
  <2>1. /\ mlfq \in [LevelsAndBefore -> Seq(Proc)] /\ state \in [Proc -> States]
        /\ qlevel \in [Proc -> LevelsAndBefore] /\ tq \in [Proc -> Int]
        /\ priority \in [Proc -> Int] /\ schedlock \in BOOLEAN
    BY DEF MlfqInv, KRecord, K
  <2> QED
    BY <2>1 DEF MlfqInv, OtherTypes, TypeOK
<1> QED
  BY <1>1, Invariant, PTL

(* proc.c: enqueue(), movefront(), dequeue() and the walk of prboost() keep*)
(* a process in one queue, once, while it is RUNNABLE, and in none while   *)
(* it has the CPU: scheduler() may dispatch any head it finds.             *)
THEOREM QueuesStaySound ==
  ASSUME ~LongLocks
  PROVE  Spec => []QueuesSound
<1>1. MlfqInv => QueuesSound
  <2> SUFFICES ASSUME MlfqInv PROVE QueuesSound
    OBVIOUS
  <2>1. QInv(K)
    BY DEF MlfqInv
  <2>2. \A lev \in LevelsAndBefore :
          /\ IsInjective(mlfq[lev])
          /\ \A q \in Range(mlfq[lev]) : state[q] = "RUNNABLE" /\ qlevel[q] = lev
    BY <2>1, Fields DEF QInv
  <2>3. \A lev \in LevelsAndBefore : mlfq[lev] \in Seq(Proc)
    BY DEF MlfqInv, KRecord, K
  <2>4. \A lev \in LevelsAndBefore : Cardinality(Range(mlfq[lev])) = Len(mlfq[lev])
    BY <2>2, <2>3, InjectiveCardinality
  <2>5. \A lev \in LevelsAndBefore : \A p \in Range(mlfq[lev]) : p \in Proc /\ cpu # p
    <3> SUFFICES ASSUME NEW lev \in LevelsAndBefore, NEW p \in Range(mlfq[lev])
                 PROVE  p \in Proc /\ cpu # p
      OBVIOUS
    <3>1. p \in Proc
      BY <2>3 DEF Range
    <3>2. state[p] = "RUNNABLE"
      BY <2>2
    <3> QED
      BY <3>1, <3>2 DEF MlfqInv, RunInv, Proc, NoProc
  <2> QED
    BY <2>2, <2>4, <2>5 DEF QueuesSound, QueuesExclusive, QueuedIsRunnable
<1> QED
  BY <1>1, Invariant, PTL

(* Without kill() and the scheduler lock nothing RUNNABLE is missed: every *)
(* path of proc.c that makes a process RUNNABLE links it into a queue that *)
(* scheduler() looks at.  With kill() it is false.                         *)
THEOREM RunnableStaysQueued ==
  ASSUME ~LongLocks, Peaceful
  PROVE  Spec => []RunnableIsQueued
<1>1. Init => MlfqInv /\ Calm /\ Peaceably
  <2>1. Init => Calm
    BY DEF Init, Calm
  <2> QED
    BY <2>1, InitHolds
<1>2. (MlfqInv /\ Calm /\ Peaceably) /\ [Next]_vars => (MlfqInv /\ Calm /\ Peaceably)'
  BY NextKeeps, CalmKept, PeaceKept
<1>3. MlfqInv /\ Calm /\ Peaceably => RunnableIsQueued
  <2> SUFFICES ASSUME MlfqInv, Peaceably, NEW p \in Proc, state[p] = "RUNNABLE"
               PROVE  \E lev \in Levels : p \in Range(mlfq[lev])
    BY SlotsAre DEF RunnableIsQueued
  <2>1. p # NoProc
    BY DEF Proc, NoProc
  <2>2. p \in Range(mlfq[qlevel[p]]) /\ qlevel[p] \in Levels
    BY <2>1, Fields DEF Peaceably, QAll, QAllBut
  <2> QED
    BY <2>2
<1> QED
  BY <1>1, <1>2, <1>3, PTL DEF Spec

(* The scheduler takes the head of a queue for a process it may run, and   *)
(* finds there every process that may.                                     *)
THEOREM SchedulerFindsRunnable ==
  ASSUME ~LongLocks, Peaceful
  PROVE  Spec => []QueuedIffRunnable
<1>1. QueuesSound /\ RunnableIsQueued => QueuedIffRunnable
  BY DEF QueuedIffRunnable
<1> QED
  BY <1>1, QueuesStaySound, RunnableStaysQueued, PTL
=============================================================================
