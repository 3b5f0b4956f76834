------------------------------- MODULE Fifo -------------------------------
(***************************************************************************)
(* What a pipe promises: the bytes that went in come out once, in order.   *)
(***************************************************************************)
EXTENDS Integers, Sequences, SequencesExt

CONSTANTS FifoSize, FifoBytes, FifoReaders

VARIABLES inside,  \* the bytes on their way
          taken    \* what each reader's last read() has brought

fifovars == <<inside, taken>>

FifoInit == inside = <<>> /\ taken = [r \in FifoReaders |-> <<>>]

Put(s) ==
  /\ inside' = inside \o s /\ Len(inside') <= FifoSize
  /\ UNCHANGED taken

Take(r, k) ==
  /\ inside' = SubSeq(inside, k + 1, Len(inside))
  /\ taken' = [taken EXCEPT ![r] = SubSeq(inside, 1, k)]

Lose == inside' = <<>> /\ UNCHANGED taken     \* both ends are closed

FifoNext ==
  \/ \E s \in BoundedSeq(FifoBytes, FifoSize) : Put(s)
  \/ \E r \in FifoReaders : \E k \in 0 .. Len(inside) : Take(r, k)
  \/ Lose

FifoSpec == FifoInit /\ [][FifoNext]_fifovars
=============================================================================
