--------------------------- MODULE MsgRingProofs ---------------------------
(***************************************************************************)
(* What the index arithmetic of the message rings computes, for every size *)
(* of ring: how many entries a ring holds, where they are, and which slots *)
(* a write and a read touch.  The proofs about the file service and about  *)
(* the cross-processor queues cite these lemmas.                           *)
(***************************************************************************)
EXTENDS MsgRing, TLAPS

\* The slot k places after slot r of a ring of n slots.
Pos(r, k, n) == IF r + k < n THEN r + k ELSE r + k - n

\* An advanced index is an index, and no two indices are advanced to the same.
LEMMA SuccType ==
  ASSUME NEW n \in Nat, n >= 2, NEW i \in 0 .. n - 1, NEW j \in 0 .. n - 1
  PROVE  /\ Succ(i, n) \in 0 .. n - 1
         /\ Succ(i, n) # i
         /\ Succ(i, n) = Succ(j, n) => i = j
BY DEF Succ

\* A ring holds between 0 and n - 1 entries; 0 when its indices are equal.
LEMMA CountType ==
  ASSUME NEW n \in Nat, n >= 2, NEW r \in 0 .. n - 1, NEW w \in 0 .. n - 1
  PROVE  /\ Count(w, r, n) \in 0 .. n - 1
         /\ Count(w, r, n) = 0 <=> r = w
BY DEF Count

\* The full ring is the one whose advanced write index is the read index: the
\* test of the file service's PalWriteMsgQ and that of _IS_MSGQ_FULL agree.
LEMMA FullRing ==
  ASSUME NEW n \in Nat, n >= 2, NEW r \in 0 .. n - 1, NEW w \in 0 .. n - 1
  PROVE  /\ Full(w, r, n) <=> Succ(w, n) = r
         /\ Empty(w, r, n) <=> w = r
BY DEF Full, Empty, Count, Succ

\* The entries of a ring lie in slots of their own, before the write index.
LEMMA Slot ==
  ASSUME NEW n \in Nat, n >= 2, NEW r \in 0 .. n - 1, NEW w \in 0 .. n - 1,
         NEW k \in 0 .. Count(w, r, n) - 1
  PROVE  Pos(r, k, n) \in 0 .. n - 1 /\ Pos(r, k, n) # w
BY DEF Count, Pos

\* The first entry is at the read index, the first free slot at the write one.
LEMMA EndSlots ==
  ASSUME NEW n \in Nat, n >= 2, NEW r \in 0 .. n - 1, NEW w \in 0 .. n - 1
  PROVE  Pos(r, 0, n) = r /\ Pos(r, Count(w, r, n), n) = w
BY DEF Count, Pos

\* Each slot is some places after the read index, the write index's as many
\* as there are entries.
LEMMA SlotOf ==
  ASSUME NEW n \in Nat, n >= 2, NEW r \in 0 .. n - 1, NEW w \in 0 .. n - 1,
         NEW k \in 0 .. n - 1
  PROVE  /\ Pos(r, k, n) \in 0 .. n - 1
         /\ Pos(r, k, n) = w <=> k = Count(w, r, n)
BY DEF Count, Pos

\* The slots after an advanced index.
LEMMA NextSlot ==
  ASSUME NEW n \in Nat, n >= 2, NEW r \in 0 .. n - 1, NEW k \in 0 .. n - 2
  PROVE  Pos(Succ(r, n), k, n) = Pos(r, k + 1, n)
BY DEF Succ, Pos

\* An index advanced past the other one: the ring looks full, or empty.
LEMMA PassOne ==
  ASSUME NEW n \in Nat, n >= 2, NEW i \in 0 .. n - 1
  PROVE  /\ Count(i, Succ(i, n), n) = n - 1
         /\ Count(Succ(i, n), Succ(i, n), n) = 0
BY DEF Count, Succ

\* Moving the write index of a ring that is not full adds an entry at the end.
LEMMA WriteOne ==
  ASSUME NEW n \in Nat, n >= 2, NEW r \in 0 .. n - 1, NEW w \in 0 .. n - 1,
         Succ(w, n) # r
  PROVE  Count(Succ(w, n), r, n) = Count(w, r, n) + 1
BY DEF Count, Succ

\* Moving the read index of a ring that is not empty removes its first entry,
\* and the others keep their slots.
LEMMA ReadOne ==
  ASSUME NEW n \in Nat, n >= 2, NEW r \in 0 .. n - 1, NEW w \in 0 .. n - 1,
         r # w
  PROVE  /\ Count(w, Succ(r, n), n) = Count(w, r, n) - 1
         /\ \A k \in 0 .. Count(w, r, n) - 2 :
              Pos(Succ(r, n), k, n) = Pos(r, k + 1, n)
         /\ Succ(r, n) # Succ(w, n)
BY DEF Count, Succ, Pos
=============================================================================
