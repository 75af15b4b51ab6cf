------------------------------ MODULE MsgRing ------------------------------
(***************************************************************************)
(* The rings of the message queues: of the file service (msgq.c), between  *)
(* the two processors (xcpu_msgq.c) and of their services (sys_msgq.c).    *)
(* A ring of n slots holds at most n - 1 entries, from the read index up   *)
(* to, and without, the write index.  Only the reader moves the read index *)
(* and only the writer the write index.                                    *)
(***************************************************************************)
EXTENDS Integers, Sequences

\* An index after it has been advanced.
Succ_OnePast(i, n) == IF i + 1 > n THEN 0 ELSE i + 1
Succ(i, n) == IF i + 1 >= n THEN 0 ELSE i + 1

\* _COUNT_OF_MSG, _IS_MSGQ_FULL and _IS_MSGQ_EMPTY.
Count(w, r, n) == IF r <= w THEN w - r ELSE n - (r - w)
Full(w, r, n) == Count(w, r, n) = n - 1
Empty(w, r, n) == Count(w, r, n) = 0
=============================================================================
