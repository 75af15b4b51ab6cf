--------------------------- MODULE CmdQueueProofs ---------------------------
(***************************************************************************)
(* For every size of the ring and of the blocks, and however full callers  *)
(* make the queue: the pointers stay in the ring; and, until a test of     *)
(* room is misled by the read pointer, a block given to a caller is free,  *)
(* the engine executes every command once and in order, and a queue that   *)
(* looks empty is empty.                                                   *)
(***************************************************************************)
EXTENDS CmdQueue, TLAPS

Cells == 0 .. Size - 1

(***************************************************************************)
(* Types.                                                                  *)
(***************************************************************************)

\* The block asked for has its size and ends before the end of the ring.
AskInv ==
  /\ pc # "idle" => waitSize \in 1 .. MaxBlock /\ queued + waitSize <= MaxCommands
  /\ pc \in {"room", "build"} => currPtr + waitSize < Size

TypeInv == TypeOK /\ AskInv

LEMMA Sizes ==
  /\ Size \in Nat /\ Size > 0 /\ MaxBlock \in Nat /\ 2 * MaxBlock < Size
  /\ Radix \in Nat \ {0} /\ MaxCommands \in Nat
BY CmdQueueAssumption

LEMMA InitType == Init => TypeInv
<1> SUFFICES ASSUME Init PROVE TypeInv
  OBVIOUS
<1>1. misled \in BOOLEAN
  BY DEF Init
<1> QED  BY <1>1, Sizes DEF Init, TypeInv, TypeOK, AskInv, Null, NotRead

\* The step that writes a block.
LEMMA FlushType ==
  ASSUME TypeInv, NEW n \in 1 .. waitSize, Flush(n)
  PROVE  TypeInv'
<1> USE Sizes
<1>1. /\ pc = "build" /\ waitSize \in 1 .. MaxBlock /\ currPtr \in Cells
      /\ queued + waitSize <= MaxCommands /\ currPtr + waitSize < Size
  BY DEF Flush, TypeInv, TypeOK, AskInv, Cells
<1>2. n \in Nat /\ n >= 1 /\ n <= waitSize
  BY <1>1
<1>3. \A i \in Block(n) : queued + 1 + (i - currPtr) \in 0 .. MaxCommands
  BY <1>1, <1>2 DEF Block, TypeInv, TypeOK, Cells
<1>4. ring' \in [0 .. Size - 1 -> 0 .. MaxCommands]
  BY <1>3 DEF Flush, TypeInv, TypeOK
<1>5. wptr' \in 0 .. Size - 1 /\ currPtr' \in 0 .. Size - 1
  BY <1>1, <1>2 DEF Flush, Cells
<1>6. queued' \in 0 .. MaxCommands
  BY <1>1, <1>2 DEF Flush, TypeInv, TypeOK
<1> QED  BY <1>4, <1>5, <1>6 DEF Flush, TypeInv, TypeOK, AskInv

LEMMA NextType == TypeInv /\ [Next]_vars => TypeInv'
<1> SUFFICES ASSUME TypeInv, [Next]_vars PROVE TypeInv'
  OBVIOUS
<1> USE Sizes
<1>1. CASE \E n \in 1 .. MaxBlock : WaitSize(n)
  BY <1>1 DEF WaitSize, ReachesEnd, TypeInv, TypeOK, AskInv
<1>2. CASE ReadLow
  <2>1. rptr % Radix \in 0 .. Radix - 1
    BY DEF TypeInv, TypeOK
  <2> QED  BY <1>2, <2>1 DEF ReadLow, TypeInv, TypeOK, AskInv
<1>3. CASE Wrap
  <2>1. ring' \in [0 .. Size - 1 -> 0 .. MaxCommands]
    BY <1>3 DEF Wrap, Filled, Null, TypeInv, TypeOK
  <2> QED  BY <1>3, <2>1 DEF Wrap, NotRead, TypeInv, TypeOK, AskInv
<1>4. CASE Granted
  <2>1. misled' \in BOOLEAN /\ UNCHANGED <<ring, wptr, rptr, currPtr, waitSize, queued, done>>
    BY <1>4 DEF Granted, TypeInv, TypeOK
  <2> QED  BY <1>4, <2>1 DEF Granted, NotRead, TypeInv, TypeOK, AskInv
<1>5. CASE LookAgain
  BY <1>5 DEF LookAgain, NotRead, TypeInv, TypeOK, AskInv
<1>6. CASE GiveUp
  BY <1>6 DEF GiveUp, NotRead, TypeInv, TypeOK, AskInv
<1>7. CASE \E n \in 1 .. waitSize : Flush(n)
  BY <1>7, FlushType
<1>8. CASE Execute
  <2>1. (rptr + 1) % Size \in 0 .. Size - 1 /\ ring[rptr] \in 0 .. MaxCommands
    BY DEF TypeInv, TypeOK
  <2> QED  BY <1>8, <2>1 DEF Execute, TypeInv, TypeOK, AskInv
<1>9. CASE UNCHANGED vars
  BY <1>9 DEF vars, TypeInv, TypeOK, AskInv
<1> QED  BY <1>1, <1>2, <1>3, <1>4, <1>5, <1>6, <1>7, <1>8, <1>9 DEF Next, Caller

\* Every variable keeps its type and no pointer leaves the ring, whatever the
\* size of the blocks, and however many commands are waiting.
THEOREM TypeCorrect == Spec => []TypeOK
<1>1. TypeInv => TypeOK
  BY DEF TypeInv
<1> QED  BY <1>1, InitType, NextType, PTL DEF Spec

(***************************************************************************)
(* The inductive invariant.                                                *)
(***************************************************************************)

\* The engine is behind the write pointer in the same lap: it has all the cells
\* between them to execute.
Straight ==
  /\ rptr <= wptr
  /\ queued - done = wptr - rptr
  /\ \A i \in rptr .. wptr - 1 : ring[i] = done + 1 + (i - rptr)

\* The engine is a lap behind: the old lap's commands end at cell e, the rest of
\* the ring is null commands, and the new lap begins at 0.
LappedAt(e) ==
  /\ e >= rptr /\ e >= Size - MaxBlock
  /\ queued - done = (e - rptr) + wptr
  /\ \A i \in rptr .. e - 1 : ring[i] = done + 1 + (i - rptr)
  /\ \A i \in e .. Size - 1 : ring[i] = Null
  /\ \A i \in 0 .. wptr - 1 : ring[i] = done + 1 + (e - rptr) + i

Lapped == rptr > wptr /\ \E e \in Cells : LappedAt(e)

\* What the caller knows from the low half: the engine was at some place a
\* then, and has not passed a since, but for starting over at 0 in the lap of
\* the write pointer.
LowAt(a) ==
  /\ low = a % Radix
  /\ rptr > wptr => wptr < a /\ a <= rptr
  /\ currPtr # wptr => a <= rptr

LowInv ==
  /\ pc \in {"idle", "build"} => low = NotRead
  /\ low # NotRead => \E a \in Cells : LowAt(a)

\* The caller is about to wrap: its block would reach the end of the ring.
WrapInv == pc = "wrap" => currPtr = wptr /\ wptr + waitSize >= Size

\* The caller looks for room after the write pointer, or at the start of the
\* ring, the rest of which has been filled when the engine was in this lap.
Wrapped ==
  /\ currPtr = 0 /\ wptr >= Size - MaxBlock
  /\ rptr <= wptr
  /\ \A i \in wptr .. Size - 1 : ring[i] = Null

RoomInv == pc = "room" => currPtr = wptr \/ Wrapped

\* The block that is granted follows the write pointer, or it is at the start
\* of the ring, and in both places it ends before the engine.
Follows == currPtr = wptr /\ (rptr <= wptr \/ rptr > wptr + waitSize)
Restarts == Wrapped /\ rptr > waitSize

BuildInv == pc = "build" => Follows \/ Restarts

\* Until a test is misled.
QueueInv == (Straight \/ Lapped) /\ LowInv /\ WrapInv /\ RoomInv /\ BuildInv

IInv == TypeInv /\ (~misled => QueueInv)

LEMMA InitIInv == Init => IInv
<1> SUFFICES ASSUME Init PROVE IInv
  OBVIOUS
<1>1. Straight
  BY Sizes DEF Init, Straight
<1> QED  BY <1>1, InitType DEF Init, IInv, QueueInv, LowInv, WrapInv, RoomInv, BuildInv, NotRead

\* A pointer made of the low half of a and the high half of a later b is not
\* before a, and is 0 when both are.
LEMMA TwoHalves ==
  ASSUME NEW a \in Nat, NEW b \in Nat, a <= b
  PROVE  /\ (b \div Radix) * Radix + (a % Radix) >= a
         /\ b = 0 => (b \div Radix) * Radix + (a % Radix) = 0
<1>1. Radix \in Nat /\ Radix > 0
  BY Sizes
<1> DEFINE p == a \div Radix
           q == b \div Radix
<1>2. /\ p \in Nat /\ a % Radix \in 0 .. Radix - 1 /\ a = p * Radix + (a % Radix)
      /\ q \in Nat /\ b % Radix \in 0 .. Radix - 1 /\ b = q * Radix + (b % Radix)
  BY <1>1
<1> HIDE DEF p, q
<1>3. p <= q
  <2> SUFFICES ASSUME ~(p <= q) PROVE FALSE
    OBVIOUS
  <2>1. q + 1 <= p
    BY <1>2
  <2>2. PICK k \in Nat : p = q + 1 + k
    <3>1. p - (q + 1) \in Nat /\ p = q + 1 + (p - (q + 1))
      BY <1>2, <2>1
    <3> QED  BY <3>1
  <2>3. p * Radix = q * Radix + Radix + k * Radix /\ k * Radix \in Nat /\ q * Radix \in Nat
    BY <1>1, <1>2, <2>2
  <2> QED  BY <1>1, <1>2, <2>3
<1>4. q * Radix >= p * Radix
  <2>1. PICK k \in Nat : q = p + k
    <3>1. q - p \in Nat /\ q = p + (q - p)
      BY <1>2, <1>3
    <3> QED  BY <3>1
  <2>2. q * Radix = p * Radix + k * Radix /\ k * Radix \in Nat /\ p * Radix \in Nat
    BY <1>1, <1>2, <2>1
  <2> QED  BY <2>2
<1>5. q * Radix + (a % Radix) >= a
  BY <1>1, <1>2, <1>4
<1>6. b = 0 => q * Radix + (a % Radix) = 0
  <2>1. SUFFICES ASSUME b = 0 PROVE q * Radix + (a % Radix) = 0
    OBVIOUS
  <2>2. a = 0 /\ a % Radix = 0
    BY <1>1, <2>1
  <2>3. q = 0
    BY <1>1, <2>1 DEF q
  <2> QED  BY <1>1, <2>2, <2>3
<1> QED  BY <1>5, <1>6 DEF q

\* What the read pointer tells a caller about the engine.
LEMMA EngineSeen ==
  ASSUME TypeInv, LowInv, low # NotRead
  PROVE  /\ ReadPointer \in Nat
         /\ ReadPointer <= wptr => rptr <= wptr
         /\ currPtr # wptr /\ rptr = 0 => ReadPointer = 0
<1>1. /\ rptr \in Nat /\ wptr \in Nat /\ Radix \in Nat /\ Radix > 0
      /\ currPtr \in Nat
  BY Sizes DEF TypeInv, TypeOK
<1>2. PICK a \in Cells : LowAt(a)
  BY DEF LowInv
<1>3. a \in Nat /\ a % Radix \in Nat /\ low = a % Radix
  BY <1>1, <1>2 DEF Cells, LowAt
<1>4. ReadPointer \in Nat
  <2>1. rptr \div Radix \in Nat
    BY <1>1
  <2>2. (rptr \div Radix) * Radix \in Nat
    BY <1>1, <2>1
  <2> QED  BY <1>3, <2>2 DEF ReadPointer
<1>5. a <= rptr => ReadPointer >= a /\ (rptr = 0 => ReadPointer = 0)
  BY <1>1, <1>3, TwoHalves DEF ReadPointer
<1> QED  BY <1>1, <1>2, <1>3, <1>4, <1>5 DEF LowAt

(***************************************************************************)
(* One step of the caller or of the engine.                                *)
(***************************************************************************)

\* A step that leaves the queue alone leaves what it holds alone.
LEMMA SameQueue ==
  ASSUME Straight \/ Lapped, UNCHANGED <<ring, wptr, rptr, queued, done>>
  PROVE  (Straight \/ Lapped)'
BY DEF Straight, Lapped, LappedAt

LEMMA WrapKeeps ==
  ASSUME TypeInv, QueueInv, Wrap
  PROVE  (Straight \/ Lapped)' /\ Wrapped'
<1> USE Sizes
<1>1. /\ rptr \in Cells /\ wptr \in Cells /\ waitSize \in 1 .. MaxBlock
      /\ ring \in [Cells -> 0 .. MaxCommands]
  BY DEF TypeInv, TypeOK, AskInv, Wrap, Cells
<1>2. currPtr = wptr /\ wptr + waitSize >= Size
  BY DEF QueueInv, WrapInv, Wrap
<1>3. rptr <= wptr
  BY <1>2, EngineSeen DEF QueueInv, Wrap, CanWrap
<1>4. Straight
  BY <1>1, <1>3 DEF QueueInv, Lapped, Cells
<1>5. /\ \A i \in Cells : i < wptr => ring'[i] = ring[i]
      /\ \A i \in Cells : i >= wptr => ring'[i] = Null
  BY <1>1, <1>2 DEF Wrap, Filled, Cells
<1>6. Straight'
  <2>1. \A i \in rptr .. wptr - 1 : ring'[i] = done + 1 + (i - rptr)
    BY <1>1, <1>4, <1>5 DEF Straight, Cells
  <2> QED  BY <1>4, <2>1 DEF Straight, Wrap
<1>7. wptr >= Size - MaxBlock
  BY <1>1, <1>2 DEF Cells
<1>8. \A i \in wptr .. Size - 1 : ring'[i] = Null
  BY <1>1, <1>5 DEF Cells
<1> QED  BY <1>3, <1>6, <1>7, <1>8 DEF Wrapped, Wrap

\* A caller whose test was not misled has a block that the engine has left.
LEMMA GrantedIsFree ==
  ASSUME TypeInv, QueueInv, Granted, ~Misleads
  PROVE  Follows \/ Restarts
<1> USE Sizes
<1>1. /\ rptr \in Nat /\ wptr \in Nat /\ currPtr \in Nat /\ waitSize \in Nat
      /\ waitSize >= 1
  BY DEF TypeInv, TypeOK, AskInv, Granted
<1>2. /\ ReadPointer \in Nat
      /\ ReadPointer <= wptr => rptr <= wptr
      /\ currPtr # wptr /\ rptr = 0 => ReadPointer = 0
  BY EngineSeen DEF QueueInv, Granted
<1>3. currPtr = wptr \/ Wrapped
  BY DEF QueueInv, RoomInv, Granted
<1>4. CASE ReadPointer <= currPtr
  BY <1>1, <1>2, <1>4 DEF Misleads, Follows
<1>5. CASE ReadPointer > currPtr
  <2>1. ReadPointer > currPtr + waitSize
    BY <1>1, <1>2, <1>5 DEF Granted, HasRoom, Misleads
  <2>2. rptr <= currPtr \/ rptr > currPtr + waitSize
    BY <1>1, <1>2, <2>1 DEF Misleads
  <2>3. CASE currPtr = wptr
    BY <1>1, <2>2, <2>3 DEF Follows
  <2>4. CASE currPtr # wptr
    <3>1. Wrapped /\ currPtr = 0
      BY <1>3, <2>4 DEF Wrapped
    <3>2. rptr # 0
      BY <1>1, <1>2, <2>1, <2>4
    <3> QED  BY <1>1, <2>2, <3>1, <3>2 DEF Restarts
  <2> QED  BY <2>3, <2>4
<1> QED  BY <1>1, <1>2, <1>4, <1>5

LEMMA FlushKeeps ==
  ASSUME TypeInv, QueueInv, NEW n \in 1 .. waitSize, Flush(n)
  PROVE  (Straight \/ Lapped)'
<1> USE Sizes
<1>1. /\ rptr \in Cells /\ wptr \in Cells /\ waitSize \in 1 .. MaxBlock /\ currPtr \in Cells
      /\ ring \in [Cells -> 0 .. MaxCommands] /\ queued \in Nat /\ done \in Nat
      /\ currPtr + waitSize < Size
  BY DEF TypeInv, TypeOK, AskInv, Flush, Cells
<1>2. n \in Nat /\ n >= 1 /\ n <= waitSize
  BY <1>1
<1>3. /\ \A i \in Cells : (i < currPtr \/ i >= currPtr + n) => ring'[i] = ring[i]
      /\ \A i \in Cells : i >= currPtr /\ i < currPtr + n => ring'[i] = queued + 1 + (i - currPtr)
  BY <1>1, <1>2 DEF Flush, Block, Cells
<1>4. wptr' = currPtr + n /\ rptr' = rptr /\ queued' = queued + n /\ done' = done
  BY DEF Flush
<1>5. CASE Follows /\ Straight
  <2>1. rptr <= wptr' /\ queued' - done = wptr' - rptr
    BY <1>1, <1>2, <1>4, <1>5 DEF Follows, Straight, Cells
  <2>2. ASSUME NEW i \in rptr .. wptr' - 1 PROVE ring'[i] = done + 1 + (i - rptr)
    <3>1. i \in Cells
      BY <1>1, <1>2, <1>4, <1>5 DEF Follows, Cells
    <3>2. CASE i < wptr
      BY <1>1, <1>3, <1>5, <3>1, <3>2 DEF Follows, Straight, Cells
    <3>3. CASE i >= wptr
      <4>1. ring'[i] = queued + 1 + (i - wptr)
        BY <1>1, <1>2, <1>3, <1>4, <1>5, <3>1, <3>3 DEF Follows, Cells
      <4>2. queued = done + wptr - rptr
        BY <1>1, <1>5 DEF Straight, Cells
      <4> QED  BY <1>1, <3>1, <4>1, <4>2 DEF Cells
    <3> QED  BY <1>1, <3>1, <3>2, <3>3 DEF Cells
  <2> QED  BY <1>4, <2>1, <2>2 DEF Straight
<1>6. CASE Follows /\ Lapped
  <2>1. PICK e \in Cells : LappedAt(e)
    BY <1>6 DEF Lapped
  <2>2. currPtr = wptr /\ rptr > wptr + waitSize
    BY <1>1, <1>6 DEF Follows, Lapped, Cells
  <2>3. rptr > wptr' /\ e >= rptr
    BY <1>1, <1>2, <1>4, <2>1, <2>2 DEF Cells, LappedAt
  <2>4. \A i \in Cells : i >= rptr => ring'[i] = ring[i]
    BY <1>1, <1>2, <1>3, <2>2 DEF Cells
  <2>5. queued' - done = (e - rptr) + wptr'
    BY <1>1, <1>2, <1>4, <2>1, <2>2 DEF LappedAt, Cells
  <2>6. \A i \in rptr .. e - 1 : ring'[i] = done + 1 + (i - rptr)
    BY <1>1, <2>1, <2>4 DEF LappedAt, Cells
  <2>7. \A i \in e .. Size - 1 : ring'[i] = Null
    BY <1>1, <2>1, <2>3, <2>4 DEF LappedAt, Cells
  <2>8. ASSUME NEW i \in 0 .. wptr' - 1 PROVE ring'[i] = done + 1 + (e - rptr) + i
    <3>1. i \in Cells
      BY <1>1, <1>2, <1>4, <2>2
         DEF Cells
    <3>2. CASE i < wptr
      BY <1>1, <1>3, <2>1, <2>2, <3>1, <3>2 DEF LappedAt, Cells
    <3>3. CASE i >= wptr
      <4>1. ring'[i] = queued + 1 + (i - wptr)
        BY <1>1, <1>2, <1>3, <1>4, <2>2, <3>1, <3>3 DEF Cells
      <4>2. queued = done + (e - rptr) + wptr
        BY <1>1, <2>1 DEF LappedAt, Cells
      <4> QED  BY <1>1, <2>1, <3>1, <4>1, <4>2 DEF Cells
    <3> QED  BY <1>1, <3>1, <3>2, <3>3 DEF Cells
  <2>9. LappedAt(e)'
    BY <1>4, <2>1, <2>3, <2>5, <2>6, <2>7, <2>8 DEF LappedAt
  <2> QED  BY <1>4, <2>3, <2>9 DEF Lapped
<1>7. CASE Restarts
  <2>1. Straight /\ rptr > waitSize /\ rptr <= wptr /\ currPtr = 0 /\ wptr >= Size - MaxBlock
    BY <1>1, <1>7 DEF Restarts, Wrapped, QueueInv, Lapped, Cells
  <2>2. \A i \in Cells : i >= rptr => ring'[i] = ring[i]
    BY <1>1, <1>2, <1>3, <2>1 DEF Cells
  <2>3. rptr > wptr'
    BY <1>1, <1>2, <1>4, <2>1 DEF Cells
  <2>4. queued' - done = (wptr - rptr) + wptr'
    BY <1>1, <1>2, <1>4, <2>1 DEF Straight, Cells
  <2>5. \A i \in rptr .. wptr - 1 : ring'[i] = done + 1 + (i - rptr)
    BY <1>1, <2>1, <2>2 DEF Straight, Cells
  <2>6. \A i \in wptr .. Size - 1 : ring'[i] = Null
    BY <1>1, <1>7, <2>1, <2>2 DEF Restarts, Wrapped, Cells
  <2>7. \A i \in 0 .. wptr' - 1 : ring'[i] = done + 1 + (wptr - rptr) + i
    <3>1. queued = done + (wptr - rptr)
      BY <1>1, <2>1 DEF Straight, Cells
    <3>2. \A i \in 0 .. wptr' - 1 : i \in Cells /\ ring'[i] = queued + 1 + i
      BY <1>1, <1>2, <1>3, <1>4, <2>1 DEF Cells
    <3> QED  BY <1>1, <3>1, <3>2 DEF Cells
  <2>8. (\E e \in Cells : LappedAt(e))'
    BY <1>1, <1>4, <2>1, <2>4, <2>5, <2>6, <2>7 DEF LappedAt, Cells
  <2> QED  BY <1>4, <2>3, <2>8 DEF Lapped
<1> QED  BY <1>5, <1>6, <1>7 DEF QueueInv, BuildInv, Flush

\* The engine executes the next command, or a null command, and stays in order.
LEMMA ExecuteKeeps ==
  ASSUME TypeInv, QueueInv, Execute
  PROVE  /\ (Straight \/ Lapped)'
         /\ done' # done => done' = done + 1
         /\ rptr' = rptr + 1 \/ (rptr' = 0 /\ rptr > wptr)
         /\ rptr < wptr => rptr' <= wptr
<1> USE Sizes
<1>1. /\ rptr \in Cells /\ wptr \in Cells /\ rptr # wptr
      /\ ring \in [Cells -> 0 .. MaxCommands] /\ queued \in Nat /\ done \in Nat
      /\ rptr' = (rptr + 1) % Size
      /\ UNCHANGED <<ring, wptr, queued>>
      /\ done' = IF ring[rptr] = Null THEN done ELSE ring[rptr]
  BY DEF TypeInv, TypeOK, Execute, Cells
<1>2. rptr + 1 < Size => rptr' = rptr + 1
  BY <1>1 DEF Cells
<1>3. rptr + 1 = Size => rptr' = 0
  BY <1>1 DEF Cells
<1>4. CASE Straight
  <2>1. rptr < wptr /\ rptr' = rptr + 1
    BY <1>1, <1>2, <1>4 DEF Straight, Cells
  <2>2. ring[rptr] = done + 1
    BY <1>1, <1>4, <2>1 DEF Straight, Cells
  <2>3. done' = done + 1
    BY <1>1, <2>2 DEF Null
  <2>4. ASSUME NEW i \in rptr' .. wptr - 1 PROVE ring[i] = done' + 1 + (i - rptr')
    <3>1. i \in rptr .. wptr - 1 /\ i \in Int
      BY <1>1, <2>1 DEF Cells
    <3>2. ring[i] = done + 1 + (i - rptr)
      BY <1>4, <3>1 DEF Straight
    <3>3. done + 1 + (i - rptr) = done + 1 + 1 + (i - (rptr + 1))
      BY <1>1, <3>1 DEF Cells
    <3> QED  BY <2>1, <2>3, <3>2, <3>3
  <2>5. rptr' <= wptr /\ queued - done' = wptr - rptr'
    BY <1>1, <1>4, <2>1, <2>3 DEF Straight, Cells
  <2>6. Straight'
    BY <1>1, <2>4, <2>5 DEF Straight
  <2> QED  BY <2>1, <2>3, <2>5, <2>6
<1>5. CASE Lapped
  <2>1. PICK e \in Cells : LappedAt(e)
    BY <1>5 DEF Lapped
  <2>2. rptr > wptr /\ e >= rptr
    BY <1>5, <2>1 DEF Lapped, LappedAt
  <2>3. CASE e > rptr
    <3>1. rptr' = rptr + 1
      BY <1>1, <1>2, <2>1, <2>3 DEF Cells
    <3>2. ring[rptr] = done + 1
      BY <1>1, <2>1, <2>3 DEF LappedAt, Cells
    <3>3. done' = done + 1
      BY <1>1, <3>2 DEF Null
    <3>4. queued - done' = (e - rptr') + wptr
      BY <1>1, <2>1, <3>1, <3>3 DEF LappedAt, Cells
    <3>5. ASSUME NEW i \in rptr' .. e - 1 PROVE ring[i] = done' + 1 + (i - rptr')
      <4>1. i \in rptr .. e - 1 /\ i \in Int
        BY <1>1, <2>1, <3>1 DEF Cells
      <4>2. ring[i] = done + 1 + (i - rptr)
        BY <2>1, <4>1 DEF LappedAt
      <4>3. done + 1 + (i - rptr) = done + 1 + 1 + (i - (rptr + 1))
        BY <1>1, <4>1 DEF Cells
      <4> QED  BY <3>1, <3>3, <4>2, <4>3
    <3>6. ASSUME NEW i \in 0 .. wptr - 1 PROVE ring[i] = done' + 1 + (e - rptr') + i
      <4>1. ring[i] = done + 1 + (e - rptr) + i
        BY <2>1 DEF LappedAt
      <4>2. done + 1 + (e - rptr) + i = done + 1 + 1 + (e - (rptr + 1)) + i
        BY <1>1, <2>1 DEF Cells
      <4> QED  BY <3>1, <3>3, <4>1, <4>2
    <3>7. e >= rptr'
      BY <1>1, <2>1, <2>3, <3>1 DEF Cells
    <3>8. LappedAt(e)'
      BY <1>1, <2>1, <3>4, <3>5, <3>6, <3>7 DEF LappedAt
    <3>9. rptr' > wptr'
      BY <1>1, <2>2, <3>1 DEF Cells
    <3> QED  BY <1>1, <2>2, <3>1, <3>3, <3>8, <3>9 DEF Lapped, Cells
  <2>4. CASE e = rptr
    <3>1. ring[rptr] = Null /\ done' = done
      BY <1>1, <2>1, <2>4 DEF LappedAt, Cells
    <3>2. queued - done = wptr /\ \A i \in 0 .. wptr - 1 : ring[i] = done + 1 + i
      BY <1>1, <2>1, <2>4 DEF LappedAt, Cells
    <3>3. CASE rptr + 1 < Size
      <4>1. rptr' = rptr + 1 /\ rptr' \in Cells
        BY <1>1, <1>2, <3>3 DEF Cells
      <4>2. rptr' >= Size - MaxBlock
        BY <1>1, <2>1, <2>4, <4>1 DEF LappedAt, Cells
      <4>3. \A i \in rptr' .. Size - 1 : ring[i] = Null
        BY <1>1, <2>1, <2>4, <4>1 DEF LappedAt, Cells
      <4>4. \A i \in 0 .. wptr - 1 : ring[i] = done + 1 + (rptr' - rptr') + i
        BY <1>1, <3>2, <4>1 DEF Cells
      <4>5. (\E f \in Cells : LappedAt(f))'
        BY <1>1, <3>1, <3>2, <4>1, <4>2, <4>3, <4>4 DEF LappedAt, Cells
      <4>6. rptr' > wptr'
        BY <1>1, <2>2, <4>1 DEF Cells
      <4> QED  BY <1>1, <2>2, <3>1, <4>1, <4>5, <4>6 DEF Lapped, Cells
    <3>4. CASE rptr + 1 = Size
      <4>1. rptr' = 0
        BY <1>3, <3>4
      <4>2. Straight'
        BY <1>1, <3>1, <3>2, <4>1 DEF Straight, Cells
      <4> QED  BY <1>1, <2>2, <3>1, <4>1, <4>2 DEF Cells
    <3> QED  BY <1>1, <3>3, <3>4 DEF Cells
  <2> QED  BY <1>1, <2>1, <2>2, <2>3, <2>4 DEF Cells
<1> QED  BY <1>4, <1>5 DEF QueueInv

\* The engine does not pass what the caller has seen of it.
LEMMA ExecuteLow ==
  ASSUME TypeInv, QueueInv, Execute
  PROVE  LowInv'
<1>1. /\ rptr \in Cells /\ wptr \in Cells /\ currPtr \in Cells
      /\ rptr' = rptr + 1 \/ (rptr' = 0 /\ rptr > wptr)
      /\ rptr < wptr => rptr' <= wptr
      /\ rptr # wptr /\ Size \in Nat
      /\ UNCHANGED <<wptr, currPtr, pc, low>>
  BY ExecuteKeeps, Sizes DEF TypeInv, TypeOK, Cells, Execute
<1>2. LowInv
  BY DEF QueueInv
<1>3. SUFFICES ASSUME low # NotRead PROVE \E a \in Cells : LowAt(a)'
  BY <1>1, <1>2 DEF LowInv
<1>4. PICK a \in Cells : LowAt(a)
  BY <1>2, <1>3 DEF LowInv
<1>5. rptr' > wptr => wptr < a /\ a <= rptr'
  BY <1>1, <1>4 DEF LowAt, Cells
<1>6. currPtr # wptr => a <= rptr'
  <2>1. SUFFICES ASSUME currPtr # wptr PROVE a <= rptr'
    OBVIOUS
  <2>2. pc \in {"wrap", "room"}
    BY <1>3 DEF TypeInv, TypeOK, QueueInv, LowInv
  <2>3. rptr <= wptr
    BY <2>1, <2>2 DEF QueueInv, WrapInv, RoomInv, Wrapped
  <2> QED  BY <1>1, <1>4, <2>1, <2>3 DEF LowAt, Cells
<1> QED  BY <1>1, <1>4, <1>5, <1>6 DEF LowAt

LEMMA NextQueue == TypeInv /\ QueueInv /\ [Next]_vars /\ ~misled' => QueueInv'
<1> SUFFICES ASSUME TypeInv, QueueInv, [Next]_vars, ~misled' PROVE QueueInv'
  OBVIOUS
<1> USE Sizes
<1>t. /\ rptr \in Cells /\ wptr \in Cells /\ currPtr \in Cells /\ waitSize \in 0 .. MaxBlock
      /\ queued \in Nat /\ done \in Nat
  BY DEF TypeInv, TypeOK, Cells
<1>q. /\ Straight \/ Lapped
      /\ LowInv /\ WrapInv /\ RoomInv /\ BuildInv
  BY DEF QueueInv
<1>1. ASSUME NEW n \in 1 .. MaxBlock, WaitSize(n) PROVE QueueInv'
  <2>1. /\ UNCHANGED <<ring, wptr, rptr, queued, done, low>> /\ pc = "idle"
        /\ currPtr' = wptr /\ waitSize' = n
        /\ pc' = IF wptr + n >= Size THEN "wrap" ELSE "room"
    BY <1>1 DEF WaitSize, ReachesEnd
  <2>2. (Straight \/ Lapped)'
    BY <1>q, <2>1, SameQueue
  <2>3. LowInv'
    BY <1>q, <2>1 DEF LowInv
  <2>4. WrapInv' /\ RoomInv' /\ BuildInv'
    BY <2>1 DEF WrapInv, RoomInv, BuildInv
  <2> QED  BY <2>2, <2>3, <2>4 DEF QueueInv
<1>2. CASE ReadLow
  <2>1. /\ UNCHANGED <<ring, wptr, rptr, currPtr, waitSize, queued, done, pc>>
        /\ low' = rptr % Radix /\ pc \in {"wrap", "room"}
    BY <1>2 DEF ReadLow
  <2>2. (Straight \/ Lapped)'
    BY <1>q, <2>1, SameQueue
  <2>3. LowAt(rptr)'
    BY <1>t, <2>1 DEF LowAt, Cells
  <2>4. LowInv'
    BY <1>t, <2>1, <2>3 DEF LowInv, LowAt
  <2>5. WrapInv' /\ RoomInv' /\ BuildInv'
    BY <1>q, <2>1 DEF WrapInv, RoomInv, BuildInv, Wrapped
  <2> QED  BY <2>2, <2>4, <2>5 DEF QueueInv
<1>3. ASSUME UNCHANGED <<ring, wptr, rptr, currPtr, queued, done>>, low' = NotRead,
             pc' = "idle" \/ (UNCHANGED waitSize /\ pc' = pc)
      PROVE  QueueInv'
  <2>1. (Straight \/ Lapped)'
    BY <1>q, <1>3, SameQueue
  <2>2. LowInv'
    BY <1>3 DEF LowInv
  <2>3. WrapInv' /\ RoomInv'
    BY <1>q, <1>3 DEF WrapInv, RoomInv, Wrapped
  <2>4. BuildInv'
    BY <1>q, <1>3 DEF BuildInv, Follows, Restarts, Wrapped
  <2> QED  BY <2>1, <2>2, <2>3, <2>4 DEF QueueInv
<1>4. CASE LookAgain \/ GiveUp
  BY <1>3, <1>4 DEF LookAgain, GiveUp
<1>5. CASE Wrap
  <2>1. (Straight \/ Lapped)' /\ Wrapped'
    BY <1>5, WrapKeeps
  <2>2. LowInv' /\ WrapInv' /\ RoomInv' /\ BuildInv'
    BY <1>5, <2>1 DEF Wrap, LowInv, WrapInv, RoomInv, BuildInv
  <2> QED  BY <2>1, <2>2 DEF QueueInv
<1>6. CASE Granted
  <2>1. /\ UNCHANGED <<ring, wptr, rptr, currPtr, waitSize, queued, done>>
        /\ low' = NotRead /\ pc' = "build" /\ ~Misleads
    BY <1>6 DEF Granted
  <2>2. (Straight \/ Lapped)'
    BY <1>q, <2>1, SameQueue
  <2>3. Follows \/ Restarts
    BY <1>6, <2>1, GrantedIsFree
  <2>4. Follows' \/ Restarts'
    BY <2>1, <2>3 DEF Follows, Restarts, Wrapped
  <2>5. LowInv' /\ WrapInv' /\ RoomInv' /\ BuildInv'
    BY <2>1, <2>4 DEF LowInv, WrapInv, RoomInv, BuildInv
  <2> QED  BY <2>2, <2>5 DEF QueueInv
<1>7. ASSUME NEW n \in 1 .. waitSize, Flush(n) PROVE QueueInv'
  <2>1. (Straight \/ Lapped)'
    BY <1>7, FlushKeeps
  <2>2. LowInv' /\ WrapInv' /\ RoomInv' /\ BuildInv'
    BY <1>7, <1>q DEF Flush, LowInv, WrapInv, RoomInv, BuildInv
  <2> QED  BY <2>1, <2>2 DEF QueueInv
<1>8. CASE Execute
  <2>1. /\ (Straight \/ Lapped)'
        /\ rptr' = rptr + 1 \/ (rptr' = 0 /\ rptr > wptr)
        /\ rptr < wptr => rptr' <= wptr
    BY <1>8, ExecuteKeeps
  <2>2. rptr # wptr /\ UNCHANGED <<ring, wptr, pc, currPtr, waitSize>>
    BY <1>8 DEF Execute
  <2>3. WrapInv'
    BY <1>q, <2>2 DEF WrapInv
  <2>4. ASSUME Follows PROVE Follows'
    BY <1>t, <2>1, <2>2, <2>4 DEF Follows, Cells
  <2>5. ASSUME Wrapped PROVE Wrapped' /\ rptr' >= rptr
    BY <1>t, <2>1, <2>2, <2>5 DEF Wrapped, Cells
  <2>6. RoomInv'
    BY <1>q, <2>2, <2>5 DEF RoomInv
  <2>7. ASSUME Restarts PROVE Restarts'
    BY <1>t, <2>1, <2>2, <2>5, <2>7 DEF Restarts, Cells
  <2>8. BuildInv'
    BY <1>q, <2>2, <2>4, <2>7 DEF BuildInv
  <2> QED  BY <1>8, <2>1, <2>3, <2>6, <2>8, ExecuteLow DEF QueueInv
<1>9. CASE UNCHANGED vars
  <2>1. UNCHANGED <<ring, wptr, rptr, pc, currPtr, waitSize, low, queued, done>>
    BY <1>9 DEF vars
  <2>2. (Straight \/ Lapped)'
    BY <1>q, <2>1, SameQueue
  <2>3. LowInv'
    BY <1>q, <2>1 DEF LowInv, LowAt
  <2>4. WrapInv' /\ RoomInv' /\ BuildInv'
    BY <1>q, <2>1 DEF WrapInv, RoomInv, BuildInv, Follows, Restarts, Wrapped
  <2> QED  BY <2>2, <2>3, <2>4 DEF QueueInv
<1> QED  BY <1>1, <1>2, <1>4, <1>5, <1>6, <1>7, <1>8, <1>9 DEF Next, Caller

LEMMA Misled == [Next]_vars /\ ~misled' => ~misled
BY DEF Next, Caller, WaitSize, ReadLow, Wrap, Granted, LookAgain, GiveUp, Flush, Execute, vars

THEOREM Invariance == Spec => []IInv
<1>1. IInv /\ [Next]_vars => IInv'
  BY NextType, NextQueue, Misled DEF IInv
<1> QED  BY <1>1, InitIInv, PTL DEF Spec

(***************************************************************************)
(* What follows.                                                           *)
(***************************************************************************)

LEMMA FreeBlock == IInv => BlockIsFree
<1> SUFFICES ASSUME IInv, pc = "build", ~misled
             PROVE  Block(waitSize) \intersect Pending = {}
  BY DEF BlockIsFree
<1>1. /\ rptr \in Cells /\ wptr \in Cells /\ currPtr \in Cells /\ waitSize \in 1 .. MaxBlock
      /\ currPtr + waitSize < Size /\ Size \in Nat /\ MaxBlock \in Nat
  BY Sizes DEF IInv, TypeInv, TypeOK, AskInv, Cells
<1>2. CASE Follows
  BY <1>1, <1>2 DEF Follows, Block, Pending, Cells
<1>3. CASE Restarts
  BY <1>1, <1>3 DEF Restarts, Wrapped, Block, Pending, Cells
<1> QED  BY <1>2, <1>3 DEF IInv, QueueInv, BuildInv

\* However full the queue is, until a test of room is misled (after a wrap by an
\* engine at the start of the ring, by a block that would end on the read
\* pointer, or by two halves that make a pointer ahead of the engine's), the
\* block ithCmdQWaitSize returns holds no command that is still to be executed.
THEOREM BlocksAreFree == Spec => []BlockIsFree
BY Invariance, FreeBlock, PTL

\* However full the queue is, until a test of room is misled, the engine takes
\* no queue for empty that holds commands.
THEOREM IdleIsDone == Spec => []IdleMeansDone
<1>1. IInv => IdleMeansDone
  <2> SUFFICES ASSUME IInv, ~misled, rptr = wptr PROVE done = queued
    BY DEF IdleMeansDone, EmptyMeansDone
  <2>1. wptr \in Nat /\ queued \in Nat /\ done \in Nat
    BY Sizes DEF IInv, TypeInv, TypeOK
  <2>2. Straight
    BY <2>1 DEF IInv, QueueInv, Lapped
  <2> QED  BY <2>1, <2>2 DEF Straight
<1> QED  BY <1>1, Invariance, PTL

\* However full the queue is, until a test of room is misled, the engine
\* executes the commands in the order in which they were queued, none twice and
\* none left out, through every wrap of the ring.
THEOREM InOrder == Spec => ExecutesInOrder
<1>1. IInv /\ [Next]_vars => [~misled /\ done' # done => done' = done + 1]_vars
  <2> SUFFICES ASSUME IInv, Next, ~misled, done' # done PROVE done' = done + 1
    OBVIOUS
  <2>1. Execute
    BY DEF Next, Caller, WaitSize, ReadLow, Wrap, Granted, LookAgain, GiveUp, Flush
  <2> QED  BY <2>1, ExecuteKeeps DEF IInv
<1> QED  BY <1>1, Invariance, PTL DEF Spec, ExecutesInOrder
=============================================================================
