------------------------------ MODULE CmdQueue ------------------------------
(***************************************************************************)
(* The hardware command queue of driver/ith/ith_cmdq.c: the processor      *)
(* writes blocks of commands into a ring and moves the write pointer; the  *)
(* engine executes the commands from its read pointer up to it.  A block   *)
(* is contiguous: when it would reach the end of the ring the rest of the  *)
(* ring is filled with null commands and the block starts at 0.            *)
(*                                                                         *)
(* Pointers count commands of 8 bytes.  The read pointer is read in two    *)
(* halves (`Radix` commands is 64 KB) while the engine moves it.           *)
(* One caller at a time: every caller holds ithCmdQLock.                   *)
(***************************************************************************)
EXTENDS Integers

CONSTANTS
  Size,         \* ithCmdQ->size, in commands
  Radix,        \* commands addressed by the low half of a pointer
  MaxBlock,     \* the largest block asked for
  MaxCommands   \* bound on the number of commands

ASSUME CmdQueueAssumption ==
  /\ Size \in Nat /\ Radix \in Nat \ {0} /\ MaxCommands \in Nat
  /\ MaxBlock \in Nat /\ 2 * MaxBlock < Size

VARIABLES
  ring,      \* the memory of the queue: the number of the command in each cell
  wptr,      \* the write pointer register
  rptr,      \* the read pointer register, moved by the engine
  pc,        \* the caller: "idle", "wrap" and "room" (WaitAvailableSize's loops), "build"
  currPtr,
  waitSize,
  low,       \* low half of the read pointer, when it has been read
  queued,    \* number of commands flushed
  done,      \* history: the last command executed
  misled     \* history: a test of room has been misled by the read pointer

vars == <<ring, wptr, rptr, pc, currPtr, waitSize, low, queued, done, misled>>

Null == 0
NotRead == -1

\* ithCmdQInit and ithCmdQReset.
Init ==
  /\ ring \in {[i \in 0 .. Size - 1 |-> Null]}
  /\ wptr = 0 /\ rptr = 0
  /\ pc = "idle" /\ currPtr = 0 /\ waitSize = 0 /\ low = NotRead
  /\ queued = 0 /\ done = 0 /\ misled = FALSE

-----------------------------------------------------------------------------
(* The caller: ithCmdQWaitSize, then ithCmdQFlush                          *)

ReachesEnd_OffByOne(size) == wptr + size > Size
ReachesEnd(size) == wptr + size >= Size

WaitSize(size) ==
  /\ pc = "idle" /\ queued + size <= MaxCommands
  /\ currPtr' = wptr
  /\ waitSize' = size
  /\ pc' = IF ReachesEnd(size) THEN "wrap" ELSE "room"
  /\ UNCHANGED <<ring, wptr, rptr, low, queued, done, misled>>

\* GetReadPointer reads the low half, then the high one.
ReadLow ==
  /\ pc \in {"wrap", "room"} /\ low = NotRead
  /\ low' = rptr % Radix
  /\ UNCHANGED <<ring, wptr, rptr, pc, currPtr, waitSize, queued, done, misled>>

ReadPointer == (rptr \div Radix) * Radix + low

\* The engine is before the block (or at it), or far enough behind it.
CanWrap_Always == TRUE
CanWrap == ReadPointer <= currPtr

HasRoom_ForOne == ReadPointer <= currPtr \/ ReadPointer - currPtr >= 1
HasRoom == ReadPointer <= currPtr \/ ReadPointer - currPtr >= waitSize

\* The test for room does not show that the block is free: after a wrap the
\* engine at the start of the ring has the whole lap to do, and is taken for
\* one that has done it; a block may end on the read pointer, as in an empty
\* queue; and the two halves may make a pointer that is ahead of the engine's.
Misleads ==
  \/ ReadPointer <= currPtr /\ currPtr # wptr
  \/ ReadPointer - currPtr = waitSize
  \/ currPtr < rptr /\ rptr < ReadPointer

\* FillNullCommands: the cells up to the end of the ring.
Filled_Not == ring
Filled == [i \in 0 .. Size - 1 |-> IF i >= currPtr THEN Null ELSE ring[i]]

Wrap ==
  /\ pc = "wrap" /\ low # NotRead /\ CanWrap
  /\ ring' = Filled
  /\ currPtr' = 0
  /\ low' = NotRead
  /\ pc' = "room"
  /\ UNCHANGED <<wptr, rptr, waitSize, queued, done, misled>>

Granted ==
  /\ pc = "room" /\ low # NotRead /\ HasRoom
  /\ low' = NotRead
  /\ pc' = "build"
  /\ misled' = (misled \/ Misleads)
  /\ UNCHANGED <<ring, wptr, rptr, currPtr, waitSize, queued, done>>

Waiting == low # NotRead /\ ((pc = "wrap" /\ ~CanWrap) \/ (pc = "room" /\ ~HasRoom))

\* ithTaskYield, and look again.
LookAgain_OldPointer ==
  /\ Waiting
  /\ UNCHANGED vars

LookAgain ==
  /\ Waiting
  /\ low' = NotRead
  /\ UNCHANGED <<ring, wptr, rptr, pc, currPtr, waitSize, queued, done, misled>>

\* After ITH_CMDQ_LOOP_TIMEOUT looks the caller gets no block.
GiveUp ==
  /\ Waiting
  /\ low' = NotRead
  /\ waitSize' = 0
  /\ pc' = "idle"
  /\ UNCHANGED <<ring, wptr, rptr, currPtr, queued, done, misled>>

\* The block is written, possibly shorter than asked for, and flushed.
Block(n) == currPtr .. currPtr + n - 1

Flush_BeforeAdvance(n) ==
  /\ pc = "build"
  /\ ring' = [i \in 0 .. Size - 1 |-> IF i \in Block(n) THEN queued + 1 + (i - currPtr) ELSE ring[i]]
  /\ currPtr' = currPtr + n
  /\ wptr' = currPtr
  /\ waitSize' = 0
  /\ queued' = queued + n
  /\ pc' = "idle"
  /\ UNCHANGED <<rptr, low, done, misled>>

Flush(n) ==
  /\ pc = "build"
  /\ ring' = [i \in 0 .. Size - 1 |-> IF i \in Block(n) THEN queued + 1 + (i - currPtr) ELSE ring[i]]
  /\ currPtr' = currPtr + n
  /\ wptr' = currPtr + n
  /\ waitSize' = 0
  /\ queued' = queued + n
  /\ pc' = "idle"
  /\ UNCHANGED <<rptr, low, done, misled>>

-----------------------------------------------------------------------------
(* The engine                                                              *)

Execute ==
  /\ rptr # wptr
  /\ rptr' = (rptr + 1) % Size
  /\ done' = IF ring[rptr] = Null THEN done ELSE ring[rptr]
  /\ UNCHANGED <<ring, wptr, pc, currPtr, waitSize, low, queued, misled>>

-----------------------------------------------------------------------------
Caller == ReadLow \/ Wrap \/ Granted \/ LookAgain \/ \E n \in 1 .. waitSize : Flush(n)

Next == (\E n \in 1 .. MaxBlock : WaitSize(n)) \/ Caller \/ GiveUp \/ Execute

Spec == Init /\ [][Next]_vars

\* The engine executes what it is given, and a caller, who may look for ever,
\* is scheduled; that it gives up after a while is not relied upon.
FairSpec == Spec /\ WF_vars(Execute) /\ WF_vars(Caller)

-----------------------------------------------------------------------------
(* Properties                                                              *)

\* Every variable keeps its type; no pointer leaves the ring.
TypeOK ==
  /\ ring \in [0 .. Size - 1 -> 0 .. MaxCommands]
  /\ wptr \in 0 .. Size - 1 /\ rptr \in 0 .. Size - 1 /\ currPtr \in 0 .. Size - 1
  /\ pc \in {"idle", "wrap", "room", "build"}
  /\ waitSize \in 0 .. MaxBlock
  /\ low \in -1 .. Radix - 1
  /\ queued \in 0 .. MaxCommands /\ done \in 0 .. MaxCommands /\ misled \in BOOLEAN

\* The cells the engine has still to execute.
Pending == IF rptr <= wptr THEN rptr .. wptr - 1 ELSE (rptr .. Size - 1) \union (0 .. wptr - 1)

\* The block a caller is given holds no command that is still to be executed,
\* however full the queue: the caller has waited for the engine to leave it.
\* The only exceptions are the three ways in which the test is misled.
BlockIsFree == pc = "build" /\ ~misled => Block(waitSize) \intersect Pending = {}

\* A queue that looks empty to the engine is empty: every command was executed.
EmptyMeansDone == rptr = wptr => done = queued

\* An engine that is idle (what ithCmdQWaitEmpty waits for) has executed
\* everything, as long as no test of room has been misled.
IdleMeansDone == ~misled => EmptyMeansDone

\* As long as no test of room has been misled, the engine executes the commands
\* in the order in which they were queued, each once: none is lost, repeated
\* from an earlier lap, or overwritten.
ExecutesInOrder == [][~misled /\ done' # done => done' = done + 1]_vars

\* Every command is executed unless a test of room is misled, and every caller
\* gets its block or an error even then.
AllExecuted == \A n \in 1 .. MaxCommands : queued >= n ~> done >= n \/ misled
CallerReturns == pc # "idle" ~> pc = "idle"
=============================================================================
