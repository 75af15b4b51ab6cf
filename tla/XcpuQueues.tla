----------------------------- MODULE XcpuQueues -----------------------------
(***************************************************************************)
(* The message queues between the host processor (driver/xcpu_master) and  *)
(* the media processor (driver/xcpu_slave): a ring in each direction, in   *)
(* the slave's memory; a router on each side that moves what arrives to    *)
(* the queues of its services; and the handshake by which they start.      *)
(*                                                                         *)
(* "ms" is the direction from master to slave, "sm" the other one.         *)
(* w["ms"] and r["sm"] are the registers MASTER_WRITE and MASTER_READ,     *)
(* w["sm"] and r["ms"] the words slaveWriteIndex and slaveReadIndex.       *)
(***************************************************************************)
EXTENDS MsgRing, FiniteSets

CONSTANTS
  Size,         \* MAX_XCPU_MSG_COUNT as each side was compiled: [{"master", "slave"} -> Nat]
  Services,     \* message types, each with a queue on either side
  ServiceSize,  \* MAX_SYS_*_MSGQ_SIZE of each direction's and service's queue
  Periods,      \* how often the master looks for the slave's mark
  MaxSends, MaxRestarts  \* bounds: messages in both directions, restarts of the slave

Dirs == {"ms", "sm"}
Sides == {"master", "slave"}
Sender(d) == IF d = "ms" THEN "master" ELSE "slave"
Receiver(d) == IF d = "ms" THEN "slave" ELSE "master"

ASSUME XcpuAssumption ==
  /\ Size \in [Sides -> Nat] /\ \A x \in Sides : Size[x] >= 2
  /\ ServiceSize \in [Dirs \X Services -> Nat \ {0}] /\ "none" \notin Services
  /\ Periods \in Nat /\ MaxSends \in Nat /\ MaxRestarts \in Nat

VARIABLES
  w, r,       \* write and read index of each direction
  slots,      \* gtMToSMsgQ and gtSToMMsgQ
  boot,       \* where each side is in its xCpuMsgQ_Init
  uncleared,  \* memory of the rings the slave's start-up code has yet to clear
  patience,   \* `timeout` of the master's xCpuMsgQ_Init
  restarts,
  send,       \* xCpuMsgQ_SendMessage of each direction's sender: step, message, index
  route,      \* xCpuMsgQ_RouteMessage of its receiver: step, message, index
  service,    \* sys_msgq.c: the queue of each direction and service
  sent,       \* history: the messages sent
  routed      \* history: the messages the router took out of the ring

vars == <<w, r, slots, boot, uncleared, patience, restarts, send, route, service, sent, routed>>

Mark == 65535    \* the slave waits for the master
Message == [type : Services, id : 1 .. MaxSends]
Junk == [type |-> "none", id |-> 0]   \* memory that holds no message
Anything == Message \union {Junk}
Idle == [step |-> "idle", msg |-> Junk, at |-> 0]
Cells == 0 .. Size["slave"] - 1       \* the memory of a ring is the slave's

Memory == Dirs \X Cells

Ready(side) == boot[side] = "run"

\* At power-up nothing runs; the service queues are empty.
Init ==
  /\ w = [d \in Dirs |-> 0] /\ r = [d \in Dirs |-> 0]
  /\ slots = [d \in Dirs |-> [i \in Cells |-> Junk]]
  /\ boot = [x \in Sides |-> "off"] /\ uncleared = Memory
  /\ patience = Periods
  /\ restarts = 0
  /\ send = [d \in Dirs |-> Idle] /\ route = [d \in Dirs |-> Idle]
  /\ service = [q \in Dirs \X Services |-> <<>>]
  /\ sent = [d \in Dirs |-> <<>>] /\ routed = [d \in Dirs |-> <<>>]

-----------------------------------------------------------------------------
(* xCpuMsgQ_Init of both sides                                             *)

taskVars == <<send, route, service, sent, routed>>
ringVars == <<slots, taskVars>>

\* A side takes the next step of its xCpuMsgQ_Init.
Goes(side, from, to) == boot[side] = from /\ boot' = [boot EXCEPT ![side] = to]

\* The slave's start-up code clears its memory, the rings in it, slot by slot.
SlaveClears_NoSlot ==
  /\ boot["slave"] = "off"
  /\ \E c \in uncleared : uncleared' = uncleared \ {c}
  /\ UNCHANGED <<w, r, slots, boot, patience, restarts, taskVars>>

SlaveClears ==
  /\ boot["slave"] = "off"
  /\ \E c \in uncleared :
       /\ slots' = [slots EXCEPT ![c[1]] = [@ EXCEPT ![c[2]] = Junk]]
       /\ uncleared' = uncleared \ {c}
  /\ UNCHANGED <<w, r, boot, patience, restarts, taskVars>>

\* Then xCpuMsgQ_Init clears the indices the slave writes, one by one, and
\* sets the mark.
SlaveBoot ==
  /\ \/ /\ Goes("slave", "off", "clear sw") /\ uncleared = {}
        /\ r' = [r EXCEPT !["ms"] = 0] /\ w' = w
     \/ Goes("slave", "clear sw", "mark") /\ w' = [w EXCEPT !["sm"] = 0] /\ r' = r
     \/ Goes("slave", "mark", "wait") /\ r' = [r EXCEPT !["sm"] = Mark] /\ w' = w
  /\ UNCHANGED <<uncleared, patience, restarts, ringVars>>

SlaveStarts ==
  /\ boot["slave"] = "wait" /\ r["sm"] = 0
  /\ boot' = [boot EXCEPT !["slave"] = "run"]
  /\ UNCHANGED <<w, r, uncleared, patience, restarts, ringVars>>

MasterBoot ==
  /\ boot["master"] = "off"
  /\ boot' = [boot EXCEPT !["master"] = "wait"]
  /\ UNCHANGED <<w, r, uncleared, patience, restarts, ringVars>>

\* No mark yet: count down and sleep; the count goes below 0 when the time is up.
MasterSleeps ==
  /\ boot["master"] = "wait" /\ r["sm"] # Mark
  /\ patience' = patience - 1
  /\ boot' = [boot EXCEPT !["master"] = IF patience > 0 THEN "wait" ELSE "failed"]
  /\ UNCHANGED <<w, r, uncleared, restarts, ringVars>>

\* The mark is there: too late if the count has reached 0.
MasterSeesMark_OffByOne ==
  /\ boot["master"] = "wait" /\ r["sm"] = Mark
  /\ boot' = [boot EXCEPT !["master"] = IF patience > 1 THEN "clear sw" ELSE "failed"]
  /\ UNCHANGED <<w, r, uncleared, patience, restarts, ringVars>>

MasterSeesMark ==
  /\ boot["master"] = "wait" /\ r["sm"] = Mark
  /\ boot' = [boot EXCEPT !["master"] = IF patience > 0 THEN "clear sw" ELSE "failed"]
  /\ UNCHANGED <<w, r, uncleared, patience, restarts, ringVars>>

\* The indices are cleared one by one, the slave's mark last.
MasterClears_MarkFirst ==
  /\ \/ Goes("master", "clear sw", "clear sr") /\ r' = [r EXCEPT !["sm"] = 0] /\ w' = w
     \/ Goes("master", "clear sr", "clear mw") /\ r' = [r EXCEPT !["ms"] = 0] /\ w' = w
     \/ Goes("master", "clear mw", "clear mr") /\ w' = [w EXCEPT !["ms"] = 0] /\ r' = r
     \/ Goes("master", "clear mr", "run") /\ w' = [w EXCEPT !["sm"] = 0] /\ r' = r
  /\ UNCHANGED <<uncleared, patience, restarts, ringVars>>

MasterClears ==
  /\ \/ Goes("master", "clear sw", "clear sr") /\ w' = [w EXCEPT !["sm"] = 0] /\ r' = r
     \/ Goes("master", "clear sr", "clear mw") /\ r' = [r EXCEPT !["ms"] = 0] /\ w' = w
     \/ Goes("master", "clear mw", "clear mr") /\ w' = [w EXCEPT !["ms"] = 0] /\ r' = r
     \/ Goes("master", "clear mr", "run") /\ r' = [r EXCEPT !["sm"] = 0] /\ w' = w
  /\ UNCHANGED <<uncleared, patience, restarts, ringVars>>

\* External: the slave is reset; what its tasks were doing is gone.
SlaveRestart ==
  /\ restarts < MaxRestarts
  /\ restarts' = restarts + 1
  /\ boot' = [boot EXCEPT !["slave"] = "off"] /\ uncleared' = Memory
  /\ send' = [send EXCEPT !["sm"] = Idle]
  /\ route' = [route EXCEPT !["ms"] = Idle]
  /\ service' = [q \in DOMAIN service |-> IF q[1] = "ms" THEN <<>> ELSE service[q]]
  /\ UNCHANGED <<w, r, slots, patience, sent, routed>>

-----------------------------------------------------------------------------
(* xCpuMsgQ_SendMessage; a full ring refuses the message                   *)

bootVars == <<boot, uncleared, patience, restarts>>

SendCheck(d) ==
  /\ Ready(Sender(d)) /\ send[d].step = "idle" /\ Len(sent["ms"]) + Len(sent["sm"]) < MaxSends
  /\ ~Full(w[d], r[d], Size[Sender(d)])
  /\ \E t \in Services :
       send' = [send EXCEPT ![d] = 
         [step |-> "copy", msg |-> [type |-> t, id |-> Len(sent[d]) + 1], at |-> w[d]]]
  /\ UNCHANGED <<w, r, slots, bootVars, route, service, sent, routed>>

SendCopy(d) ==
  /\ send[d].step = "copy"
  /\ slots' = [slots EXCEPT ![d] = [@ EXCEPT ![send[d].at] = send[d].msg]]
  /\ send' = [send EXCEPT ![d].step = "publish"]
  /\ UNCHANGED <<w, r, bootVars, route, service, sent, routed>>

SendPublish(d) ==
  /\ send[d].step = "publish"
  /\ w' = [w EXCEPT ![d] = Succ(send[d].at, Size[Sender(d)])]
  /\ sent' = [sent EXCEPT ![d] = Append(@, send[d].msg)]
  /\ send' = [send EXCEPT ![d] = Idle]
  /\ UNCHANGED <<r, slots, bootVars, route, service, routed>>

-----------------------------------------------------------------------------
(* xCpuMsgQ_RouteMessage: xCpuMsgQ_ReceiveMessage, sysMsgQ_SendMessage     *)

\* Slots beyond the memory of the ring hold no message.
ReceiveCopy(d) ==
  /\ Ready(Receiver(d)) /\ route[d].step = "idle"
  /\ ~Empty(w[d], r[d], Size[Receiver(d)])
  /\ route' = [route EXCEPT ![d] =
       [step |-> "advance", msg |-> IF r[d] \in Cells THEN slots[d][r[d]] ELSE Junk, at |-> r[d]]]
  /\ UNCHANGED <<w, r, slots, bootVars, send, service, sent, routed>>

\* The index has 16 bits: after the mark it is 0.
ReceiveAdvance(d) ==
  /\ route[d].step = "advance"
  /\ r' = [r EXCEPT ![d] = Succ(route[d].at, Size[Receiver(d)])]
  /\ routed' = [routed EXCEPT ![d] = Append(@, route[d].msg)]
  /\ route' = [route EXCEPT ![d].step = "dispatch"]
  /\ UNCHANGED <<w, slots, bootVars, send, service, sent>>

\* A message for a full service queue is dropped.
Room(q) == Len(service[q]) < ServiceSize[q] - 1

Dispatch(d) ==
  /\ route[d].step = "dispatch"
  /\ LET q == <<d, route[d].msg.type>>
     IN  service' = IF q \in DOMAIN service /\ Room(q)
                    THEN [service EXCEPT ![q] = Append(@, route[d].msg)] ELSE service
  /\ route' = [route EXCEPT ![d] = Idle]
  /\ UNCHANGED <<w, r, slots, bootVars, send, sent, routed>>

\* sysMsgQ_ReceiveMessage, called by the service.
Consume(d, t) ==
  /\ Ready(Receiver(d)) /\ service[<<d, t>>] # <<>>
  /\ service' = [service EXCEPT ![<<d, t>>] = Tail(@)]
  /\ UNCHANGED <<w, r, slots, bootVars, send, route, sent, routed>>

-----------------------------------------------------------------------------
SlaveInit == SlaveClears \/ SlaveBoot \/ SlaveStarts
MasterInit == MasterBoot \/ MasterSleeps \/ MasterSeesMark \/ MasterClears
Sending(d) == SendCheck(d) \/ SendCopy(d) \/ SendPublish(d)
Routing(d) == ReceiveCopy(d) \/ ReceiveAdvance(d) \/ Dispatch(d)

Next ==
  \/ SlaveInit \/ MasterInit \/ SlaveRestart
  \/ \E d \in Dirs : Sending(d) \/ Routing(d) \/ \E t \in Services : Consume(d, t)

Spec == Init /\ [][Next]_vars

\* Both processors run; the routers are called periodically.
FairSpec ==
  /\ Spec
  /\ WF_vars(SlaveInit) /\ WF_vars(MasterInit)
  /\ \A d \in Dirs : WF_vars(Routing(d)) /\ WF_vars(SendCopy(d) \/ SendPublish(d))

-----------------------------------------------------------------------------
(* Properties                                                              *)

\* Every variable keeps its type; an index is in its ring or is the mark.
TypeOK ==
  /\ w \in [Dirs -> Cells]
  /\ r \in [Dirs -> Cells \union {Mark}] /\ r["ms"] # Mark
  /\ slots \in [Dirs -> [Cells -> Anything]]
  /\ boot["slave"] \in {"off", "clear sw", "mark", "wait", "run"} /\ uncleared \subseteq Memory
  /\ boot["master"] \in {"off", "wait", "failed", "clear sw", "clear sr", "clear mw", "clear mr", "run"}
  /\ patience \in -1 .. Periods /\ restarts \in 0 .. MaxRestarts
  /\ \A d \in Dirs :
       /\ send[d].step \in {"idle", "copy", "publish"} /\ send[d].msg \in Anything /\ send[d].at \in Cells
       /\ route[d].step \in {"idle", "advance", "dispatch"} /\ route[d].msg \in Anything
       /\ route[d].at \in Cells \union {Mark}
       /\ sent[d] \in Seq(Message) /\ routed[d] \in Seq(Anything)
  /\ service \in [Dirs \X Services -> Seq(Message)]

\* The indices of the two sides go round one way: the rings have one size, or
\* none of them has been filled to its end.  The repository has the sizes 8 and
\* 64, so for it this is so up to the 7th message of a direction.
InStep(d) == Size["master"] = Size["slave"] \/ \A x \in Sides : Len(sent[d]) < Size[x]

\* As long as the slave is not reset, each router gets the messages of the
\* other side's sender, each once and in order, from the handshake on, while
\* the two sides are in step.
RoutedInOrder ==
  restarts = 0 =>
    \A d \in Dirs : InStep(d) =>
      Len(routed[d]) <= Len(sent[d]) /\ routed[d] = SubSeq(sent[d], 1, Len(routed[d]))

\* Across resets of the slave, whose start-up clears memory and indices beside
\* a master that goes on, no message is routed twice or overtakes another,
\* while the two sides are in step.
NothingTwice ==
  \A d \in Dirs : InStep(d) =>
    \A i, j \in 1 .. Len(routed[d]) :
      i < j /\ routed[d][i] # Junk /\ routed[d][j] # Junk => routed[d][i].id < routed[d][j].id

\* A slave that is ready before the master's last look is answered, and a
\* slave that is reset beside a running master gets to run again (its mark is
\* an index that the master's router moves back to 0).
SlaveGetsToRun ==
  (boot["slave"] = "wait" /\ (Ready("master") \/ (boot["master"] = "wait" /\ patience > 0)))
    ~> (Ready("slave") \/ boot["slave"] = "off")
=============================================================================
