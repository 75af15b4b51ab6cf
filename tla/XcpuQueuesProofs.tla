-------------------------- MODULE XcpuQueuesProofs --------------------------
(***************************************************************************)
(* Proofs about XcpuQueues, for every size of ring on either side, every   *)
(* set of services and every number of messages and of resets.             *)
(***************************************************************************)
EXTENDS XcpuQueues, MsgRingProofs, SequenceTheorems

\* The master's ring is no larger than the memory of the slave's, and an index
\* of 16 bits is never the mark by itself.
SizesFit == Size["master"] <= Size["slave"] /\ Size["slave"] <= Mark

\* The ring of a direction, as the side that reads it goes round.
Ring(d) == Size[Receiver(d)]

SendSteps  == {"idle", "copy", "publish"}
RouteSteps == {"idle", "advance", "dispatch"}
MasterPlaces == {"off", "wait", "failed", "clear sw", "clear sr", "clear mw",
                 "clear mr", "run"}
SlavePlaces == {"off", "clear sw", "mark", "wait", "run"}
Places == MasterPlaces \union SlavePlaces

TypeInv ==
  /\ w \in [Dirs -> Cells]
  /\ r \in [Dirs -> Cells \union {Mark}] /\ r["ms"] \in Cells
  /\ slots \in [Dirs -> [Cells -> Anything]]
  /\ \A d \in Dirs : r[d] = Mark \/ r[d] < Ring(d)
  /\ boot \in [Sides -> Places]
  /\ boot["master"] \in MasterPlaces /\ boot["slave"] \in SlavePlaces
  /\ uncleared \subseteq Memory
  /\ boot["slave"] # "off" => uncleared = {}
  /\ patience \in -1 .. Periods /\ restarts \in 0 .. MaxRestarts
  /\ boot["master"] \in {"off", "wait"} => patience >= 0
  /\ send \in [Dirs -> [step : SendSteps, msg : Anything, at : Cells]]
  /\ route \in [Dirs -> [step : RouteSteps, msg : Anything, at : Cells \union {Mark}]]
  /\ route["ms"].at \in Cells
  /\ \A d \in Dirs : send[d].step # "idle" => send[d].msg \in Message /\ send[d].at = w[d]
  /\ sent \in [Dirs -> Seq(Message)]
  /\ \A d \in Dirs : w[d] <= Len(sent[d])
  /\ routed \in [Dirs -> Seq(Anything)]
  /\ service \in [Dirs \X Services -> Seq(Message)]
  \* who is at work
  /\ \A d \in Dirs : /\ send[d].step # "idle" => Ready(Sender(d))
                     /\ route[d].step # "idle" => Ready(Receiver(d))
  /\ Ready("slave") => Ready("master")
  /\ boot["slave"] = "wait" /\ ~Ready("master") => r["sm"] = Mark
  /\ r["sm"] = Mark => boot["slave"] # "run"

LEMMA Sizes ==
  /\ Size["master"] \in Nat /\ Size["slave"] \in Nat
  /\ Size["master"] >= 2 /\ Size["slave"] >= 2
  /\ MaxSends \in Nat /\ MaxRestarts \in Nat /\ Periods \in Nat
  /\ Cells \subseteq Nat /\ 0 \in Cells /\ Mark \in Nat /\ 0 # Mark
  /\ Dirs = {"ms", "sm"} /\ Sides = {"master", "slave"}
BY XcpuAssumption DEF Sides, Dirs, Cells, Mark

\* The two rings, and the numbers and indices compared with their sizes.
LEMMA Rings == \A d \in Dirs : /\ Ring(d) \in Nat /\ Ring(d) >= 2 /\ Ring(d) > 0
                              /\ Sender(d) \in Sides /\ Receiver(d) \in Sides
BY Sizes DEF Ring, Sender, Receiver

LEMMA Numbers == ASSUME TypeInv
                 PROVE  \A d \in Dirs : w[d] \in Nat /\ Len(sent[d]) \in Nat /\ Len(routed[d]) \in Nat
BY Sizes, LenProperties DEF TypeInv

\* Junk is no message, and the idle records have their types.
LEMMA JunkTypes ==
  /\ Junk \notin Message /\ Junk \in Anything /\ Message \subseteq Anything
  /\ Idle \in [step : SendSteps, msg : Anything, at : Cells]
  /\ Idle \in [step : RouteSteps, msg : Anything, at : Cells]
  /\ Idle.step = "idle"
BY XcpuAssumption, Sizes
   DEF Junk, Message, Anything, Idle, SendSteps, RouteSteps

\* Advanced by either side, an index stays in the memory of the ring.
LEMMA AdvanceType ==
  ASSUME SizesFit, NEW x \in Sides, NEW i \in Cells \union {Mark}
  PROVE  /\ Succ(i, Size[x]) \in Cells /\ Succ(i, Size[x]) < Size[x]
         /\ i # Mark => Succ(i, Size[x]) <= i + 1
BY Sizes DEF SizesFit, Succ, Cells, Mark

\* An index that is kept or set to 0 does not grow, and stays at most the
\* number of messages sent; and the messages of a direction are a part of all.
LEMMA Lowered ==
  ASSUME NEW a \in [Dirs -> Cells], NEW b \in [Dirs -> Cells], NEW s \in [Dirs -> Seq(Message)],
         \A d \in Dirs : b[d] \in {a[d], 0} /\ a[d] <= Len(s[d])
  PROVE  \A d \in Dirs : b[d] <= a[d] /\ b[d] <= Len(s[d])
<1> TAKE d \in Dirs
<1>1. a[d] \in Nat /\ b[d] \in {a[d], 0} /\ a[d] <= Len(s[d]) /\ Len(s[d]) \in Nat
  BY Sizes, LenProperties
<1> QED  BY ONLY <1>1

LEMMA PartOfAll ==
  ASSUME NEW s \in [Dirs -> Seq(Message)], Len(s["ms"]) + Len(s["sm"]) < MaxSends
  PROVE  \A d \in Dirs : Len(s[d]) \in Nat /\ Len(s[d]) < MaxSends
<1>1. Len(s["ms"]) \in Nat /\ Len(s["sm"]) \in Nat /\ MaxSends \in Nat
  BY Sizes, LenProperties
<1> DEFINE a == Len(s["ms"])
           b == Len(s["sm"])
<1>2. a \in Nat /\ b \in Nat /\ MaxSends \in Nat /\ a + b < MaxSends
  BY <1>1
<1> HIDE DEF a, b
<1>3. a < MaxSends /\ b < MaxSends
  BY ONLY <1>2
<1> USE DEF a, b
<1> QED  BY <1>1, <1>3, Sizes

LEMMA InitType == SizesFit /\ Init => TypeInv
<1> SUFFICES ASSUME SizesFit, Init PROVE TypeInv
  OBVIOUS
<1> USE Sizes
<1>1. /\ w \in [Dirs -> Cells] /\ r \in [Dirs -> Cells \union {Mark}] /\ r["ms"] \in Cells
      /\ r["sm"] # Mark /\ \A d \in Dirs : w[d] = 0 /\ r[d] < Ring(d)
  BY DEF Init, SizesFit, Mark, Ring, Receiver
<1>2. slots \in [Dirs -> [Cells -> Anything]]
  BY JunkTypes DEF Init
<1>3. boot \in [Sides -> Places] /\ boot["slave"] = "off" /\ boot["master"] = "off"
      /\ uncleared = Memory
  BY DEF Init, Places, MasterPlaces
<1>4. /\ send \in [Dirs -> [step : SendSteps, msg : Anything, at : Cells]]
      /\ route \in [Dirs -> [step : RouteSteps, msg : Anything, at : Cells \union {Mark}]]
      /\ \A d \in Dirs : send[d].step = "idle" /\ route[d].step = "idle" /\ route[d].at = 0
  <2>1. Idle \in [step : RouteSteps, msg : Anything, at : Cells \union {Mark}] /\ Idle.at = 0
    BY DEF Idle, RouteSteps, Anything
  <2> QED  BY <2>1, JunkTypes DEF Init
<1>5. /\ sent \in [Dirs -> Seq(Message)] /\ routed \in [Dirs -> Seq(Anything)]
      /\ \A d \in Dirs : Len(sent[d]) = 0
      /\ service \in [Dirs \X Services -> Seq(Message)]
  BY EmptySeq DEF Init
<1> QED  BY <1>1, <1>2, <1>3, <1>4, <1>5 DEF Init, TypeInv, Ready, MasterPlaces, SlavePlaces

\* The steps of the start-up and the reset keep the types.
LEMMA BootType ==
  ASSUME SizesFit, TypeInv, SlaveInit \/ MasterInit \/ SlaveRestart
  PROVE  TypeInv'
<1> USE Sizes
<1>1. CASE SlaveBoot
  <2>1. PICK from \in {"off", "clear sw", "mark"}, to \in {"clear sw", "mark", "wait"} :
          /\ boot["slave"] = from /\ boot' = [boot EXCEPT !["slave"] = to]
          /\ from = "off" => uncleared = {}
          /\ \/ to # "wait" /\ r' = [r EXCEPT !["ms"] = 0] /\ w' = w
             \/ to # "wait" /\ w' = [w EXCEPT !["sm"] = 0] /\ r' = r
             \/ to = "wait" /\ r' = [r EXCEPT !["sm"] = Mark] /\ w' = w
    BY <1>1 DEF SlaveBoot, Goes
  <2>2. /\ boot' \in [Sides -> Places] /\ boot'["slave"] = to /\ to \in SlavePlaces
        /\ boot'["master"] = boot["master"] /\ uncleared = {}
    BY <2>1 DEF TypeInv, Places, SlavePlaces
  <2>3. /\ w' \in [Dirs -> Cells] /\ r' \in [Dirs -> Cells \union {Mark}]
        /\ r'["ms"] \in Cells
        /\ to = "wait" => r'["sm"] = Mark
        /\ \A d \in Dirs : /\ r'[d] = Mark \/ r'[d] < Ring(d)
                           /\ w'[d] <= Len(sent[d]) /\ w'["ms"] = w["ms"]
    <3>1. /\ w \in [Dirs -> Cells] /\ r \in [Dirs -> Cells \union {Mark}] /\ r["ms"] \in Cells
          /\ \A d \in Dirs : r[d] = Mark \/ r[d] < Ring(d)
      BY DEF TypeInv
    <3>2. /\ w' \in [Dirs -> Cells] /\ w'["ms"] = w["ms"] /\ w'["sm"] \in {w["sm"], 0}
      BY <2>1, <3>1
    <3>3. /\ r' \in [Dirs -> Cells \union {Mark}] /\ r'["ms"] \in {r["ms"], 0}
          /\ r'["sm"] \in {r["sm"], Mark} /\ (to = "wait" => r'["sm"] = Mark)
      BY <2>1, <3>1
    <3>4. \A d \in Dirs : r'[d] = Mark \/ r'[d] < Ring(d)
      BY <3>1, <3>3, Rings
    <3>5. \A d \in Dirs : w'[d] <= w[d] /\ w'[d] <= Len(sent[d])
      <4>1. \A d \in Dirs : w'[d] \in {w[d], 0} /\ w[d] <= Len(sent[d])
        BY <3>2 DEF TypeInv
      <4>2. sent \in [Dirs -> Seq(Message)]
        BY DEF TypeInv
      <4> QED  BY ONLY <3>1, <3>2, <4>1, <4>2, Lowered
    <3> QED  BY <3>1, <3>2, <3>3, <3>4, <3>5
  <2>4. send["sm"].step = "idle"
    BY <2>1 DEF TypeInv, Ready, Sender
  <2>5. boot'["slave"] \notin {"off", "run"} /\ boot["slave"] # "run"
    BY <2>1, <2>2
  <2>6. \A d \in Dirs : w'[d] <= Len(sent[d]) /\ (send[d].step # "idle" => send[d].at = w'[d])
    BY <2>3, <2>4 DEF TypeInv
  <2>7. \A d \in Dirs :
          /\ send[d].step # "idle" => Ready(Sender(d))'
          /\ route[d].step # "idle" => Ready(Receiver(d))'
    BY <2>2, <2>5 DEF TypeInv, Ready, Sender, Receiver
  <2>8. UNCHANGED <<slots, uncleared, patience, restarts, send, route, service, sent, routed>>
    BY <1>1 DEF SlaveBoot, ringVars, taskVars
  <2>9. boot'["slave"] = "wait" => r'["sm"] = Mark
    BY <2>2, <2>3
  <2>10. /\ boot'["master"] \in MasterPlaces /\ boot'["slave"] \in SlavePlaces
         /\ boot'["master"] = boot["master"] /\ ~Ready("slave")'
    BY <2>2, <2>5 DEF TypeInv, Ready
  <2>11. /\ slots' \in [Dirs -> [Cells -> Anything]] /\ uncleared' \subseteq Memory
         /\ uncleared' = {} /\ patience' \in -1 .. Periods /\ restarts' \in 0 .. MaxRestarts
         /\ boot'["master"] \in {"off", "wait"} => patience' >= 0
         /\ send' \in [Dirs -> [step : SendSteps, msg : Anything, at : Cells]]
         /\ route' \in [Dirs -> [step : RouteSteps, msg : Anything, at : Cells \union {Mark}]]
         /\ route'["ms"].at \in Cells
         /\ sent' \in [Dirs -> Seq(Message)] /\ routed' \in [Dirs -> Seq(Anything)]
         /\ service' \in [Dirs \X Services -> Seq(Message)]
    BY ONLY TypeInv, <2>2, <2>8, <2>10, Zenon DEF TypeInv
  <2>12. \A d \in Dirs :
           /\ send'[d].step # "idle" => send'[d].msg \in Message /\ send'[d].at = w'[d]
           /\ w'[d] <= Len(sent'[d])
    BY ONLY TypeInv, <2>6, <2>8, Zenon DEF TypeInv
  <2>13. \A d \in Dirs :
           /\ send'[d].step # "idle" => Ready(Sender(d))'
           /\ route'[d].step # "idle" => Ready(Receiver(d))'
    BY ONLY <2>7, <2>8 DEF Ready
  <2> QED  BY ONLY <2>2, <2>3, <2>5, <2>9, <2>10, <2>11, <2>12, <2>13 DEF TypeInv, Ready
<1>8. CASE SlaveClears
  <2>1. slots' \in [Dirs -> [Cells -> Anything]] /\ uncleared' \subseteq Memory
    BY <1>8, JunkTypes DEF SlaveClears, TypeInv, Memory
  <2>2. /\ boot["slave"] = "off"
        /\ UNCHANGED <<w, r, boot, patience, restarts, send, route, service, sent, routed>>
    BY <1>8 DEF SlaveClears, taskVars
  <2>3. /\ slots' \in [Dirs -> [Cells -> Anything]] /\ uncleared' \subseteq Memory
        /\ boot'["slave"] # "off" => uncleared' = {}
    BY <2>1, <2>2
  <2> HIDE <1>8
  <2> QED  BY ONLY TypeInv, <2>2, <2>3 DEF TypeInv, Ready
<1>2. CASE SlaveStarts
  <2>1. /\ boot' \in [Sides -> Places] /\ boot'["slave"] = "run"
        /\ boot'["master"] = boot["master"] /\ boot["slave"] = "wait"
    BY <1>2 DEF SlaveStarts, TypeInv, Places, MasterPlaces, SlavePlaces
  <2>2. r["sm"] # Mark /\ Ready("master")
    BY <1>2, <2>1 DEF SlaveStarts, TypeInv
  <2> QED  BY <1>2, <2>1, <2>2 DEF SlaveStarts, TypeInv, ringVars, taskVars, Ready, Sender, Receiver, MasterPlaces, SlavePlaces
<1>3. CASE MasterBoot
  <2>1. /\ boot' \in [Sides -> Places] /\ boot'["master"] = "wait"
        /\ boot'["slave"] = boot["slave"] /\ boot["master"] = "off"
    BY <1>3 DEF MasterBoot, TypeInv, Places, MasterPlaces, SlavePlaces
  <2> QED  BY <1>3, <2>1 DEF MasterBoot, TypeInv, ringVars, taskVars, Ready, Sender, Receiver, MasterPlaces, SlavePlaces
<1>4. CASE MasterSleeps
  <2>1. /\ boot' \in [Sides -> Places]
        /\ boot'["master"] = IF patience > 0 THEN "wait" ELSE "failed"
        /\ boot'["slave"] = boot["slave"] /\ boot["master"] = "wait"
    BY <1>4 DEF MasterSleeps, TypeInv, Places, MasterPlaces, SlavePlaces
  <2>2. /\ patience' = patience - 1 /\ patience \in 0 .. Periods
    BY <1>4, <2>1 DEF MasterSleeps, TypeInv
  <2>3. /\ patience' \in -1 .. Periods
        /\ boot'["master"] \in {"off", "wait"} => patience' >= 0
    BY <2>1, <2>2
  <2>4. boot'["master"] \in MasterPlaces /\ ~Ready("master") /\ ~Ready("master")'
    BY <2>1 DEF MasterPlaces, Ready
  <2>5. UNCHANGED <<w, r, uncleared, restarts, slots, send, route, service, sent, routed>>
    BY <1>4 DEF MasterSleeps, ringVars, taskVars
  <2> QED  BY ONLY TypeInv, Sizes, <2>1, <2>3, <2>4, <2>5 DEF TypeInv, Ready, Sender, Receiver
<1>5. CASE MasterSeesMark
  <2>1. /\ boot' \in [Sides -> Places] /\ boot'["master"] \in {"clear sw", "failed"}
        /\ boot'["slave"] = boot["slave"] /\ boot["master"] = "wait"
    BY <1>5 DEF MasterSeesMark, TypeInv, Places, MasterPlaces, SlavePlaces
  <2> QED  BY <1>5, <2>1 DEF MasterSeesMark, TypeInv, ringVars, taskVars, Ready, Sender, Receiver, MasterPlaces, SlavePlaces
<1>6. CASE MasterClears
  <2>1. PICK from \in {"clear sw", "clear sr", "clear mw", "clear mr"},
             to \in {"clear sr", "clear mw", "clear mr", "run"} :
          /\ boot["master"] = from /\ boot' = [boot EXCEPT !["master"] = to]
          /\ \/ to # "run" /\ r' = r
             \/ to # "run" /\ r' = [r EXCEPT !["ms"] = 0]
             \/ to = "run" /\ r' = [r EXCEPT !["sm"] = 0]
          /\ w' \in {w, [w EXCEPT !["ms"] = 0], [w EXCEPT !["sm"] = 0]}
    BY <1>6 DEF MasterClears, Goes
  <2>2. /\ boot' \in [Sides -> Places] /\ boot'["master"] = to /\ to \in MasterPlaces
        /\ boot'["slave"] = boot["slave"] /\ boot["master"] = from
    BY <2>1 DEF TypeInv, Places, MasterPlaces
  <2>3. /\ w' \in [Dirs -> Cells]
        /\ r' \in [Dirs -> Cells \union {Mark}] /\ r'["ms"] \in Cells
        /\ to = "run" => r'["sm"] = 0
        /\ to # "run" => r'["sm"] = r["sm"]
        /\ \A d \in Dirs : (r'[d] = Mark \/ r'[d] < Ring(d)) /\ w'[d] <= Len(sent[d])
    <3>1. /\ w \in [Dirs -> Cells] /\ r \in [Dirs -> Cells \union {Mark}] /\ r["ms"] \in Cells
          /\ \A d \in Dirs : r[d] = Mark \/ r[d] < Ring(d)
      BY DEF TypeInv
    <3>2. w' \in [Dirs -> Cells] /\ \A d \in Dirs : w'[d] \in {w[d], 0}
      BY <2>1, <3>1
    <3>3. /\ r' \in [Dirs -> Cells \union {Mark}] /\ \A d \in Dirs : r'[d] \in {r[d], 0}
          /\ r'["ms"] \in Cells
          /\ (to = "run" => r'["sm"] = 0) /\ (to # "run" => r'["sm"] = r["sm"])
      BY <2>1, <3>1
    <3>4. \A d \in Dirs : r'[d] = Mark \/ r'[d] < Ring(d)
      BY <3>1, <3>3, Rings
    <3>5. \A d \in Dirs : w'[d] <= Len(sent[d])
      BY <3>1, <3>2, Lowered DEF TypeInv
    <3> QED  BY <3>2, <3>3, <3>4, <3>5
  <2>4. \A d \in Dirs : send[d].step = "idle" /\ route[d].step = "idle"
    <3>1. ~Ready("master") /\ ~Ready("slave")
      BY <2>1 DEF TypeInv, Ready
    <3>2. \A d \in Dirs : send[d].step = "idle" /\ route[d].step = "idle"
      BY <3>1 DEF TypeInv, Sender, Receiver
    <3> QED  BY <3>2
  <2> QED  BY <1>6, <2>1, <2>2, <2>3, <2>4
           DEF MasterClears, TypeInv, ringVars, taskVars, Ready
<1>7. CASE SlaveRestart
  <2>1. /\ boot' \in [Sides -> Places] /\ boot'["slave"] = "off"
        /\ boot'["master"] = boot["master"] /\ uncleared' = Memory
    BY <1>7 DEF SlaveRestart, TypeInv, Places, SlavePlaces
  <2>2. restarts' \in 0 .. MaxRestarts
    BY <1>7 DEF SlaveRestart, TypeInv
  <2>3. /\ send' \in [Dirs -> [step : SendSteps, msg : Anything, at : Cells]]
        /\ send'["sm"].step = "idle" /\ send'["ms"] = send["ms"]
    BY <1>7, JunkTypes DEF SlaveRestart, TypeInv
  <2>4. /\ route' \in [Dirs -> [step : RouteSteps, msg : Anything, at : Cells \union {Mark}]]
        /\ route'["ms"].step = "idle" /\ route'["sm"] = route["sm"] /\ route'["ms"].at = 0
    <3>1. Idle \in [step : RouteSteps, msg : Anything, at : Cells \union {Mark}] /\ Idle.at = 0
      BY DEF Idle, RouteSteps, Anything
    <3> QED  BY <1>7, <3>1, JunkTypes DEF SlaveRestart, TypeInv
  <2>5. service' \in [Dirs \X Services -> Seq(Message)]
    BY <1>7, EmptySeq DEF SlaveRestart, TypeInv
  <2> QED  BY <1>7, <2>1, <2>2, <2>3, <2>4, <2>5
           DEF SlaveRestart, TypeInv, Ready, Sender, Receiver, SlavePlaces
<1> QED  BY <1>1, <1>2, <1>3, <1>4, <1>5, <1>6, <1>7, <1>8 DEF SlaveInit, MasterInit

\* So do the steps of a sender.
LEMMA SendType ==
  ASSUME SizesFit, TypeInv, NEW d \in Dirs, Sending(d)
  PROVE  TypeInv'
<1> USE Sizes
<1>1. CASE SendCheck(d)
  <2>1. PICK t \in Services :
          send' = [send EXCEPT ![d] = [step |-> "copy",
                     msg |-> [type |-> t, id |-> Len(sent[d]) + 1], at |-> w[d]]]
    BY <1>1 DEF SendCheck
  <2>2. Len(sent[d]) \in Nat /\ Len(sent[d]) < MaxSends
    BY <1>1, PartOfAll DEF SendCheck, TypeInv
  <2>3. [type |-> t, id |-> Len(sent[d]) + 1] \in Message
    BY <2>2 DEF Message
  <2>4. w[d] \in Cells
    BY DEF TypeInv
  <2>5. [step |-> "copy", msg |-> [type |-> t, id |-> Len(sent[d]) + 1], at |-> w[d]]
          \in [step : SendSteps, msg : Anything, at : Cells]
    BY <2>3, <2>4, JunkTypes DEF SendSteps
  <2>6. /\ send' \in [Dirs -> [step : SendSteps, msg : Anything, at : Cells]]
        /\ send'[d].msg \in Message /\ send'[d].at = w[d]
        /\ \A e \in Dirs : e # d => send'[e] = send[e]
    BY <2>1, <2>3, <2>5 DEF TypeInv
  <2> QED  BY <1>1, <2>6 DEF SendCheck, TypeInv, bootVars, Ready
<1>2. CASE SendCopy(d)
  <2>1. slots' \in [Dirs -> [Cells -> Anything]]
    BY <1>2 DEF SendCopy, TypeInv
  <2>2. /\ send' \in [Dirs -> [step : SendSteps, msg : Anything, at : Cells]]
        /\ send'[d].msg = send[d].msg /\ send'[d].at = send[d].at /\ send[d].step # "idle"
        /\ \A e \in Dirs : e # d => send'[e] = send[e]
    <3> DEFINE m == [send[d] EXCEPT !.step = "publish"]
    <3>1. send' = [send EXCEPT ![d] = m] /\ send[d].step = "copy"
      BY <1>2 DEF SendCopy
    <3>2. /\ m \in [step : SendSteps, msg : Anything, at : Cells] /\ m.msg = send[d].msg
          /\ m.at = send[d].at
      <4>1. send[d] \in [step : SendSteps, msg : Anything, at : Cells]
        BY DEF TypeInv
      <4> QED  BY ONLY <4>1 DEF SendSteps
    <3> HIDE DEF m
    <3> QED  BY <3>1, <3>2 DEF TypeInv
  <2> QED  BY <1>2, <2>1, <2>2 DEF SendCopy, TypeInv, bootVars, Ready
<1>3. CASE SendPublish(d)
  <2>1. /\ send[d].at \in Cells /\ Sender(d) \in Sides /\ send[d].msg \in Message
        /\ send[d].at = w[d]
    BY <1>3 DEF SendPublish, TypeInv, Sender
  <2>2. /\ w' \in [Dirs -> Cells] /\ w'[d] = Succ(w[d], Size[Sender(d)])
        /\ \A e \in Dirs : e # d => w'[e] = w[e]
    BY <1>3, <2>1, AdvanceType DEF SendPublish, TypeInv
  <2>3. /\ sent' \in [Dirs -> Seq(Message)] /\ Len(sent'[d]) = Len(sent[d]) + 1
        /\ \A e \in Dirs : e # d => sent'[e] = sent[e]
    <3>1. /\ Append(sent[d], send[d].msg) \in Seq(Message)
          /\ Len(Append(sent[d], send[d].msg)) = Len(sent[d]) + 1
      BY <2>1, AppendProperties DEF TypeInv
    <3> QED  BY <1>3, <3>1 DEF SendPublish, TypeInv
  <2>5. w'[d] <= Len(sent'[d])
    <3>1. /\ w[d] \in Cells /\ w[d] # Mark /\ w[d] \in Nat /\ Len(sent[d]) \in Nat
          /\ w[d] <= Len(sent[d])
      BY LenProperties DEF TypeInv, SizesFit, Cells, Mark
    <3>2. w'[d] <= w[d] + 1 /\ w'[d] \in Nat
      BY <2>1, <2>2, <3>1, AdvanceType
    <3> QED  BY <2>3, <3>1, <3>2
  <2>4. /\ send' \in [Dirs -> [step : SendSteps, msg : Anything, at : Cells]]
        /\ send'[d].step = "idle"
        /\ \A e \in Dirs : e # d => send'[e] = send[e]
    BY <1>3, JunkTypes DEF SendPublish, TypeInv
  <2> QED  BY <1>3, <2>2, <2>3, <2>4, <2>5 DEF SendPublish, TypeInv, bootVars, Ready
<1> QED  BY <1>1, <1>2, <1>3 DEF Sending

\* And those of a router and of a service.
LEMMA RouteType ==
  ASSUME SizesFit, TypeInv, NEW d \in Dirs,
         Routing(d) \/ \E t \in Services : Consume(d, t)
  PROVE  TypeInv'
<1> USE Sizes
<1>1. CASE ReceiveCopy(d)
  <2> DEFINE m == IF r[d] \in Cells THEN slots[d][r[d]] ELSE Junk
  <2>1. m \in Anything /\ r[d] \in Cells \union {Mark} /\ (d = "ms" => r[d] \in Cells)
    BY JunkTypes DEF TypeInv
  <2>2. route' = [route EXCEPT ![d] = [step |-> "advance", msg |-> m, at |-> r[d]]]
    BY <1>1 DEF ReceiveCopy
  <2> HIDE DEF m
  <2>3. [step |-> "advance", msg |-> m, at |-> r[d]]
          \in [step : RouteSteps, msg : Anything, at : Cells \union {Mark}]
    BY <2>1 DEF RouteSteps
  <2>4. /\ route' \in [Dirs -> [step : RouteSteps, msg : Anything, at : Cells \union {Mark}]]
        /\ route'["ms"].at \in Cells
        /\ \A e \in Dirs : e # d => route'[e] = route[e]
    BY <2>1, <2>2, <2>3 DEF TypeInv
  <2> QED  BY <1>1, <2>4 DEF ReceiveCopy, TypeInv, bootVars, Ready
<1>2. CASE ReceiveAdvance(d)
  <2>1. route[d].at \in Cells \union {Mark} /\ Receiver(d) \in Sides /\ route[d].msg \in Anything
    BY DEF TypeInv, Receiver
  <2>2. Succ(route[d].at, Size[Receiver(d)]) \in Cells /\ Succ(route[d].at, Size[Receiver(d)]) < Ring(d)
    BY <2>1, AdvanceType DEF Ring
  <2>3. /\ r' \in [Dirs -> Cells \union {Mark}] /\ r'["ms"] \in Cells
        /\ r'[d] \in Cells /\ r'[d] < Ring(d) /\ \A e \in Dirs : e # d => r'[e] = r[e]
    BY <1>2, <2>2 DEF ReceiveAdvance, TypeInv
  <2>4. routed' \in [Dirs -> Seq(Anything)]
    <3>1. Append(routed[d], route[d].msg) \in Seq(Anything)
      BY <2>1, AppendProperties DEF TypeInv
    <3> QED  BY <1>2, <3>1 DEF ReceiveAdvance, TypeInv
  <2>5. /\ route' \in [Dirs -> [step : RouteSteps, msg : Anything, at : Cells \union {Mark}]]
        /\ route'["ms"].at = route["ms"].at /\ route[d].step # "idle"
        /\ \A e \in Dirs : e # d => route'[e] = route[e]
    <3> DEFINE m == [route[d] EXCEPT !.step = "dispatch"]
    <3>1. route' = [route EXCEPT ![d] = m] /\ route[d].step = "advance"
      BY <1>2 DEF ReceiveAdvance
    <3>2. m \in [step : RouteSteps, msg : Anything, at : Cells \union {Mark}]
          /\ m.at = route[d].at
      <4>1. route[d] \in [step : RouteSteps, msg : Anything, at : Cells \union {Mark}]
        BY DEF TypeInv
      <4> QED  BY ONLY <4>1 DEF RouteSteps
    <3> HIDE DEF m
    <3> QED  BY <3>1, <3>2 DEF TypeInv
  <2>6. Ready(Receiver(d))
    BY <2>5 DEF TypeInv
  <2>7. r'["sm"] = Mark => r["sm"] = Mark /\ d # "sm"
    BY <2>3 DEF SizesFit, Cells, Mark
  <2>8. d = "sm" => Ready("master")
    BY <2>6 DEF Receiver
  <2> QED  BY <1>2, <2>3, <2>4, <2>5, <2>6, <2>7, <2>8 DEF ReceiveAdvance, TypeInv, bootVars, Ready
<1>3. CASE Dispatch(d)
  <2>1. /\ route' \in [Dirs -> [step : RouteSteps, msg : Anything, at : Cells \union {Mark}]]
        /\ route'["ms"].at \in Cells /\ route'[d].step = "idle"
        /\ \A e \in Dirs : e # d => route'[e] = route[e]
    <3>1. Idle \in [step : RouteSteps, msg : Anything, at : Cells \union {Mark}]
          /\ Idle.at \in Cells /\ Idle.step = "idle"
      BY DEF Idle, RouteSteps, Anything
    <3> QED  BY <1>3, <3>1 DEF Dispatch, TypeInv
  <2>2. service' \in [Dirs \X Services -> Seq(Message)]
    <3> DEFINE m == route[d].msg
               q == <<d, m.type>>
    <3>1. CASE q \in DOMAIN service
      <4>1. m.type \in Services /\ m \in Anything
        BY <3>1 DEF TypeInv
      <4>2. m \in Message
        BY <4>1, XcpuAssumption DEF Anything, Junk
      <4>3. Append(service[q], m) \in Seq(Message)
        BY <3>1, <4>2, AppendProperties DEF TypeInv
      <4> QED  BY <1>3, <3>1, <4>3 DEF Dispatch, TypeInv
    <3>2. CASE q \notin DOMAIN service
      BY <1>3, <3>2 DEF Dispatch, TypeInv
    <3> QED  BY <3>1, <3>2
  <2> QED  BY <1>3, <2>1, <2>2 DEF Dispatch, TypeInv, bootVars, Ready
<1>4. ASSUME NEW t \in Services, Consume(d, t) PROVE TypeInv'
  <2>1. <<d, t>> \in Dirs \X Services /\ service[<<d, t>>] \in Seq(Message)
        /\ service[<<d, t>>] # <<>>
    BY <1>4 DEF Consume, TypeInv
  <2>2. Tail(service[<<d, t>>]) \in Seq(Message)
    BY <2>1, HeadTailProperties
  <2>3. service' \in [Dirs \X Services -> Seq(Message)]
    BY <1>4, <2>1, <2>2 DEF Consume, TypeInv
  <2> QED  BY <1>4, <2>3 DEF Consume, TypeInv, bootVars, Ready
<1> QED  BY <1>1, <1>2, <1>3, <1>4 DEF Routing

LEMMA NextType == SizesFit /\ TypeInv /\ [Next]_vars => TypeInv'
<1> SUFFICES ASSUME SizesFit, TypeInv, [Next]_vars PROVE TypeInv'
  OBVIOUS
<1>1. CASE UNCHANGED vars
  BY <1>1 DEF vars, TypeInv, Ready
<1> QED  BY <1>1, BootType, SendType, RouteType DEF Next

\* Every variable keeps its type and every index its ring, with rings of the
\* two sizes the sides are compiled with, and across resets of the slave.
THEOREM TypeCorrect == SizesFit => (Spec => []TypeOK)
<1> SUFFICES ASSUME SizesFit PROVE Spec => []TypeOK
  OBVIOUS
<1>1. TypeInv => TypeOK
  <2> SUFFICES ASSUME TypeInv PROVE TypeOK
    OBVIOUS
  <2>1. r["ms"] # Mark
    BY Sizes DEF TypeInv, SizesFit, Cells, Mark
  <2>2. ASSUME NEW d \in Dirs
        PROVE  /\ send[d].step \in {"idle", "copy", "publish"} /\ send[d].msg \in Anything /\ send[d].at \in Cells
               /\ route[d].step \in {"idle", "advance", "dispatch"} /\ route[d].msg \in Anything
               /\ route[d].at \in Cells \union {Mark}
               /\ sent[d] \in Seq(Message) /\ routed[d] \in Seq(Anything)
    BY DEF TypeInv, SendSteps, RouteSteps
  <2> QED  BY <2>1, <2>2, Sizes DEF TypeInv, TypeOK, MasterPlaces, SlavePlaces
<1> QED  BY <1>1, InitType, NextType, PTL DEF Spec
-----------------------------------------------------------------------------
(***************************************************************************)
(* Nothing is routed twice.                                                *)
(***************************************************************************)

Advancing(d) == route[d].step = "advance"

\* The entries the router has still to pass.  While it moves its index they
\* may be as many as there are slots: the writer may have caught up with it
\* when a reset has set the index back.
Window(d) ==
  IF r[d] = w[d] THEN (IF Advancing(d) THEN 1 .. Ring(d) - 1 ELSE {})
  ELSE 0 .. Count(w[d], r[d], Ring(d)) - 1

Entry(d, k) == slots[d][Pos(r[d], k, Ring(d))]

\* Message m is older than message n, if both are messages.
Before(m, n) == m = Junk \/ n = Junk \/ m.id < n.id

\* m has not been routed, nor has a later message.
Fresh(d, m) ==
  /\ m = Junk \/ m.id <= Len(sent[d])
  /\ \A i \in 1 .. Len(routed[d]) : Before(routed[d][i], m)

SendInv(d) ==
  /\ send[d].step # "idle" => send[d].at = w[d] /\ send[d].msg.id = Len(sent[d]) + 1
  /\ send[d].step = "publish" => slots[d][w[d]] \in {send[d].msg, Junk}

RouteInv(d) ==
  /\ Advancing(d) => Fresh(d, route[d].msg)
  /\ r[d] = Mark => slots[d] = [i \in Cells |-> Junk]
  /\ r[d] # Mark =>
       /\ \A k \in Window(d) :
            /\ Fresh(d, Entry(d, k))
            /\ \A j \in Window(d) : j < k => Before(Entry(d, j), Entry(d, k))
       /\ Advancing(d) =>
            /\ route[d].at = r[d]
            /\ \A k \in Window(d) : k > 0 => Before(route[d].msg, Entry(d, k))

RoutedInv(d) ==
  /\ \A i \in 1 .. Len(routed[d]) : routed[d][i] = Junk \/ routed[d][i].id <= Len(sent[d])
  /\ \A i, j \in 1 .. Len(routed[d]) : i < j => Before(routed[d][i], routed[d][j])

BootInv ==
  ~Ready("master") =>
    /\ slots = [d \in Dirs |-> [i \in Cells |-> Junk]]
    /\ \A d \in Dirs : sent[d] = <<>> /\ routed[d] = <<>>

\* Until the slave sets its mark: the memory that it has cleared holds no
\* message of its own, and of the master's only messages sent since, in order.
ColdInv ==
  /\ boot["slave"] \in {"off", "clear sw", "mark"} =>
       \A i \in Cells : <<"sm", i>> \notin uncleared => slots["sm"][i] = Junk
  /\ boot["slave"] = "off" /\ InStep("ms") =>
       \A k \in 0 .. w["ms"] - 1 : <<"ms", k>> \notin uncleared =>
         /\ Fresh("ms", slots["ms"][k])
         /\ \A j \in 0 .. k - 1 :
              <<"ms", j>> \notin uncleared => Before(slots["ms"][j], slots["ms"][k])

DirInv(d) == SendInv(d) /\ RouteInv(d) /\ RoutedInv(d)

OnceInv ==
  /\ TypeInv /\ BootInv /\ ColdInv
  /\ \A d \in Dirs : InStep(d) => DirInv(d)

\* While the sides are in step, the indices are in the ring as the reader goes
\* round it, and that ring is in the memory.
LEMMA RingIndex ==
  ASSUME SizesFit, NEW d \in Dirs, NEW i \in Cells, NEW j \in Cells \union {Mark},
         NEW n \in Nat, i <= n, j = Mark \/ j < Ring(d),
         Size["master"] = Size["slave"] \/ \A x \in Sides : n < Size[x]
  PROVE  /\ i \in 0 .. Ring(d) - 1 /\ (j # Mark => j \in 0 .. Ring(d) - 1)
         /\ Ring(d) \in Nat /\ Ring(d) >= 2 /\ 0 .. Ring(d) - 1 \subseteq Cells
         /\ Mark \notin Cells
BY Sizes DEF SizesFit, Ring, Receiver, Cells

LEMMA InRing ==
  ASSUME SizesFit, TypeInv, NEW d \in Dirs, InStep(d)
  PROVE  /\ w[d] \in 0 .. Ring(d) - 1 /\ w[d] \in Cells
         /\ r[d] # Mark => r[d] \in 0 .. Ring(d) - 1 /\ r[d] \in Cells
         /\ r[d] \in Cells \union {Mark}
         /\ Ring(d) \in Nat /\ Ring(d) >= 2 /\ 0 .. Ring(d) - 1 \subseteq Cells
         /\ Mark \notin Cells
<1>1. /\ w[d] \in Cells /\ r[d] \in Cells \union {Mark} /\ Len(sent[d]) \in Nat
      /\ w[d] <= Len(sent[d]) /\ (r[d] = Mark \/ r[d] < Ring(d))
  BY LenProperties DEF TypeInv
<1>2. Size["master"] = Size["slave"] \/ \A x \in Sides : Len(sent[d]) < Size[x]
  BY DEF InStep
<1> HIDE DEF InStep
<1> QED  BY <1>1, <1>2, RingIndex

LEMMA InRingNext ==
  ASSUME SizesFit, TypeInv', NEW d \in Dirs, InStep(d)'
  PROVE  /\ w'[d] \in 0 .. Ring(d) - 1 /\ w'[d] \in Cells
         /\ r'[d] # Mark => r'[d] \in 0 .. Ring(d) - 1 /\ r'[d] \in Cells
         /\ r'[d] \in Cells \union {Mark}
         /\ Ring(d) \in Nat /\ Ring(d) >= 2 /\ 0 .. Ring(d) - 1 \subseteq Cells
         /\ Mark \notin Cells
<1>1. /\ w'[d] \in Cells /\ r'[d] \in Cells \union {Mark} /\ Len(sent'[d]) \in Nat
      /\ w'[d] <= Len(sent'[d]) /\ (r'[d] = Mark \/ r'[d] < Ring(d))
  BY LenProperties DEF TypeInv
<1>2. Size["master"] = Size["slave"] \/ \A x \in Sides : Len(sent'[d]) < Size[x]
  BY DEF InStep
<1> QED  BY <1>1, <1>2, RingIndex

\* The numbers of messages are numbers.
LEMMA Ids == \A m \in Anything : m.id \in Nat
BY XcpuAssumption DEF Anything, Message, Junk

LEMMA FreshJunk == ASSUME NEW d \in Dirs PROVE Fresh(d, Junk)
BY DEF Fresh, Before

\* The window is a range of slots, none of them the one to be written next.
LEMMA WindowType ==
  ASSUME SizesFit, TypeInv, NEW d \in Dirs, InStep(d), r[d] # Mark, NEW k \in Window(d)
  PROVE  /\ k \in 0 .. Ring(d) - 1
         /\ Pos(r[d], k, Ring(d)) \in Cells /\ Pos(r[d], k, Ring(d)) # w[d]
<1>1. r[d] \in 0 .. Ring(d) - 1 /\ w[d] \in 0 .. Ring(d) - 1 /\ Ring(d) \in Nat /\ Ring(d) >= 2
  BY InRing
<1> DEFINE c == Count(w[d], r[d], Ring(d))
<1>2. c \in 0 .. Ring(d) - 1 /\ (c = 0 <=> r[d] = w[d])
  BY <1>1, CountType
<1> HIDE DEF c
<1>3. k \in 0 .. Ring(d) - 1 /\ k # c
  <2>1. CASE r[d] = w[d]
    <3>1. k \in 1 .. Ring(d) - 1
      BY <2>1 DEF Window
    <3> QED  BY <2>1, <3>1, <1>1, <1>2
  <2>2. CASE r[d] # w[d]
    <3>1. k \in 0 .. c - 1
      BY <2>2 DEF Window, c
    <3> QED  BY <3>1, <1>1, <1>2
  <2> QED  BY <2>1, <2>2
<1>4. Pos(r[d], k, Ring(d)) \in 0 .. Ring(d) - 1 /\ Pos(r[d], k, Ring(d)) # w[d]
  BY ONLY <1>1, <1>3 DEF c, Count, Pos
<1> QED  BY <1>3, <1>4, InRing

\* A direction that a step leaves alone.
LEMMA DirUntouched ==
  ASSUME NEW d \in Dirs, InStep(d) => DirInv(d),
         r'[d] = r[d], w'[d] = w[d], slots'[d] = slots[d], send'[d] = send[d],
         route'[d] = route[d], sent'[d] = sent[d], routed'[d] = routed[d]
  PROVE  InStep(d)' => DirInv(d)'
<1> SUFFICES ASSUME DirInv(d) PROVE DirInv(d)'
  BY DEF InStep
<1> USE DEF DirInv
<1>1. /\ Advancing(d)' = Advancing(d) /\ Window(d)' = Window(d)
      /\ \A k : Entry(d, k)' = Entry(d, k)
      /\ \A m : Fresh(d, m)' = Fresh(d, m)
  BY DEF Advancing, Window, Entry, Fresh
<1>2. SendInv(d)' /\ RoutedInv(d)'
  BY DEF SendInv, RoutedInv
<1>3. RouteInv(d)'
  BY <1>1 DEF RouteInv
<1> QED  BY <1>2, <1>3

\* A ring without messages, when the router is not in the middle of a step or
\* its index is the mark.
LEMMA JunkRing ==
  ASSUME SizesFit, TypeInv', NEW d \in Dirs, InStep(d)', slots'[d] = [i \in Cells |-> Junk],
         Advancing(d)' => Fresh(d, route[d].msg)' /\ (r'[d] = Mark \/ route'[d].at = r'[d])
  PROVE  RouteInv(d)'
<1>1. CASE r'[d] = Mark
  BY <1>1 DEF RouteInv
<1>2. CASE r'[d] # Mark
  <2>1. /\ r'[d] \in 0 .. Ring(d) - 1 /\ w'[d] \in 0 .. Ring(d) - 1
        /\ Ring(d) \in Nat /\ Ring(d) >= 2
    BY <1>2, InRingNext
  <2>2. ASSUME NEW k \in Window(d)' PROVE Entry(d, k)' = Junk
    <3>1. k \in 0 .. Ring(d) - 1
      <4>1. Count(w'[d], r'[d], Ring(d)) \in 0 .. Ring(d) - 1
        BY <2>1, CountType
      <4>2. k \in 1 .. Ring(d) - 1 \/ k \in 0 .. Count(w'[d], r'[d], Ring(d)) - 1
        BY DEF Window
      <4> QED  BY <2>1, <4>1, <4>2
    <3>2. Pos(r'[d], k, Ring(d)) \in Cells
      BY <2>1, <3>1, SlotOf, InRingNext
    <3> QED  BY <3>2 DEF Entry
  <2>3. Advancing(d)' => route'[d].at = r'[d] /\ Fresh(d, route[d].msg)'
    BY <1>2
  <2>4. Fresh(d, Junk)'
    BY DEF Fresh, Before
  <2> QED  BY <1>2, <2>2, <2>3, <2>4 DEF RouteInv, Before
<1> QED  BY <1>1, <1>2

LEMMA InitOnce == SizesFit /\ Init => OnceInv
<1> SUFFICES ASSUME SizesFit, Init PROVE OnceInv
  OBVIOUS
<1>1. TypeInv
  BY InitType
<1>2. BootInv
  BY DEF Init, BootInv
<1>3. ColdInv
  <2>1. w["ms"] = 0 /\ \A d \in Dirs : \A i \in Cells : slots[d][i] = Junk
    BY Sizes DEF Init
  <2>2. 0 .. w["ms"] - 1 = {}
    BY <2>1
  <2> QED  BY <2>1, <2>2, Sizes DEF ColdInv
<1>4. ASSUME NEW d \in Dirs PROVE DirInv(d)
  <2>1. /\ send[d].step = "idle" /\ route[d].step = "idle" /\ routed[d] = <<>>
        /\ r[d] = 0 /\ w[d] = 0 /\ slots[d] = [i \in Cells |-> Junk]
    BY DEF Init, Idle
  <2>2. Window(d) = {}
    BY <2>1 DEF Window, Advancing
  <2> QED  BY <2>1, <2>2 DEF DirInv, SendInv, RouteInv, RoutedInv, Advancing
<1> QED  BY <1>1, <1>2, <1>3, <1>4 DEF OnceInv

\* Slots that are cleared: no entry becomes older, and none overtakes another.
LEMMA ClearedSlots ==
  ASSUME SizesFit, TypeInv, TypeInv', NEW d \in Dirs, InStep(d) => DirInv(d),
         r'[d] = r[d], w'[d] = w[d], send'[d] = send[d],
         route'[d] = route[d], sent'[d] = sent[d], routed'[d] = routed[d],
         \A i \in Cells : slots'[d][i] \in {slots[d][i], Junk}
  PROVE  InStep(d)' => DirInv(d)'
<1> SUFFICES ASSUME InStep(d), DirInv(d) PROVE DirInv(d)'
  BY DEF InStep
<1>1. /\ Advancing(d)' = Advancing(d) /\ Window(d)' = Window(d)
      /\ \A m : Fresh(d, m)' = Fresh(d, m)
  BY DEF Advancing, Window, Fresh
<1>2. SendInv(d)' /\ RoutedInv(d)'
  <2>1. w[d] \in Cells
    BY DEF TypeInv
  <2> QED  BY <2>1 DEF DirInv, SendInv, RoutedInv
<1>3. CASE r[d] = Mark
  <2>1. slots'[d] = [i \in Cells |-> Junk]
    <3>1. slots'[d] \in [Cells -> Anything] /\ slots[d] = [i \in Cells |-> Junk]
      BY <1>3 DEF TypeInv, DirInv, RouteInv
    <3>2. \A i \in Cells : slots'[d][i] = Junk
      BY <3>1
    <3> QED  BY <3>1, <3>2
  <2> QED  BY <1>1, <1>2, <1>3, <2>1 DEF DirInv, RouteInv
<1>4. CASE r[d] # Mark
  <2>1. \A k \in Window(d) : Entry(d, k)' \in {Entry(d, k), Junk}
    BY <1>4, WindowType DEF Entry
  <2>2. \A m, n : Before(m, Junk) /\ Before(Junk, n)
    BY DEF Before
  <2>3. Fresh(d, Junk)
    BY FreshJunk
  <2>4. \A k \in Window(d) : Fresh(d, Entry(d, k)')
    BY <1>4, <2>1, <2>3 DEF DirInv, RouteInv
  <2>5. \A k \in Window(d) : \A j \in Window(d) : j < k => Before(Entry(d, j)', Entry(d, k)')
    BY <1>4, <2>1, <2>2 DEF DirInv, RouteInv
  <2>6. Advancing(d) => \A k \in Window(d) : k > 0 => Before(route[d].msg, Entry(d, k)')
    BY <1>4, <2>1, <2>2 DEF DirInv, RouteInv
  <2>7. ASSUME NEW k \in Window(d) PROVE Fresh(d, Entry(d, k))'
    BY <1>1, <2>4 DEF Fresh
  <2>8. RouteInv(d)'
    BY <1>1, <1>4, <2>5, <2>6, <2>7 DEF DirInv, RouteInv, Before
  <2> QED  BY <1>2, <2>8 DEF DirInv
<1> QED  BY <1>3, <1>4

\* A direction of which a step moves an index while its ring holds no message.
LEMMA ClearedIndex ==
  ASSUME SizesFit, TypeInv', NEW d \in Dirs, InStep(d) => DirInv(d),
         slots'[d] = [i \in Cells |-> Junk], slots'[d] = slots[d],
         w'[d] = w[d] \/ send[d].step = "idle",
         r'[d] = r[d] \/ r'[d] = Mark \/ route[d].step = "idle",
         send'[d] = send[d], route'[d] = route[d], sent'[d] = sent[d], routed'[d] = routed[d]
  PROVE  InStep(d)' => DirInv(d)'
<1> SUFFICES ASSUME InStep(d)', InStep(d), DirInv(d) PROVE DirInv(d)'
  BY DEF InStep
<1>1. SendInv(d)' /\ RoutedInv(d)'
  BY DEF DirInv, SendInv, RoutedInv
<1>2. Advancing(d)' => Fresh(d, route[d].msg)' /\ (r'[d] = Mark \/ route'[d].at = r'[d])
  <2>1. Advancing(d)' = Advancing(d) /\ Fresh(d, route[d].msg)' = Fresh(d, route[d].msg)
    BY DEF Advancing, Fresh
  <2>2. Advancing(d) => Fresh(d, route[d].msg) /\ (r[d] = Mark \/ route[d].at = r[d])
    BY DEF DirInv, RouteInv
  <2> QED  BY <2>1, <2>2 DEF Advancing
<1>3. RouteInv(d)'
  BY <1>2, JunkRing
<1> QED  BY <1>1, <1>3 DEF DirInv

\* The slave clears a slot, and then one index after the other.
LEMMA ClearOnce ==
  ASSUME SizesFit, OnceInv, TypeInv', SlaveClears
  PROVE  OnceInv'
<1> USE Sizes
<1>1. PICK c \in uncleared :
        /\ slots' = [slots EXCEPT ![c[1]] = [@ EXCEPT ![c[2]] = Junk]]
        /\ uncleared' = uncleared \ {c}
  BY DEF SlaveClears
<1>2. PICK e \in Dirs, n \in Cells : c = <<e, n>>
  <2>1. c \in Dirs \X Cells
    BY <1>1 DEF OnceInv, TypeInv, Memory
  <2> QED  BY ONLY <2>1
<1>3. /\ boot["slave"] = "off" /\ TypeInv
      /\ UNCHANGED <<w, r, boot, patience, restarts, send, route, service, sent, routed>>
  BY DEF SlaveClears, taskVars, OnceInv
<1>4. /\ slots'[e][n] = Junk
      /\ \A d \in Dirs : \A i \in Cells :
           <<d, i>> # <<e, n>> => slots'[d][i] = slots[d][i]
  BY <1>1, <1>2, <1>3 DEF TypeInv
<1>5. \A d \in Dirs : \A i \in Cells : slots'[d][i] \in {slots[d][i], Junk}
  BY <1>4
<1>6. \A d \in Dirs : InStep(d)' => DirInv(d)'
  BY <1>3, <1>5, ClearedSlots DEF OnceInv
<1>7. BootInv'
  <2>1. ASSUME ~Ready("master") PROVE slots' = slots
    <3>1. slots = [d \in Dirs |-> [i \in Cells |-> Junk]]
      BY <2>1 DEF OnceInv, BootInv
    <3> QED  BY <1>1, <1>2, <3>1
  <2> QED  BY <1>3, <2>1 DEF OnceInv, BootInv, Ready
<1>8. ColdInv'
  <2>1. \A d \in Dirs : \A i \in Cells :
          <<d, i>> \notin uncleared' => slots'[d][i] = Junk \/ 
                                       (<<d, i>> \notin uncleared /\ slots'[d][i] = slots[d][i])
    BY <1>1, <1>2, <1>4
  <2>2. /\ \A m : Fresh("ms", m)' = Fresh("ms", m)
        /\ InStep("ms")' = InStep("ms")
    BY <1>3 DEF Fresh, InStep
  <2>3. \A i \in Cells : <<"sm", i>> \notin uncleared' => slots'["sm"][i] = Junk
    BY <1>3, <2>1 DEF OnceInv, ColdInv
  <2>4. ASSUME InStep("ms"), NEW k \in 0 .. w["ms"] - 1, <<"ms", k>> \notin uncleared'
        PROVE  /\ Fresh("ms", slots["ms"][k])'
               /\ \A j \in 0 .. k - 1 :
                    <<"ms", j>> \notin uncleared' => Before(slots'["ms"][j], slots'["ms"][k])
    <3>1. /\ k \in Cells /\ k \in Nat /\ \A j \in 0 .. k - 1 : j \in Cells
      <4>1. w["ms"] \in Cells
        BY <1>3 DEF TypeInv
      <4> QED  BY <4>1 DEF Cells
    <3>2. CASE slots'["ms"][k] = Junk
      BY <2>2, <3>2, FreshJunk DEF Before, Fresh
    <3>3. CASE <<"ms", k>> \notin uncleared /\ slots'["ms"][k] = slots["ms"][k]
      <4>1. /\ Fresh("ms", slots["ms"][k])
            /\ \A j \in 0 .. k - 1 :
                 <<"ms", j>> \notin uncleared => Before(slots["ms"][j], slots["ms"][k])
        BY <1>3, <2>4, <3>3 DEF OnceInv, ColdInv
      <4>2. \A j \in 0 .. k - 1 :
              <<"ms", j>> \notin uncleared' => Before(slots'["ms"][j], slots'["ms"][k])
        BY <2>1, <3>1, <3>3, <4>1 DEF Before
      <4>3. Fresh("ms", slots["ms"][k])'
        BY <1>3, <3>3, <4>1 DEF Fresh
      <4> QED  BY <4>2, <4>3
    <3> QED  BY <2>1, <2>4, <3>1, <3>2, <3>3
  <2> QED  BY <1>3, <2>2, <2>3, <2>4 DEF ColdInv
<1> QED  BY <1>6, <1>7, <1>8 DEF OnceInv

LEMMA SlaveBootOnce ==
  ASSUME SizesFit, OnceInv, TypeInv', SlaveBoot
  PROVE  OnceInv'
<1> USE Sizes
<1>1. /\ UNCHANGED <<slots, uncleared, send, route, sent, routed>>
      /\ TypeInv /\ boot["slave"] \in {"off", "clear sw", "mark"}
      /\ boot'["slave"] \in {"clear sw", "mark", "wait"}
      /\ boot'["master"] = boot["master"] /\ uncleared = {}
  BY DEF SlaveBoot, Goes, ringVars, taskVars, OnceInv, TypeInv
<1>2. /\ slots["sm"] = [i \in Cells |-> Junk]
      /\ send["sm"].step = "idle" /\ route["ms"].step = "idle"
  <2>1. \A i \in Cells : slots["sm"][i] = Junk
    BY <1>1 DEF OnceInv, ColdInv
  <2>2. slots["sm"] \in [Cells -> Anything]
    BY <1>1 DEF TypeInv
  <2>3. slots["sm"] = [i \in Cells |-> Junk]
    BY <2>1, <2>2
  <2> QED  BY <1>1, <2>3 DEF TypeInv, Ready, Sender, Receiver
<1>3. BootInv'
  BY <1>1 DEF OnceInv, BootInv, Ready
<1>4. ColdInv'
  BY <1>1 DEF OnceInv, ColdInv
<1>5. CASE Goes("slave", "off", "clear sw") /\ r' = [r EXCEPT !["ms"] = 0] /\ w' = w
  <2>1. /\ r'["ms"] = 0 /\ r'["sm"] = r["sm"] /\ boot["slave"] = "off" /\ w' = w
    BY <1>1, <1>5 DEF Goes, TypeInv
  <2>2. InStep("sm")' => DirInv("sm")'
    BY <1>1, <2>1, DirUntouched DEF OnceInv
  <2>3. InStep("ms")' => DirInv("ms")'
    <3> SUFFICES ASSUME InStep("ms")', InStep("ms"), DirInv("ms") PROVE DirInv("ms")'
      BY <1>1 DEF InStep, OnceInv
    <3>1. SendInv("ms")' /\ RoutedInv("ms")'
      BY <1>1, <2>1 DEF DirInv, SendInv, RoutedInv
    <3>2. ~Advancing("ms")' /\ r'["ms"] # Mark
      BY <1>1, <1>2, <2>1 DEF Advancing
    <3>3. w["ms"] \in 0 .. Ring("ms") - 1 /\ Ring("ms") \in Nat /\ Ring("ms") >= 2
      BY <1>1, InRing
    <3>4. ASSUME NEW k \in Window("ms")'
          PROVE  k \in 0 .. w["ms"] - 1 /\ Entry("ms", k)' = slots["ms"][k]
      <4>1. k \in 0 .. Count(w["ms"], 0, Ring("ms")) - 1
        BY <2>1, <3>2 DEF Window
      <4>2. k \in 0 .. w["ms"] - 1 /\ Pos(0, k, Ring("ms")) = k
        BY <3>3, <4>1 DEF Count, Pos
      <4> QED  BY <1>1, <2>1, <4>2 DEF Entry
    <3>5. ASSUME NEW k \in Window("ms")' PROVE Fresh("ms", Entry("ms", k))'
      <4>1. Fresh("ms", slots["ms"][k])
        BY <1>1, <2>1, <3>4 DEF OnceInv, ColdInv
      <4> QED  BY <1>1, <3>4, <4>1 DEF Fresh
    <3>6. ASSUME NEW k \in Window("ms")', NEW j \in Window("ms")', j < k
          PROVE  Before(Entry("ms", j), Entry("ms", k))'
      <4>1. j \in 0 .. k - 1 /\ k \in 0 .. w["ms"] - 1
        BY <3>3, <3>4, <3>6
      <4>2. Before(slots["ms"][j], slots["ms"][k])
        BY <1>1, <2>1, <4>1 DEF OnceInv, ColdInv
      <4> QED  BY <3>4, <4>2 DEF Before
    <3>7. RouteInv("ms")'
      BY <3>2, <3>5, <3>6 DEF RouteInv
    <3> QED  BY <3>1, <3>7 DEF DirInv
  <2> QED  BY <1>3, <1>4, <2>2, <2>3 DEF OnceInv
<1>6. CASE w' = [w EXCEPT !["sm"] = 0] /\ r' = r
  <2>1. w'["ms"] = w["ms"] /\ r' = r
    BY <1>1, <1>6 DEF TypeInv
  <2>2. InStep("ms")' => DirInv("ms")'
    BY <1>1, <2>1, DirUntouched DEF OnceInv
  <2>3. InStep("sm")' => DirInv("sm")'
    BY <1>1, <1>2, <2>1, ClearedIndex DEF OnceInv
  <2> QED  BY <1>3, <1>4, <2>2, <2>3 DEF OnceInv
<1>7. CASE r' = [r EXCEPT !["sm"] = Mark] /\ w' = w
  <2>1. r'["ms"] = r["ms"] /\ r'["sm"] = Mark /\ w' = w
    BY <1>1, <1>7 DEF TypeInv
  <2>2. InStep("ms")' => DirInv("ms")'
    BY <1>1, <2>1, DirUntouched DEF OnceInv
  <2>3. InStep("sm")' => DirInv("sm")'
    BY <1>1, <1>2, <2>1, ClearedIndex DEF OnceInv
  <2> QED  BY <1>3, <1>4, <2>2, <2>3 DEF OnceInv
<1> QED  BY <1>5, <1>6, <1>7 DEF SlaveBoot

\* The start-up of both sides and a reset.
LEMMA BootOnce ==
  ASSUME SizesFit, OnceInv, TypeInv', SlaveInit \/ MasterInit \/ SlaveRestart
  PROVE  OnceInv'
<1> USE Sizes
<1>1. CASE SlaveClears \/ SlaveBoot
  BY <1>1, ClearOnce, SlaveBootOnce
<1>2. CASE MasterClears
  <2>1. /\ ~Ready("master") /\ boot'["slave"] = boot["slave"] /\ TypeInv
        /\ UNCHANGED <<slots, uncleared, send, route, sent, routed>>
    BY <1>2 DEF MasterClears, Goes, Ready, ringVars, taskVars, OnceInv, TypeInv
  <2>2. \A d \in Dirs : /\ send[d].step = "idle" /\ route[d].step = "idle"
                       /\ slots[d] = [i \in Cells |-> Junk] /\ routed[d] = <<>>
    BY <2>1 DEF OnceInv, TypeInv, BootInv, Sender, Receiver
  <2>3. BootInv'
    BY <2>1 DEF OnceInv, BootInv
  <2>4. \A d \in Dirs : InStep(d)' => DirInv(d)'
    BY <2>1, <2>2, ClearedIndex DEF OnceInv
  <2>5. ColdInv'
    <3>1. \A d \in Dirs : \A i \in Cells : slots'[d][i] = Junk
      BY <2>1, <2>2
    <3>2. w'["ms"] \in Cells /\ \A k \in 0 .. w'["ms"] - 1 : k \in Cells /\ \A j \in 0 .. k - 1 : j \in Cells
      <4>1. w'["ms"] \in Cells
        BY DEF TypeInv
      <4> QED  BY <4>1 DEF Cells
    <3>3. Fresh("ms", Junk)'
      BY DEF Fresh, Before
    <3>4. ASSUME NEW k \in 0 .. w'["ms"] - 1 PROVE Fresh("ms", slots["ms"][k])'
      <4>1. slots'["ms"][k] = Junk
        BY <3>1, <3>2
      <4> QED  BY <3>3, <4>1 DEF Fresh
    <3> QED  BY <3>1, <3>2, <3>4 DEF ColdInv, Before
  <2> QED  BY <2>3, <2>4, <2>5 DEF OnceInv
<1>3. CASE SlaveStarts \/ MasterBoot \/ MasterSleeps \/ MasterSeesMark
  <2>1. UNCHANGED <<w, r, slots, uncleared, send, route, sent, routed>>
    BY <1>3 DEF SlaveStarts, MasterBoot, MasterSleeps, MasterSeesMark, ringVars, taskVars
  <2>2. /\ boot["master"] = "run" => boot'["master"] = "run"
        /\ boot'["slave"] = boot["slave"] \/ boot'["slave"] = "run"
    BY <1>3 DEF SlaveStarts, MasterBoot, MasterSleeps, MasterSeesMark, OnceInv, TypeInv
  <2>3. BootInv'
    BY <2>1, <2>2 DEF OnceInv, BootInv, Ready
  <2>4. \A d \in Dirs : InStep(d)' => DirInv(d)'
    BY <2>1, DirUntouched DEF OnceInv
  <2>5. ColdInv'
    BY <2>1, <2>2 DEF OnceInv, ColdInv, Fresh, Before, InStep
  <2> QED  BY <2>3, <2>4, <2>5 DEF OnceInv
<1>4. CASE SlaveRestart
  <2>1. /\ UNCHANGED <<w, r, slots, sent, routed>>
        /\ send'["sm"].step = "idle" /\ send'["ms"] = send["ms"]
        /\ route'["ms"].step = "idle" /\ route'["sm"] = route["sm"]
        /\ boot'["master"] = boot["master"] /\ uncleared' = Memory
    BY <1>4, JunkTypes DEF SlaveRestart, OnceInv, TypeInv
  <2>2. BootInv'
    BY <2>1 DEF OnceInv, BootInv, Ready
  <2>3. ColdInv'
    <3>1. w["ms"] \in Cells
      BY DEF OnceInv, TypeInv
    <3>2. \A k \in 0 .. w["ms"] - 1 : <<"ms", k>> \in Memory
      BY <3>1 DEF Memory, Cells
    <3>3. \A i \in Cells : <<"sm", i>> \in Memory
      BY DEF Memory
    <3> QED  BY <2>1, <3>2, <3>3 DEF ColdInv
  <2>4. ASSUME InStep("sm")' PROVE DirInv("sm")'
    <3>1. DirInv("sm")
      BY <2>1, <2>4 DEF OnceInv, InStep
    <3>2. /\ Advancing("sm")' = Advancing("sm") /\ Window("sm")' = Window("sm")
          /\ \A k : Entry("sm", k)' = Entry("sm", k)
          /\ \A m : Fresh("sm", m)' = Fresh("sm", m)
      BY <2>1 DEF Advancing, Window, Entry, Fresh
    <3>3. RouteInv("sm")'
      BY <2>1, <3>1, <3>2 DEF DirInv, RouteInv
    <3> QED  BY <2>1, <3>1, <3>3 DEF DirInv, SendInv, RoutedInv
  <2>5. ASSUME InStep("ms")' PROVE DirInv("ms")'
    <3>1. DirInv("ms")
      BY <2>1, <2>5 DEF OnceInv, InStep
    <3>2. /\ ~Advancing("ms")' /\ Window("ms")' \subseteq Window("ms")
          /\ \A k : Entry("ms", k)' = Entry("ms", k)
          /\ \A m : Fresh("ms", m)' = Fresh("ms", m)
      BY <2>1 DEF Advancing, Window, Entry, Fresh
    <3>3. RouteInv("ms")'
      BY <2>1, <3>1, <3>2 DEF DirInv, RouteInv
    <3> QED  BY <2>1, <3>1, <3>3 DEF DirInv, SendInv, RoutedInv
  <2> QED  BY <2>2, <2>3, <2>4, <2>5 DEF OnceInv
<1> QED  BY <1>1, <1>2, <1>3, <1>4 DEF SlaveInit, MasterInit

\* Sides that are in step after a message was sent were so before, and the
\* sender's index goes round the reader's ring.
LEMMA SentGrows ==
  ASSUME TypeInv, NEW d \in Dirs, Sending(d), InStep(d)'
  PROVE  InStep(d)
<1>1. Len(sent[d]) \in Nat /\ Size \in [Sides -> Nat]
  BY XcpuAssumption, LenProperties DEF TypeInv
<1>2. Len(sent'[d]) \in {Len(sent[d]), Len(sent[d]) + 1}
  <2>1. CASE SendCheck(d) \/ SendCopy(d)
    BY <2>1 DEF SendCheck, SendCopy
  <2>2. CASE SendPublish(d)
    <3>1. sent'[d] = Append(sent[d], send[d].msg) /\ send[d].msg \in Message /\ sent[d] \in Seq(Message)
      BY <2>2 DEF SendPublish, TypeInv
    <3> QED  BY <3>1, AppendProperties
  <2> QED  BY <2>1, <2>2 DEF Sending
<1> QED  BY ONLY <1>1, <1>2, InStep(d)' DEF InStep

LEMMA SameSucc ==
  ASSUME TypeInv, NEW d \in Dirs, SendPublish(d), InStep(d)'
  PROVE  Succ(w[d], Size[Sender(d)]) = Succ(w[d], Ring(d))
<1> USE Sizes
<1>1. Len(sent'[d]) = Len(sent[d]) + 1
  <2>1. sent'[d] = Append(sent[d], send[d].msg) /\ send[d].msg \in Message /\ sent[d] \in Seq(Message)
    BY DEF SendPublish, TypeInv
  <2> QED  BY <2>1, AppendProperties
<1>2. w[d] \in Nat /\ Len(sent[d]) \in Nat /\ w[d] <= Len(sent[d])
  BY LenProperties DEF TypeInv
<1>3. Ring(d) = Size[Sender(d)] \/ (Len(sent'[d]) < Ring(d) /\ Len(sent'[d]) < Size[Sender(d)])
  BY DEF InStep, Ring, Receiver, Sender
<1>4. Size[Sender(d)] \in Nat /\ Ring(d) \in Nat
  BY Rings DEF Sender
<1> QED  BY ONLY <1>1, <1>2, <1>3, <1>4 DEF Succ

\* The master may send while the slave clears the memory: what it writes is
\* later than all that is in front of it.
LEMMA SendCold ==
  ASSUME SizesFit, OnceInv, TypeInv', NEW d \in Dirs, Sending(d)
  PROVE  ColdInv'
<1> USE Sizes
<1>1. /\ UNCHANGED <<r, boot, uncleared, route, routed>> /\ Ready(Sender(d)) /\ TypeInv
  BY DEF Sending, SendCheck, SendCopy, SendPublish, bootVars, OnceInv, TypeInv
<1>2. CASE d = "sm"
  <2>1. boot'["slave"] = "run"
    BY <1>1, <1>2 DEF Ready, Sender
  <2> QED  BY <2>1 DEF ColdInv
<1>3. CASE d = "ms"
  <2> DEFINE L == Len(sent["ms"])
             m == send["ms"].msg
             i == w["ms"]
             s == slots["ms"]
  <2>1. slots'["sm"] = slots["sm"] /\ i \in Cells /\ i \in Nat /\ L \in Nat
    BY <1>1, <1>3, LenProperties DEF Sending, SendCheck, SendCopy, SendPublish, TypeInv
  <2> SUFFICES ASSUME InStep("ms")', boot["slave"] = "off",
                      NEW k \in 0 .. w'["ms"] - 1, <<"ms", k>> \notin uncleared
               PROVE  /\ Fresh("ms", slots["ms"][k])'
                      /\ \A j \in 0 .. k - 1 : <<"ms", j>> \notin uncleared =>
                           Before(slots'["ms"][j], slots'["ms"][k])
    <3>1. \A n \in Cells : <<"sm", n>> \notin uncleared' =>
            (boot'["slave"] \in {"off", "clear sw", "mark"} => slots'["sm"][n] = Junk)
      BY <1>1, <2>1 DEF OnceInv, ColdInv
    <3> QED  BY <1>1, <3>1 DEF ColdInv, Before
  <2>2. CASE UNCHANGED <<w, sent>>
            /\ \A n \in Cells : n # i => slots'["ms"][n] = slots["ms"][n]
    <3>1. k \in 0 .. i - 1 /\ InStep("ms")
      BY <2>2 DEF InStep
    <3>2. s[k] = slots'["ms"][k] /\ \A j \in 0 .. k - 1 : s[j] = slots'["ms"][j]
      <4>1. k \in Cells /\ k # i /\ \A j \in 0 .. k - 1 : j \in Cells /\ j # i
        BY <2>1, <3>1 DEF Cells
      <4> QED  BY <2>2, <4>1
    <3>3. /\ Fresh("ms", s[k])
          /\ \A j \in 0 .. k - 1 : <<"ms", j>> \notin uncleared => Before(s[j], s[k])
      BY <3>1 DEF OnceInv, ColdInv
    <3>4. Fresh("ms", slots["ms"][k])'
      BY <1>1, <2>2, <3>2, <3>3 DEF Fresh
    <3> QED  BY <3>2, <3>3, <3>4
  <2>3. CASE SendPublish("ms")
    <3>1. /\ slots' = slots /\ send["ms"].step = "publish" /\ m \in Message
          /\ i = send["ms"].at
          /\ w'["ms"] = Succ(i, Size["master"]) /\ sent'["ms"] = Append(sent["ms"], m)
      BY <1>1, <2>3 DEF SendPublish, TypeInv, Sender
    <3>2. Len(sent'["ms"]) = L + 1
      BY <1>1, <3>1, AppendProperties DEF TypeInv
    <3>3. InStep("ms")
      BY <1>1, <1>3, SentGrows
    <3>4. /\ m.id = L + 1 /\ s[i] \in {m, Junk}
          /\ \A n \in 1 .. Len(routed["ms"]) : routed["ms"][n] = Junk \/ routed["ms"][n].id <= L
      BY <3>1, <3>3 DEF OnceInv, DirInv, SendInv, RoutedInv
    <3>5. k \in 0 .. i /\ (k = i \/ k \in 0 .. i - 1)
      BY <2>1, <3>1 DEF Succ
    <3>6. \A n \in 0 .. i - 1 : <<"ms", n>> \notin uncleared =>
            /\ Fresh("ms", s[n])
            /\ \A j \in 0 .. n - 1 : <<"ms", j>> \notin uncleared => Before(s[j], s[n])
      BY <3>3 DEF OnceInv, ColdInv
    <3>7. \A x : Fresh("ms", x) /\ x \in Anything => Fresh("ms", x)' /\ Before(x, s[i])
      <4> SUFFICES ASSUME NEW x, Fresh("ms", x), x \in Anything
                   PROVE  Fresh("ms", x)' /\ Before(x, s[i])
        OBVIOUS
      <4>1. x = Junk \/ (x.id \in Nat /\ x.id <= L)
        BY Ids DEF Fresh
      <4>2. Fresh("ms", x)'
        BY <1>1, <2>1, <3>2, <4>1 DEF Fresh
      <4>3. Before(x, s[i])
        BY <2>1, <3>4, <4>1 DEF Before
      <4> QED  BY <4>2, <4>3
    <3>8. \A x : x = s[i] => Fresh("ms", x)'
      <4>1. \A n \in 1 .. Len(routed["ms"]) : Before(routed["ms"][n], s[i])
        <5> TAKE n \in 1 .. Len(routed["ms"])
        <5>1. routed["ms"][n] \in Anything
          BY <1>1 DEF TypeInv
        <5>2. routed["ms"][n] = Junk \/ (routed["ms"][n].id \in Nat /\ routed["ms"][n].id <= L)
          BY <3>4, <5>1, Ids
        <5>3. s[i] = Junk \/ s[i].id = L + 1
          BY <3>4
        <5> HIDE DEF s, L, i
        <5> QED  BY <2>1, <5>2, <5>3 DEF Before
      <4> QED  BY <1>1, <2>1, <3>1, <3>2, <3>4, <4>1 DEF Fresh
    <3>9. \A n \in 0 .. i - 1 : s[n] \in Anything
      <4>1. \A n \in 0 .. i - 1 : n \in Cells
        BY <2>1 DEF Cells
      <4> QED  BY <1>1, <4>1 DEF TypeInv
    <3>10. CASE k = i
      <4>1. \A j \in 0 .. k - 1 : <<"ms", j>> \notin uncleared => Before(s[j], s[k])
        BY <3>6, <3>7, <3>9, <3>10
      <4>2. Fresh("ms", slots["ms"][k])'
        <5>1. slots'["ms"][k] = s[i]
          BY <3>1, <3>10
        <5>2. PICK x : x = s[i]
          OBVIOUS
        <5> QED  BY <3>8, <5>1, <5>2 DEF Fresh
      <4> QED  BY <3>1, <4>1, <4>2
    <3>11. CASE k \in 0 .. i - 1
      <4>1. Fresh("ms", slots["ms"][k])'
        <5>1. Fresh("ms", s[k]) /\ s[k] \in Anything
          BY <3>6, <3>9, <3>11
        <5> QED  BY <3>1, <3>7, <5>1 DEF Fresh
      <4> QED  BY <3>1, <3>6, <3>11, <4>1
    <3> QED  BY <3>5, <3>10, <3>11
  <2>4. CASE SendCheck("ms") \/ SendCopy("ms")
    <3>1. UNCHANGED <<w, sent>>
      BY <2>4 DEF SendCheck, SendCopy
    <3>2. \A n \in Cells : n # i => slots'["ms"][n] = slots["ms"][n]
      <4>1. CASE SendCheck("ms")
        BY <4>1 DEF SendCheck
      <4>2. CASE SendCopy("ms")
        <5>1. send["ms"].at = i /\ slots["ms"] \in [Cells -> Anything]
          BY <1>1, <4>2 DEF SendCopy, TypeInv
        <5>2. slots'["ms"] = [slots["ms"] EXCEPT ![send["ms"].at] = m]
          BY <1>1, <4>2 DEF SendCopy, TypeInv
        <5> QED  BY ONLY <5>1, <5>2
      <4> QED  BY <2>4, <4>1, <4>2
    <3> QED  BY <2>2, <3>1, <3>2
  <2> QED  BY <1>3, <2>3, <2>4 DEF Sending
<1> QED  BY <1>2, <1>3

\* A sender at work: its slot is outside the window, and its message is later
\* than every message of the window.
LEMMA SendOnce ==
  ASSUME SizesFit, OnceInv, TypeInv', NEW d \in Dirs, Sending(d)
  PROVE  OnceInv'
<1> USE Sizes
<1>1. /\ r' = r /\ boot' = boot /\ route' = route /\ routed' = routed
      /\ Ready(Sender(d))
  BY DEF Sending, SendCheck, SendCopy, SendPublish, bootVars, OnceInv, TypeInv
<1>2. BootInv'
  <2>1. Ready("master")
    BY <1>1 DEF OnceInv, TypeInv, Sender
  <2> QED  BY <1>1, <2>1 DEF BootInv, Ready
<1>5. ASSUME NEW e \in Dirs, e # d PROVE InStep(e)' => DirInv(e)'
  <2>1. /\ w'[e] = w[e] /\ slots'[e] = slots[e] /\ send'[e] = send[e] /\ sent'[e] = sent[e]
    BY <1>5 DEF Sending, SendCheck, SendCopy, SendPublish, OnceInv, TypeInv
  <2> QED  BY <1>1, <2>1, DirUntouched DEF OnceInv
<1> SUFFICES ASSUME InStep(d)' PROVE DirInv(d)'
  BY <1>2, <1>5, SendCold DEF OnceInv
<1>10. InStep(d)
  BY SentGrows DEF OnceInv
<1>3. /\ r[d] \in Cells /\ r[d] \in 0 .. Ring(d) - 1 /\ r[d] # Mark
      /\ w[d] \in Cells /\ w[d] \in 0 .. Ring(d) - 1
      /\ Ring(d) \in Nat /\ Ring(d) >= 2
  <2>1. d = "sm" => r["sm"] # Mark
    BY <1>1 DEF OnceInv, TypeInv, Sender, Ready
  <2>2. d = "ms" => r["ms"] \in Cells
    BY DEF OnceInv, TypeInv
  <2> QED  BY <1>10, <2>1, <2>2, InRing DEF OnceInv
<1>4. SendInv(d) /\ RouteInv(d) /\ RoutedInv(d)
  BY <1>10 DEF OnceInv, DirInv
<1>6. CASE SendCheck(d)
  <2>1. /\ UNCHANGED <<w, slots, sent>> /\ send'[d].at = w[d]
        /\ send'[d].msg.id = Len(sent[d]) + 1 /\ send'[d].step = "copy"
    BY <1>6 DEF SendCheck, OnceInv, TypeInv
  <2>2. SendInv(d)' /\ RoutedInv(d)'
    BY <1>1, <1>4, <2>1 DEF SendInv, RoutedInv
  <2>3. RouteInv(d)'
    <3>1. /\ Advancing(d)' = Advancing(d) /\ Window(d)' = Window(d)
          /\ \A k : Entry(d, k)' = Entry(d, k)
          /\ \A m : Fresh(d, m)' = Fresh(d, m)
      BY <1>1, <2>1 DEF Advancing, Window, Entry, Fresh
    <3> QED  BY <1>1, <1>4, <2>1, <3>1 DEF RouteInv
  <2> QED  BY <2>2, <2>3 DEF DirInv
<1>7. CASE SendCopy(d)
  <2>1. send[d].at = w[d]
    BY <1>4, <1>7 DEF SendCopy, SendInv
  <2>2. /\ UNCHANGED <<w, sent>>
        /\ slots'[d][w[d]] = send[d].msg
        /\ \A i \in Cells : i # w[d] => slots'[d][i] = slots[d][i]
    BY <1>3, <1>7, <2>1 DEF SendCopy, OnceInv, TypeInv
  <2>3. send'[d].at = send[d].at /\ send'[d].msg = send[d].msg /\ send[d].step = "copy"
    <3> DEFINE m == [send[d] EXCEPT !.step = "publish"]
    <3>1. send' = [send EXCEPT ![d] = m] /\ send[d].step = "copy"
      BY <1>7 DEF SendCopy
    <3>2. m.at = send[d].at /\ m.msg = send[d].msg
      <4>1. send[d] \in [step : SendSteps, msg : Anything, at : Cells]
        BY DEF OnceInv, TypeInv
      <4> QED  BY ONLY <4>1 DEF SendSteps
    <3> HIDE DEF m
    <3> QED  BY <3>1, <3>2 DEF OnceInv, TypeInv
  <2>4. SendInv(d)' /\ RoutedInv(d)'
    BY <1>1, <1>4, <2>1, <2>2, <2>3 DEF SendInv, RoutedInv
  <2>5. RouteInv(d)'
    <3>1. /\ Advancing(d)' = Advancing(d) /\ Window(d)' = Window(d)
          /\ \A m : Fresh(d, m)' = Fresh(d, m)
      BY <1>1, <2>2 DEF Advancing, Window, Fresh
    <3>2. \A k \in Window(d) : Entry(d, k)' = Entry(d, k)
      <4> TAKE k \in Window(d)
      <4>1. Pos(r[d], k, Ring(d)) \in Cells /\ Pos(r[d], k, Ring(d)) # w[d]
        BY <1>3, <1>10, WindowType DEF OnceInv
      <4> QED  BY <1>1, <2>2, <4>1 DEF Entry
    <3> QED  BY <1>1, <1>3, <1>4, <3>1, <3>2 DEF RouteInv
  <2> QED  BY <2>4, <2>5 DEF DirInv
<1>8. CASE SendPublish(d)
  <2> DEFINE K == Count(w[d], r[d], Ring(d))
             L == Len(sent[d])
             m == send[d].msg
  <2>1. /\ slots' = slots /\ send'[d].step = "idle" /\ send[d].step = "publish"
        /\ send[d].at = w[d] /\ m.id = L + 1 /\ slots[d][w[d]] \in {m, Junk}
        /\ m \in Message /\ w'[d] = Succ(w[d], Ring(d)) /\ sent'[d] = Append(sent[d], m)
    <3>1. /\ slots' = slots /\ send'[d] = Idle /\ send[d].step = "publish"
          /\ w'[d] = Succ(send[d].at, Size[Sender(d)]) /\ sent'[d] = Append(sent[d], m)
      BY <1>3, <1>8 DEF SendPublish, OnceInv, TypeInv
    <3>3. send[d].at = w[d] /\ Succ(w[d], Size[Sender(d)]) = Succ(w[d], Ring(d))
      <4>1. send[d].at = w[d]
        BY <1>4, <3>1 DEF SendInv
      <4> QED  BY <1>8, <4>1, SameSucc DEF OnceInv
    <3>2. m \in Message
      BY <3>1 DEF OnceInv, TypeInv
    <3> QED  BY <1>4, <3>1, <3>2, <3>3 DEF SendInv, Idle
  <2>2. L \in Nat /\ Len(sent'[d]) = L + 1
    <3>1. sent[d] \in Seq(Message)
      BY DEF OnceInv, TypeInv
    <3> QED  BY <2>1, <3>1, AppendProperties, LenProperties
  <2>3. K \in 0 .. Ring(d) - 1 /\ (K = 0 <=> r[d] = w[d]) /\ Pos(r[d], K, Ring(d)) = w[d]
    <3>1. K \in 0 .. Ring(d) - 1 /\ (K = 0 <=> r[d] = w[d])
      <4>1. /\ r[d] \in 0 .. Ring(d) - 1 /\ w[d] \in 0 .. Ring(d) - 1
            /\ Ring(d) \in Nat /\ Ring(d) >= 2
        BY <1>3
      <4>2. Count(w[d], r[d], Ring(d)) \in 0 .. Ring(d) - 1
        BY ONLY <4>1, CountType
      <4>3. Count(w[d], r[d], Ring(d)) = 0 <=> r[d] = w[d]
        BY ONLY <4>1 DEF Count
      <4> QED  BY <4>2, <4>3
    <3>2. Pos(r[d], K, Ring(d)) = w[d]
      BY <1>3, EndSlots
    <3> QED  BY <3>1, <3>2
  <2>4. Advancing(d)' = Advancing(d) /\ \A k : Entry(d, k)' = Entry(d, k)
    BY <1>1, <2>1 DEF Advancing, Entry
  <2>5. \A k \in Window(d)' : k = K \/ (k \in Window(d) /\ k < K)
    <3>1. Succ(w[d], Ring(d)) # w[d] /\ Count(w[d], Succ(w[d], Ring(d)), Ring(d)) = Ring(d) - 1
      BY <1>3, SuccType, PassOne
    <3>2. CASE r[d] = Succ(w[d], Ring(d))
      <4>1. K = Ring(d) - 1 /\ Window(d) = 0 .. K - 1
        BY <3>1, <3>2 DEF Window
      <4>2. Window(d)' \subseteq 1 .. Ring(d) - 1
        BY <1>1, <2>1, <3>2 DEF Window
      <4> QED  BY ONLY <1>3, <4>1, <4>2
    <3>3. CASE r[d] # Succ(w[d], Ring(d))
      <4>1. Window(d)' = 0 .. (K + 1) - 1
        <5>1. Count(Succ(w[d], Ring(d)), r[d], Ring(d)) = K + 1
          BY <1>3, <3>3, WriteOne
        <5> QED  BY <1>1, <2>1, <3>3, <5>1 DEF Window
      <4>2. r[d] = w[d] \/ Window(d) = 0 .. K - 1
        BY DEF Window
      <4> HIDE DEF K
      <4> QED  BY <2>3, <4>1, <4>2
    <3> QED  BY <3>2, <3>3
  <2> HIDE DEF K
  <2>6. \A k : k = K => Entry(d, k) \in {m, Junk}
    BY <2>1, <2>3 DEF Entry
  <2>7. \A x \in Anything : Fresh(d, x) => Fresh(d, x)' /\ Before(x, m)
    <3> SUFFICES ASSUME NEW x \in Anything, Fresh(d, x)
                 PROVE  Fresh(d, x)' /\ Before(x, m)
      OBVIOUS
    <3>1. x = Junk \/ (x.id \in Nat /\ x.id <= L)
      BY Ids DEF Fresh
    <3>2. Fresh(d, x)'
      BY <1>1, <2>2, <3>1 DEF Fresh
    <3>3. Before(x, m)
      BY <2>1, <2>2, <3>1 DEF Before
    <3> QED  BY <3>2, <3>3
  <2>8. \A x : x \in {m, Junk} => Fresh(d, x)'
    <3>1. \A i \in 1 .. Len(routed[d]) : Before(routed[d][i], m)
      <4> TAKE i \in 1 .. Len(routed[d])
      <4>1. routed[d][i] \in Anything
        BY DEF OnceInv, TypeInv
      <4>2. routed[d][i] = Junk \/ routed[d][i].id <= L
        BY <1>4 DEF RoutedInv
      <4> QED  BY <2>1, <2>2, <4>1, <4>2, Ids DEF Before
    <3> QED  BY <1>1, <2>1, <2>2, <3>1 DEF Fresh, Before
  <2>9. \A k \in Window(d) : Entry(d, k) \in Anything
    <3> TAKE k \in Window(d)
    <3>1. Pos(r[d], k, Ring(d)) \in Cells
      BY <1>3, <1>10, WindowType DEF OnceInv
    <3> QED  BY <3>1 DEF Entry, OnceInv, TypeInv
  <2>10. \A x : x \in {m, Junk} => \A n : Before(n, m) => Before(n, x)
    BY DEF Before
  <2>11. RouteInv(d)'
    <3>1. Advancing(d)' => Fresh(d, route[d].msg)' /\ Before(route[d].msg, m)
      <4>1. route[d].msg \in Anything
        BY DEF OnceInv, TypeInv
      <4>2. Advancing(d) => Fresh(d, route[d].msg)
        BY <1>4 DEF RouteInv
      <4>3. route'[d].msg = route[d].msg
        BY <1>1
      <4> QED  BY <2>4, <2>7, <4>1, <4>2, <4>3
    <3>2. ASSUME NEW k \in Window(d)'
          PROVE  /\ Fresh(d, Entry(d, k))'
                 /\ \A j \in Window(d)' : j < k => Before(Entry(d, j), Entry(d, k))'
                 /\ Advancing(d)' /\ k > 0 => Before(route[d].msg, Entry(d, k))'
      <4>1. CASE k = K
        <5>1. Entry(d, k)' \in {m, Junk}
          BY <2>4, <2>6, <4>1
        <5>2. Fresh(d, Entry(d, k))'
          BY <2>8, <5>1
        <5>3. \A j \in Window(d)' : j < k => Before(Entry(d, j), Entry(d, k))'
          <6> TAKE j \in Window(d)'
          <6> HAVE j < k
          <6>1. j \in Window(d)
            BY <1>3, <2>3, <2>5, <4>1
          <6>2. Fresh(d, Entry(d, j)) /\ Entry(d, j) \in Anything
            BY <1>3, <1>4, <2>9, <6>1 DEF RouteInv
          <6>3. Before(Entry(d, j), m)
            BY <2>7, <6>2
          <6>4. Before(Entry(d, j)', Entry(d, k)')
            BY <2>4, <2>10, <5>1, <6>3
          <6> QED  BY <6>4 DEF Before
        <5>4. Advancing(d)' => Before(route[d].msg, Entry(d, k))'
          <6>1. Advancing(d)' => Before(route'[d].msg, Entry(d, k)')
            BY <1>1, <2>10, <3>1, <5>1
          <6> QED  BY <6>1 DEF Before
        <5> QED  BY <5>2, <5>3, <5>4
      <4>2. CASE k # K
        <5>1. k \in Window(d) /\ k < K
          BY <2>5, <4>2
        <5>2. Fresh(d, Entry(d, k))'
          <6>1. Fresh(d, Entry(d, k)) /\ Entry(d, k) \in Anything
            BY <1>3, <1>4, <2>9, <5>1 DEF RouteInv
          <6> QED  BY <2>4, <2>7, <6>1
        <5>3. \A j \in Window(d)' : j < k => Before(Entry(d, j), Entry(d, k))'
          <6> TAKE j \in Window(d)'
          <6> HAVE j < k
          <6>1. j \in Window(d)
            <7>1. k \in 0 .. Ring(d) - 1
              BY <1>3, <5>1, <1>10, WindowType DEF OnceInv
            <7> QED  BY <1>3, <2>3, <2>5, <5>1, <7>1
          <6>2. Before(Entry(d, j), Entry(d, k))
            BY <1>3, <1>4, <5>1, <6>1 DEF RouteInv
          <6> QED  BY <2>4, <6>2 DEF Before
        <5>4. Advancing(d)' /\ k > 0 => Before(route[d].msg, Entry(d, k))'
          <6>1. Advancing(d) /\ k > 0 => Before(route[d].msg, Entry(d, k))
            BY <1>3, <1>4, <5>1 DEF RouteInv
          <6> QED  BY <1>1, <2>4, <6>1 DEF Before
        <5> QED  BY <5>2, <5>3, <5>4
      <4> QED  BY <4>1, <4>2
    <3>3. Advancing(d)' => route'[d].at = r'[d]
      BY <1>1, <1>3, <1>4, <2>4 DEF RouteInv
    <3> QED  BY <1>1, <1>3, <3>1, <3>2, <3>3 DEF RouteInv
  <2>12. SendInv(d)' /\ RoutedInv(d)'
    <3>1. \A i \in 1 .. Len(routed[d]) : routed[d][i] = Junk \/ routed[d][i].id <= L + 1
      <4> TAKE i \in 1 .. Len(routed[d])
      <4>1. routed[d][i] \in Anything
        BY DEF OnceInv, TypeInv
      <4> QED  BY <1>4, <2>2, <4>1, Ids DEF RoutedInv
    <3> QED  BY <1>1, <1>4, <2>1, <2>2, <3>1 DEF SendInv, RoutedInv
  <2> QED  BY <2>11, <2>12 DEF DirInv
<1> QED  BY <1>6, <1>7, <1>8 DEF Sending

\* A router at work: it takes the first entry of the window, or moves past it.
LEMMA RouteOnce ==
  ASSUME SizesFit, OnceInv, TypeInv', NEW d \in Dirs,
         Routing(d) \/ \E t \in Services : Consume(d, t)
  PROVE  OnceInv'
<1> USE Sizes
<1>1. /\ w' = w /\ slots' = slots /\ boot' = boot /\ send' = send /\ sent' = sent
      /\ uncleared' = uncleared /\ Ready(Receiver(d))
  BY DEF Routing, ReceiveCopy, ReceiveAdvance, Dispatch, Consume, bootVars, OnceInv, TypeInv
<1>2. BootInv'
  <2>1. Ready("master")
    BY <1>1 DEF OnceInv, TypeInv, Receiver
  <2> QED  BY <1>1, <2>1 DEF BootInv, Ready
<1>5. ASSUME NEW e \in Dirs, e # d
      PROVE  r'[e] = r[e] /\ route'[e] = route[e] /\ routed'[e] = routed[e]
  BY <1>5 DEF Routing, ReceiveCopy, ReceiveAdvance, Dispatch, Consume, OnceInv, TypeInv
<1>10. ColdInv'
  <2>1. CASE d = "ms"
    <3>1. boot'["slave"] = "run"
      BY <1>1, <2>1 DEF Ready, Receiver
    <3> QED  BY <3>1 DEF ColdInv
  <2>2. CASE d = "sm"
    <3>1. routed'["ms"] = routed["ms"]
      BY <1>5, <2>2
    <3> QED  BY <1>1, <3>1 DEF OnceInv, ColdInv, InStep, Fresh, Before
  <2> QED  BY <2>1, <2>2
<1>11. ASSUME NEW e \in Dirs, e # d PROVE InStep(e)' => DirInv(e)'
  BY <1>1, <1>5, <1>11, DirUntouched DEF OnceInv
<1> SUFFICES ASSUME InStep(d)' PROVE DirInv(d)'
  BY <1>2, <1>10, <1>11 DEF OnceInv
<1>12. InStep(d)
  BY <1>1 DEF InStep
<1>3. /\ r[d] \in Cells \union {Mark} /\ w[d] \in Cells /\ w[d] \in 0 .. Ring(d) - 1
      /\ r[d] # Mark => r[d] \in Cells /\ r[d] \in 0 .. Ring(d) - 1
      /\ Ring(d) \in Nat /\ Ring(d) >= 2 /\ Size[Receiver(d)] = Ring(d)
      /\ Mark \notin Cells
  BY <1>12, InRing DEF OnceInv, Ring
<1>4. SendInv(d) /\ RouteInv(d) /\ RoutedInv(d)
  BY <1>12 DEF OnceInv, DirInv
<1>6. SendInv(d)'
  BY <1>1, <1>4 DEF SendInv
<1>7. CASE ReceiveCopy(d)
  <2> DEFINE m == IF r[d] \in Cells THEN slots[d][r[d]] ELSE Junk
  <2>1. /\ r' = r /\ routed' = routed /\ route[d].step = "idle"
        /\ route'[d] = [step |-> "advance", msg |-> m, at |-> r[d]]
        /\ ~Empty(w[d], r[d], Ring(d))
    BY <1>3, <1>7 DEF ReceiveCopy, OnceInv, TypeInv
  <2>2. RoutedInv(d)' /\ \A x : Fresh(d, x)' = Fresh(d, x) /\ \A k : Entry(d, k)' = Entry(d, k)
    BY <1>1, <1>4, <2>1 DEF RoutedInv, Fresh, Entry
  <2>3. CASE r[d] = Mark
    <3>1. m = Junk
      BY <1>3, <2>3
    <3>2. Fresh(d, m)
      BY <3>1, FreshJunk
    <3> QED  BY <1>1, <1>4, <1>6, <2>1, <2>2, <2>3, <3>2
             DEF DirInv, RouteInv, Advancing
  <2>4. CASE r[d] # Mark
    <3>1. r[d] # w[d]
      BY <1>3, <2>1, <2>4, FullRing
    <3>2. Window(d) = 0 .. Count(w[d], r[d], Ring(d)) - 1 /\ Window(d)' = Window(d)
      BY <1>1, <2>1, <3>1 DEF Window
    <3>3. 0 \in Window(d) /\ m = Entry(d, 0)
      <4>1. Count(w[d], r[d], Ring(d)) \in 0 .. Ring(d) - 1 /\ Count(w[d], r[d], Ring(d)) # 0
        <5>1. /\ r[d] \in 0 .. Ring(d) - 1 /\ w[d] \in 0 .. Ring(d) - 1
              /\ Ring(d) \in Nat /\ Ring(d) >= 2
          BY <1>3, <2>4
        <5> QED  BY ONLY <3>1, <5>1 DEF Count
      <4>2. Pos(r[d], 0, Ring(d)) = r[d]
        BY <1>3, <2>4, EndSlots
      <4> QED  BY <1>3, <2>4, <3>2, <4>1, <4>2 DEF Entry
    <3>4. Fresh(d, m) /\ \A k \in Window(d) : k > 0 => Before(m, Entry(d, k))
      BY <1>4, <2>4, <3>3 DEF RouteInv
    <3> HIDE DEF m
    <3>5. RouteInv(d)'
      <4>1. Advancing(d)' /\ route'[d].msg = m /\ route'[d].at = r[d]
        BY <2>1 DEF Advancing
      <4>2. Fresh(d, route[d].msg)'
        <5>1. \A x : Fresh(d, x) => Fresh(d, x)'
          BY <2>2
        <5> QED  BY <3>4, <4>1, <5>1
      <4>3. \A k \in Window(d)' : k > 0 => Before(route[d].msg, Entry(d, k))'
        BY <2>2, <3>2, <3>4, <4>1 DEF Before
      <4> QED  BY <1>4, <2>1, <2>2, <2>4, <3>2, <4>1, <4>2, <4>3 DEF RouteInv
    <3> QED  BY <1>6, <2>2, <3>5 DEF DirInv
  <2> QED  BY <2>3, <2>4
<1>8. CASE ReceiveAdvance(d)
  <2> DEFINE m == route[d].msg
             L == Len(routed[d])
  <2>1. /\ route[d].step = "advance" /\ m \in Anything
        /\ r'[d] = Succ(route[d].at, Ring(d)) /\ routed'[d] = Append(routed[d], m)
        /\ route[d].at \in Cells \union {Mark}
    BY <1>3, <1>8 DEF ReceiveAdvance, OnceInv, TypeInv
  <2>2. r'[d] \in Cells /\ r'[d] \in 0 .. Ring(d) - 1 /\ r'[d] # Mark
    <3>1. Receiver(d) \in Sides
      BY DEF Receiver
    <3>2. r'[d] \in Cells /\ r'[d] < Ring(d)
      BY <1>3, <2>1, <3>1, AdvanceType
    <3>3. r'[d] \in Nat /\ Ring(d) \in Nat /\ r'[d] # Mark
      BY <1>3, <3>2
    <3> QED  BY ONLY <3>2, <3>3
  <2>3. ~Advancing(d)'
    <3> DEFINE n == [route[d] EXCEPT !.step = "dispatch"]
    <3>1. route' = [route EXCEPT ![d] = n]
      BY <1>8 DEF ReceiveAdvance
    <3>2. n.step = "dispatch"
      <4>1. route[d] \in [step : RouteSteps, msg : Anything, at : Cells \union {Mark}]
        BY DEF OnceInv, TypeInv
      <4> QED  BY ONLY <4>1 DEF RouteSteps
    <3> HIDE DEF n
    <3> QED  BY <3>1, <3>2 DEF OnceInv, TypeInv, Advancing
  <2>4. Fresh(d, m)
    BY <1>4, <2>1 DEF RouteInv, Advancing
  <2>5. /\ L \in Nat /\ Len(routed'[d]) = L + 1 /\ routed'[d][L + 1] = m
        /\ \A i \in 1 .. L : routed'[d][i] = routed[d][i]
    <3>1. routed[d] \in Seq(Anything)
      BY DEF OnceInv, TypeInv
    <3> QED  BY <2>1, <3>1, AppendProperties, LenProperties
  <2>6. RoutedInv(d)'
    <3>1. \A i \in 1 .. L + 1 : routed'[d][i] = Junk \/ routed'[d][i].id <= Len(sent[d])
      <4> TAKE i \in 1 .. L + 1
      <4>1. CASE i = L + 1
        BY <2>4, <2>5, <4>1 DEF Fresh
      <4>2. CASE i # L + 1
        <5>1. i \in 1 .. L
          BY <2>5, <4>2
        <5> QED  BY <1>4, <2>5, <5>1 DEF RoutedInv
      <4> QED  BY <4>1, <4>2
    <3>2. \A i, j \in 1 .. L + 1 : i < j => Before(routed'[d][i], routed'[d][j])
      <4> TAKE i, j \in 1 .. L + 1
      <4> HAVE i < j
      <4>1. i \in 1 .. L
        BY <2>5
      <4>2. CASE j = L + 1
        BY <2>4, <2>5, <4>1, <4>2 DEF Fresh
      <4>3. CASE j # L + 1
        <5>1. j \in 1 .. L
          BY <2>5, <4>3
        <5> QED  BY <1>4, <2>5, <4>1, <5>1 DEF RoutedInv
      <4> QED  BY <4>2, <4>3
    <3> QED  BY <1>1, <2>5, <3>1, <3>2 DEF RoutedInv, Before
  <2>7. RouteInv(d)'
    <3>1. CASE r[d] = Mark
      <4>1. slots'[d] = [i \in Cells |-> Junk]
        BY <1>1, <1>4, <3>1 DEF RouteInv
      <4> QED  BY <2>3, <4>1, JunkRing
    <3>2. CASE r[d] # Mark
      <4>1. route[d].at = r[d] /\ r'[d] = Succ(r[d], Ring(d))
        BY <1>4, <2>1, <3>2 DEF RouteInv, Advancing
      <4>2. ASSUME NEW k \in Window(d)'
            PROVE  /\ k \in 0 .. Ring(d) - 2 /\ k + 1 \in Window(d)
                   /\ Entry(d, k)' = Entry(d, k + 1)
        <5>1. r'[d] # w[d] /\ k \in 0 .. Count(w[d], r'[d], Ring(d)) - 1
          BY <1>1, <2>3 DEF Window
        <5>2. Count(w[d], r'[d], Ring(d)) \in 0 .. Ring(d) - 1
          BY <1>3, <2>2, CountType
        <5>3. k \in 0 .. Ring(d) - 2
          BY <1>3, <5>1, <5>2
        <5>4. k + 1 \in Window(d)
          <6>1. CASE r[d] = w[d]
            <7>1. Window(d) = 1 .. Ring(d) - 1
              BY <2>1, <6>1 DEF Window, Advancing
            <7> QED  BY <1>3, <5>3, <7>1
          <6>2. CASE r[d] # w[d]
            <7>1. Window(d) = 0 .. Count(w[d], r[d], Ring(d)) - 1
              BY <6>2 DEF Window
            <7>2. Count(w[d], r'[d], Ring(d)) = Count(w[d], r[d], Ring(d)) - 1
              BY <1>3, <3>2, <4>1, <6>2, ReadOne
            <7>3. Count(w[d], r[d], Ring(d)) \in 0 .. Ring(d) - 1
              BY <1>3, <3>2, CountType
            <7> QED  BY <1>3, <5>1, <5>3, <7>1, <7>2, <7>3
          <6> QED  BY <6>1, <6>2
        <5>5. Pos(r'[d], k, Ring(d)) = Pos(r[d], k + 1, Ring(d))
          BY <1>3, <3>2, <4>1, <5>3, NextSlot
        <5> QED  BY <1>1, <5>3, <5>4, <5>5 DEF Entry
      <4>3. ASSUME NEW k \in Window(d)' PROVE Fresh(d, Entry(d, k))'
        <5> DEFINE x == Entry(d, k + 1)
        <5>1. Fresh(d, x) /\ Before(m, x)
          <6>1. k + 1 \in Window(d) /\ k + 1 > 0
            BY <1>3, <4>2
          <6> QED  BY <1>4, <2>1, <3>2, <6>1 DEF RouteInv, Advancing
        <5>2. Entry(d, k)' = x
          BY <4>2
        <5> HIDE DEF x
        <5>3. \A i \in 1 .. L + 1 : Before(routed'[d][i], x)
          <6> TAKE i \in 1 .. L + 1
          <6>1. CASE i = L + 1
            BY <2>5, <5>1, <6>1
          <6>2. CASE i # L + 1
            <7>1. i \in 1 .. L
              BY <2>5, <6>2
            <7> QED  BY <2>5, <5>1, <7>1 DEF Fresh
          <6> QED  BY <6>1, <6>2
        <5> QED  BY <1>1, <2>5, <5>1, <5>2, <5>3 DEF Fresh, Before
      <4>4. ASSUME NEW k \in Window(d)', NEW j \in Window(d)', j < k
            PROVE  Before(Entry(d, j), Entry(d, k))'
        <5>1. /\ j + 1 \in Window(d) /\ k + 1 \in Window(d) /\ j + 1 < k + 1
              /\ Entry(d, j)' = Entry(d, j + 1) /\ Entry(d, k)' = Entry(d, k + 1)
          BY <1>3, <4>2, <4>4
        <5>2. Before(Entry(d, j + 1), Entry(d, k + 1))
          BY <1>4, <3>2, <5>1 DEF RouteInv
        <5> QED  BY <5>1, <5>2 DEF Before
      <4> QED  BY <2>2, <2>3, <4>3, <4>4 DEF RouteInv
    <3> QED  BY <3>1, <3>2
  <2> QED  BY <1>6, <2>6, <2>7 DEF DirInv
<1>9. CASE Dispatch(d) \/ \E t \in Services : Consume(d, t)
  <2>1. /\ r' = r /\ routed' = routed
        /\ route'[d] = route[d] \/ route'[d].step = "idle"
    <3>1. CASE Dispatch(d)
      <4>1. r' = r /\ routed' = routed /\ route'[d] = Idle
        BY <3>1 DEF Dispatch, OnceInv, TypeInv
      <4> QED  BY <4>1 DEF Idle
    <3>2. CASE \E t \in Services : Consume(d, t)
      BY <3>2 DEF Consume
    <3> QED  BY <1>9, <3>1, <3>2
  <2>2. /\ Advancing(d)' => Advancing(d) /\ route'[d] = route[d]
        /\ Window(d)' \subseteq Window(d)
        /\ \A k : Entry(d, k)' = Entry(d, k)
        /\ \A x : Fresh(d, x)' = Fresh(d, x)
    BY <1>1, <2>1 DEF Advancing, Window, Entry, Fresh
  <2>3. RouteInv(d)'
    BY <1>1, <1>4, <2>1, <2>2 DEF RouteInv, Before
  <2>4. RoutedInv(d)'
    BY <1>1, <1>4, <2>1 DEF RoutedInv, Before
  <2> QED  BY <1>6, <2>3, <2>4 DEF DirInv
<1> QED  BY <1>7, <1>8, <1>9 DEF Routing

LEMMA NextOnce == SizesFit /\ OnceInv /\ [Next]_vars => OnceInv'
<1> SUFFICES ASSUME SizesFit, OnceInv, [Next]_vars PROVE OnceInv'
  OBVIOUS
<1>1. TypeInv'
  BY NextType DEF OnceInv
<1>2. CASE SlaveInit \/ MasterInit \/ SlaveRestart
  BY <1>1, <1>2, BootOnce
<1>3. ASSUME NEW d \in Dirs, Sending(d) PROVE OnceInv'
  BY <1>1, <1>3, SendOnce
<1>4. ASSUME NEW d \in Dirs, Routing(d) \/ \E t \in Services : Consume(d, t) PROVE OnceInv'
  BY <1>1, <1>4, RouteOnce
<1>5. CASE UNCHANGED vars
  <2>1. /\ w' = w /\ r' = r /\ slots' = slots /\ boot' = boot /\ send' = send
        /\ route' = route /\ sent' = sent /\ routed' = routed /\ uncleared' = uncleared
    BY <1>5 DEF vars
  <2>2. BootInv' /\ ColdInv'
    BY <2>1 DEF OnceInv, BootInv, Ready, ColdInv, InStep, Fresh, Before
  <2>3. \A d \in Dirs : InStep(d)' => DirInv(d)'
    BY <2>1, DirUntouched DEF OnceInv
  <2> QED  BY <1>1, <2>2, <2>3 DEF OnceInv
<1> QED  BY <1>2, <1>3, <1>4, <1>5 DEF Next

\* While the sides are in step - always, when they are compiled with the same
\* size of ring; up to the 7th message of a direction for the 8 and 64 of the
\* repository - no message of xCpuMsgQ_SendMessage is routed twice or after a
\* later one, whenever and however often the slave is reset, and however the
\* master goes on while the slave clears memory and indices.
THEOREM NoneTwice == SizesFit => (Spec => []NothingTwice)
<1> SUFFICES ASSUME SizesFit PROVE Spec => []NothingTwice
  OBVIOUS
<1>1. Init => OnceInv
  BY InitOnce
<1>2. OnceInv /\ [Next]_vars => OnceInv'
  BY NextOnce
<1>3. OnceInv => NothingTwice
  <2> SUFFICES ASSUME OnceInv, NEW d \in Dirs, InStep(d),
                      NEW i \in 1 .. Len(routed[d]), NEW j \in 1 .. Len(routed[d]),
                      i < j, routed[d][i] # Junk, routed[d][j] # Junk
               PROVE  routed[d][i].id < routed[d][j].id
    BY DEF NothingTwice
  <2> QED  BY DEF OnceInv, DirInv, RoutedInv, Before
<1> QED  BY <1>1, <1>2, <1>3, PTL DEF Spec

(***************************************************************************)
(* Before any reset: the rings hold what has been sent and not routed.     *)
(***************************************************************************)

HeldInv(d) ==
  /\ Len(routed[d]) <= Len(sent[d])
  /\ \A i \in 1 .. Len(routed[d]) : routed[d][i] = sent[d][i]
  /\ r[d] # Mark =>
       /\ Len(routed[d]) + Count(w[d], r[d], Ring(d)) = Len(sent[d])
       /\ \A k \in 0 .. Count(w[d], r[d], Ring(d)) - 1 :
            Entry(d, k) = sent[d][Len(routed[d]) + k + 1]
       /\ Advancing(d) => r[d] # w[d] /\ route[d].msg = slots[d][r[d]]
       /\ Size["master"] = Size["slave"] /\ send[d].step # "idle" => Succ(w[d], Ring(d)) # r[d]
       /\ send[d].step = "publish" => slots[d][w[d]] = send[d].msg

FirstBootInv ==
  /\ boot["slave"] \in {"off", "clear sw", "mark"} =>
       boot["master"] \in {"off", "wait", "failed"} /\ r["sm"] = 0
  /\ r["sm"] = Mark => ~Ready("master")
  /\ ~Ready("master") => w["ms"] = 0 /\ w["sm"] = 0 /\ r["ms"] = 0 /\ r["sm"] \in {0, Mark}

OrderInv == restarts = 0 => FirstBootInv /\ \A d \in Dirs : InStep(d) => HeldInv(d)

LEMMA InitOrder == SizesFit /\ Init => OrderInv
<1> SUFFICES ASSUME SizesFit, Init PROVE OrderInv
  OBVIOUS
<1> USE Sizes
<1>1. FirstBootInv
  BY DEF Init, FirstBootInv
<1>2. ASSUME NEW d \in Dirs PROVE HeldInv(d)
  <2>1. /\ send[d].step = "idle" /\ route[d].step = "idle"
        /\ sent[d] = <<>> /\ routed[d] = <<>> /\ r[d] = 0 /\ w[d] = 0
    BY DEF Init, Idle
  <2>2. Len(routed[d]) = 0 /\ Len(sent[d]) = 0 /\ Count(w[d], r[d], Ring(d)) = 0
    BY <2>1 DEF Count
  <2> QED  BY <2>1, <2>2 DEF HeldInv, Advancing
<1> QED  BY <1>1, <1>2 DEF OrderInv

LEMMA HeldUntouched ==
  ASSUME NEW d \in Dirs, InStep(d) => HeldInv(d),
         r'[d] = r[d], w'[d] = w[d], slots'[d] = slots[d], send'[d] = send[d],
         route'[d] = route[d], sent'[d] = sent[d], routed'[d] = routed[d]
  PROVE  InStep(d)' => HeldInv(d)'
<1> SUFFICES ASSUME HeldInv(d) PROVE HeldInv(d)'
  BY DEF InStep
<1>1. /\ Advancing(d)' = Advancing(d) /\ Count(w'[d], r'[d], Ring(d)) = Count(w[d], r[d], Ring(d))
      /\ \A k : Entry(d, k)' = Entry(d, k)
  BY DEF Advancing, Entry
<1> QED  BY <1>1 DEF HeldInv

\* The start-up ends with empty rings.
LEMMA BootOrder ==
  ASSUME SizesFit, OnceInv, FirstBootInv, \A d \in Dirs : InStep(d) => HeldInv(d),
         TypeInv', SlaveInit \/ MasterInit
  PROVE  FirstBootInv' /\ \A d \in Dirs : InStep(d)' => HeldInv(d)'
<1> USE Sizes
<1>1. TypeInv
  BY DEF OnceInv
<1>2. CASE SlaveClears \/ SlaveBoot \/ MasterClears
  <2>1. /\ ~Ready("master")
        /\ UNCHANGED <<send, route, sent, routed>>
    BY <1>1, <1>2 DEF SlaveClears, SlaveBoot, FirstBootInv, MasterClears, Goes, Ready, ringVars, taskVars
  <2>2. /\ w["ms"] = 0 /\ w["sm"] = 0 /\ r["ms"] = 0 /\ r["sm"] \in {0, Mark}
        /\ \A d \in Dirs : sent[d] = <<>> /\ routed[d] = <<>>
        /\ \A d \in Dirs : send[d].step = "idle" /\ route[d].step = "idle"
    BY <1>1, <2>1 DEF FirstBootInv, OnceInv, BootInv, TypeInv, Sender, Receiver
  <2>3. w'["ms"] = 0 /\ w'["sm"] = 0 /\ r'["ms"] = 0 /\ r'["sm"] \in {0, Mark}
    <3>1. w \in [Dirs -> Cells] /\ r \in [Dirs -> Cells \union {Mark}]
      BY <1>1 DEF TypeInv
    <3>2. w' \in {w, [w EXCEPT !["ms"] = 0], [w EXCEPT !["sm"] = 0]}
      BY <1>2 DEF SlaveClears, SlaveBoot, MasterClears
    <3>3. r' \in {r, [r EXCEPT !["ms"] = 0], [r EXCEPT !["sm"] = 0], [r EXCEPT !["sm"] = Mark]}
      BY <1>2 DEF SlaveClears, SlaveBoot, MasterClears
    <3> QED  BY <2>2, <3>1, <3>2, <3>3
  <2>4. FirstBootInv'
    <3>1. CASE SlaveClears
      <4>1. UNCHANGED <<w, r, boot>>
        BY <3>1 DEF SlaveClears
      <4> QED  BY <4>1 DEF FirstBootInv, Ready
    <3>2. CASE SlaveBoot
      <4>1. /\ boot["slave"] \in {"off", "clear sw", "mark"}
            /\ boot'["slave"] \in {"clear sw", "mark", "wait"}
            /\ boot'["master"] = boot["master"]
            /\ boot'["slave"] = "wait" \/ r'["sm"] = r["sm"]
        BY <1>1, <3>2 DEF SlaveBoot, Goes, TypeInv
      <4> QED  BY <2>1, <2>3, <4>1 DEF FirstBootInv, Ready
    <3>3. CASE MasterClears
      <4>1. /\ boot["master"] \in {"clear sw", "clear sr", "clear mw", "clear mr"}
            /\ boot'["slave"] = boot["slave"]
            /\ boot'["master"] = "run" => r'["sm"] = 0
        BY <1>1, <3>3 DEF MasterClears, Goes, TypeInv, MasterPlaces
      <4>2. boot["slave"] \notin {"off", "clear sw", "mark"}
        BY <4>1 DEF FirstBootInv
      <4> QED  BY <2>3, <4>1, <4>2 DEF FirstBootInv, Ready
    <3> QED  BY <1>2, <3>1, <3>2, <3>3
  <2>5. ASSUME NEW d \in Dirs PROVE HeldInv(d)'
    <3>1. /\ sent'[d] = <<>> /\ routed'[d] = <<>> /\ w'[d] = 0 /\ r'[d] \in {0, Mark}
          /\ send'[d].step = "idle" /\ route'[d].step = "idle"
      BY <2>1, <2>2, <2>3
    <3>2. Len(routed'[d]) = 0 /\ Len(sent'[d]) = 0
          /\ (r'[d] # Mark => Count(w'[d], r'[d], Ring(d)) = 0)
      BY <3>1 DEF Count
    <3> QED  BY <3>1, <3>2 DEF HeldInv, Advancing
  <2> QED  BY <2>4, <2>5
<1>3. CASE SlaveStarts \/ MasterBoot \/ MasterSleeps \/ MasterSeesMark
  <2>1. UNCHANGED <<w, r, slots, send, route, sent, routed>>
    BY <1>3 DEF SlaveStarts, MasterBoot, MasterSleeps, MasterSeesMark, ringVars, taskVars
  <2>2. \A d \in Dirs : InStep(d)' => HeldInv(d)'
    BY <2>1, HeldUntouched
  <2>3. /\ boot'["slave"] \in {"off", "clear sw", "mark"} =>
             boot["slave"] \in {"off", "clear sw", "mark"}
        /\ boot'["slave"] \in {"off", "clear sw", "mark"} =>
             boot["master"] = boot'["master"] \/ boot'["master"] \in {"wait", "failed"}
        /\ boot'["master"] = "run" => boot["master"] = "run"
        /\ boot["master"] = "run" => boot'["master"] = "run"
    <3>1. CASE MasterSeesMark
      <4>1. /\ boot["slave"] \notin {"off", "clear sw", "mark"}
            /\ boot'["slave"] = boot["slave"]
        BY <1>1, <3>1 DEF MasterSeesMark, FirstBootInv, TypeInv
      <4> QED  BY <1>1, <3>1, <4>1 DEF MasterSeesMark, TypeInv
    <3>2. CASE SlaveStarts \/ MasterBoot \/ MasterSleeps
      BY <1>1, <3>2 DEF SlaveStarts, MasterBoot, MasterSleeps, TypeInv
    <3> QED  BY <1>3, <3>1, <3>2
  <2>4. FirstBootInv'
    BY <2>1, <2>3 DEF FirstBootInv, Ready
  <2> QED  BY <2>2, <2>4
<1> QED  BY <1>2, <1>3 DEF SlaveInit, MasterInit

\* A sender adds its message behind those the ring holds.
LEMMA SendOrder ==
  ASSUME SizesFit, OnceInv, FirstBootInv, \A d \in Dirs : InStep(d) => HeldInv(d),
         TypeInv', NEW d \in Dirs, Sending(d)
  PROVE  FirstBootInv' /\ \A e \in Dirs : InStep(e)' => HeldInv(e)'
<1> USE Sizes
<1>1. /\ r' = r /\ boot' = boot /\ route' = route /\ routed' = routed
      /\ Ready(Sender(d))
  BY DEF Sending, SendCheck, SendCopy, SendPublish, bootVars, OnceInv, TypeInv
<1>2. FirstBootInv'
  <2>1. Ready("master")
    BY <1>1 DEF OnceInv, TypeInv, Sender
  <2> QED  BY <1>1, <2>1 DEF FirstBootInv, Ready
<1>5. ASSUME NEW e \in Dirs, e # d PROVE InStep(e)' => HeldInv(e)'
  <2>1. /\ w'[e] = w[e] /\ slots'[e] = slots[e] /\ send'[e] = send[e] /\ sent'[e] = sent[e]
    BY <1>5 DEF Sending, SendCheck, SendCopy, SendPublish, OnceInv, TypeInv
  <2> QED  BY <1>1, <2>1, HeldUntouched
<1> SUFFICES ASSUME InStep(d)' PROVE HeldInv(d)'
  BY <1>2, <1>5
<1>9. InStep(d)
  BY SentGrows DEF OnceInv
<1>3. /\ r[d] \in Cells /\ r[d] \in 0 .. Ring(d) - 1 /\ r[d] # Mark
      /\ w[d] \in Cells /\ w[d] \in 0 .. Ring(d) - 1
      /\ Ring(d) \in Nat /\ Ring(d) >= 2 /\ 0 .. Ring(d) - 1 \subseteq Cells
  <2>1. d = "sm" => r["sm"] # Mark
    BY <1>1 DEF OnceInv, TypeInv, Sender, Ready
  <2>2. d = "ms" => r["ms"] \in Cells
    BY DEF OnceInv, TypeInv
  <2> QED  BY <1>9, <2>1, <2>2, InRing DEF OnceInv
<1>4. HeldInv(d) /\ SendInv(d)
  BY <1>9 DEF OnceInv, DirInv
<1> DEFINE K == Count(w[d], r[d], Ring(d))
           L == Len(sent[d])
           R == Len(routed[d])
           m == send[d].msg
<1>6. CASE SendCheck(d)
  <2>1. /\ UNCHANGED <<w, slots, sent>> /\ send'[d].step = "copy"
        /\ ~Full(w[d], r[d], Size[Sender(d)])
    BY <1>3, <1>6 DEF SendCheck, OnceInv, TypeInv
  <2>2. Size["master"] = Size["slave"] => Succ(w[d], Ring(d)) # r[d]
    <3>1. Size["master"] = Size["slave"] => Size[Sender(d)] = Ring(d)
      BY DEF Ring, Sender, Receiver
    <3> QED  BY <1>3, <2>1, <3>1, FullRing
  <2>3. HeldInv(d)'
    BY <1>1, <1>4, <2>1, <2>2 DEF HeldInv, Entry, Advancing
  <2> QED  BY <2>3
<1>7. CASE SendCopy(d)
  <2>1. send[d].at = w[d] /\ send[d].step = "copy"
    BY <1>4, <1>7 DEF SendCopy, SendInv
  <2>2. /\ UNCHANGED <<w, sent>>
        /\ slots'[d][w[d]] = m
        /\ \A i \in Cells : i # w[d] => slots'[d][i] = slots[d][i]
    BY <1>3, <1>7, <2>1 DEF SendCopy, OnceInv, TypeInv
  <2>3. send'[d].msg = m
    <3> DEFINE n == [send[d] EXCEPT !.step = "publish"]
    <3>1. send' = [send EXCEPT ![d] = n]
      BY <1>7 DEF SendCopy
    <3>2. n.msg = m
      <4>1. send[d] \in [step : SendSteps, msg : Anything, at : Cells]
        BY DEF OnceInv, TypeInv
      <4> QED  BY ONLY <4>1 DEF SendSteps
    <3> HIDE DEF n
    <3> QED  BY <3>1, <3>2 DEF OnceInv, TypeInv
  <2>4. ASSUME NEW k \in 0 .. K - 1 PROVE Entry(d, k)' = Entry(d, k)
    <3>1. Pos(r[d], k, Ring(d)) \in 0 .. Ring(d) - 1 /\ Pos(r[d], k, Ring(d)) # w[d]
      <4>1. /\ r[d] \in 0 .. Ring(d) - 1 /\ w[d] \in 0 .. Ring(d) - 1
            /\ Ring(d) \in Nat /\ Ring(d) >= 2
        BY <1>3
      <4> QED  BY ONLY <4>1 DEF Count, Pos
    <3> QED  BY <1>1, <1>3, <2>2, <3>1 DEF Entry
  <2>5. Advancing(d)' => Advancing(d) /\ r[d] # w[d] /\ route'[d].msg = slots'[d][r[d]]
    BY <1>1, <1>3, <1>4, <2>2 DEF HeldInv, Advancing
  <2>6. HeldInv(d)'
    <3>1. /\ R <= L /\ R + K = L
          /\ Size["master"] = Size["slave"] => Succ(w[d], Ring(d)) # r[d]
          /\ \A i \in 1 .. R : routed[d][i] = sent[d][i]
          /\ \A k \in 0 .. K - 1 : Entry(d, k) = sent[d][R + k + 1]
      BY <1>3, <1>4, <2>1 DEF HeldInv
    <3>2. /\ w'[d] = w[d] /\ r'[d] = r[d] /\ sent' = sent /\ routed' = routed
          /\ slots'[d][w'[d]] = send'[d].msg
      BY <1>1, <2>2, <2>3
    <3>3. \A k \in 0 .. K - 1 : Entry(d, k)' = sent[d][R + k + 1]
      BY <2>4, <3>1
    <3>4. Count(w'[d], r'[d], Ring(d)) = K
      BY <3>2
    <3> HIDE DEF K
    <3> QED  BY <2>5, <3>1, <3>2, <3>3, <3>4 DEF HeldInv
  <2> QED  BY <2>6
<1>8. CASE SendPublish(d)
  <2>1. /\ slots' = slots /\ send'[d].step = "idle" /\ send[d].step = "publish"
        /\ slots[d][w[d]] = m
        /\ Succ(w[d], Ring(d)) # r[d] /\ w'[d] = Succ(w[d], Ring(d)) /\ sent'[d] = Append(sent[d], m)
    <3>1. /\ slots' = slots /\ send'[d] = Idle /\ send[d].step = "publish"
          /\ w'[d] = Succ(send[d].at, Size[Sender(d)]) /\ sent'[d] = Append(sent[d], m)
      BY <1>3, <1>8 DEF SendPublish, OnceInv, TypeInv
    <3>2. /\ send[d].at = w[d] /\ slots[d][w[d]] = m
          /\ Size["master"] = Size["slave"] => Succ(w[d], Ring(d)) # r[d]
      BY <1>3, <1>4, <3>1 DEF SendInv, HeldInv
    <3>3. Succ(w[d], Size[Sender(d)]) = Succ(w[d], Ring(d))
      BY <1>8, SameSucc DEF OnceInv
    <3>4. Succ(w[d], Ring(d)) # r[d]
      <4>1. CASE Size["master"] = Size["slave"]
        BY <3>2, <4>1
      <4>2. CASE Size["master"] # Size["slave"]
        <5>1. L + 1 < Ring(d) /\ L \in Nat
          <6>1. Len(sent'[d]) = L + 1 /\ L \in Nat
            <7>1. m \in Message /\ sent[d] \in Seq(Message)
              BY <3>1 DEF OnceInv, TypeInv
            <7> QED  BY <3>1, <7>1, AppendProperties, LenProperties
          <6>2. Len(sent'[d]) < Ring(d)
            BY <4>2 DEF InStep, Ring, Receiver
          <6> QED  BY <6>1, <6>2
        <5>2. R \in Nat /\ R + Count(w[d], r[d], Ring(d)) = L
          <6>1. routed[d] \in Seq(Anything)
            BY DEF OnceInv, TypeInv
          <6> QED  BY <1>3, <1>4, <6>1, LenProperties DEF HeldInv
        <5>3. Succ(w[d], Ring(d)) = r[d] => Count(w[d], r[d], Ring(d)) = Ring(d) - 1
          BY <1>3, PassOne
        <5> HIDE DEF L, R
        <5> QED  BY <1>3, <5>1, <5>2, <5>3
      <4> QED  BY <4>1, <4>2
    <3> QED  BY <3>1, <3>2, <3>3, <3>4 DEF Idle
  <2>2. /\ L \in Nat /\ R \in Nat /\ Len(sent'[d]) = L + 1 /\ sent'[d][L + 1] = m
        /\ \A i \in 1 .. L : sent'[d][i] = sent[d][i]
    <3>1. sent[d] \in Seq(Message) /\ routed[d] \in Seq(Anything)
      BY DEF OnceInv, TypeInv
    <3> QED  BY <2>1, <3>1, AppendProperties, LenProperties
  <2>3. /\ K \in 0 .. Ring(d) - 1 /\ Pos(r[d], K, Ring(d)) = w[d]
        /\ Count(w'[d], r'[d], Ring(d)) = K + 1
    <3>1. K \in 0 .. Ring(d) - 1
      BY <1>3, CountType
    <3>2. Pos(r[d], K, Ring(d)) = w[d]
      BY <1>3, EndSlots
    <3>3. Count(w'[d], r'[d], Ring(d)) = K + 1
      BY <1>1, <1>3, <2>1, WriteOne
    <3> QED  BY <3>1, <3>2, <3>3
  <2> HIDE DEF K
  <2>4. /\ R <= L /\ R + K = L
        /\ \A i \in 1 .. R : routed[d][i] = sent[d][i]
        /\ \A k \in 0 .. K - 1 : Entry(d, k) = sent[d][R + k + 1]
        /\ Advancing(d) => r[d] # w[d] /\ route[d].msg = slots[d][r[d]]
    BY <1>3, <1>4 DEF HeldInv, K
  <2>5. \A k \in 0 .. (K + 1) - 1 : Entry(d, k)' = sent'[d][R + k + 1]
    <3> TAKE k \in 0 .. (K + 1) - 1
    <3>1. Entry(d, k)' = Entry(d, k)
      BY <1>1, <2>1 DEF Entry
    <3>2. CASE k = K
      <4>1. Entry(d, k) = m /\ R + k + 1 = L + 1
        BY <2>1, <2>3, <2>4, <3>2 DEF Entry
      <4> QED  BY <2>2, <3>1, <4>1
    <3>3. CASE k # K
      <4>1. k \in 0 .. K - 1 /\ R + k + 1 \in 1 .. L
        <5>1. /\ K \in 0 .. Ring(d) - 1 /\ Ring(d) \in Nat /\ R \in Nat /\ L \in Nat
              /\ R + K = L /\ k \in 0 .. (K + 1) - 1
          BY <1>3, <2>2, <2>3, <2>4
        <5> HIDE DEF R, L
        <5> QED  BY ONLY <3>3, <5>1
      <4> QED  BY <2>2, <2>4, <3>1, <4>1
    <3> QED  BY <3>2, <3>3
  <2>6. \A i \in 1 .. R : routed[d][i] = sent'[d][i]
    <3> TAKE i \in 1 .. R
    <3>1. i \in 1 .. L
      BY <2>2, <2>4
    <3> QED  BY <2>2, <2>4, <3>1
  <2>7. HeldInv(d)'
    <3>1. R <= L + 1 /\ R + (K + 1) = L + 1
      <4>1. Ring(d) \in Nat /\ K \in 0 .. Ring(d) - 1 /\ R \in Nat /\ L \in Nat /\ R <= L /\ R + K = L
        BY <1>3, <2>2, <2>3, <2>4
      <4> HIDE DEF R, L
      <4> QED  BY ONLY <4>1
    <3> QED  BY <1>1, <2>1, <2>2, <2>3, <2>4, <2>5, <2>6, <3>1 DEF HeldInv, Advancing
  <2> QED  BY <2>7
<1> QED  BY <1>6, <1>7, <1>8 DEF Sending

\* A router takes the oldest message the ring holds.
LEMMA RouteOrder ==
  ASSUME SizesFit, OnceInv, FirstBootInv, \A d \in Dirs : InStep(d) => HeldInv(d),
         TypeInv', NEW d \in Dirs, Routing(d) \/ \E t \in Services : Consume(d, t)
  PROVE  FirstBootInv' /\ \A e \in Dirs : InStep(e)' => HeldInv(e)'
<1> USE Sizes
<1>1. /\ w' = w /\ slots' = slots /\ boot' = boot /\ send' = send /\ sent' = sent
      /\ Ready(Receiver(d))
  BY DEF Routing, ReceiveCopy, ReceiveAdvance, Dispatch, Consume, bootVars, OnceInv, TypeInv
<1>2. Ready("master")
  BY <1>1 DEF OnceInv, TypeInv, Receiver
<1>9. ASSUME NEW e \in Dirs, e # d
      PROVE  r'[e] = r[e] /\ route'[e] = route[e] /\ routed'[e] = routed[e]
  BY <1>9 DEF Routing, ReceiveCopy, ReceiveAdvance, Dispatch, Consume, OnceInv, TypeInv
<1>5. ASSUME NEW e \in Dirs, e # d PROVE InStep(e)' => HeldInv(e)'
  BY <1>1, <1>5, <1>9, HeldUntouched
<1>10. FirstBootInv'
  <2>1. r["sm"] # Mark /\ boot["slave"] \notin {"off", "clear sw", "mark"}
    BY <1>2 DEF FirstBootInv, Ready
  <2>2. r'["sm"] # Mark
    <3>1. CASE ReceiveAdvance(d)
      <4>1. route[d].at \in Cells \union {Mark} /\ Receiver(d) \in Sides
        BY DEF OnceInv, TypeInv, Receiver
      <4>2. Succ(route[d].at, Size[Receiver(d)]) \in Cells
        BY <4>1, AdvanceType
      <4>3. r'["sm"] \in {r["sm"], Succ(route[d].at, Size[Receiver(d)])}
        BY <3>1 DEF ReceiveAdvance, OnceInv, TypeInv
      <4>4. Mark \notin Cells
        BY DEF SizesFit, Cells, Mark
      <4> QED  BY <2>1, <4>2, <4>3, <4>4
    <3>2. CASE ReceiveCopy(d) \/ Dispatch(d) \/ \E t \in Services : Consume(d, t)
      BY <2>1, <3>2 DEF ReceiveCopy, Dispatch, Consume
    <3> QED  BY <3>1, <3>2 DEF Routing
  <2> QED  BY <1>1, <1>2, <2>1, <2>2 DEF FirstBootInv, Ready
<1> SUFFICES ASSUME InStep(d)' PROVE HeldInv(d)'
  BY <1>5, <1>10
<1>11. InStep(d)
  BY <1>1 DEF InStep
<1>3. /\ r[d] \in Cells /\ r[d] \in 0 .. Ring(d) - 1 /\ r[d] # Mark
      /\ w[d] \in Cells /\ w[d] \in 0 .. Ring(d) - 1
      /\ Ring(d) \in Nat /\ Ring(d) >= 2 /\ Size[Receiver(d)] = Ring(d) /\ Mark \notin Cells
      /\ 0 .. Ring(d) - 1 \subseteq Cells
  <2>1. d = "sm" => r["sm"] # Mark
    BY <1>2 DEF FirstBootInv
  <2>2. d = "ms" => r["ms"] \in Cells
    BY DEF OnceInv, TypeInv
  <2> QED  BY <1>11, <2>1, <2>2, InRing DEF OnceInv, Ring
<1>4. HeldInv(d) /\ DirInv(d)
  BY <1>11 DEF OnceInv
<1> DEFINE K == Count(w[d], r[d], Ring(d))
           L == Len(sent[d])
           R == Len(routed[d])
           m == route[d].msg
<1>6. CASE ReceiveCopy(d)
  <2>1. /\ r' = r /\ routed' = routed /\ route'[d].msg = slots[d][r[d]]
        /\ ~Empty(w[d], r[d], Ring(d))
    BY <1>3, <1>6 DEF ReceiveCopy, OnceInv, TypeInv
  <2>2. r[d] # w[d]
    BY <1>3, <2>1, FullRing
  <2>3. HeldInv(d)'
    BY <1>1, <1>4, <2>1, <2>2 DEF HeldInv, Entry
  <2> QED  BY <2>3
<1>7. CASE ReceiveAdvance(d)
  <2>1. /\ Advancing(d) /\ route[d].at = r[d] /\ r[d] # w[d] /\ m = slots[d][r[d]]
        /\ r'[d] = Succ(r[d], Ring(d)) /\ routed'[d] = Append(routed[d], m)
    <3>1. Advancing(d)
      BY <1>7 DEF ReceiveAdvance, Advancing
    <3>2. route[d].at = r[d] /\ r[d] # w[d] /\ m = slots[d][r[d]]
      BY <1>3, <1>4, <3>1 DEF DirInv, RouteInv, HeldInv
    <3> QED  BY <1>3, <1>7, <3>1, <3>2 DEF ReceiveAdvance, OnceInv, TypeInv
  <2>2. ~Advancing(d)'
    <3> DEFINE n == [route[d] EXCEPT !.step = "dispatch"]
    <3>1. route' = [route EXCEPT ![d] = n]
      BY <1>7 DEF ReceiveAdvance
    <3>2. n.step = "dispatch"
      <4>1. route[d] \in [step : RouteSteps, msg : Anything, at : Cells \union {Mark}]
        BY DEF OnceInv, TypeInv
      <4> QED  BY ONLY <4>1 DEF RouteSteps
    <3> HIDE DEF n
    <3> QED  BY <3>1, <3>2 DEF OnceInv, TypeInv, Advancing
  <2>3. /\ r'[d] \in 0 .. Ring(d) - 1 /\ r'[d] \in Cells /\ Succ(w[d], Ring(d)) # r'[d]
    <3>1. r'[d] \in 0 .. Ring(d) - 1 /\ Succ(w[d], Ring(d)) # r'[d]
      BY <1>3, <2>1, SuccType
    <3> QED  BY <1>3, <3>1
  <2>4. /\ L \in Nat /\ R \in Nat /\ Len(routed'[d]) = R + 1 /\ routed'[d][R + 1] = m
        /\ \A i \in 1 .. R : routed'[d][i] = routed[d][i]
    <3>1. sent[d] \in Seq(Message) /\ routed[d] \in Seq(Anything)
      BY DEF OnceInv, TypeInv
    <3> QED  BY <2>1, <3>1, AppendProperties, LenProperties
  <2>5. /\ K \in 0 .. Ring(d) - 1 /\ K # 0 /\ Pos(r[d], 0, Ring(d)) = r[d]
        /\ Count(w'[d], r'[d], Ring(d)) = K - 1
    <3>1. K \in 0 .. Ring(d) - 1 /\ K # 0
      <4>1. /\ r[d] \in 0 .. Ring(d) - 1 /\ w[d] \in 0 .. Ring(d) - 1 /\ r[d] # w[d]
            /\ Ring(d) \in Nat /\ Ring(d) >= 2
        BY <1>3, <2>1
      <4> QED  BY ONLY <4>1 DEF Count
    <3>2. Pos(r[d], 0, Ring(d)) = r[d]
      BY <1>3, EndSlots
    <3>3. Count(w'[d], r'[d], Ring(d)) = K - 1
      BY <1>1, <1>3, <2>1, ReadOne
    <3> QED  BY <3>1, <3>2, <3>3
  <2> HIDE DEF K
  <2>6. /\ R <= L /\ R + K = L
        /\ \A i \in 1 .. R : routed[d][i] = sent[d][i]
        /\ \A k \in 0 .. K - 1 : Entry(d, k) = sent[d][R + k + 1]
        /\ send[d].step = "publish" => slots[d][w[d]] = send[d].msg
    BY <1>3, <1>4 DEF HeldInv, K
  <2>7. m = sent[d][R + 1]
    <3>1. 0 \in 0 .. K - 1 /\ R + 0 + 1 = R + 1
      BY <1>3, <2>4, <2>5
    <3> QED  BY <2>1, <2>5, <2>6, <3>1 DEF Entry
  <2>8. \A k \in 0 .. (K - 1) - 1 : Entry(d, k)' = sent[d][(R + 1) + k + 1]
    <3> TAKE k \in 0 .. (K - 1) - 1
    <3>1. /\ k \in 0 .. Ring(d) - 2 /\ k + 1 \in 0 .. K - 1
          /\ R + (k + 1) + 1 = (R + 1) + k + 1
      <4>1. Ring(d) \in Nat /\ K \in 0 .. Ring(d) - 1 /\ R \in Nat /\ k \in 0 .. (K - 1) - 1
        BY <1>3, <2>4, <2>5
      <4> HIDE DEF R
      <4> QED  BY ONLY <4>1
    <3>2. Pos(r'[d], k, Ring(d)) = Pos(r[d], k + 1, Ring(d))
      BY <1>3, <2>1, <3>1, NextSlot
    <3> QED  BY <1>1, <2>6, <3>1, <3>2 DEF Entry
  <2>9. \A i \in 1 .. R + 1 : routed'[d][i] = sent[d][i]
    <3> TAKE i \in 1 .. R + 1
    <3>1. CASE i = R + 1
      BY <2>4, <2>7, <3>1
    <3>2. CASE i # R + 1
      <4>1. i \in 1 .. R
        BY <2>4, <3>2
      <4> QED  BY <2>4, <2>6, <4>1
    <3> QED  BY <3>1, <3>2
  <2>10. HeldInv(d)'
    <3>1. R + 1 <= L /\ (R + 1) + (K - 1) = L
      BY <1>3, <2>4, <2>5, <2>6
    <3> QED  BY <1>1, <2>2, <2>3, <2>4, <2>5, <2>6, <2>8, <2>9, <3>1 DEF HeldInv
  <2> QED  BY <2>10
<1>8. CASE Dispatch(d) \/ \E t \in Services : Consume(d, t)
  <2>1. /\ r' = r /\ routed' = routed
        /\ route'[d] = route[d] \/ route'[d].step = "idle"
    <3>1. CASE Dispatch(d)
      <4>1. r' = r /\ routed' = routed /\ route'[d] = Idle
        BY <3>1 DEF Dispatch, OnceInv, TypeInv
      <4> QED  BY <4>1 DEF Idle
    <3>2. CASE \E t \in Services : Consume(d, t)
      BY <3>2 DEF Consume
    <3> QED  BY <1>8, <3>1, <3>2
  <2>2. HeldInv(d)'
    BY <1>1, <1>4, <2>1 DEF HeldInv, Entry, Advancing
  <2> QED  BY <2>2
<1> QED  BY <1>6, <1>7, <1>8 DEF Routing

LEMMA NextOrder == SizesFit /\ OnceInv /\ OrderInv /\ [Next]_vars => OrderInv'
<1> SUFFICES ASSUME SizesFit, OnceInv, OrderInv, [Next]_vars, restarts' = 0
             PROVE  FirstBootInv' /\ \A d \in Dirs : InStep(d)' => HeldInv(d)'
  BY DEF OrderInv
<1>1. TypeInv' /\ restarts \in Nat
  <2>1. TypeInv'
    BY NextType DEF OnceInv
  <2>2. restarts \in Nat
    BY Sizes DEF OnceInv, TypeInv
  <2> QED  BY <2>1, <2>2
<1>2. ~SlaveRestart
  BY <1>1 DEF SlaveRestart
<1>3. CASE SlaveInit \/ MasterInit
  <2>1. restarts = 0
    BY <1>3 DEF SlaveInit, SlaveClears, SlaveBoot, SlaveStarts, MasterInit, MasterBoot, MasterSleeps,
                MasterSeesMark, MasterClears
  <2> QED  BY <1>1, <1>3, <2>1, BootOrder DEF OrderInv
<1>4. ASSUME NEW d \in Dirs, Sending(d)
      PROVE  FirstBootInv' /\ \A e \in Dirs : InStep(e)' => HeldInv(e)'
  <2>1. restarts = 0
    BY <1>4 DEF Sending, SendCheck, SendCopy, SendPublish, bootVars
  <2> QED  BY <1>1, <1>4, <2>1, SendOrder DEF OrderInv
<1>5. ASSUME NEW d \in Dirs, Routing(d) \/ \E t \in Services : Consume(d, t)
      PROVE  FirstBootInv' /\ \A e \in Dirs : InStep(e)' => HeldInv(e)'
  <2>1. restarts = 0
    BY <1>5 DEF Routing, ReceiveCopy, ReceiveAdvance, Dispatch, Consume, bootVars
  <2> QED  BY <1>1, <1>5, <2>1, RouteOrder DEF OrderInv
<1>6. CASE UNCHANGED vars
  BY <1>6 DEF vars, OrderInv, FirstBootInv, HeldInv, Entry, Advancing, Ready, InStep
<1> QED  BY <1>2, <1>3, <1>4, <1>5, <1>6 DEF Next

\* As long as the slave is not reset and the sides are in step - always, with
\* rings of one size; for the repository's 8 and 64 up to the 7th message of a
\* direction - a router gets exactly the messages sent, in their order, without
\* a gap, through the handshake, full rings and rings that wrap.
THEOREM InOrder == SizesFit => (Spec => []RoutedInOrder)
<1> SUFFICES ASSUME SizesFit PROVE Spec => []RoutedInOrder
  OBVIOUS
<1>1. Init => OnceInv /\ OrderInv
  BY InitOnce, InitOrder
<1>2. (OnceInv /\ OrderInv) /\ [Next]_vars => (OnceInv /\ OrderInv)'
  BY NextOnce, NextOrder
<1>3. OnceInv /\ OrderInv => RoutedInOrder
  <2> SUFFICES ASSUME OnceInv, OrderInv, restarts = 0, NEW d \in Dirs, InStep(d)
               PROVE  /\ Len(routed[d]) <= Len(sent[d])
                      /\ routed[d] = SubSeq(sent[d], 1, Len(routed[d]))
    BY DEF RoutedInOrder
  <2> DEFINE R == Len(routed[d])
             p == SubSeq(sent[d], 1, R)
  <2>1. sent[d] \in Seq(Message) /\ routed[d] \in Seq(Anything)
    BY DEF OnceInv, TypeInv
  <2>2. R \in Nat /\ R <= Len(sent[d]) /\ \A i \in 1 .. R : routed[d][i] = sent[d][i]
    BY <2>1, LenProperties DEF OrderInv, HeldInv
  <2>3. p \in Seq(Message) /\ Len(p) = R /\ \A i \in 1 .. R : p[i] = sent[d][i]
    BY <2>1, <2>2, SubSeqProperties, LenProperties
  <2>4. routed[d] = p
    BY <2>1, <2>2, <2>3, SeqEqual
  <2> QED  BY <2>2, <2>4
<1> QED  BY <1>1, <1>2, <1>3, PTL DEF Spec
=============================================================================
