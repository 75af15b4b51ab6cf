-------------------------- MODULE AsyncFileProofs --------------------------
(***************************************************************************)
(* Proofs about AsyncFile, for every number of threads, of slots and of    *)
(* calls.  First, every variable has its type, whatever overlaps.  Then,   *)
(* when the first call and PalFileTerminate do not overlap other calls,    *)
(* every accepted request is answered once, in order and with its own      *)
(* argument, the service drains the ring before it leaves, and nobody uses *)
(* what PalFileTerminate has freed.                                        *)
(***************************************************************************)
EXTENDS AsyncFile, MsgRingProofs, SequenceTheorems

\* What the assumption says, in the form the proofs use.
LEMMA Sizes ==
  /\ Slots \in Nat /\ Slots >= 2 /\ MaxRequests \in Nat /\ "exit" \notin Kinds
  /\ Callers \subseteq Threads /\ Servers \subseteq Threads /\ Terminator \in Threads
  /\ NoOne \notin Threads /\ Terminator \notin Callers \union Servers
BY AsyncAssumption DEF Threads
-----------------------------------------------------------------------------
(***************************************************************************)
(* Types.                                                                  *)
(***************************************************************************)

Places == {"idle", "create", "created", "lock", "fill", "put", "publish",
           "unlock", "join", "freed"}

\* The values the variables start from.
LEMMA IdleTypes ==
  /\ NoMessage \in Message /\ NoRequest \in Request
  /\ 0 \in Numbers /\ 0 \in 0 .. Slots - 1
  /\ [i \in 0 .. Slots - 1 |-> NoMessage] \in [0 .. Slots - 1 -> Message]
BY Sizes DEF NoMessage, NoRequest, Message, Request, Numbers

LEMMA InitType == Init => TypeOK
<1> SUFFICES ASSUME Init PROVE TypeOK
  OBVIOUS
<1>1. accepted \in Seq(Numbers) /\ answered \in Seq(Message)
  BY EmptySeq DEF Init
<1>2. job \in [Servers -> Message] /\ req \in [Threads -> Request]
  BY IdleTypes DEF Init
<1> QED  BY <1>1, <1>2, IdleTypes DEF Init, TypeOK

\* The steps of a call keep the types.
LEMMA CallType ==
  ASSUME TypeOK, NEW t \in Threads, Call(t) \/ Proceed(t)
  PROVE  TypeOK'
<1> USE Sizes
<1>1. CASE Call(t)
  <2>1. PICK k \in Kinds : req' = [req EXCEPT ![t] = [kind |-> k, id |-> asked + 1]]
    BY <1>1 DEF Call
  <2>2. asked \in 0 .. MaxRequests /\ asked < MaxRequests
    BY <1>1 DEF Call, MayCall, TypeOK, Numbers
  <2>3. asked' \in Numbers /\ req' \in [Threads -> Request]
    BY <1>1, <2>1, <2>2 DEF Call, TypeOK, Numbers, Request
  <2>4. pc' \in [Threads -> Places]
    BY <1>1 DEF Call, TypeOK, Places
  <2> QED  BY <1>1, <2>3, <2>4 DEF Call, TypeOK, ringVars, Places
<1>2. CASE CreateService(t)
  BY <1>2, IdleTypes DEF CreateService, TypeOK
<1>3. CASE ServiceCreated(t) \/ WaitMutex(t) \/ PutTimesOut(t)
  BY <1>3 DEF ServiceCreated, WaitMutex, PutTimesOut, TypeOK, ringVars
<1>4. CASE FillMessage(t)
  <2>1. Succ(wr, Slots) \in 0 .. Slots - 1
    BY SuccType DEF TypeOK
  <2>2. Filled(msgBuf, req[t]) \in Message
    BY DEF Filled, TypeOK, Message, Request
  <2> QED  BY <1>4, <2>1, <2>2 DEF FillMessage, TypeOK, ringVars
<1>5. CASE CopyIn(t)
  BY <1>5 DEF CopyIn, TypeOK
<1>6. CASE Publish(t)
  <2>1. accepted' \in Seq(Numbers)
    BY <1>6, AppendProperties DEF Publish, TypeOK, Request
  <2> QED  BY <1>6, <2>1 DEF Publish, TypeOK
<1>7. CASE ReleaseMutex(t)
  BY <1>7 DEF ReleaseMutex, TypeOK, ringVars, NoRequest, Request, Numbers
<1> QED  BY <1>1, <1>2, <1>3, <1>4, <1>5, <1>6, <1>7 DEF Proceed

\* So do those of the service thread.
LEMMA ServiceType ==
  ASSUME TypeOK, NEW s \in Servers, ServiceStep(s)
  PROVE  TypeOK'
<1> USE Sizes
<1>1. CASE CopyOut(s) \/ CallbackReturns(s)
  BY <1>1 DEF CopyOut, CallbackReturns, TypeOK, ringVars, callVars
<1>2. CASE Advance(s)
  <2>1. Succ(rd, Slots) \in 0 .. Slots - 1
    BY SuccType DEF TypeOK
  <2> QED  BY <1>2, <2>1 DEF Advance, TypeOK, callVars
<1>3. CASE Serve(s)
  <2>1. [id |-> job[s].id, arg |-> CallbackArg(job[s]), func |-> job[s].func] \in Message
    BY DEF CallbackArg, TypeOK, Message
  <2>2. answered' \in Seq(Message)
    BY <1>3, <2>1, AppendProperties DEF Serve, TypeOK
  <2>3. job' \in [Servers -> Message]
    BY <1>3 DEF Serve, TypeOK, NoMessage, Message, Numbers
  <2> QED  BY <1>3, <2>2, <2>3 DEF Serve, TypeOK, ringVars, callVars
<1> QED  BY <1>1, <1>2, <1>3 DEF ServiceStep

LEMMA NextType == TypeOK /\ [Next]_vars => TypeOK'
<1> SUFFICES ASSUME TypeOK, [Next]_vars PROVE TypeOK'
  OBVIOUS
<1>1. CASE \E t \in Threads : Call(t) \/ Proceed(t)
  BY <1>1, CallType
<1>2. CASE \E s \in Servers : ServiceStep(s)
  BY <1>2, ServiceType
<1>3. CASE Terminate
  <2>1. Succ(wr, Slots) \in 0 .. Slots - 1
    BY Sizes, SuccType DEF TypeOK
  <2> QED  BY <1>3, <2>1, Sizes DEF Terminate, TypeOK, ringVars, Message
<1>4. CASE Join
  BY <1>4, Sizes DEF Join, TypeOK, ringVars
<1>5. CASE UNCHANGED vars
  BY <1>5 DEF vars, ringVars, callVars, TypeOK
<1> QED  BY <1>1, <1>2, <1>3, <1>4, <1>5 DEF Next

\* Every variable keeps its type, for any constants and whatever calls overlap
\* the creation or the termination of the service.
THEOREM TypeCorrect == Spec => []TypeOK
BY InitType, NextType, PTL DEF Spec
-----------------------------------------------------------------------------
(***************************************************************************)
(* The first call and PalFileTerminate overlap no other call.              *)
(***************************************************************************)

Unraced == Races = {}

Apps == Callers \union Servers

\* The places of a call between taking the mutex and releasing it.
Inside == {"fill", "put", "publish", "unlock"}

Exit(m) == m.func = "exit"

\* A message with its function and the argument its callback will get.
Good(m) == m.func \in Kinds /\ (m.func = "open" => m.arg = m.id)

\* The thread in PalFileInitialize is alone, and nothing has happened before.
InitInv ==
  /\ \A t \in Threads : pc[t] \notin {"idle", "create", "created"} => inited
  /\ \A t \in Threads : pc[t] \in {"create", "created"} =>
       ~inited /\ t # Terminator /\ \A u \in Threads : u # t => pc[u] = "idle"
  /\ ~inited =>
       /\ rd = 0 /\ wr = 0 /\ mutex = NoOne /\ accepted = <<>> /\ answered = <<>>
       /\ \A s \in Servers : svc[s] \in {"none", "poll"}
  /\ (\E s \in Servers : svc[s] # "none") <=>
       inited \/ \E t \in Threads : pc[t] = "created"
  /\ \A r, s \in Servers : svc[r] # "none" /\ svc[s] # "none" => r = s

\* Only the holder of the mutex is inside a call; only it, or the terminating
\* thread when nobody calls, prepares the shared message.
CallInv ==
  /\ \A t \in Apps : pc[t] \in Inside <=> mutex = t
  /\ mutex # Terminator
  /\ \A t \in Apps : pc[t] # "idle" => req[t].kind \in Kinds
  /\ \A t \in Apps : pc[t] \notin {"join", "freed"}
  /\ pc[Terminator] \in {"idle", "put", "publish", "join", "freed"}
  /\ Terminating => Quiet

MessageInv ==
  /\ \A t \in Threads : pc[t] \in {"put", "publish"} =>
       /\ next[t] = Succ(wr, Slots)
       /\ IF t = Terminator THEN Exit(msgBuf) ELSE Good(msgBuf) /\ msgBuf.id = req[t].id
  /\ \A t \in Threads : pc[t] = "publish" => next[t] # rd /\ ring[wr] = msgBuf

Held    == Count(wr, rd, Slots)
Serving == \E s \in Servers : svc[s] = "serve"

\* How many accepted requests have left the ring.
Taken == IF Serving THEN Len(answered) + 1 ELSE Len(answered)

\* How many messages have been put in the ring: the exit message is one of
\* them until the service thread has read it.
ExitHeld == pc[Terminator] = "join" /\ \A s \in Servers : svc[s] # "gone"
Sent     == IF ExitHeld THEN Len(accepted) + 1 ELSE Len(accepted)

\* The ring holds, in their order, the accepted requests not yet taken, and the
\* exit message after them.
RingInv ==
  /\ Taken + Held = Sent
  /\ \A k \in 0 .. Held - 1 :
       IF Taken + k + 1 <= Len(accepted)
       THEN /\ Good(ring[Pos(rd, k, Slots)])
            /\ ring[Pos(rd, k, Slots)].id = accepted[Taken + k + 1]
       ELSE Exit(ring[Pos(rd, k, Slots)])

\* The service thread's message is the next accepted request; it has left only
\* after the exit message, with nothing behind it.
ServerInv ==
  /\ \A s \in Servers :
       /\ svc[s] = "advance" => rd # wr /\ job[s] = ring[rd]
       /\ svc[s] = "serve" => /\ Len(answered) < Len(accepted)
                              /\ Good(job[s])
                              /\ job[s].id = accepted[Len(answered) + 1]
       /\ svc[s] = "gone" => pc[Terminator] \in {"join", "freed"} /\ rd = wr
  /\ pc[Terminator] = "freed" => \A s \in Servers : svc[s] \in {"none", "gone"}

IInv ==
  /\ TypeOK
  /\ InitInv /\ CallInv /\ MessageInv
  /\ RingInv /\ ServerInv
  /\ AnsweredInOrder /\ OwnArgument

LEMMA InitIInv == Init => IInv
<1> SUFFICES ASSUME Init PROVE IInv
  OBVIOUS
<1> USE Sizes
<1>1. InitInv
  BY DEF Init, InitInv
<1>2. CallInv /\ MessageInv
  BY DEF Init, CallInv, MessageInv, Apps, Inside, Terminating
<1>3. Held = 0 /\ Taken = 0 /\ Sent = 0 /\ Len(answered) = 0
  <2>1. 0 \in 0 .. Slots - 1
    OBVIOUS
  <2> QED  BY <2>1 DEF Init, Held, Count, Taken, Serving, Sent, ExitHeld
<1>4. RingInv /\ ServerInv
  BY <1>3 DEF Init, RingInv, ServerInv
<1>5. AnsweredInOrder /\ OwnArgument
  BY <1>3 DEF Init, AnsweredInOrder, OwnArgument
<1> QED  BY <1>1, <1>2, <1>4, <1>5, InitType DEF IInv

\* A step that touches neither the ring, nor the service thread, nor what has
\* been answered.
LEMMA RingUntouched ==
  ASSUME RingInv, ServerInv, AnsweredInOrder, OwnArgument,
         UNCHANGED <<svc, job, ring, rd, wr, accepted, answered>>,
         \/ pc'[Terminator] = pc[Terminator]
         \/ /\ pc[Terminator] \notin {"join", "freed"}
            /\ pc'[Terminator] \notin {"join", "freed"}
  PROVE  RingInv' /\ ServerInv' /\ AnsweredInOrder' /\ OwnArgument'
<1>1. /\ Held' = Held /\ Taken' = Taken /\ Sent' = Sent
      /\ Len(accepted') = Len(accepted)
  BY DEF Held, Taken, Serving, Sent, ExitHeld
<1>2. RingInv'
  BY <1>1 DEF RingInv
<1>3. ServerInv'
  BY DEF ServerInv
<1>4. AnsweredInOrder' /\ OwnArgument'
  BY DEF AnsweredInOrder, OwnArgument
<1> QED  BY <1>2, <1>3, <1>4

\* A thread that holds the mutex is the only one inside a call, and
\* PalFileTerminate has not begun.
LEMMA OneInside ==
  ASSUME IInv, NEW t \in Apps, pc[t] \in Inside
  PROVE  /\ mutex = t /\ t # Terminator /\ t \in Threads
         /\ pc[Terminator] = "idle" /\ inited
         /\ \A u \in Threads : u # t => pc[u] \notin Inside \union {"create", "created"}
<1>1. mutex = t /\ t # Terminator /\ t \in Threads
  BY Sizes DEF IInv, CallInv, Apps
<1>2. pc[t] # "idle" /\ pc[t] \notin {"create", "created"}
  BY DEF Inside
<1>3. pc[Terminator] = "idle"
  BY <1>2 DEF IInv, CallInv, Terminating, Quiet, Apps
<1>4. inited
  BY <1>1, <1>2 DEF IInv, InitInv
<1>5. ASSUME NEW u \in Threads, u # t PROVE pc[u] \notin Inside \union {"create", "created"}
  <2>1. u \in Apps \/ u = Terminator
    BY DEF Threads, Apps
  <2>2. pc[u] \notin {"create", "created"}
    BY <1>4 DEF IInv, InitInv
  <2>3. pc[u] \notin Inside
    BY <2>1, <1>1, <1>3, <1>5 DEF IInv, CallInv, Inside
  <2> QED  BY <2>2, <2>3
<1> QED  BY <1>1, <1>3, <1>4, <1>5

LEMMA StepCall ==
  ASSUME IInv, TypeOK', Unraced, NEW t \in Threads, Call(t)
  PROVE  IInv'
<1> USE Sizes
<1>1. /\ pc[t] = "idle" /\ ~Terminating /\ (inited \/ Quiet) /\ t \in Apps /\ t # Terminator
  BY DEF Call, MayCall, Unraced, Apps
<1>2. /\ pc' = [pc EXCEPT ![t] = IF inited THEN "lock" ELSE "create"]
      /\ \A u \in Threads : u # t => pc'[u] = pc[u] /\ req'[u] = req[u]
      /\ pc'[t] = IF inited THEN "lock" ELSE "create"
      /\ req'[t].kind \in Kinds
      /\ UNCHANGED <<inited, svc, job, ring, rd, wr, msgBuf, mutex, next, accepted, answered>>
  BY DEF Call, IInv, TypeOK, ringVars
<1>3. ~inited => \A u \in Threads : pc[u] = "idle"
  BY <1>1 DEF Quiet, Terminating, Threads
<1>4. InitInv'
  <2>1. \A u \in Threads : pc'[u] \notin {"idle", "create", "created"} => inited'
    BY <1>2 DEF IInv, InitInv
  <2>2. \A u \in Threads : pc'[u] \in {"create", "created"} =>
          ~inited' /\ u # Terminator /\ \A v \in Threads : v # u => pc'[v] = "idle"
    BY <1>1, <1>2, <1>3 DEF IInv, InitInv
  <2>3. \A u \in Threads : pc'[u] = "created" <=> pc[u] = "created"
    BY <1>1, <1>2
  <2> QED  BY <1>2, <2>1, <2>2, <2>3 DEF IInv, InitInv
<1>5. CallInv'
  <2>1. \A u \in Apps : /\ pc'[u] \in Inside <=> mutex' = u
                        /\ pc'[u] # "idle" => req'[u].kind \in Kinds
                        /\ pc'[u] \notin {"join", "freed"}
    BY <1>1, <1>2 DEF IInv, CallInv, Apps, Inside
  <2> QED  BY <1>1, <1>2, <2>1 DEF IInv, CallInv, Terminating
<1>6. MessageInv'
  BY <1>2 DEF IInv, MessageInv
<1>7. RingInv' /\ ServerInv' /\ AnsweredInOrder' /\ OwnArgument'
  BY <1>1, <1>2, RingUntouched DEF IInv
<1> QED  BY <1>4, <1>5, <1>6, <1>7 DEF IInv

LEMMA StepCreate ==
  ASSUME IInv, TypeOK', NEW t \in Threads, CreateService(t) \/ ServiceCreated(t)
  PROVE  IInv'
<1> USE Sizes
<1>1. /\ pc[t] \in {"create", "created"} /\ ~inited /\ t # Terminator /\ t \in Apps
      /\ rd = 0 /\ wr = 0 /\ mutex = NoOne /\ accepted = <<>> /\ answered = <<>>
      /\ \A u \in Threads : u # t => pc[u] = "idle"
      /\ \A s \in Servers : svc[s] \in {"none", "poll"}
  BY DEF CreateService, ServiceCreated, IInv, InitInv, Threads, Apps
<1>2. /\ \A u \in Threads : u # t => pc'[u] = "idle"
      /\ pc'[t] = IF pc[t] = "create" THEN "created" ELSE "lock"
      /\ inited' = (pc[t] = "created")
      /\ rd' = 0 /\ wr' = 0 /\ mutex' = NoOne /\ accepted' = <<>> /\ answered' = <<>>
      /\ req' = req
  BY <1>1 DEF CreateService, ServiceCreated, IInv, TypeOK, ringVars
<1>3. /\ \A s \in Servers : svc'[s] \in {"none", "poll"}
      /\ \A r, s \in Servers : svc'[r] # "none" /\ svc'[s] # "none" => r = s
      /\ \E s \in Servers : svc'[s] # "none"
  <2>1. CASE CreateService(t)
    <3>1. \A s \in Servers : svc[s] = "none"
      <4>1. \A u \in Threads : pc[u] # "created"
        BY <1>1, <2>1 DEF CreateService
      <4> QED  BY <1>1, <4>1 DEF IInv, InitInv
    <3>2. PICK s \in Servers : svc' = [svc EXCEPT ![s] = "poll"]
      BY <2>1 DEF CreateService
    <3> QED  BY <3>1, <3>2 DEF IInv, TypeOK
  <2>2. CASE ServiceCreated(t)
    <3>1. svc' = svc /\ pc[t] = "created"
      BY <2>2 DEF ServiceCreated
    <3>2. \E s \in Servers : svc[s] # "none"
      BY <3>1 DEF IInv, InitInv
    <3> QED  BY <1>1, <3>1, <3>2 DEF IInv, InitInv
  <2> QED  BY <2>1, <2>2
<1>4. InitInv'
  <2>1. inited' \/ \E u \in Threads : pc'[u] = "created"
    BY <1>1, <1>2
  <2> QED  BY <1>1, <1>2, <1>3, <2>1 DEF InitInv
<1>5. CallInv'
  <2>1. /\ \A u \in Apps : pc'[u] \in Inside <=> mutex' = u
        /\ \A u \in Apps : pc'[u] \notin {"join", "freed"}
    BY <1>1, <1>2 DEF Inside, Apps
  <2>2. \A u \in Apps : pc'[u] # "idle" => req'[u].kind \in Kinds
    BY <1>1, <1>2 DEF IInv, CallInv, Apps
  <2> QED  BY <1>1, <1>2, <2>1, <2>2 DEF CallInv, Terminating
<1>6. MessageInv'
  BY <1>1, <1>2 DEF MessageInv
<1>7. RingInv' /\ ServerInv' /\ AnsweredInOrder' /\ OwnArgument'
  <2>1. Held' = 0 /\ Taken' = 0 /\ Sent' = 0 /\ Len(answered') = 0
    BY <1>1, <1>2, <1>3 DEF Held, Count, Taken, Serving, Sent, ExitHeld
  <2>2. pc'[Terminator] = "idle"
    BY <1>1, <1>2
  <2> QED  BY <1>1, <1>2, <1>3, <2>1, <2>2
           DEF RingInv, ServerInv, AnsweredInOrder, OwnArgument
<1> QED  BY <1>4, <1>5, <1>6, <1>7 DEF IInv

\* The control part of a step of a thread inside a call.
LEMMA InsideControl ==
  ASSUME IInv, NEW t \in Apps, pc[t] \in Inside, NEW place \in Inside,
         pc' = [pc EXCEPT ![t] = place], UNCHANGED <<inited, svc, req, mutex>>
  PROVE  InitInv' /\ CallInv'
<1> USE Sizes
<1>1. /\ mutex = t /\ t # Terminator /\ t \in Threads /\ pc[Terminator] = "idle" /\ inited
      /\ \A u \in Threads : u # t => pc'[u] = pc[u] /\ pc[u] \notin Inside \union {"create", "created"}
      /\ pc'[t] = place
  BY OneInside DEF IInv, TypeOK
<1>2. InitInv'
  <2>1. \A u \in Threads : pc'[u] \notin {"create", "created"}
    BY <1>1 DEF Inside
  <2> QED  BY <1>1, <2>1 DEF IInv, InitInv
<1>3. CallInv'
  <2>1. \A u \in Apps : /\ pc'[u] \in Inside <=> mutex' = u
                        /\ pc'[u] # "idle" => req'[u].kind \in Kinds
                        /\ pc'[u] \notin {"join", "freed"}
    BY <1>1 DEF IInv, CallInv, Apps, Inside
  <2> QED  BY <1>1, <2>1 DEF IInv, CallInv, Terminating
<1> QED  BY <1>2, <1>3

LEMMA StepWait ==
  ASSUME IInv, TypeOK', NEW t \in Threads, WaitMutex(t)
  PROVE  IInv'
<1> USE Sizes
<1>1. /\ pc[t] = "lock" /\ mutex = NoOne /\ t \in Apps /\ t # Terminator /\ inited
      /\ mutex' = t
      /\ \A u \in Threads : u # t => pc'[u] = pc[u]
      /\ pc'[t] = "fill"
      /\ UNCHANGED <<inited, svc, job, ring, rd, wr, msgBuf, req, next, accepted, answered>>
  BY DEF WaitMutex, IInv, TypeOK, CallInv, InitInv, ringVars, Threads, Apps
<1>2. InitInv'
  <2>1. \A u \in Threads : pc'[u] \notin {"create", "created"}
    BY <1>1 DEF IInv, InitInv
  <2> QED  BY <1>1, <2>1 DEF IInv, InitInv
<1>3. \A u \in Apps : pc[u] \notin Inside
  BY <1>1 DEF IInv, CallInv, Apps
<1>4. pc[Terminator] = "idle"
  BY <1>1 DEF IInv, CallInv, Terminating, Quiet, Apps
<1>5. CallInv'
  <2>1. \A u \in Apps : /\ pc'[u] \in Inside <=> mutex' = u
                        /\ pc'[u] # "idle" => req'[u].kind \in Kinds
                        /\ pc'[u] \notin {"join", "freed"}
    BY <1>1, <1>3 DEF IInv, CallInv, Apps, Inside
  <2> QED  BY <1>1, <1>4, <2>1 DEF IInv, CallInv, Terminating
<1>6. MessageInv'
  BY <1>1 DEF IInv, MessageInv
<1>7. RingInv' /\ ServerInv' /\ AnsweredInOrder' /\ OwnArgument'
  BY <1>1, RingUntouched DEF IInv
<1> QED  BY <1>2, <1>5, <1>6, <1>7 DEF IInv

\* The message is filled: nobody else has one prepared.
LEMMA StepFill ==
  ASSUME IInv, TypeOK', NEW t \in Threads, FillMessage(t)
  PROVE  IInv'
<1> USE Sizes
<1>1. t \in Apps /\ pc[t] = "fill" /\ pc[t] \in Inside
  BY DEF FillMessage, IInv, CallInv, Threads, Apps, Inside
<1>2. /\ t # Terminator /\ pc[Terminator] = "idle"
      /\ \A u \in Threads : u # t => pc[u] \notin {"put", "publish"}
  BY <1>1, OneInside DEF Inside
<1>3. /\ pc' = [pc EXCEPT ![t] = "put"] /\ "put" \in Inside
      /\ \A u \in Threads : u # t => pc'[u] = pc[u]
      /\ pc'[t] = "put" /\ next'[t] = Succ(wr, Slots)
      /\ UNCHANGED <<inited, svc, job, ring, rd, wr, mutex, req, accepted, answered>>
  BY DEF FillMessage, IInv, TypeOK, ringVars, Inside
<1>4. Good(msgBuf') /\ msgBuf'.id = req[t].id
  <2>1. req[t].kind \in Kinds
    BY <1>1 DEF IInv, CallInv
  <2> QED  BY <2>1 DEF FillMessage, Filled, Good
<1>5. InitInv' /\ CallInv'
  BY <1>1, <1>3, InsideControl
<1>6. MessageInv'
  BY <1>2, <1>3, <1>4 DEF MessageInv
<1>7. RingInv' /\ ServerInv' /\ AnsweredInOrder' /\ OwnArgument'
  BY <1>2, <1>3, RingUntouched DEF IInv
<1> QED  BY <1>5, <1>6, <1>7 DEF IInv

LEMMA StepTimeOut ==
  ASSUME IInv, TypeOK', NEW t \in Threads, PutTimesOut(t)
  PROVE  IInv'
<1> USE Sizes
<1>1. /\ pc[t] = "put"
      /\ pc' = [pc EXCEPT ![t] = IF t = Terminator THEN "idle" ELSE "unlock"]
      /\ \A u \in Threads : u # t => pc'[u] = pc[u]
      /\ pc'[t] = IF t = Terminator THEN "idle" ELSE "unlock"
      /\ UNCHANGED <<inited, svc, job, ring, rd, wr, msgBuf, mutex, req, next,
                     accepted, answered>>
  BY DEF PutTimesOut, IInv, TypeOK, ringVars
<1>2. MessageInv'
  BY <1>1 DEF IInv, MessageInv
<1>3. RingInv' /\ ServerInv' /\ AnsweredInOrder' /\ OwnArgument'
  BY <1>1, RingUntouched DEF IInv
<1>4. InitInv' /\ CallInv'
  <2>1. CASE t = Terminator
    <3>1. inited /\ \A u \in Apps : u # Terminator /\ u \in Threads /\ pc'[u] = pc[u] /\ pc[u] = "idle"
      BY <1>1, <2>1 DEF IInv, InitInv, CallInv, Terminating, Quiet, Apps
    <3>2. \A u \in Threads : pc'[u] = "idle" /\ pc[u] # "created"
      BY <1>1, <2>1, <3>1 DEF Threads, Apps
    <3> QED  BY <1>1, <2>1, <3>1, <3>2 DEF IInv, InitInv, CallInv, Terminating, Inside
  <2>2. CASE t # Terminator
    <3>1. t \in Apps /\ pc[t] \in Inside /\ "unlock" \in Inside
      BY <1>1, <2>2 DEF Threads, Apps, Inside
    <3> QED  BY <1>1, <2>2, <3>1, InsideControl
  <2> QED  BY <2>1, <2>2
<1> QED  BY <1>2, <1>3, <1>4 DEF IInv

LEMMA StepRelease ==
  ASSUME IInv, TypeOK', NEW t \in Threads, ReleaseMutex(t)
  PROVE  IInv'
<1> USE Sizes
<1>1. t \in Apps /\ pc[t] = "unlock" /\ pc[t] \in Inside
  BY DEF ReleaseMutex, IInv, CallInv, Threads, Apps, Inside
<1>2. /\ mutex = t /\ t # Terminator /\ pc[Terminator] = "idle" /\ inited
      /\ \A u \in Threads : u # t => pc[u] \notin Inside \union {"create", "created"}
  BY <1>1, OneInside
<1>3. /\ \A u \in Threads : u # t => pc'[u] = pc[u] /\ req'[u] = req[u] /\ next'[u] = next[u]
      /\ pc'[t] = "idle" /\ mutex' = NoOne
      /\ UNCHANGED <<inited, svc, job, ring, rd, wr, msgBuf, accepted, answered>>
  BY DEF ReleaseMutex, IInv, TypeOK, ringVars
<1>4. InitInv'
  <2>1. \A u \in Threads : pc'[u] \notin {"create", "created"}
    BY <1>2, <1>3
  <2> QED  BY <1>2, <1>3, <2>1 DEF IInv, InitInv
<1>5. CallInv'
  <2>1. \A u \in Apps : /\ pc'[u] \in Inside <=> mutex' = u
                        /\ pc'[u] # "idle" => req'[u].kind \in Kinds
                        /\ pc'[u] \notin {"join", "freed"}
    BY <1>2, <1>3 DEF IInv, CallInv, Apps, Inside
  <2> QED  BY <1>2, <1>3, <2>1 DEF IInv, CallInv, Terminating
<1>6. MessageInv'
  BY <1>2, <1>3 DEF MessageInv, Inside
<1>7. RingInv' /\ ServerInv' /\ AnsweredInOrder' /\ OwnArgument'
  BY <1>2, <1>3, RingUntouched DEF IInv
<1> QED  BY <1>4, <1>5, <1>6, <1>7 DEF IInv

\* The message is copied to the free slot: the entries of the ring are elsewhere.
LEMMA StepCopyIn ==
  ASSUME IInv, TypeOK', NEW t \in Threads, CopyIn(t)
  PROVE  IInv'
<1> USE Sizes
<1>1. /\ pc[t] = "put" /\ next[t] # rd
      /\ ring' = [ring EXCEPT ![wr] = msgBuf] /\ ring'[wr] = msgBuf
      /\ \A i \in 0 .. Slots - 1 : i # wr => ring'[i] = ring[i]
      /\ pc' = [pc EXCEPT ![t] = "publish"]
      /\ \A u \in Threads : u # t => pc'[u] = pc[u]
      /\ pc'[t] = "publish"
      /\ UNCHANGED <<inited, svc, job, rd, wr, msgBuf, mutex, req, next, accepted, answered>>
      /\ rd \in 0 .. Slots - 1 /\ wr \in 0 .. Slots - 1
  BY DEF CopyIn, IInv, TypeOK
<1>2. InitInv' /\ CallInv'
  <2>1. CASE t = Terminator
    <3>1. inited /\ \A u \in Apps : u # Terminator /\ u \in Threads /\ pc'[u] = pc[u] /\ pc[u] = "idle"
      BY <1>1, <2>1 DEF IInv, InitInv, CallInv, Terminating, Quiet, Apps
    <3>2. \A u \in Threads : pc'[u] \notin {"create", "created"} /\ pc[u] # "created"
      BY <1>1, <2>1, <3>1 DEF Threads, Apps
    <3>3. Quiet'
      BY <3>1 DEF Quiet, Apps
    <3> QED  BY <1>1, <2>1, <3>1, <3>2, <3>3 DEF IInv, InitInv, CallInv, Terminating, Inside
  <2>2. CASE t # Terminator
    <3>1. t \in Apps /\ pc[t] \in Inside /\ "publish" \in Inside
      BY <1>1, <2>2 DEF Threads, Apps, Inside
    <3> QED  BY <1>1, <2>2, <3>1, InsideControl
  <2> QED  BY <2>1, <2>2
<1>3. MessageInv'
  <2>1. \A u \in Threads : pc'[u] \in {"put", "publish"} => pc[u] \in {"put", "publish"}
    BY <1>1
  <2>2. \A u \in Threads : pc'[u] = "publish" => next'[u] # rd' /\ ring'[wr'] = msgBuf'
    BY <1>1 DEF IInv, MessageInv
  <2> QED  BY <1>1, <2>1, <2>2 DEF IInv, MessageInv
<1>4. Held' = Held /\ Taken' = Taken /\ Sent' = Sent /\ Held \in Nat
  <2>1. Held \in Nat
    BY <1>1, CountType DEF Held
  <2>2. pc'[Terminator] = "join" <=> pc[Terminator] = "join"
    BY <1>1
  <2> QED  BY <1>1, <2>1, <2>2 DEF Held, Taken, Serving, Sent, ExitHeld
<1>5. \A k \in 0 .. Held - 1 : ring'[Pos(rd, k, Slots)] = ring[Pos(rd, k, Slots)]
  BY <1>1, Slot DEF Held
<1>6. RingInv'
  BY <1>1, <1>4, <1>5 DEF IInv, RingInv
<1>7. ServerInv'
  <2>1. rd # wr => ring'[rd] = ring[rd]
    BY <1>1
  <2>2. pc'[Terminator] \in {"join", "freed"} <=> pc[Terminator] \in {"join", "freed"}
    BY <1>1
  <2>3. pc'[Terminator] = "freed" <=> pc[Terminator] = "freed"
    BY <1>1
  <2> QED  BY <1>1, <2>1, <2>2, <2>3 DEF IInv, ServerInv
<1>8. AnsweredInOrder' /\ OwnArgument'
  BY <1>1 DEF IInv, AnsweredInOrder, OwnArgument
<1> QED  BY <1>2, <1>3, <1>6, <1>7, <1>8 DEF IInv

\* The ring after the write index has been moved: one entry more, the one just
\* copied, at the end.
LEMMA PublishRing ==
  ASSUME TypeOK, MessageInv, NEW t \in Threads, Publish(t)
  PROVE  /\ Held \in Nat /\ Held' = Held + 1
         /\ Pos(rd, Held, Slots) = wr /\ ring[wr] = msgBuf
         /\ UNCHANGED <<ring, rd, msgBuf, svc, job, answered>>
         /\ Taken' = Taken
<1> USE Sizes
<1>1. /\ wr' = Succ(wr, Slots) /\ Succ(wr, Slots) # rd /\ ring[wr] = msgBuf
      /\ UNCHANGED <<ring, rd, msgBuf, svc, job, answered>>
  BY DEF Publish, MessageInv
<1>2. rd \in 0 .. Slots - 1 /\ wr \in 0 .. Slots - 1
  BY DEF TypeOK
<1>3. Held \in Nat /\ Held' = Held + 1
  BY <1>1, <1>2, CountType, WriteOne DEF Held
<1>4. Pos(rd, Held, Slots) = wr
  BY <1>2, EndSlots DEF Held
<1>5. Taken' = Taken
  BY <1>1 DEF Taken, Serving
<1> QED  BY <1>1, <1>3, <1>4, <1>5

\* A call publishes its message: it is accepted, behind those in the ring.
LEMMA StepPublishCall ==
  ASSUME IInv, TypeOK', NEW t \in Threads, t # Terminator, Publish(t)
  PROVE  IInv'
<1> USE Sizes
<1>1. t \in Apps /\ pc[t] = "publish" /\ pc[t] \in Inside /\ "unlock" \in Inside
  BY DEF Publish, Threads, Apps, Inside
<1>2. /\ pc[Terminator] = "idle"
      /\ \A u \in Threads : u # t => pc[u] \notin {"put", "publish"}
  BY <1>1, OneInside DEF Inside
<1>3. /\ pc' = [pc EXCEPT ![t] = "unlock"]
      /\ \A u \in Threads : u # t => pc'[u] = pc[u]
      /\ pc'[t] = "unlock"
      /\ accepted' = Append(accepted, req[t].id) /\ req[t].id \in Numbers
      /\ UNCHANGED <<inited, svc, job, ring, rd, msgBuf, mutex, req, next, answered>>
  BY DEF Publish, IInv, TypeOK, Request
<1>4. /\ accepted \in Seq(Numbers) /\ Len(accepted) \in Nat
      /\ Len(accepted') = Len(accepted) + 1
      /\ accepted'[Len(accepted) + 1] = req[t].id
      /\ \A i \in 1 .. Len(accepted) : accepted'[i] = accepted[i]
  <2>1. accepted \in Seq(Numbers)
    BY DEF IInv, TypeOK
  <2> QED  BY <1>3, <2>1, LenProperties, AppendProperties
<1>5. answered \in Seq(Message) /\ Len(answered) \in Nat /\ Taken \in Nat /\ Taken >= Len(answered)
  BY LenProperties DEF IInv, TypeOK, Taken
<1>6. InitInv' /\ CallInv'
  BY <1>1, <1>3, InsideControl
<1>7. MessageInv'
  BY <1>2, <1>3 DEF MessageInv
<1>8. /\ Held \in Nat /\ Held' = Held + 1 /\ Pos(rd, Held, Slots) = wr
      /\ ring[wr] = msgBuf /\ Taken' = Taken
      /\ Good(msgBuf) /\ msgBuf.id = req[t].id
  BY <1>1, PublishRing DEF IInv, MessageInv
<1>9. Sent = Len(accepted) /\ Sent' = Len(accepted) + 1
  BY <1>2, <1>3, <1>4 DEF Sent, ExitHeld
<1>10. Taken + Held = Len(accepted)
  BY <1>9 DEF IInv, RingInv
<1>11. RingInv'
  <2>1. Taken' + Held' = Sent'
    BY <1>4, <1>5, <1>8, <1>9, <1>10
  <2>2. ASSUME NEW k \in 0 .. Held' - 1
        PROVE  /\ Taken' + k + 1 <= Len(accepted')
               /\ Good(ring'[Pos(rd', k, Slots)])
               /\ ring'[Pos(rd', k, Slots)].id = accepted'[Taken' + k + 1]
    <3>1. CASE k = Held
      BY <3>1, <1>3, <1>4, <1>5, <1>8, <1>10
    <3>2. CASE k # Held
      <4>1. k \in 0 .. Held - 1 /\ Taken + k + 1 \in 1 .. Len(accepted)
        BY <3>2, <1>4, <1>5, <1>8, <1>10
      <4>2. /\ Good(ring[Pos(rd, k, Slots)])
            /\ ring[Pos(rd, k, Slots)].id = accepted[Taken + k + 1]
        BY <4>1 DEF IInv, RingInv
      <4> QED  BY <4>1, <4>2, <1>3, <1>4, <1>8
    <3> QED  BY <3>1, <3>2
  <2> QED  BY <2>1, <2>2 DEF RingInv
<1>12. ServerInv'
  <2>1. ASSUME NEW s \in Servers
        PROVE  /\ svc[s] # "gone"
               /\ svc[s] = "advance" => rd' # wr' /\ job'[s] = ring'[rd']
               /\ svc[s] = "serve" => /\ Len(answered') < Len(accepted')
                                      /\ Good(job'[s])
                                      /\ job'[s].id = accepted'[Len(answered') + 1]
    <3>1. svc[s] # "gone"
      BY <1>2 DEF IInv, ServerInv
    <3>2. svc[s] = "advance" => rd' # wr' /\ job'[s] = ring'[rd']
      <4>1. wr' = Succ(wr, Slots) /\ next[t] # rd /\ next[t] = Succ(wr, Slots)
        BY <1>1 DEF Publish, IInv, MessageInv
      <4> QED  BY <1>3, <4>1 DEF IInv, ServerInv
    <3>3. svc[s] = "serve" => /\ Len(answered') < Len(accepted')
                              /\ Good(job'[s])
                              /\ job'[s].id = accepted'[Len(answered') + 1]
      <4>1. SUFFICES ASSUME svc[s] = "serve"
                     PROVE  /\ Len(answered') < Len(accepted')
                            /\ Good(job'[s])
                            /\ job'[s].id = accepted'[Len(answered') + 1]
        OBVIOUS
      <4>2. Len(answered) < Len(accepted) /\ Good(job[s])
            /\ job[s].id = accepted[Len(answered) + 1]
        BY <4>1 DEF IInv, ServerInv
      <4>3. Len(answered) + 1 \in 1 .. Len(accepted)
        BY <1>4, <1>5, <4>2
      <4> QED  BY <1>3, <1>4, <1>5, <4>2, <4>3
    <3> QED  BY <3>1, <3>2, <3>3
  <2>2. pc'[Terminator] = "idle"
    BY <1>2, <1>3
  <2> QED  BY <1>3, <2>1, <2>2 DEF ServerInv
<1>13. AnsweredInOrder' /\ OwnArgument'
  <2>1. Len(answered) <= Len(accepted) /\ \A i \in 1 .. Len(answered) : answered[i].id = accepted[i]
    BY DEF IInv, AnsweredInOrder
  <2>2. \A i \in 1 .. Len(answered) : accepted'[i] = accepted[i]
    BY <1>4, <1>5, <2>1
  <2> QED  BY <1>3, <1>4, <1>5, <2>1, <2>2 DEF IInv, AnsweredInOrder, OwnArgument
<1> QED  BY <1>6, <1>7, <1>11, <1>12, <1>13 DEF IInv

\* While PalFileTerminate is under way nobody else is in a call.
LEMMA AloneTerminating ==
  ASSUME IInv, pc[Terminator] # "idle"
  PROVE  /\ inited /\ mutex = NoOne
         /\ \A u \in Apps : u \in Threads /\ u # Terminator /\ pc[u] = "idle"
<1>1. inited
  BY Sizes DEF IInv, InitInv, CallInv
<1>2. \A u \in Apps : u \in Threads /\ u # Terminator /\ pc[u] = "idle"
  BY Sizes DEF IInv, CallInv, Terminating, Quiet, Apps
<1>3. mutex = NoOne
  BY <1>2, Sizes DEF IInv, TypeOK, CallInv, Inside, Apps, Threads
<1> QED  BY <1>1, <1>2, <1>3

\* The control part of a step of PalFileTerminate.
LEMMA TerminateControl ==
  ASSUME IInv, inited, Quiet, NEW place \in {"put", "publish", "join", "freed"},
         pc' = [pc EXCEPT ![Terminator] = place], UNCHANGED <<inited, svc, req, mutex>>
  PROVE  InitInv' /\ CallInv'
<1> USE Sizes
<1>1. \A u \in Apps : u # Terminator /\ u \in Threads /\ pc'[u] = pc[u] /\ pc[u] = "idle"
  BY DEF IInv, TypeOK, Quiet, Apps
<1>2. pc'[Terminator] = place
  BY DEF IInv, TypeOK
<1>3. \A u \in Threads : pc'[u] \notin {"create", "created"}
  BY <1>1, <1>2 DEF Threads, Apps
<1>4. Quiet'
  BY <1>1 DEF Quiet, Apps
<1>5. InitInv'
  BY <1>3 DEF IInv, InitInv
<1>6. CallInv'
  BY <1>1, <1>2, <1>4 DEF IInv, CallInv, Inside
<1> QED  BY <1>5, <1>6

\* PalFileTerminate publishes the exit message: it is the last one.
LEMMA StepPublishExit ==
  ASSUME IInv, TypeOK', Publish(Terminator)
  PROVE  IInv'
<1> USE Sizes
<1>1. /\ pc[Terminator] = "publish" /\ pc' = [pc EXCEPT ![Terminator] = "join"]
      /\ pc'[Terminator] = "join"
      /\ UNCHANGED <<inited, svc, job, ring, rd, msgBuf, mutex, req, next,
                     accepted, answered>>
  BY DEF Publish, IInv, TypeOK
<1>2. inited /\ \A u \in Apps : u \in Threads /\ u # Terminator /\ pc[u] = "idle" /\ pc'[u] = "idle"
  BY <1>1, AloneTerminating DEF IInv, TypeOK
<1>3. InitInv' /\ CallInv'
  <2>1. Quiet
    BY <1>2 DEF Quiet, Apps
  <2> QED  BY <1>1, <1>2, <2>1, TerminateControl
<1>4. MessageInv'
  BY <1>1, <1>2 DEF MessageInv, Threads, Apps
<1>5. /\ Held \in Nat /\ Held' = Held + 1 /\ Pos(rd, Held, Slots) = wr
      /\ ring[wr] = msgBuf /\ Taken' = Taken /\ Exit(msgBuf)
  BY <1>1, PublishRing DEF IInv, MessageInv
<1>6. \A s \in Servers : svc[s] # "gone"
  BY <1>1 DEF IInv, ServerInv
<1>7. Sent = Len(accepted) /\ Sent' = Len(accepted) + 1 /\ Len(accepted) \in Nat
  <2>1. Len(accepted) \in Nat
    BY LenProperties DEF IInv, TypeOK
  <2> QED  BY <1>1, <1>6, <2>1 DEF Sent, ExitHeld
<1>8. Taken \in Nat
  BY LenProperties DEF Taken, IInv, TypeOK
<1>9. Taken + Held = Len(accepted)
  BY <1>7 DEF IInv, RingInv
<1>10. RingInv'
  <2>1. Taken' + Held' = Sent'
    BY <1>5, <1>7, <1>8, <1>9
  <2>2. ASSUME NEW k \in 0 .. Held' - 1
        PROVE  IF Taken' + k + 1 <= Len(accepted')
               THEN /\ Good(ring'[Pos(rd', k, Slots)])
                    /\ ring'[Pos(rd', k, Slots)].id = accepted'[Taken' + k + 1]
               ELSE Exit(ring'[Pos(rd', k, Slots)])
    <3>1. CASE k = Held
      BY <3>1, <1>1, <1>5, <1>7, <1>8, <1>9
    <3>2. CASE k # Held
      <4>1. k \in 0 .. Held - 1
        BY <3>2, <1>5
      <4> QED  BY <4>1, <1>1, <1>5 DEF IInv, RingInv
    <3> QED  BY <3>1, <3>2
  <2> QED  BY <2>1, <2>2 DEF RingInv
<1>11. ServerInv'
  <2>1. \A s \in Servers : svc[s] = "advance" => rd' # wr'
    BY <1>1 DEF Publish, IInv, MessageInv
  <2> QED  BY <1>1, <1>6, <2>1 DEF IInv, ServerInv
<1>12. AnsweredInOrder' /\ OwnArgument'
  BY <1>1 DEF IInv, AnsweredInOrder, OwnArgument
<1> QED  BY <1>3, <1>4, <1>10, <1>11, <1>12 DEF IInv

LEMMA StepTerminate ==
  ASSUME IInv, TypeOK', Unraced, Terminate
  PROVE  IInv'
<1> USE Sizes
<1>1. /\ inited /\ pc[Terminator] = "idle" /\ Quiet
      /\ pc' = [pc EXCEPT ![Terminator] = "put"] /\ pc'[Terminator] = "put"
      /\ next'[Terminator] = Succ(wr, Slots) /\ Exit(msgBuf')
      /\ \A u \in Apps : u \in Threads /\ u # Terminator /\ pc'[u] = "idle"
      /\ UNCHANGED <<inited, svc, job, ring, rd, wr, mutex, req, accepted, answered>>
  BY DEF Terminate, Terminating, Unraced, Quiet, Exit, IInv, TypeOK, Message, ringVars, Apps
<1>2. InitInv' /\ CallInv'
  BY <1>1, TerminateControl
<1>3. MessageInv'
  BY <1>1 DEF MessageInv, Threads, Apps
<1>4. RingInv' /\ ServerInv' /\ AnsweredInOrder' /\ OwnArgument'
  BY <1>1, RingUntouched DEF IInv
<1> QED  BY <1>2, <1>3, <1>4 DEF IInv

\* The thread joined: the service thread that was created has read the exit
\* message and left.
LEMMA StepJoin ==
  ASSUME IInv, TypeOK', Join
  PROVE  IInv'
<1> USE Sizes
<1>1. /\ pc[Terminator] = "join" /\ \A s \in Servers : svc[s] \in {"none", "gone"}
      /\ pc' = [pc EXCEPT ![Terminator] = "freed"] /\ pc'[Terminator] = "freed"
      /\ UNCHANGED <<inited, svc, job, ring, rd, wr, msgBuf, mutex, req, next,
                     accepted, answered>>
  BY DEF Join, Running, IInv, TypeOK, ringVars
<1>2. inited /\ \A u \in Apps : u \in Threads /\ u # Terminator /\ pc[u] = "idle" /\ pc'[u] = "idle"
  BY <1>1, AloneTerminating DEF IInv, TypeOK
<1>3. InitInv' /\ CallInv'
  <2>1. Quiet
    BY <1>2 DEF Quiet, Apps
  <2> QED  BY <1>1, <1>2, <2>1, TerminateControl
<1>4. MessageInv'
  BY <1>1, <1>2 DEF MessageInv, Threads, Apps
<1>5. PICK s \in Servers : svc[s] = "gone"
  BY <1>1, <1>2 DEF IInv, InitInv
<1>6. Held' = Held /\ Taken' = Taken /\ Sent' = Sent
  BY <1>1, <1>5 DEF Held, Taken, Serving, Sent, ExitHeld
<1>7. RingInv'
  BY <1>1, <1>6 DEF IInv, RingInv
<1>8. ServerInv'
  BY <1>1 DEF IInv, ServerInv
<1>9. AnsweredInOrder' /\ OwnArgument'
  BY <1>1 DEF IInv, AnsweredInOrder, OwnArgument
<1> QED  BY <1>3, <1>4, <1>7, <1>8, <1>9 DEF IInv

\* The control part of a step of the service thread: it is in no call of its
\* own, and it has been created.
LEMMA ServiceControl ==
  ASSUME IInv, inited, NEW s \in Servers, svc[s] # "none",
         NEW place \in {"poll", "advance", "serve", "callback", "gone"},
         svc' = [svc EXCEPT ![s] = place],
         UNCHANGED <<inited, callVars>>
  PROVE  InitInv' /\ CallInv'
<1>1. /\ \A r \in Servers : r # s => svc'[r] = svc[r] /\ svc[r] = "none"
      /\ svc'[s] = place
  BY DEF IInv, TypeOK, InitInv
<1>2. UNCHANGED <<inited, pc, req, mutex>>
  BY DEF callVars
<1>3. InitInv'
  <2>1. \E r \in Servers : svc'[r] # "none"
    BY <1>1
  <2> QED  BY <1>1, <1>2, <2>1 DEF IInv, InitInv
<1>4. CallInv'
  BY <1>2 DEF IInv, CallInv, Terminating, Quiet
<1> QED  BY <1>3, <1>4

LEMMA StepPoll ==
  ASSUME IInv, TypeOK', NEW s \in Servers, CopyOut(s) \/ CallbackReturns(s)
  PROVE  IInv'
<1> USE Sizes
<1>1. /\ svc[s] \in {"poll", "callback"} /\ svc'[s] \in {"advance", "poll"}
      /\ svc'[s] = "advance" => rd # wr /\ job'[s] = ring[rd]
      /\ svc' = [svc EXCEPT ![s] = svc'[s]]
      /\ \A r \in Servers : r # s => svc'[r] = svc[r] /\ job'[r] = job[r]
      /\ UNCHANGED <<inited, ring, rd, wr, msgBuf, mutex, pc, req, next, accepted, answered>>
  BY DEF CopyOut, CallbackReturns, IInv, TypeOK, ringVars, callVars
<1>2. InitInv' /\ CallInv'
  <2>1. inited
    <3>1. svc[s] = "callback" => inited
      BY DEF IInv, InitInv
    <3>2. rd # wr => inited
      BY DEF IInv, InitInv
    <3> QED  BY <3>1, <3>2 DEF CopyOut, CallbackReturns
  <2> QED  BY <1>1, <2>1, ServiceControl DEF callVars
<1>3. MessageInv'
  BY <1>1 DEF IInv, MessageInv
<1>4. Held' = Held /\ Taken' = Taken /\ Sent' = Sent
  BY <1>1 DEF Held, Taken, Serving, Sent, ExitHeld
<1>5. RingInv'
  BY <1>1, <1>4 DEF IInv, RingInv
<1>6. ServerInv'
  <2>1. pc[Terminator] # "freed"
    BY <1>1 DEF IInv, ServerInv
  <2>2. ASSUME NEW r \in Servers
        PROVE  /\ svc'[r] = "advance" => rd' # wr' /\ job'[r] = ring'[rd']
               /\ svc'[r] = "serve" => /\ Len(answered') < Len(accepted')
                                       /\ Good(job'[r])
                                       /\ job'[r].id = accepted'[Len(answered') + 1]
               /\ svc'[r] = "gone" => pc'[Terminator] \in {"join", "freed"} /\ rd' = wr'
    BY <1>1 DEF IInv, ServerInv
  <2> QED  BY <1>1, <2>1, <2>2 DEF ServerInv
<1>7. AnsweredInOrder' /\ OwnArgument'
  BY <1>1 DEF IInv, AnsweredInOrder, OwnArgument
<1> QED  BY <1>2, <1>3, <1>5, <1>6, <1>7 DEF IInv

\* The read index is moved: the first message of the ring is the next accepted
\* request, or the exit message when there is no other.
LEMMA StepAdvance ==
  ASSUME IInv, TypeOK', NEW s \in Servers, Advance(s)
  PROVE  IInv'
<1> USE Sizes
<1>1. /\ svc[s] = "advance" /\ rd' = Succ(rd, Slots)
      /\ svc' = [svc EXCEPT ![s] = IF job[s].func = "exit" THEN "gone" ELSE "serve"]
      /\ svc'[s] = IF Exit(job[s]) THEN "gone" ELSE "serve"
      /\ \A r \in Servers : r # s => svc'[r] = svc[r]
      /\ UNCHANGED <<inited, job, ring, wr, msgBuf, mutex, pc, req, next, accepted, answered>>
  BY DEF Advance, IInv, TypeOK, callVars, Exit
<1>2. /\ rd \in 0 .. Slots - 1 /\ wr \in 0 .. Slots - 1
      /\ rd # wr /\ job[s] = ring[rd]
  BY <1>1 DEF IInv, TypeOK, ServerInv
<1>3. inited
  BY <1>1 DEF IInv, InitInv
<1>4. \A r \in Servers : r # s => svc[r] = "none"
  BY <1>1 DEF IInv, InitInv
<1>5. InitInv' /\ CallInv'
  BY <1>1, <1>3, ServiceControl DEF callVars
<1>6. /\ Held \in Nat /\ Held >= 1 /\ Held' = Held - 1
      /\ \A k \in 0 .. Held - 2 : Pos(rd', k, Slots) = Pos(rd, k + 1, Slots)
      /\ rd' # Succ(wr, Slots) /\ Pos(rd, 0, Slots) = rd
      /\ Held' = 0 => rd' = wr
  BY <1>1, <1>2, CountType, ReadOne, EndSlots, SuccType DEF Held
<1>7. MessageInv'
  BY <1>1, <1>6 DEF IInv, MessageInv
<1>8. /\ Len(answered) \in Nat /\ Len(accepted) \in Nat
      /\ Taken = Len(answered)
  BY <1>1, <1>4, LenProperties DEF IInv, TypeOK, Taken, Serving
<1>9. IF Taken + 1 <= Len(accepted)
      THEN Good(ring[rd]) /\ ring[rd].id = accepted[Taken + 1]
      ELSE Exit(ring[rd])
  <2>1. 0 \in 0 .. Held - 1 /\ Taken + 0 + 1 = Taken + 1
    BY <1>6, <1>8
  <2> QED  BY <1>6, <2>1 DEF IInv, RingInv
<1>10. ~(Good(ring[rd]) /\ Exit(ring[rd]))
  BY DEF Good, Exit
<1>11. AnsweredInOrder' /\ OwnArgument'
  BY <1>1 DEF IInv, AnsweredInOrder, OwnArgument
<1>12. CASE Taken + 1 <= Len(accepted)
  <2>1. svc'[s] = "serve" /\ Good(job[s]) /\ job[s].id = accepted[Len(answered) + 1]
    BY <1>1, <1>2, <1>8, <1>9, <1>10, <1>12
  <2>2. Taken' = Taken + 1 /\ Sent' = Sent
    <3>1. \A r \in Servers : svc'[r] # "gone" /\ svc[r] # "gone"
      BY <1>1, <1>4, <2>1
    <3> QED  BY <1>1, <1>8, <2>1, <3>1 DEF Taken, Serving, Sent, ExitHeld
  <2>3. RingInv'
    <3>1. Taken' + Held' = Sent'
      BY <1>6, <1>8, <2>2 DEF IInv, RingInv
    <3>2. ASSUME NEW k \in 0 .. Held' - 1
          PROVE  IF Taken' + k + 1 <= Len(accepted')
                 THEN /\ Good(ring'[Pos(rd', k, Slots)])
                      /\ ring'[Pos(rd', k, Slots)].id = accepted'[Taken' + k + 1]
                 ELSE Exit(ring'[Pos(rd', k, Slots)])
      <4>1. /\ k + 1 \in 0 .. Held - 1 /\ k \in 0 .. Held - 2
            /\ Taken' + k + 1 = Taken + (k + 1) + 1
        BY <1>6, <1>8, <2>2
      <4>2. IF Taken + (k + 1) + 1 <= Len(accepted)
            THEN /\ Good(ring[Pos(rd, k + 1, Slots)])
                 /\ ring[Pos(rd, k + 1, Slots)].id = accepted[Taken + (k + 1) + 1]
            ELSE Exit(ring[Pos(rd, k + 1, Slots)])
        BY <4>1 DEF IInv, RingInv
      <4> QED  BY <4>1, <4>2, <1>1, <1>6
    <3> QED  BY <3>1, <3>2 DEF RingInv
  <2>4. ServerInv'
    <3>1. Len(answered) < Len(accepted)
      BY <1>8, <1>12
    <3>2. pc[Terminator] # "freed"
      BY <1>1 DEF IInv, ServerInv
    <3> QED  BY <1>1, <1>4, <2>1, <3>1, <3>2 DEF ServerInv
  <2> QED  BY <1>5, <1>7, <1>11, <2>3, <2>4 DEF IInv
<1>13. CASE ~(Taken + 1 <= Len(accepted))
  <2>1. svc'[s] = "gone"
    BY <1>1, <1>2, <1>9, <1>13
  <2>2. ExitHeld /\ Sent = Len(accepted) + 1 /\ Taken = Len(accepted) /\ Held = 1
    BY <1>6, <1>8, <1>13 DEF IInv, RingInv, Sent
  <2>3. Taken' = Taken /\ Sent' = Len(accepted)
    BY <1>1, <1>4, <1>8, <2>1 DEF Taken, Serving, Sent, ExitHeld
  <2>4. RingInv'
    BY <1>1, <1>6, <1>8, <2>2, <2>3 DEF RingInv
  <2>5. ServerInv'
    BY <1>1, <1>4, <1>6, <2>1, <2>2 DEF ServerInv, ExitHeld
  <2> QED  BY <1>5, <1>7, <1>11, <2>4, <2>5 DEF IInv
<1> QED  BY <1>12, <1>13

\* The operation is done and the callback made: the next accepted request is
\* answered, with the caller's argument if the call stored it.
LEMMA StepServe ==
  ASSUME IInv, TypeOK', NEW s \in Servers, Serve(s)
  PROVE  IInv'
<1> USE Sizes
<1> DEFINE a == [id |-> job[s].id, arg |-> CallbackArg(job[s]), func |-> job[s].func]
<1>1. /\ svc[s] = "serve" /\ svc' = [svc EXCEPT ![s] = "callback"] /\ svc'[s] = "callback"
      /\ \A r \in Servers : r # s => svc'[r] = svc[r]
      /\ answered' = Append(answered, a)
      /\ UNCHANGED <<inited, ring, rd, wr, msgBuf, mutex, pc, req, next, accepted>>
  BY DEF Serve, IInv, TypeOK, ringVars, callVars
<1>2. \A r \in Servers : r # s => svc[r] = "none"
  BY <1>1 DEF IInv, InitInv
<1>3. inited
  BY <1>1 DEF IInv, InitInv
<1>4. InitInv' /\ CallInv'
  BY <1>1, <1>3, ServiceControl DEF callVars
<1>5. MessageInv'
  BY <1>1 DEF IInv, MessageInv
<1>6. /\ Len(answered) < Len(accepted) /\ Good(job[s])
      /\ job[s].id = accepted[Len(answered) + 1] /\ job[s] \in Message
  BY <1>1 DEF IInv, TypeOK, ServerInv
<1>7. /\ answered \in Seq(Message) /\ a \in Message
      /\ Len(answered) \in Nat /\ Len(accepted) \in Nat
  <2>1. a \in Message
    BY <1>6 DEF CallbackArg, Message
  <2> QED  BY <2>1, LenProperties DEF IInv, TypeOK
<1>8. /\ Len(answered') = Len(answered) + 1
      /\ answered'[Len(answered) + 1] = a
      /\ \A i \in 1 .. Len(answered) : answered'[i] = answered[i]
  <2> HIDE DEF a
  <2> QED  BY <1>1, <1>7, AppendProperties
<1>9. AnsweredInOrder' /\ OwnArgument'
  <2>1. ASSUME NEW i \in 1 .. Len(answered')
        PROVE  /\ answered'[i].id = accepted[i]
               /\ answered'[i].func # "other" => answered'[i].arg = answered'[i].id
    <3>1. CASE i = Len(answered) + 1
      <4>1. answered'[i] = a /\ a.id = accepted[i]
        BY <1>6, <1>8, <3>1
      <4>2. a.func # "other" => a.arg = a.id
        <5>1. job[s].func \in {"open", "openwriteclose", "other"}
          BY <1>6, AsyncAssumption DEF Good
        <5> QED  BY <5>1, <1>6 DEF Good, CallbackArg
      <4> QED  BY <4>1, <4>2
    <3>2. CASE i # Len(answered) + 1
      <4>1. i \in 1 .. Len(answered)
        BY <1>7, <1>8, <3>2
      <4> QED  BY <4>1, <1>8 DEF IInv, AnsweredInOrder, OwnArgument
    <3> QED  BY <3>1, <3>2
  <2>2. Len(answered') <= Len(accepted')
    BY <1>1, <1>6, <1>7, <1>8
  <2> QED  BY <1>1, <2>1, <2>2 DEF AnsweredInOrder, OwnArgument
<1>10. Held' = Held /\ Taken' = Taken /\ Sent' = Sent
  <2>1. Serving /\ ~Serving'
    BY <1>1, <1>2 DEF Serving
  <2> QED  BY <1>1, <1>2, <1>8, <2>1 DEF Held, Taken, Sent, ExitHeld
<1>11. RingInv'
  BY <1>1, <1>10 DEF IInv, RingInv
<1>12. ServerInv'
  <2>1. pc[Terminator] # "freed"
    BY <1>1 DEF IInv, ServerInv
  <2> QED  BY <1>1, <1>2, <2>1 DEF ServerInv
<1> QED  BY <1>4, <1>5, <1>9, <1>11, <1>12 DEF IInv

\* Every step preserves the invariant.
LEMMA NextIInv == Unraced /\ IInv /\ [Next]_vars => IInv'
<1> SUFFICES ASSUME Unraced, IInv, [Next]_vars PROVE IInv'
  OBVIOUS
<1>1. TypeOK'
  BY NextType DEF IInv
<1>2. CASE \E t \in Threads : Call(t)
  BY <1>1, <1>2, StepCall
<1>3. CASE \E t \in Threads : Proceed(t)
  BY <1>1, <1>3, StepCreate, StepWait, StepFill, StepCopyIn, StepPublishCall,
     StepPublishExit, StepTimeOut, StepRelease DEF Proceed
<1>4. CASE \E s \in Servers : ServiceStep(s)
  BY <1>1, <1>4, StepPoll, StepAdvance, StepServe DEF ServiceStep
<1>5. CASE Terminate \/ Join
  BY <1>1, <1>5, StepTerminate, StepJoin
<1>6. CASE UNCHANGED vars
  <2>1. UNCHANGED <<inited, svc, job, ring, rd, wr, msgBuf, mutex, pc, req, next,
                    accepted, answered>>
    BY <1>6 DEF vars, ringVars, callVars
  <2>2. InitInv' /\ CallInv' /\ MessageInv'
    BY <2>1 DEF IInv, InitInv, CallInv, MessageInv, Terminating, Quiet
  <2> QED  BY <1>1, <2>1, <2>2, RingUntouched DEF IInv
<1> QED  BY <1>2, <1>3, <1>4, <1>5, <1>6 DEF Next

LEMMA Invariance == Unraced => (Spec => []IInv)
<1> SUFFICES ASSUME Unraced PROVE Spec => []IInv
  OBVIOUS
<1> QED  BY InitIInv, NextIInv, PTL DEF Spec
-----------------------------------------------------------------------------
(***************************************************************************)
(* What the invariant says.                                                *)
(***************************************************************************)

\* Without overlapping creations and terminations, for any number of callers,
\* slots and calls, and with callbacks that call: the callbacks made are those
\* of the accepted requests, in order, each once.
THEOREM InOrder == Unraced => (Spec => []AnsweredInOrder)
<1> SUFFICES ASSUME Unraced PROVE Spec => []AnsweredInOrder
  OBVIOUS
<1>1. IInv => AnsweredInOrder
  BY DEF IInv
<1> QED  BY <1>1, Invariance, PTL

\* Each callback gets the argument of its own caller, where the call stores one,
\* although all callers write the same message.
THEOREM Own == Unraced => (Spec => []OwnArgument)
<1> SUFFICES ASSUME Unraced PROVE Spec => []OwnArgument
  OBVIOUS
<1>1. IInv => OwnArgument
  BY DEF IInv
<1> QED  BY <1>1, Invariance, PTL

\* The service thread leaves only when every accepted request is answered.
THEOREM Drained == Unraced => (Spec => []DrainedBeforeExit)
<1> SUFFICES ASSUME Unraced PROVE Spec => []DrainedBeforeExit
  OBVIOUS
<1>1. IInv => DrainedBeforeExit
  <2> SUFFICES ASSUME IInv, NEW s \in Servers, svc[s] = "gone"
               PROVE  Len(answered) = Len(accepted)
    BY DEF DrainedBeforeExit
  <2>1. \A r \in Servers : svc[r] # "serve"
    BY DEF IInv, InitInv
  <2>2. Taken = Len(answered) /\ Sent = Len(accepted)
    BY <2>1 DEF Taken, Serving, Sent, ExitHeld
  <2>3. Held = 0
    BY Sizes, CountType DEF IInv, TypeOK, ServerInv, Held
  <2>4. Len(answered) \in Nat
    BY LenProperties DEF IInv, TypeOK
  <2> QED  BY <2>2, <2>3, <2>4 DEF IInv, RingInv
<1> QED  BY <1>1, Invariance, PTL

\* When PalFileTerminate has freed the queue and the mutex, no thread is in a
\* call, none holds the mutex, and the service thread has left.
THEOREM NothingUsedAfterFree == Unraced => (Spec => []NoUseAfterFree)
<1> SUFFICES ASSUME Unraced PROVE Spec => []NoUseAfterFree
  OBVIOUS
<1>1. IInv => NoUseAfterFree
  <2> SUFFICES ASSUME IInv, pc[Terminator] = "freed"
               PROVE  /\ Running = {} /\ mutex = NoOne
                      /\ \A t \in Apps : pc[t] = "idle"
    BY DEF NoUseAfterFree, Apps
  <2>1. Running = {}
    BY DEF IInv, ServerInv, Running
  <2> QED  BY <2>1, AloneTerminating
<1> QED  BY <1>1, Invariance, PTL
=============================================================================
