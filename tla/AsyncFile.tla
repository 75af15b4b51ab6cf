----------------------------- MODULE AsyncFile -----------------------------
(***************************************************************************)
(* The file service of driver/async_file: callers fill one shared message  *)
(* (`msgBuf`) under a mutex and put it in a ring; a service thread takes   *)
(* the messages out, performs the file operations and calls the callers'   *)
(* callbacks.  A callback runs in the service thread and may itself ask    *)
(* for a file operation.  The first call creates the service; terminating  *)
(* it puts a message without function in the ring and joins the thread.    *)
(*                                                                         *)
(* A request is known by its number: it stands for the callback and the    *)
(* arguments.  The callback's own argument is kept apart (`arg`), because  *)
(* not every call stores it.                                               *)
(***************************************************************************)
EXTENDS MsgRing

CONSTANTS
  Callers,      \* the threads of the application
  Servers,      \* service threads that can be created
  Terminator,   \* the thread that calls PalFileTerminate
  Slots,        \* FILE_MSGQ_COUNT
  Kinds,        \* the calls made: "open", "openwriteclose", "other"
  Races,        \* unguarded overlaps allowed: subset of {"init", "terminate"}
  CallsBack,    \* may a callback ask for a file operation?
  MaxRequests,  \* bound on the number of calls
  NoOne

Threads == Callers \union Servers \union {Terminator}

ASSUME AsyncAssumption ==
  /\ Slots \in Nat /\ Slots >= 2
  /\ MaxRequests \in Nat
  /\ Kinds \subseteq {"open", "openwriteclose", "other"}
  /\ Races \subseteq {"init", "terminate"}
  /\ CallsBack \in BOOLEAN
  /\ Callers \intersect Servers = {} /\ Terminator \notin Callers \union Servers
  /\ NoOne \notin Threads

VARIABLES
  inited,    \* file.c: the service has been created
  svc,       \* FileThreadFunc of each service thread: where it is
  job,       \* and its local message
  ring,      \* palQueues[0]: the slots
  rd,        \* readPtr
  wr,        \* writePtr
  msgBuf,    \* the message shared by the callers
  mutex,     \* its holder
  pc,        \* where each thread is in a PalFile* call
  req,       \* the call it makes: kind and number
  next,      \* nextWritePtr of its PalWriteMsgQ
  asked,     \* number of calls started
  accepted,  \* history: the requests put in the ring
  answered   \* history: the callbacks made

ringVars == <<ring, rd, wr>>
callVars == <<msgBuf, mutex, pc, req, next>>
vars == <<inited, svc, job, ringVars, callVars, asked, accepted, answered>>

Numbers == 0 .. MaxRequests
Message == [func : Kinds \union {"exit"}, id : Numbers, arg : Numbers]
Request == [kind : Kinds \union {"exit"}, id : Numbers]
NoMessage == [func |-> "exit", id |-> 0, arg |-> 0]
NoRequest == [kind |-> "exit", id |-> 0]

Init ==
  /\ inited = FALSE
  /\ svc = [s \in Servers |-> "none"]
  /\ job = [s \in Servers |-> NoMessage]
  /\ ring = [i \in 0 .. Slots - 1 |-> NoMessage] /\ rd = 0 /\ wr = 0
  /\ msgBuf = NoMessage
  /\ mutex = NoOne
  /\ pc = [t \in Threads |-> "idle"]
  /\ req = [t \in Threads |-> NoRequest]
  /\ next = [t \in Threads |-> 0]
  /\ asked = 0
  /\ accepted = <<>>
  /\ answered = <<>>

Running == {s \in Servers : svc[s] \notin {"none", "gone"}}
Terminating == pc[Terminator] # "idle"
Quiet == \A t \in Callers \union Servers : pc[t] = "idle"

-----------------------------------------------------------------------------
(* PalFileOpen, PalFileClose and the others with a callback                *)

MayCall(t) ==
  /\ pc[t] = "idle"
  /\ asked < MaxRequests
  /\ t \in Callers \/ (CallsBack /\ t \in Servers /\ svc[t] = "callback")
  /\ "terminate" \in Races \/ ~Terminating
  /\ "init" \in Races \/ inited \/ Quiet

Call(t) ==
  /\ MayCall(t)
  /\ \E k \in Kinds : req' = [req EXCEPT ![t] = [kind |-> k, id |-> asked + 1]]
  /\ asked' = asked + 1
  /\ pc' = [pc EXCEPT ![t] = IF inited THEN "lock" ELSE "create"]
  /\ UNCHANGED <<inited, svc, job, ringVars, msgBuf, mutex, next, accepted, answered>>

\* PalFileInitialize: a mutex, an empty queue, a thread; then `inited`.
CreateService(t) ==
  /\ pc[t] = "create"
  /\ \E s \in Servers : svc[s] = "none" /\ svc' = [svc EXCEPT ![s] = "poll"]
  /\ ring' = [i \in 0 .. Slots - 1 |-> NoMessage] /\ rd' = 0 /\ wr' = 0
  /\ mutex' = NoOne
  /\ pc' = [pc EXCEPT ![t] = "created"]
  /\ UNCHANGED <<inited, job, msgBuf, req, next, asked, accepted, answered>>

ServiceCreated(t) ==
  /\ pc[t] = "created"
  /\ inited' = TRUE
  /\ pc' = [pc EXCEPT ![t] = "lock"]
  /\ UNCHANGED <<svc, job, ringVars, msgBuf, mutex, req, next, asked, accepted, answered>>

\* PalWaitMutex ignores its time-out.
WaitMutex_NotHeld(t) ==
  /\ pc[t] = "lock"
  /\ mutex' = t
  /\ pc' = [pc EXCEPT ![t] = "fill"]
  /\ UNCHANGED <<inited, svc, job, ringVars, msgBuf, req, next, asked, accepted, answered>>

WaitMutex(t) ==
  /\ pc[t] = "lock" /\ mutex = NoOne
  /\ mutex' = t
  /\ pc' = [pc EXCEPT ![t] = "fill"]
  /\ UNCHANGED <<inited, svc, job, ringVars, msgBuf, req, next, asked, accepted, answered>>

\* Every call stores its callback and arguments, PalFileOpen also callback_arg.
Filled_NoArg(m, r) == [func |-> r.kind, id |-> r.id, arg |-> m.arg]
Filled(m, r) ==
  [func |-> r.kind, id |-> r.id, arg |-> IF r.kind = "open" THEN r.id ELSE m.arg]

FillMessage(t) ==
  /\ pc[t] = "fill"
  /\ msgBuf' = Filled(msgBuf, req[t])
  /\ next' = [next EXCEPT ![t] = Succ(wr, Slots)]
  /\ pc' = [pc EXCEPT ![t] = "put"]
  /\ UNCHANGED <<inited, svc, job, ringVars, mutex, req, asked, accepted, answered>>

\* PalWriteMsgQ: wait for a free slot, copy, then move the write pointer.
CopyIn(t) ==
  /\ pc[t] = "put" /\ next[t] # rd
  /\ ring' = [ring EXCEPT ![wr] = msgBuf]
  /\ pc' = [pc EXCEPT ![t] = "publish"]
  /\ UNCHANGED <<inited, svc, job, rd, wr, msgBuf, mutex, req, next, asked, accepted, answered>>

Publish(t) ==
  /\ pc[t] = "publish"
  /\ wr' = next[t]
  /\ pc' = [pc EXCEPT ![t] = IF t = Terminator THEN "join" ELSE "unlock"]
  /\ accepted' = IF t = Terminator THEN accepted ELSE Append(accepted, req[t].id)
  /\ UNCHANGED <<inited, svc, job, ring, rd, msgBuf, mutex, req, next, asked, answered>>

\* The ring stays full for TIMEOUT: the call fails.
PutTimesOut_KeepsMutex(t) ==
  /\ pc[t] = "put" /\ next[t] = rd
  /\ pc' = [pc EXCEPT ![t] = "idle"]
  /\ UNCHANGED <<inited, svc, job, ringVars, msgBuf, mutex, req, next, asked, accepted, answered>>

PutTimesOut_Never(t) == FALSE /\ UNCHANGED vars

PutTimesOut(t) ==
  /\ pc[t] = "put" /\ next[t] = rd
  /\ pc' = [pc EXCEPT ![t] = IF t = Terminator THEN "idle" ELSE "unlock"]
  /\ UNCHANGED <<inited, svc, job, ringVars, msgBuf, mutex, req, next, asked, accepted, answered>>

ReleaseMutex(t) ==
  /\ pc[t] = "unlock"
  /\ mutex' = NoOne
  /\ pc' = [pc EXCEPT ![t] = "idle"]
  /\ req' = [req EXCEPT ![t] = NoRequest]
  /\ next' = [next EXCEPT ![t] = 0]
  /\ UNCHANGED <<inited, svc, job, ringVars, msgBuf, asked, accepted, answered>>

-----------------------------------------------------------------------------
(* FileThreadFunc                                                          *)

\* PalReadMsgQ: wait for a message, copy it, then move the read pointer.
CopyOut_Leaves(s) ==
  /\ svc[s] = "poll" /\ (rd # wr \/ Terminating)
  /\ job' = [job EXCEPT ![s] = IF Terminating THEN NoMessage ELSE ring[rd]]
  /\ svc' = [svc EXCEPT ![s] = "advance"]
  /\ UNCHANGED <<inited, ringVars, callVars, asked, accepted, answered>>

CopyOut(s) ==
  /\ svc[s] = "poll" /\ rd # wr
  /\ job' = [job EXCEPT ![s] = ring[rd]]
  /\ svc' = [svc EXCEPT ![s] = "advance"]
  /\ UNCHANGED <<inited, ringVars, callVars, asked, accepted, answered>>

Advance(s) ==
  /\ svc[s] = "advance"
  /\ rd' = Succ(rd, Slots)
  /\ svc' = [svc EXCEPT ![s] = IF job[s].func = "exit" THEN "gone" ELSE "serve"]
  /\ UNCHANGED <<inited, job, ring, wr, callVars, asked, accepted, answered>>

\* The file operation, and the callback; PalFileOpenWriteClose passes its
\* buffer to it, the others what the message holds.
CallbackArg(m) == IF m.func = "openwriteclose" THEN m.id ELSE m.arg

Serve(s) ==
  /\ svc[s] = "serve"
  /\ answered' = Append(answered, [id |-> job[s].id, arg |-> CallbackArg(job[s]), func |-> job[s].func])
  /\ svc' = [svc EXCEPT ![s] = "callback"]
  /\ job' = [job EXCEPT ![s] = NoMessage]
  /\ UNCHANGED <<inited, ringVars, callVars, asked, accepted>>

CallbackReturns(s) ==
  /\ svc[s] = "callback" /\ pc[s] = "idle"
  /\ svc' = [svc EXCEPT ![s] = "poll"]
  /\ UNCHANGED <<inited, job, ringVars, callVars, asked, accepted, answered>>

-----------------------------------------------------------------------------
(* PalFileTerminate                                                        *)

\* The exit message is written to the shared message without the mutex.
Terminate ==
  /\ inited /\ ~Terminating
  /\ "terminate" \in Races \/ Quiet
  /\ msgBuf' = [msgBuf EXCEPT !.func = "exit"]
  /\ next' = [next EXCEPT ![Terminator] = Succ(wr, Slots)]
  /\ pc' = [pc EXCEPT ![Terminator] = "put"]
  /\ UNCHANGED <<inited, svc, job, ringVars, mutex, req, asked, accepted, answered>>

\* The thread has left: join it, free the queue and the mutex; `inited` stays.
Join_NoWait ==
  /\ pc[Terminator] = "join"
  /\ pc' = [pc EXCEPT ![Terminator] = "freed"]
  /\ UNCHANGED <<inited, svc, job, ringVars, msgBuf, mutex, req, next, asked, accepted, answered>>

Join ==
  /\ pc[Terminator] = "join" /\ Running = {}
  /\ pc' = [pc EXCEPT ![Terminator] = "freed"]
  /\ UNCHANGED <<inited, svc, job, ringVars, msgBuf, mutex, req, next, asked, accepted, answered>>

-----------------------------------------------------------------------------
Proceed(t) ==
  \/ CreateService(t) \/ ServiceCreated(t)
  \/ WaitMutex(t) \/ FillMessage(t)
  \/ CopyIn(t) \/ Publish(t) \/ PutTimesOut(t) \/ ReleaseMutex(t)

ServiceStep(s) == CopyOut(s) \/ Advance(s) \/ Serve(s) \/ CallbackReturns(s)

Next ==
  \/ \E t \in Threads : Call(t) \/ Proceed(t)
  \/ \E s \in Servers : ServiceStep(s)
  \/ Terminate \/ Join

Spec == Init /\ [][Next]_vars

\* A thread inside a call, the service thread and the joining thread are
\* scheduled.  With finitely many calls nobody is overtaken at the mutex for ever.
FairSpec ==
  /\ Spec
  /\ \A t \in Threads : WF_vars(Proceed(t))
  /\ \A s \in Servers : WF_vars(ServiceStep(s))
  /\ WF_vars(Join)

-----------------------------------------------------------------------------
(* Properties                                                              *)

\* Every variable keeps its type.
TypeOK ==
  /\ inited \in BOOLEAN
  /\ svc \in [Servers -> {"none", "poll", "advance", "serve", "callback", "gone"}]
  /\ job \in [Servers -> Message]
  /\ ring \in [0 .. Slots - 1 -> Message]
  /\ rd \in 0 .. Slots - 1 /\ wr \in 0 .. Slots - 1
  /\ msgBuf \in Message
  /\ mutex \in Threads \union {NoOne}
  /\ pc \in [Threads -> {"idle", "create", "created", "lock", "fill", "put", "publish", "unlock", "join", "freed"}]
  /\ req \in [Threads -> Request]
  /\ next \in [Threads -> 0 .. Slots - 1]
  /\ asked \in Numbers
  /\ accepted \in Seq(Numbers)
  /\ answered \in Seq(Message)

\* The callbacks are those of the accepted requests, in the order in which the
\* requests were accepted, each once: no request is lost, served twice,
\* overtaken, or mixed with the arguments of another (msgBuf is shared).
AnsweredInOrder ==
  /\ Len(answered) <= Len(accepted)
  /\ \A i \in 1 .. Len(answered) : answered[i].id = accepted[i]

\* Of the calls that store it, the callback gets the caller's own argument,
\* whatever other calls were prepared in the shared message.
OwnArgument ==
  \A i \in 1 .. Len(answered) : answered[i].func # "other" => answered[i].arg = answered[i].id

\* The service thread leaves only when every accepted request has been
\* answered: PalFileTerminate drops nothing that is in the ring.
DrainedBeforeExit ==
  (\E s \in Servers : svc[s] = "gone") => Len(answered) = Len(accepted)

\* After PalFileTerminate has freed the queue and the mutex nobody is using them.
NoUseAfterFree ==
  pc[Terminator] = "freed" =>
    /\ Running = {}
    /\ mutex = NoOne
    /\ \A t \in Callers \union Servers : pc[t] \notin {"lock", "fill", "put", "publish", "unlock"}

\* Every call returns, a callback's call too, whatever the state of the ring;
\* and PalFileTerminate, once its message is in the ring, ends.
CallReturns ==
  /\ \A t \in Callers \union Servers : pc[t] # "idle" ~> pc[t] = "idle"
  /\ pc[Terminator] = "join" ~> pc[Terminator] = "freed"

\* Every accepted request is answered.
AcceptedIsAnswered ==
  \A n \in 1 .. MaxRequests : Len(accepted) >= n ~> Len(answered) >= n
=============================================================================
