----------------------------- MODULE RootServer -----------------------------
(***************************************************************************)
(* The system call service of RootServer.cpp and the threads it serves.    *)
(*                                                                         *)
(* The root server creates threads, starts them, and then serves one       *)
(* request at a time from the API endpoint: seL4_Recv, look up the sender  *)
(* by its badge, processSyscall, seL4_Reply.  Clients perform requests     *)
(* with seL4_Call (seL4_Send for Debug), and also enter the allocator      *)
(* themselves: `new`, strings and vectors are shared with the server, with *)
(* the one mutex of kmalloc.cpp.                                           *)
(*                                                                         *)
(* All threads begin with the root task's priority and are preempted       *)
(* anywhere, so every kernel call and every write of Thread::_state is a   *)
(* step of its own.                                                        *)
(*                                                                         *)
(* The kernel (external) gives a thread one of four states: ready, queued  *)
(* on the endpoint, blocked on its reply, inactive.  TCB_Suspend and       *)
(* TCB_Resume cancel the IPC in progress; a resumed thread executes the    *)
(* system call it was blocked in AGAIN.                                    *)
(***************************************************************************)
EXTENDS Integers, Sequences

CONSTANTS
  Threads,   \* the threads RootServer::run creates; a badge is its thread
  Server,    \* the root task's own thread
  None,      \* no thread
  Requests   \* the requests clients make, records [op, badge]

ASSUME ConstAssumption ==
  /\ Server \notin Threads
  /\ None \notin Threads \cup {Server}

HeapOps == {"KMalloc", "KFree"}
PlainOps == {"MMap", "List", "StopAndDelete"}
BadgeOps == {"Suspend", "Resume", "SetPriority"}
OneWayOps == {"Debug"}   \* hasResponse() is false

VARIABLES
  kernel,     \* kernel[t]: "inactive", "ready", "queued", "awaiting"
  sendq,      \* the endpoint: threads blocked in seL4_Call or seL4_Send
  replyTo,    \* the server's reply capability: a thread, or None
  code,       \* code[t]: where t is in its own code
  req,        \* req[t]: the request in t's message registers ...
  result,     \* ... and message register 1 as decode reads it
  state,      \* Thread::_state
  threads,    \* ThreadTable::threads
  low,        \* the threads with a priority below the root task's
  pc,         \* where the server is
  caller,     \* the sender of the request being processed ...
  msg,        \* ... and the request, as decode copied it
  answer,     \* message register 1 of the server
  owner, waiting   \* the mutex of kmalloc.cpp

ipc == <<kernel, sendq, replyTo>>
table == <<state, threads, low>>
lock == <<owner, waiting>>
vars == <<ipc, code, req, result, table, pc, caller, msg, answer, lock>>

Mtx == INSTANCE Mutex WITH Threads <- Threads \cup {Server}, NoOwner <- None

NoRequest == [op |-> "none", badge |-> None]
NoAnswer == "none"   \* the register still holds the argument

(* What processSyscall may put into message register 1.                    *)
AnswersTo(op) ==
  CASE op = "KMalloc" -> {"pointer", "NULL"}
    [] op = "MMap" -> {"12345"}
    [] OTHER -> {"0"}

Init ==
  /\ kernel = [t \in Threads |-> "inactive"]
  /\ sendq = <<>>
  /\ replyTo = None
  /\ code = [t \in Threads |-> "entry"]
  /\ req = [t \in Threads |-> NoRequest]
  /\ result = [t \in Threads |-> NoAnswer]
  /\ state = [t \in Threads |-> "Uninitialized"]
  /\ threads = {}
  /\ low = {}
  /\ pc = "boot"
  /\ caller = None
  /\ msg = NoRequest
  /\ answer = NoAnswer
  /\ Mtx!Init

-----------------------------------------------------------------------------
(* The kernel.                                                             *)

(* The queue with t unlinked from its place, if it has one.                *)
Without(t) ==
  LET at == CHOOSE i \in 1..Len(sendq) : sendq[i] = t
  IN  IF \E i \in 1..Len(sendq) : sendq[i] = t
        THEN SubSeq(sendq, 1, at - 1) \o SubSeq(sendq, at + 1, Len(sendq))
        ELSE sendq

(* cancelIPC: off the endpoint's queue; its reply capability is deleted.   *)
CancelIPC(t) ==
  /\ sendq' = Without(t)
  /\ replyTo' = IF replyTo = t THEN None ELSE replyTo

TCBSuspend(t) ==
  /\ CancelIPC(t)
  /\ kernel' = [kernel EXCEPT ![t] = "inactive"]

(* A ready thread is not affected.                                         *)
TCBResume(t) ==
  IF kernel[t] = "ready"
    THEN UNCHANGED ipc
    ELSE CancelIPC(t) /\ kernel' = [kernel EXCEPT ![t] = "ready"]

-----------------------------------------------------------------------------
(* A client.                                                               *)

Moves(t, from, to) ==
  /\ kernel[t] = "ready"
  /\ code[t] = from
  /\ code' = [code EXCEPT ![t] = to]

(* _threadMain, up to the call of entryPoint.                              *)
EnterMain(t) ==
  /\ Moves(t, "entry", "user")
  /\ state' = [state EXCEPT ![t] = "Running"]
  /\ UNCHANGED <<ipc, req, result, threads, low, pc, caller, msg, answer, lock>>

(* Syscall::perform::..., which writes the message registers.              *)
Perform(t, r) ==
  /\ Moves(t, "user", "trap")
  /\ req' = [req EXCEPT ![t] = r]
  /\ result' = [result EXCEPT ![t] = NoAnswer]
  /\ UNCHANGED <<ipc, table, pc, caller, msg, answer, lock>>

(* seL4_Call or seL4_Send.                                                 *)
Trap(t) ==
  /\ Moves(t, "trap", "trap")
  /\ kernel' = [kernel EXCEPT ![t] = "queued"]
  /\ sendq' = Append(sendq, t)
  /\ UNCHANGED <<replyTo, req, result, table, pc, caller, msg, answer, lock>>

(* The client allocates or frees by itself.                                *)
LockHeap(t) ==
  /\ \/ Moves(t, "user", "heap") /\ Mtx!Enter(t)
     \/ Moves(t, "user", "heapwait") /\ Mtx!Queue(t)
  /\ UNCHANGED <<ipc, req, result, table, pc, caller, msg, answer>>

HeapGranted(t) ==
  /\ Moves(t, "heapwait", "heap")
  /\ Mtx!Grant(t)
  /\ UNCHANGED <<ipc, req, result, table, pc, caller, msg, answer>>

UnlockHeap(t) ==
  /\ Moves(t, "heap", "user")
  /\ Mtx!Release(t)
  /\ UNCHANGED <<ipc, req, result, table, pc, caller, msg, answer>>

(* entryPoint returns.                                                     *)
EntryReturns(t) ==
  /\ Moves(t, "user", "exit")
  /\ state' = [state EXCEPT ![t] = "Done"]
  /\ UNCHANGED <<ipc, req, result, threads, low, pc, caller, msg, answer, lock>>

(* The end of _threadMain: TCB_Suspend of the running thread does not      *)
(* return, and is executed again by a thread that is resumed, so that      *)
(* `_state = Paused` behind it is not reached.                             *)
SuspendSelf(t) ==
  /\ Moves(t, "exit", "exit")
  /\ TCBSuspend(t)
  /\ UNCHANGED <<req, result, table, pc, caller, msg, answer, lock>>

-----------------------------------------------------------------------------
(* RootServer::run.                                                        *)

Serve(from, to) == pc = from /\ pc' = to

(* createThread, `_threads.add`, and Thread::start up to WriteRegisters,   *)
(* with which the thread begins to run.                                    *)
StartThread(t) ==
  /\ t \notin threads
  /\ Serve("boot", "started")
  /\ threads' = threads \cup {t}
  /\ caller' = t
  /\ kernel' = [kernel EXCEPT ![t] = "ready"]
  /\ UNCHANGED <<sendq, replyTo, code, req, result, state, low, msg, answer, lock>>

(* The end of Thread::start.                                               *)
MarkStarted ==
  /\ Serve("started", "boot")
  /\ state' = [state EXCEPT ![caller] = "Started"]
  /\ UNCHANGED <<ipc, code, req, result, threads, low, caller, msg, answer, lock>>

(* All threads were created, or the creation of the others failed.         *)
EnterLoop ==
  /\ Serve("boot", "recv")
  /\ UNCHANGED <<ipc, code, req, result, table, caller, msg, answer, lock>>

Receive_NoSender ==   \* faulty variant: `sender` keeps 0, the root task's badge
  LET t == Head(sendq)
      oneWay == req[t].op \in OneWayOps
  IN /\ sendq # <<>>
     /\ Serve("recv", "process")
     /\ caller' = Server
     /\ msg' = req[t]
     /\ answer' = NoAnswer
     /\ sendq' = Tail(sendq)
     /\ replyTo' = IF oneWay THEN None ELSE t
     /\ kernel' = [kernel EXCEPT ![t] = IF oneWay THEN "ready" ELSE "awaiting"]
     /\ code' = [code EXCEPT ![t] = IF oneWay THEN "user" ELSE @]
     /\ UNCHANGED <<req, result, table, lock>>

Receive_Last ==   \* faulty variant: the queue is served from its end
  LET t == sendq[Len(sendq)]
      oneWay == req[t].op \in OneWayOps
  IN /\ sendq # <<>>
     /\ Serve("recv", "process")
     /\ caller' = t
     /\ msg' = req[t]
     /\ answer' = NoAnswer
     /\ sendq' = Without(t)
     /\ replyTo' = IF oneWay THEN None ELSE t
     /\ kernel' = [kernel EXCEPT ![t] = IF oneWay THEN "ready" ELSE "awaiting"]
     /\ code' = [code EXCEPT ![t] = IF oneWay THEN "user" ELSE @]
     /\ UNCHANGED <<req, result, table, lock>>

(* seL4_Recv: a sender goes on, a caller is blocked until the reply.       *)
Receive ==
  LET t == Head(sendq)
      oneWay == req[t].op \in OneWayOps
  IN /\ sendq # <<>>
     /\ Serve("recv", "process")
     /\ caller' = t
     /\ msg' = req[t]
     /\ answer' = NoAnswer
     /\ sendq' = Tail(sendq)
     /\ replyTo' = IF oneWay THEN None ELSE t
     /\ kernel' = [kernel EXCEPT ![t] = IF oneWay THEN "ready" ELSE "awaiting"]
     /\ code' = [code EXCEPT ![t] = IF oneWay THEN "user" ELSE @]
     /\ UNCHANGED <<req, result, table, lock>>

-----------------------------------------------------------------------------
(* RootServer::processSyscall.                                             *)

Op == msg.op
Target == msg.badge

Answer == answer' \in AnswersTo(Op)

ProcessDebug ==
  /\ Op = "Debug"
  /\ Serve("process", "recv")
  /\ UNCHANGED <<ipc, code, req, result, table, caller, msg, answer, lock>>

(* kmalloc or kfree on behalf of the caller.                               *)
ProcessHeap ==
  /\ Op \in HeapOps
  /\ \/ Serve("process", "heap") /\ Mtx!Enter(Server)
     \/ Serve("process", "heapwait") /\ Mtx!Queue(Server)
  /\ UNCHANGED <<ipc, code, req, result, table, caller, msg, answer>>

(* seL4_Wait of the mutex has overwritten the message registers.           *)
ServerGranted ==
  /\ Serve("heapwait", "heap")
  /\ Mtx!Grant(Server)
  /\ answer' = "garbage"
  /\ UNCHANGED <<ipc, code, req, result, table, caller, msg>>

ServerUnlocks_KeepsLock ==   \* faulty variant: the mutex stays locked
  /\ Serve("heap", "reply")
  /\ Answer
  /\ UNCHANGED <<ipc, code, req, result, table, caller, msg, lock>>

ServerUnlocks_NoAnswer ==   \* faulty variant: seL4_SetMR is forgotten
  /\ Serve("heap", "reply")
  /\ Mtx!Release(Server)
  /\ UNCHANGED <<ipc, code, req, result, table, caller, msg, answer>>

ServerUnlocks ==
  /\ Serve("heap", "reply")
  /\ Mtx!Release(Server)
  /\ Answer
  /\ UNCHANGED <<ipc, code, req, result, table, caller, msg>>

(* MMap answers a constant; List prints; StopAndDelete does nothing.       *)
ProcessPlain ==
  /\ Op \in PlainOps
  /\ Serve("process", "reply")
  /\ Answer
  /\ UNCHANGED <<ipc, code, req, result, table, caller, msg, lock>>

ProcessUnknown_NoReply ==   \* faulty variant: an unknown badge is not answered
  /\ Op \in BadgeOps
  /\ Target \notin threads
  /\ Serve("process", "recv")
  /\ Answer
  /\ UNCHANGED <<ipc, code, req, result, table, caller, msg, lock>>

(* "Thread not found".                                                     *)
ProcessUnknown ==
  /\ Op \in BadgeOps
  /\ Target \notin threads
  /\ Serve("process", "reply")
  /\ Answer
  /\ UNCHANGED <<ipc, code, req, result, table, caller, msg, lock>>

(* Thread::setPriority: at most the root task's priority; the kernel       *)
(* refuses a higher one.                                                   *)
ProcessSetPriority ==
  /\ Op = "SetPriority"
  /\ Target \in threads
  /\ Serve("process", "reply")
  /\ low' \in {low, low \cup {Target}, low \ {Target}}
  /\ Answer
  /\ UNCHANGED <<ipc, code, req, result, state, threads, caller, msg, lock>>

(* Thread::suspend, up to the kernel call.                                 *)
ProcessSuspend ==
  /\ Op = "Suspend"
  /\ Target \in threads
  /\ Serve("process", "suspended")
  /\ TCBSuspend(Target)
  /\ UNCHANGED <<code, req, result, table, caller, msg, answer, lock>>

MarkPaused ==
  /\ Serve("suspended", "reply")
  /\ state' = [state EXCEPT ![Target] = "Paused"]
  /\ Answer
  /\ UNCHANGED <<ipc, code, req, result, threads, low, caller, msg, lock>>

ProcessResume_NoState ==   \* faulty variant: _state is not updated
  /\ Op = "Resume"
  /\ Target \in threads
  /\ Serve("process", "reply")
  /\ TCBResume(Target)
  /\ Answer
  /\ UNCHANGED <<code, req, result, table, caller, msg, lock>>

(* Thread::resume, up to the kernel call.                                  *)
ProcessResume ==
  /\ Op = "Resume"
  /\ Target \in threads
  /\ Serve("process", "resumed")
  /\ TCBResume(Target)
  /\ UNCHANGED <<code, req, result, table, caller, msg, answer, lock>>

MarkRunning ==
  /\ Serve("resumed", "reply")
  /\ state' = [state EXCEPT ![Target] = "Running"]
  /\ Answer
  /\ UNCHANGED <<ipc, code, req, result, threads, low, caller, msg, lock>>

Reply_ToCaller ==   \* faulty variant: the caller is woken whatever happened to it
  /\ Serve("reply", "recv")
  /\ kernel' = [kernel EXCEPT ![caller] = "ready"]
  /\ code' = [code EXCEPT ![caller] = "user"]
  /\ result' = [result EXCEPT ![caller] = answer]
  /\ replyTo' = None
  /\ UNCHANGED <<sendq, req, table, caller, msg, answer, lock>>

(* seL4_Reply: to the caller, unless its call was cancelled meanwhile.     *)
Reply ==
  /\ Serve("reply", "recv")
  /\ \/ /\ replyTo # None
        /\ kernel' = [kernel EXCEPT ![replyTo] = "ready"]
        /\ code' = [code EXCEPT ![replyTo] = "user"]
        /\ result' = [result EXCEPT ![replyTo] = answer]
        /\ replyTo' = None
     \/ /\ replyTo = None
        /\ UNCHANGED <<kernel, code, result, replyTo>>
  /\ UNCHANGED <<sendq, req, table, caller, msg, answer, lock>>

-----------------------------------------------------------------------------
(* What a client does without choosing to.                                 *)
ClientStep(t) ==
  EnterMain(t) \/ Trap(t) \/ UnlockHeap(t) \/ SuspendSelf(t)

Client(t) ==
  \/ ClientStep(t) \/ HeapGranted(t) \/ LockHeap(t) \/ EntryReturns(t)
  \/ \E r \in Requests : Perform(t, r)

ServerStep ==
  \/ (\E t \in Threads : StartThread(t)) \/ MarkStarted \/ EnterLoop
  \/ Receive \/ ProcessDebug \/ ProcessHeap \/ ServerUnlocks
  \/ ProcessPlain \/ ProcessUnknown \/ ProcessSetPriority
  \/ ProcessSuspend \/ MarkPaused \/ ProcessResume \/ MarkRunning
  \/ Reply

Next == (\E t \in Threads : Client(t)) \/ ServerStep \/ ServerGranted

Spec == Init /\ [][Next]_vars

(* Threads that may never run again: suspended, or below the others, of    *)
(* which some are always ready (Com1 polls, the test thread yields).       *)
Stopped(t) == kernel[t] = "inactive" \/ t \in low

(* The mutex is with a stopped thread, or has been or will be handed to    *)
(* one.                                                                    *)
HeapBlocked == \E t \in (waiting \cup {owner}) \cap Threads : Stopped(t)

(* Round robin at the root task's priority, and the fairness of the mutex  *)
(* among threads that run.                                                 *)
Fairness ==
  /\ WF_vars(ServerStep)
  /\ SF_vars(~HeapBlocked /\ ServerGranted)
  /\ \A t \in Threads : /\ WF_vars(t \notin low /\ ClientStep(t))
                        /\ SF_vars(~HeapBlocked /\ HeapGranted(t))

FairSpec == Spec /\ Fairness

-----------------------------------------------------------------------------
(* The sender is in the table: the assert of run.                          *)
TypeOK ==
  /\ kernel \in [Threads -> {"inactive", "ready", "queued", "awaiting"}]
  /\ sendq \in Seq(Threads)
  /\ replyTo \in Threads \cup {None}
  /\ code \in [Threads -> {"entry", "user", "trap", "heapwait", "heap", "exit"}]
  /\ req \in [Threads -> Requests \cup {NoRequest}]
  /\ result \in [Threads -> {NoAnswer, "pointer", "NULL", "12345", "0"}]
  /\ state \in [Threads -> {"Uninitialized", "Started", "Running", "Paused", "Done"}]
  /\ threads \subseteq Threads
  /\ low \subseteq Threads
  /\ pc \in {"boot", "started", "recv", "process", "heapwait", "heap",
             "suspended", "resumed", "reply"}
  /\ caller \in threads \cup {None}
  /\ msg \in Requests \cup {NoRequest}
  /\ answer \in {NoAnswer, "garbage", "pointer", "NULL", "12345", "0"}
  /\ owner \in Threads \cup {Server, None}
  /\ waiting \subseteq Threads \cup {Server}

(* A thread blocked on a reply is the one whose request is being processed *)
(* and will get that reply: no path through processSyscall forgets it.     *)
NoOrphanedCall ==
  \A t \in Threads :
    kernel[t] = "awaiting" => replyTo = t /\ caller = t /\ pc # "recv"

(* A thread that `thread list` shows as paused does not run: it is         *)
(* inactive, except between the kernel call of resume and the update of    *)
(* _state, and no write of _state by the thread itself undoes that.        *)
PausedIsSuspended ==
  \A t \in Threads : state[t] = "Paused" =>
    \/ kernel[t] = "inactive"
    \/ pc = "resumed" /\ Target = t

(* A thread that was suspended, whatever it was doing then, is put back to *)
(* work by a Resume and by nothing else: no late reply wakes it.           *)
SuspendedStaysPut ==
  [][\A t \in threads : kernel[t] = "inactive" /\ kernel'[t] # "inactive"
                          => pc = "process" /\ Op = "Resume" /\ Target = t]_vars

(* A request is served once and answered with an answer to it, although a  *)
(* Resume or Suspend of its sender restarts the system call it is blocked  *)
(* in.  The exception is a thread that asks to be suspended or resumed     *)
(* itself: its own call is the one that is restarted.                      *)
Phase(t) ==
  CASE code[t] # "trap" -> "idle"
    [] kernel[t] = "awaiting" -> "served"
    [] OTHER -> "called"

Svc == INSTANCE Service WITH
  phase <- [t \in Threads |-> Phase(t)],
  request <- req,
  OneWay <- {r \in Requests : r.op \in OneWayOps},
  Answers <- [r \in Requests |-> AnswersTo(r.op)],
  OwnCancel <- [t \in Threads |->
                  {r \in Requests : r.op \in {"Suspend", "Resume"} /\ r.badge = t}]

ImplementsService == Svc!Spec

(* What may keep t's call from returning for ever: t is stopped, or the    *)
(* mutex is with a stopped thread, or t's place in the endpoint's queue is *)
(* taken from it again and again by a Resume.                              *)
Disturbed(t) ==
  \/ Stopped(t)
  \/ HeapBlocked
  \/ pc = "resumed" /\ Target = t

(* Every request of a thread that is left alone is answered, whatever the  *)
(* other threads ask for.                                                  *)
EveryCallReturns ==
  \A t \in Threads :
    <>[]~Disturbed(t) => (code[t] = "trap" ~> code[t] = "user")

(* The server always comes back to seL4_Recv, unless it is kept waiting    *)
(* for the allocator by a thread that was suspended, or put below the      *)
(* others, while it had the mutex.                                         *)
ServerReturns == pc # "recv" ~> pc = "recv" \/ HeapBlocked
=============================================================================
