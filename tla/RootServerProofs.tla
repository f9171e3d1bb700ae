-------------------------- MODULE RootServerProofs --------------------------
(***************************************************************************)
(* Safety of the system call service for any set of threads and any set of *)
(* requests: proofs of the invariants of RootServer, that a suspended      *)
(* thread stays put, and that the service implements the safety part of    *)
(* Service.                                                                *)
(***************************************************************************)
EXTENDS RootServer, SequenceTheorems, TLAPS

-----------------------------------------------------------------------------
(* The inductive invariant.                                                *)

InQueue(t, q) == \E i \in 1..Len(q) : q[i] = t
NoDuplicates(q) == \A i, j \in 1..Len(q) : q[i] = q[j] => i = j

(* The endpoint's queue holds the threads blocked on it, each once.        *)
EndpointExact ==
  /\ NoDuplicates(sendq)
  /\ \A t \in Threads : InQueue(t, sendq) <=> kernel[t] = "queued"

Processing == {"process", "heapwait", "heap", "suspended", "resumed", "reply"}

(* The one reply capability belongs to the thread that waits for the       *)
(* answer, and only while the server is working on its request.            *)
ReplyDue ==
  /\ \A t \in Threads : kernel[t] = "awaiting" => replyTo = t /\ req[t] = msg
  /\ replyTo # None =>
       /\ kernel[replyTo] = "awaiting"
       /\ replyTo = caller
       /\ pc \in Processing
       /\ Op \notin OneWayOps

(* A thread blocked by the kernel, unless suspended, is in a system call   *)
(* that it has filled in.                                                  *)
CallsFilled ==
  \A t \in Threads :
    /\ kernel[t] \in {"queued", "awaiting"} => code[t] = "trap"
    /\ code[t] = "trap" => req[t] \in Requests

(* A thread that was not started does nothing and nothing is done to it.   *)
Unstarted ==
  \A t \in Threads \ threads : /\ kernel[t] = "inactive"
                               /\ state[t] = "Uninitialized"

(* What the server is in the middle of.                                    *)
ServerKnows ==
  /\ pc = "started" => caller \in threads
  /\ pc \in Processing => msg \in Requests
  /\ pc \in {"suspended", "resumed"} => Target \in threads
  /\ pc = "suspended" => Op = "Suspend" /\ kernel[Target] = "inactive"
  /\ pc = "resumed" => Op = "Resume"
  /\ pc = "reply" => answer \in AnswersTo(Op)

IInv ==
  /\ TypeOK
  /\ EndpointExact
  /\ ReplyDue
  /\ CallsFilled
  /\ Unstarted
  /\ ServerKnows
  /\ PausedIsSuspended

-----------------------------------------------------------------------------
(* The endpoint's queue.                                                   *)

LEMMA AppendQueue ==
  ASSUME NEW q \in Seq(Threads), NoDuplicates(q),
         NEW t \in Threads, ~InQueue(t, q)
  PROVE  /\ Append(q, t) \in Seq(Threads)
         /\ NoDuplicates(Append(q, t))
         /\ \A u : InQueue(u, Append(q, t)) <=> InQueue(u, q) \/ u = t
BY AppendProperties DEF NoDuplicates, InQueue

LEMMA TailQueue ==
  ASSUME NEW q \in Seq(Threads), NoDuplicates(q), q # <<>>
  PROVE  /\ Head(q) \in Threads
         /\ InQueue(Head(q), q)
         /\ Tail(q) \in Seq(Threads)
         /\ NoDuplicates(Tail(q))
         /\ \A u : InQueue(u, Tail(q)) <=> InQueue(u, q) /\ u # Head(q)
<1>1. /\ Len(q) \in Nat \ {0}
      /\ Head(q) = q[1]
      /\ Head(q) \in Threads
      /\ Tail(q) \in Seq(Threads)
      /\ Len(Tail(q)) = Len(q) - 1
      /\ \A i \in 1..Len(Tail(q)) : Tail(q)[i] = q[i + 1]
  BY EmptySeq, HeadTailProperties
<1>2. NoDuplicates(Tail(q))
  BY <1>1 DEF NoDuplicates
<1>3. ASSUME NEW u, InQueue(u, Tail(q))
      PROVE  InQueue(u, q) /\ u # Head(q)
  BY <1>1, <1>3 DEF NoDuplicates, InQueue
<1>4. ASSUME NEW u, InQueue(u, q), u # Head(q)
      PROVE  InQueue(u, Tail(q))
  <2>1. PICK i \in 1..Len(q) : q[i] = u
    BY <1>4 DEF InQueue
  <2>2. i - 1 \in 1..Len(Tail(q)) /\ Tail(q)[i - 1] = u
    BY <1>1, <1>4, <2>1
  <2> QED
    BY <2>2 DEF InQueue
<1> QED
  BY <1>1, <1>2, <1>3, <1>4 DEF InQueue

LEMMA WithoutQueue ==
  ASSUME sendq \in Seq(Threads), NoDuplicates(sendq), NEW t \in Threads
  PROVE  /\ Without(t) \in Seq(Threads)
         /\ NoDuplicates(Without(t))
         /\ \A u : InQueue(u, Without(t)) <=> InQueue(u, sendq) /\ u # t
<1>1. CASE ~InQueue(t, sendq)
  BY <1>1 DEF InQueue, Without
<1>2. CASE InQueue(t, sendq)
  <2> DEFINE at == CHOOSE i \in 1..Len(sendq) : sendq[i] = t
             before == SubSeq(sendq, 1, at - 1)
             after == SubSeq(sendq, at + 1, Len(sendq))
             q == Without(t)
  <2>1. at \in 1..Len(sendq) /\ sendq[at] = t
    BY <1>2 DEF InQueue
  <2>2. q = before \o after
    BY <1>2 DEF InQueue, Without
  <2>3. Len(sendq) \in Nat /\ \A i \in 1..Len(sendq) : sendq[i] \in Threads
    BY LenProperties, ElementOfSeq
  <2> HIDE DEF at
  <2>4. /\ before \in Seq(Threads)
        /\ Len(before) = at - 1
        /\ \A i \in 1..(at - 1) : before[i] = sendq[i]
    BY <2>1, <2>3, SubSeqProperties
  <2>5. /\ after \in Seq(Threads)
        /\ Len(after) = Len(sendq) - at
        /\ \A i \in 1..(Len(sendq) - at) : after[i] = sendq[i + at]
    BY <2>1, <2>3, SubSeqProperties
  <2> HIDE DEF before, after, q
  <2>6. /\ q \in Seq(Threads)
        /\ Len(q) = Len(sendq) - 1
        /\ \A i \in 1..(Len(sendq) - 1) :
             q[i] = IF i < at THEN sendq[i] ELSE sendq[i + 1]
    <3>1. /\ q \in Seq(Threads)
          /\ Len(q) = Len(before) + Len(after)
          /\ \A i \in 1..(Len(before) + Len(after)) :
               q[i] = IF i <= Len(before) THEN before[i]
                                          ELSE after[i - Len(before)]
      BY <2>2, <2>4, <2>5, ConcatProperties
    <3>2. Len(before) + Len(after) = Len(sendq) - 1
      BY <2>1, <2>3, <2>4, <2>5
    <3>3. ASSUME NEW i \in 1..(Len(sendq) - 1), i < at
          PROVE  q[i] = sendq[i]
      BY <2>1, <2>3, <2>4, <3>1, <3>2, <3>3
    <3>4. ASSUME NEW i \in 1..(Len(sendq) - 1), ~(i < at)
          PROVE  q[i] = sendq[i + 1]
      <4>1. /\ i - (at - 1) \in 1..(Len(sendq) - at)
            /\ q[i] = after[i - (at - 1)]
        BY <2>1, <2>3, <2>4, <3>1, <3>2, <3>4
      <4> QED
        BY <2>1, <2>3, <2>5, <4>1
    <3> QED
      BY <3>1, <3>2, <3>3, <3>4
  <2>7. NoDuplicates(q)
    BY <2>1, <2>3, <2>6 DEF NoDuplicates
  <2>8. ASSUME NEW u, InQueue(u, q)
        PROVE  InQueue(u, sendq) /\ u # t
    BY <2>1, <2>3, <2>6, <2>8 DEF NoDuplicates, InQueue
  <2>9. ASSUME NEW u, InQueue(u, sendq), u # t
        PROVE  InQueue(u, q)
    <3>1. PICK i \in 1..Len(sendq) : sendq[i] = u
      BY <2>9 DEF InQueue
    <3>2. CASE i < at
      BY <2>1, <2>3, <2>6, <3>1, <3>2 DEF InQueue
    <3>3. CASE i > at
      <4>1. i - 1 \in 1..Len(q) /\ q[i - 1] = u
        BY <2>1, <2>3, <2>6, <3>1, <3>3
      <4> QED
        BY <4>1 DEF InQueue
    <3> QED
      BY <2>1, <2>3, <2>9, <3>1, <3>2, <3>3
  <2> QED
    BY <2>6, <2>7, <2>8, <2>9 DEF q
<1> QED
  BY <1>1, <1>2
-----------------------------------------------------------------------------
(* One lemma per action: it preserves the invariant.                       *)

LEMMA EnterMainInv ==
  ASSUME IInv, NEW t \in Threads, EnterMain(t)
  PROVE  IInv'
<1>1. TypeOK'
  BY ConstAssumption DEF IInv, TypeOK, EnterMain, Moves, ipc, table, lock
<1>2. CallsFilled'
  BY ConstAssumption DEF IInv, TypeOK, CallsFilled, EnterMain, Moves, ipc,
      table, lock
<1>3. Unstarted' /\ PausedIsSuspended'
  BY ConstAssumption DEF IInv, TypeOK, Unstarted, PausedIsSuspended, Target,
      EnterMain, Moves, ipc, table, lock
<1>4. EndpointExact' /\ ReplyDue' /\ ServerKnows'
  BY ConstAssumption DEF IInv, TypeOK, EndpointExact, ReplyDue, ServerKnows,
      Op, Processing, Target, EnterMain, Moves, ipc, table, lock
<1> QED
  BY <1>1, <1>2, <1>3, <1>4 DEF IInv

LEMMA PerformInv ==
  ASSUME IInv, NEW t \in Threads, NEW r \in Requests, Perform(t, r)
  PROVE  IInv'
<1>1. TypeOK'
  BY ConstAssumption DEF IInv, TypeOK, Perform, Moves, ipc, table, lock
<1>2. ReplyDue'
  BY ConstAssumption DEF IInv, TypeOK, ReplyDue, Op, Processing, Perform,
      Moves, ipc, table, lock
<1>3. CallsFilled'
  BY ConstAssumption DEF IInv, TypeOK, CallsFilled, Perform, Moves, ipc,
      table, lock
<1>4. EndpointExact' /\ Unstarted' /\ ServerKnows' /\ PausedIsSuspended'
  BY ConstAssumption DEF IInv, TypeOK, EndpointExact, Unstarted,
      ServerKnows, PausedIsSuspended, Op, Target, Processing, Perform,
      Moves, ipc, table, lock
<1> QED
  BY <1>1, <1>2, <1>3, <1>4 DEF IInv

LEMMA LockHeapInv ==
  ASSUME IInv, NEW t \in Threads, LockHeap(t)
  PROVE  IInv'
<1>1. TypeOK'
  BY ConstAssumption DEF IInv, TypeOK, LockHeap, Moves, Mtx!Enter,
      Mtx!Queue, ipc, table, lock
<1>2. CallsFilled'
  BY ConstAssumption DEF IInv, TypeOK, CallsFilled, LockHeap, Moves,
      Mtx!Enter, Mtx!Queue, ipc, table, lock
<1>3. EndpointExact' /\ ReplyDue' /\ Unstarted' /\ ServerKnows' /\ PausedIsSuspended'
  BY ConstAssumption DEF IInv, TypeOK, EndpointExact, ReplyDue, Unstarted,
      ServerKnows, PausedIsSuspended, Op, Processing, Target, LockHeap,
      Moves, Mtx!Enter, Mtx!Queue, ipc, table, lock
<1> QED
  BY <1>1, <1>2, <1>3 DEF IInv

LEMMA HeapGrantedInv ==
  ASSUME IInv, NEW t \in Threads, HeapGranted(t)
  PROVE  IInv'
<1>1. TypeOK'
  BY ConstAssumption DEF IInv, TypeOK, HeapGranted, Moves, Mtx!Grant, ipc,
      table, lock
<1>2. CallsFilled'
  BY ConstAssumption DEF IInv, TypeOK, CallsFilled, HeapGranted, Moves,
      Mtx!Grant, ipc, table, lock
<1>3. EndpointExact' /\ ReplyDue' /\ Unstarted' /\ ServerKnows' /\ PausedIsSuspended'
  BY ConstAssumption DEF IInv, TypeOK, EndpointExact, ReplyDue, Unstarted,
      ServerKnows, PausedIsSuspended, Op, Processing, Target, HeapGranted,
      Moves, Mtx!Grant, ipc, table, lock
<1> QED
  BY <1>1, <1>2, <1>3 DEF IInv

LEMMA UnlockHeapInv ==
  ASSUME IInv, NEW t \in Threads, UnlockHeap(t)
  PROVE  IInv'
<1>1. TypeOK'
  BY ConstAssumption DEF IInv, TypeOK, UnlockHeap, Moves, Mtx!Release, ipc,
      table, lock
<1>2. CallsFilled'
  BY ConstAssumption DEF IInv, TypeOK, CallsFilled, UnlockHeap, Moves,
      Mtx!Release, ipc, table, lock
<1>3. EndpointExact' /\ ReplyDue' /\ Unstarted' /\ ServerKnows' /\ PausedIsSuspended'
  BY ConstAssumption DEF IInv, TypeOK, EndpointExact, ReplyDue, Unstarted,
      ServerKnows, PausedIsSuspended, Op, Processing, Target, UnlockHeap,
      Moves, Mtx!Release, ipc, table, lock
<1> QED
  BY <1>1, <1>2, <1>3 DEF IInv

LEMMA EntryReturnsInv ==
  ASSUME IInv, NEW t \in Threads, EntryReturns(t)
  PROVE  IInv'
<1>1. TypeOK'
  BY ConstAssumption DEF IInv, TypeOK, EntryReturns, Moves, ipc, table, lock
<1>2. CallsFilled'
  BY ConstAssumption DEF IInv, TypeOK, CallsFilled, EntryReturns, Moves,
      ipc, table, lock
<1>3. Unstarted' /\ PausedIsSuspended'
  BY ConstAssumption DEF IInv, TypeOK, Unstarted, PausedIsSuspended, Target,
      EntryReturns, Moves, ipc, table, lock
<1>4. EndpointExact' /\ ReplyDue' /\ ServerKnows'
  BY ConstAssumption DEF IInv, TypeOK, EndpointExact, ReplyDue, ServerKnows,
      Op, Processing, Target, EntryReturns, Moves, ipc, table, lock
<1> QED
  BY <1>1, <1>2, <1>3, <1>4 DEF IInv

LEMMA MarkStartedInv ==
  ASSUME IInv, MarkStarted
  PROVE  IInv'
<1>1. TypeOK'
  BY ConstAssumption DEF IInv, TypeOK, MarkStarted, Serve, ipc, table, lock
<1>2. ReplyDue'
  BY ConstAssumption DEF IInv, TypeOK, ReplyDue, Op, Processing,
      MarkStarted, Serve, ipc, table, lock
<1>3. Unstarted' /\ PausedIsSuspended'
  BY ConstAssumption DEF IInv, TypeOK, Unstarted, PausedIsSuspended,
      ServerKnows, Target, MarkStarted, Serve, ipc, table, lock
<1>4. ServerKnows'
  BY ConstAssumption DEF IInv, TypeOK, ServerKnows, Op, Target, Processing,
      MarkStarted, Serve, ipc, table, lock
<1>5. EndpointExact' /\ CallsFilled'
  BY ConstAssumption DEF IInv, TypeOK, EndpointExact, CallsFilled,
      MarkStarted, Serve, ipc, table, lock
<1> QED
  BY <1>1, <1>2, <1>3, <1>4, <1>5 DEF IInv

LEMMA EnterLoopInv ==
  ASSUME IInv, EnterLoop
  PROVE  IInv'
<1>1. TypeOK'
  BY ConstAssumption DEF IInv, TypeOK, EnterLoop, Serve, ipc, table, lock
<1>2. ReplyDue' /\ ServerKnows' /\ PausedIsSuspended'
  BY ConstAssumption DEF IInv, TypeOK, ReplyDue, ServerKnows,
      PausedIsSuspended, Op, Processing, Target, EnterLoop, Serve, ipc,
      table, lock
<1>3. EndpointExact' /\ CallsFilled' /\ Unstarted'
  BY ConstAssumption DEF IInv, TypeOK, EndpointExact, CallsFilled,
      Unstarted, EnterLoop, Serve, ipc, table, lock
<1> QED
  BY <1>1, <1>2, <1>3 DEF IInv

LEMMA ProcessDebugInv ==
  ASSUME IInv, ProcessDebug
  PROVE  IInv'
<1>1. TypeOK'
  BY ConstAssumption DEF IInv, TypeOK, ProcessDebug, Serve, OneWayOps, ipc,
      table, lock
<1>2. ReplyDue' /\ ServerKnows' /\ PausedIsSuspended'
  BY ConstAssumption DEF IInv, TypeOK, ReplyDue, ServerKnows,
      PausedIsSuspended, Op, Processing, Target, ProcessDebug, Serve,
      OneWayOps, ipc, table, lock
<1>3. EndpointExact' /\ CallsFilled' /\ Unstarted'
  BY ConstAssumption DEF IInv, TypeOK, EndpointExact, CallsFilled,
      Unstarted, ProcessDebug, Serve, OneWayOps, ipc, table, lock
<1> QED
  BY <1>1, <1>2, <1>3 DEF IInv

LEMMA ProcessHeapInv ==
  ASSUME IInv, ProcessHeap
  PROVE  IInv'
<1>1. TypeOK'
  BY ConstAssumption DEF IInv, TypeOK, ProcessHeap, Serve, Mtx!Enter,
      Mtx!Queue, ipc, table, lock
<1>2. ReplyDue' /\ ServerKnows' /\ PausedIsSuspended'
  BY ConstAssumption DEF IInv, TypeOK, ReplyDue, ServerKnows,
      PausedIsSuspended, Op, Processing, Target, ProcessHeap, Serve,
      Mtx!Enter, Mtx!Queue, ipc, table, lock
<1>3. EndpointExact' /\ CallsFilled' /\ Unstarted'
  BY ConstAssumption DEF IInv, TypeOK, EndpointExact, CallsFilled,
      Unstarted, ProcessHeap, Serve, Mtx!Enter, Mtx!Queue, ipc, table, lock
<1> QED
  BY <1>1, <1>2, <1>3 DEF IInv

LEMMA ServerGrantedInv ==
  ASSUME IInv, ServerGranted
  PROVE  IInv'
<1>1. TypeOK'
  BY ConstAssumption DEF IInv, TypeOK, ServerGranted, Serve, Mtx!Grant, ipc,
      table, lock
<1>2. ReplyDue' /\ ServerKnows' /\ PausedIsSuspended'
  BY ConstAssumption DEF IInv, TypeOK, ReplyDue, ServerKnows,
      PausedIsSuspended, Op, Processing, Target, ServerGranted, Serve,
      Mtx!Grant, ipc, table, lock
<1>3. EndpointExact' /\ CallsFilled' /\ Unstarted'
  BY ConstAssumption DEF IInv, TypeOK, EndpointExact, CallsFilled,
      Unstarted, ServerGranted, Serve, Mtx!Grant, ipc, table, lock
<1> QED
  BY <1>1, <1>2, <1>3 DEF IInv

LEMMA ServerUnlocksInv ==
  ASSUME IInv, ServerUnlocks
  PROVE  IInv'
<1>1. TypeOK'
  BY ConstAssumption DEF IInv, TypeOK, ServerUnlocks, Serve, Mtx!Release,
      Answer, ipc, table, lock, AnswersTo
<1>2. ReplyDue' /\ ServerKnows' /\ PausedIsSuspended'
  BY ConstAssumption DEF IInv, TypeOK, ReplyDue, ServerKnows,
      PausedIsSuspended, Op, Processing, Target, ServerUnlocks, Serve,
      Mtx!Release, Answer, ipc, table, lock
<1>3. EndpointExact' /\ CallsFilled' /\ Unstarted'
  BY ConstAssumption DEF IInv, TypeOK, EndpointExact, CallsFilled,
      Unstarted, ServerUnlocks, Serve, Mtx!Release, Answer, ipc, table, lock
<1> QED
  BY <1>1, <1>2, <1>3 DEF IInv

LEMMA ProcessPlainInv ==
  ASSUME IInv, ProcessPlain
  PROVE  IInv'
<1>1. TypeOK'
  BY ConstAssumption DEF IInv, TypeOK, ProcessPlain, Serve, Answer, ipc,
      table, lock, AnswersTo
<1>2. ReplyDue' /\ ServerKnows' /\ PausedIsSuspended'
  BY ConstAssumption DEF IInv, TypeOK, ReplyDue, ServerKnows,
      PausedIsSuspended, Op, Processing, Target, ProcessPlain, Serve,
      Answer, ipc, table, lock
<1>3. EndpointExact' /\ CallsFilled' /\ Unstarted'
  BY ConstAssumption DEF IInv, TypeOK, EndpointExact, CallsFilled,
      Unstarted, ProcessPlain, Serve, Answer, ipc, table, lock
<1> QED
  BY <1>1, <1>2, <1>3 DEF IInv

LEMMA ProcessUnknownInv ==
  ASSUME IInv, ProcessUnknown
  PROVE  IInv'
<1>1. TypeOK'
  BY ConstAssumption DEF IInv, TypeOK, ProcessUnknown, Serve, Answer, ipc,
      table, lock, AnswersTo
<1>2. ReplyDue' /\ ServerKnows' /\ PausedIsSuspended'
  BY ConstAssumption DEF IInv, TypeOK, ReplyDue, ServerKnows,
      PausedIsSuspended, Op, Processing, Target, ProcessUnknown, Serve,
      Answer, ipc, table, lock
<1>3. EndpointExact' /\ CallsFilled' /\ Unstarted'
  BY ConstAssumption DEF IInv, TypeOK, EndpointExact, CallsFilled,
      Unstarted, ProcessUnknown, Serve, Answer, ipc, table, lock
<1> QED
  BY <1>1, <1>2, <1>3 DEF IInv

LEMMA ProcessSetPriorityInv ==
  ASSUME IInv, ProcessSetPriority
  PROVE  IInv'
<1>1. TypeOK'
  BY ConstAssumption DEF IInv, TypeOK, ProcessSetPriority, Serve, Answer,
      ipc, table, lock, AnswersTo
<1>2. ReplyDue' /\ ServerKnows' /\ PausedIsSuspended'
  BY ConstAssumption DEF IInv, TypeOK, ReplyDue, ServerKnows,
      PausedIsSuspended, Op, Processing, Target, ProcessSetPriority, Serve,
      Answer, ipc, table, lock
<1>3. EndpointExact' /\ CallsFilled' /\ Unstarted'
  BY ConstAssumption DEF IInv, TypeOK, EndpointExact, CallsFilled,
      Unstarted, ProcessSetPriority, Serve, Answer, ipc, table, lock
<1> QED
  BY <1>1, <1>2, <1>3 DEF IInv

LEMMA MarkPausedInv ==
  ASSUME IInv, MarkPaused
  PROVE  IInv'
<1>1. TypeOK'
  BY ConstAssumption DEF IInv, TypeOK, MarkPaused, Serve, Answer, ipc,
      table, lock, AnswersTo
<1>2. ReplyDue'
  BY ConstAssumption DEF IInv, TypeOK, ReplyDue, Op, Processing, MarkPaused,
      Serve, Answer, ipc, table, lock
<1>3. Unstarted' /\ PausedIsSuspended'
  BY ConstAssumption DEF IInv, TypeOK, Unstarted, PausedIsSuspended,
      ServerKnows, Target, MarkPaused, Serve, Answer, ipc, table, lock
<1>4. ServerKnows'
  BY ConstAssumption DEF IInv, TypeOK, ServerKnows, Op, Target, Processing,
      MarkPaused, Serve, Answer, ipc, table, lock
<1>5. EndpointExact' /\ CallsFilled'
  BY ConstAssumption DEF IInv, TypeOK, EndpointExact, CallsFilled,
      MarkPaused, Serve, Answer, ipc, table, lock
<1> QED
  BY <1>1, <1>2, <1>3, <1>4, <1>5 DEF IInv

LEMMA MarkRunningInv ==
  ASSUME IInv, MarkRunning
  PROVE  IInv'
<1>1. TypeOK'
  BY ConstAssumption DEF IInv, TypeOK, MarkRunning, Serve, Answer, ipc,
      table, lock, AnswersTo
<1>2. ReplyDue'
  BY ConstAssumption DEF IInv, TypeOK, ReplyDue, Op, Processing,
      MarkRunning, Serve, Answer, ipc, table, lock
<1>3. Unstarted' /\ PausedIsSuspended'
  BY ConstAssumption DEF IInv, TypeOK, Unstarted, PausedIsSuspended,
      ServerKnows, Target, MarkRunning, Serve, Answer, ipc, table, lock
<1>4. ServerKnows'
  BY ConstAssumption DEF IInv, TypeOK, ServerKnows, Op, Target, Processing,
      MarkRunning, Serve, Answer, ipc, table, lock
<1>5. EndpointExact' /\ CallsFilled'
  BY ConstAssumption DEF IInv, TypeOK, EndpointExact, CallsFilled,
      MarkRunning, Serve, Answer, ipc, table, lock
<1> QED
  BY <1>1, <1>2, <1>3, <1>4, <1>5 DEF IInv

LEMMA StartThreadInv ==
  ASSUME IInv, NEW t \in Threads, StartThread(t)
  PROVE  IInv'
<1>1. TypeOK'
  BY DEF IInv, TypeOK, StartThread, Serve, lock
<1>2. EndpointExact'
  BY DEF IInv, TypeOK, EndpointExact, Unstarted, StartThread
<1>3. ReplyDue'
  BY ConstAssumption DEF IInv, TypeOK, ReplyDue, Unstarted, Op, Processing,
      StartThread, Serve, ipc, table, lock
<1>4. CallsFilled'
  BY ConstAssumption DEF IInv, TypeOK, CallsFilled, StartThread, Serve, ipc,
      table, lock
<1>5. Unstarted' /\ PausedIsSuspended'
  BY ConstAssumption DEF IInv, TypeOK, Unstarted, PausedIsSuspended, Target,
      StartThread, Serve, ipc, table, lock
<1>6. ServerKnows'
  BY ConstAssumption DEF IInv, TypeOK, ServerKnows, Op, Target, Processing,
      StartThread, Serve, ipc, table, lock
<1> QED
  BY <1>1, <1>2, <1>3, <1>4, <1>5, <1>6 DEF IInv

LEMMA ReplyInv ==
  ASSUME IInv, Reply
  PROVE  IInv'
<1>0. answer \in {"pointer", "NULL", "12345", "0"}
  BY DEF IInv, ServerKnows, AnswersTo, Reply, Serve
<1>1. TypeOK'
  BY <1>0, ConstAssumption DEF IInv, TypeOK, Reply, Serve, ipc, table, lock
<1>2. EndpointExact'
  BY ConstAssumption DEF IInv, TypeOK, EndpointExact, ReplyDue, Reply,
      Serve, ipc, table, lock
<1>3. ReplyDue'
  BY ConstAssumption DEF IInv, TypeOK, ReplyDue, Op, Processing, Reply,
      Serve, ipc, table, lock
<1>4. CallsFilled'
  BY ConstAssumption DEF IInv, TypeOK, CallsFilled, ReplyDue, Reply, Serve,
      ipc, table, lock
<1>5. Unstarted' /\ PausedIsSuspended'
  BY ConstAssumption DEF IInv, TypeOK, Unstarted, PausedIsSuspended,
      ReplyDue, Target, Reply, Serve, ipc, table, lock
<1>6. ServerKnows'
  BY ConstAssumption DEF IInv, TypeOK, ServerKnows, Op, Target, Processing,
      Reply, Serve, ipc, table, lock
<1> QED
  BY <1>1, <1>2, <1>3, <1>4, <1>5, <1>6 DEF IInv

LEMMA TrapInv ==
  ASSUME IInv, NEW t \in Threads, Trap(t)
  PROVE  IInv'
<1>1. /\ kernel[t] = "ready" /\ code[t] = "trap" /\ code' = code
      /\ kernel' = [kernel EXCEPT ![t] = "queued"]
      /\ sendq' = Append(sendq, t)
  BY DEF IInv, TypeOK, Trap, Moves
<1>2. /\ sendq' \in Seq(Threads)
      /\ NoDuplicates(sendq')
      /\ \A u : InQueue(u, sendq') <=> InQueue(u, sendq) \/ u = t
  BY <1>1, AppendQueue DEF IInv, TypeOK, EndpointExact
<1>3. TypeOK'
  BY <1>1, <1>2 DEF IInv, TypeOK, Trap, table, lock
<1>4. EndpointExact'
  BY <1>1, <1>2 DEF IInv, TypeOK, EndpointExact
<1>5. ReplyDue' /\ CallsFilled'
  BY <1>1, ConstAssumption
     DEF IInv, TypeOK, ReplyDue, CallsFilled, Trap, Op, Processing
<1>6. Unstarted' /\ PausedIsSuspended' /\ ServerKnows'
  BY <1>1 DEF IInv, TypeOK, Unstarted, PausedIsSuspended, ServerKnows, Trap,
              Op, Target, Processing, table
<1> QED
  BY <1>3, <1>4, <1>5, <1>6 DEF IInv

LEMMA ReceiveInv ==
  ASSUME IInv, Receive
  PROVE  IInv'
<1> DEFINE t == Head(sendq)
<1>1. /\ t \in Threads
      /\ kernel[t] = "queued"
      /\ sendq' \in Seq(Threads)
      /\ NoDuplicates(sendq')
      /\ \A u : InQueue(u, sendq') <=> InQueue(u, sendq) /\ u # t
  BY TailQueue DEF IInv, TypeOK, EndpointExact, Receive
<1>2. code[t] = "trap" /\ req[t] \in Requests /\ t \in threads
  BY <1>1 DEF IInv, CallsFilled, Unstarted
<1>3. pc = "recv" /\ replyTo = None /\ \A u \in Threads : kernel[u] # "awaiting"
  BY ConstAssumption DEF IInv, TypeOK, ReplyDue, Receive, Serve, Processing
<1>4. /\ pc' = "process" /\ caller' = t /\ msg' = req[t] /\ answer' = NoAnswer
      /\ UNCHANGED <<req, result, table, lock>>
  BY DEF Receive, Serve
<1>5. CASE req[t].op \in OneWayOps
  <2>1. /\ replyTo' = None
        /\ kernel' = [kernel EXCEPT ![t] = "ready"]
        /\ code' = [code EXCEPT ![t] = "user"]
    BY <1>5 DEF Receive
  <2> HIDE DEF t
  <2>2. TypeOK'
    BY <1>1, <1>2, <1>4, <2>1 DEF IInv, TypeOK, table, lock
  <2>3. EndpointExact'
    BY <1>1, <2>1 DEF IInv, TypeOK, EndpointExact
  <2>4. ReplyDue' /\ CallsFilled'
    BY <1>1, <1>3, <1>4, <2>1 DEF IInv, TypeOK, ReplyDue, CallsFilled
  <2>5. Unstarted' /\ PausedIsSuspended' /\ ServerKnows'
    BY <1>1, <1>2, <1>3, <1>4, <2>1
       DEF IInv, TypeOK, Unstarted, PausedIsSuspended, ServerKnows, table
  <2> QED
    BY <2>2, <2>3, <2>4, <2>5 DEF IInv
<1>6. CASE req[t].op \notin OneWayOps
  <2>1. /\ replyTo' = t
        /\ kernel' = [kernel EXCEPT ![t] = "awaiting"]
        /\ code' = code
    BY <1>1, <1>6 DEF IInv, TypeOK, Receive
  <2> HIDE DEF t
  <2>2. TypeOK'
    BY <1>1, <1>2, <1>4, <2>1 DEF IInv, TypeOK, table, lock
  <2>3. EndpointExact'
    BY <1>1, <2>1 DEF IInv, TypeOK, EndpointExact
  <2>4. ReplyDue' /\ CallsFilled'
    BY <1>1, <1>2, <1>3, <1>4, <1>6, <2>1
       DEF IInv, TypeOK, ReplyDue, CallsFilled, Op, Processing
  <2>5. Unstarted' /\ PausedIsSuspended' /\ ServerKnows'
    BY <1>1, <1>2, <1>3, <1>4, <2>1
       DEF IInv, TypeOK, Unstarted, PausedIsSuspended, ServerKnows, table
  <2> QED
    BY <2>2, <2>3, <2>4, <2>5 DEF IInv
<1> QED
  BY <1>5, <1>6

(* cancelIPC leaves the queue exact and takes back the reply capability.   *)
LEMMA Cancelled ==
  ASSUME IInv, NEW t \in Threads, CancelIPC(t),
         NEW k \in {"inactive", "ready"}, kernel' = [kernel EXCEPT ![t] = k]
  PROVE  /\ sendq' \in Seq(Threads)
         /\ replyTo' \in Threads \cup {None}
         /\ EndpointExact'
         /\ \A u \in Threads : kernel'[u] = "awaiting" =>
                                 kernel[u] = "awaiting" /\ replyTo' = u
         /\ replyTo' # None => /\ replyTo' = replyTo
                               /\ kernel'[replyTo] = "awaiting"
<1>1. /\ sendq' \in Seq(Threads)
      /\ NoDuplicates(sendq')
      /\ \A u : InQueue(u, sendq') <=> InQueue(u, sendq) /\ u # t
  BY WithoutQueue DEF IInv, TypeOK, EndpointExact, CancelIPC
<1>2. EndpointExact'
  BY <1>1 DEF IInv, TypeOK, EndpointExact
<1> QED
  BY <1>1, <1>2 DEF IInv, TypeOK, ReplyDue, CancelIPC

LEMMA SuspendSelfInv ==
  ASSUME IInv, NEW t \in Threads, SuspendSelf(t)
  PROVE  IInv'
<1>1. /\ kernel[t] = "ready" /\ code' = code
      /\ CancelIPC(t)
      /\ kernel' = [kernel EXCEPT ![t] = "inactive"]
      /\ UNCHANGED <<req, result, table, pc, caller, msg, answer, lock>>
  BY DEF IInv, TypeOK, SuspendSelf, Moves, TCBSuspend
<1>2. /\ EndpointExact' /\ sendq' \in Seq(Threads)
      /\ replyTo' \in Threads \cup {None}
  BY <1>1, Cancelled
<1>3. TypeOK'
  BY <1>1, <1>2 DEF IInv, TypeOK, table, lock
<1>4. ReplyDue' /\ CallsFilled'
  BY <1>1, Cancelled DEF IInv, TypeOK, ReplyDue, CallsFilled, Op
<1>5. Unstarted' /\ PausedIsSuspended' /\ ServerKnows'
  BY <1>1 DEF IInv, TypeOK, Unstarted, PausedIsSuspended, ServerKnows, Op,
              Target, table
<1> QED
  BY <1>2, <1>3, <1>4, <1>5 DEF IInv

LEMMA ProcessSuspendInv ==
  ASSUME IInv, ProcessSuspend
  PROVE  IInv'
<1>1. /\ pc = "process" /\ pc' = "suspended"
      /\ Op = "Suspend" /\ Target \in threads /\ Target \in Threads
      /\ CancelIPC(Target)
      /\ kernel' = [kernel EXCEPT ![Target] = "inactive"]
      /\ UNCHANGED <<code, req, result, table, caller, msg, answer, lock>>
  BY DEF IInv, TypeOK, ProcessSuspend, Serve, TCBSuspend
<1>2. /\ EndpointExact' /\ sendq' \in Seq(Threads)
      /\ replyTo' \in Threads \cup {None}
  BY <1>1, Cancelled
<1>3. TypeOK'
  BY <1>1, <1>2 DEF IInv, TypeOK, table, lock
<1>4. ReplyDue' /\ CallsFilled'
  <2>1. ReplyDue'
    <3>1. /\ \A u \in Threads : kernel'[u] = "awaiting" =>
                                  kernel[u] = "awaiting" /\ replyTo' = u
          /\ replyTo' # None => /\ replyTo' = replyTo
                                /\ kernel'[replyTo] = "awaiting"
      BY <1>1, Cancelled
    <3>2. msg' = msg /\ req' = req /\ caller' = caller /\ pc' \in Processing
      BY <1>1 DEF Processing
    <3> QED
      BY <3>1, <3>2 DEF IInv, ReplyDue, Op
  <2>2. CallsFilled'
    BY <1>1 DEF IInv, TypeOK, CallsFilled, Op
  <2> QED
    BY <2>1, <2>2
<1>5. Unstarted' /\ PausedIsSuspended' /\ ServerKnows'
  BY <1>1 DEF IInv, TypeOK, Unstarted, PausedIsSuspended, ServerKnows, Op,
              Target, Processing, table
<1> QED
  BY <1>2, <1>3, <1>4, <1>5 DEF IInv

LEMMA ProcessResumeInv ==
  ASSUME IInv, ProcessResume
  PROVE  IInv'
<1>1. /\ pc = "process" /\ pc' = "resumed"
      /\ Op = "Resume" /\ Target \in threads /\ Target \in Threads
      /\ UNCHANGED <<code, req, result, table, caller, msg, answer, lock>>
  BY DEF IInv, TypeOK, ProcessResume, Serve
<1>2. CASE kernel[Target] = "ready"
  <2>1. UNCHANGED ipc
    BY <1>2 DEF ProcessResume, TCBResume
  <2>2. TypeOK' /\ EndpointExact'
    BY <1>1, <2>1 DEF IInv, TypeOK, EndpointExact, ipc, table, lock
  <2>3. ReplyDue' /\ CallsFilled'
    BY <1>1, <2>1 DEF IInv, ReplyDue, CallsFilled, Op, Processing, ipc
  <2>4. Unstarted' /\ PausedIsSuspended' /\ ServerKnows'
    BY <1>1, <2>1 DEF IInv, Unstarted, PausedIsSuspended, ServerKnows, Op,
                      Target, Processing, ipc, table
  <2> QED
    BY <2>2, <2>3, <2>4 DEF IInv
<1>3. CASE kernel[Target] # "ready"
  <2>1. CancelIPC(Target) /\ kernel' = [kernel EXCEPT ![Target] = "ready"]
    BY <1>3 DEF ProcessResume, TCBResume
  <2>2. TypeOK' /\ EndpointExact'
    BY <1>1, <2>1, Cancelled DEF IInv, TypeOK, table, lock
  <2>3. ReplyDue' /\ CallsFilled'
    <3>1. ReplyDue'
      <4>1. /\ \A u \in Threads : kernel'[u] = "awaiting" =>
                                    kernel[u] = "awaiting" /\ replyTo' = u
            /\ replyTo' # None => /\ replyTo' = replyTo
                                  /\ kernel'[replyTo] = "awaiting"
        BY <1>1, <2>1, Cancelled
      <4>2. msg' = msg /\ req' = req /\ caller' = caller /\ pc' \in Processing
        BY <1>1 DEF Processing
      <4> QED
        BY <4>1, <4>2 DEF IInv, ReplyDue, Op
    <3>2. CallsFilled'
      BY <1>1, <2>1 DEF IInv, TypeOK, CallsFilled, Op
    <3> QED
      BY <3>1, <3>2
  <2>4. Unstarted' /\ PausedIsSuspended' /\ ServerKnows'
    BY <1>1, <2>1 DEF IInv, TypeOK, Unstarted, PausedIsSuspended, ServerKnows,
                      Op, Target, Processing, table
  <2> QED
    BY <2>2, <2>3, <2>4 DEF IInv
<1> QED
  BY <1>2, <1>3

LEMMA InitInv == Init => IInv
<1> SUFFICES ASSUME Init PROVE IInv
  OBVIOUS
<1>1. TypeOK
  BY EmptySeq DEF Init, TypeOK, Mtx!Init
<1>2. EndpointExact
  BY DEF Init, EndpointExact, NoDuplicates, InQueue
<1> QED
  BY <1>1, <1>2 DEF Init, IInv, ReplyDue, CallsFilled, Unstarted, ServerKnows,
                    PausedIsSuspended, NoRequest, Processing

LEMMA StepInv == IInv /\ [Next]_vars => IInv'
<1> SUFFICES ASSUME IInv, [Next]_vars PROVE IInv'
  OBVIOUS
<1>1. CASE UNCHANGED vars
  BY <1>1 DEF vars, ipc, table, lock, IInv, TypeOK, EndpointExact, ReplyDue,
              CallsFilled, Unstarted, ServerKnows, PausedIsSuspended, Op,
              Target
<1>2. ASSUME NEW t \in Threads, Client(t) PROVE IInv'
  BY <1>2, EnterMainInv, PerformInv, TrapInv, LockHeapInv, HeapGrantedInv,
     UnlockHeapInv, EntryReturnsInv, SuspendSelfInv DEF Client, ClientStep
<1>3. CASE ServerStep
  BY <1>3, StartThreadInv, MarkStartedInv, EnterLoopInv, ReceiveInv,
     ProcessDebugInv, ProcessHeapInv, ServerUnlocksInv, ProcessPlainInv,
     ProcessUnknownInv, ProcessSetPriorityInv, ProcessSuspendInv,
     MarkPausedInv, ProcessResumeInv, MarkRunningInv, ReplyInv DEF ServerStep
<1> QED
  BY <1>1, <1>2, <1>3, ServerGrantedInv DEF Next

-----------------------------------------------------------------------------
(* The inductive invariant holds.                                          *)
LEMMA Invariance == Spec => []IInv
BY InitInv, StepInv, PTL DEF Spec

(* Every variable of the service keeps its type, whatever the threads ask  *)
(* for and wherever they are preempted.                                    *)
THEOREM TypeCorrect == Spec => []TypeOK
<1>1. IInv => TypeOK
  BY DEF IInv
<1> QED
  BY <1>1, Invariance, PTL

(* No path through processSyscall forgets the thread whose call it serves. *)
THEOREM NoOrphanedCallHolds == Spec => []NoOrphanedCall
<1>1. IInv => NoOrphanedCall
  BY ConstAssumption DEF IInv, ReplyDue, Processing, NoOrphanedCall
<1> QED
  BY <1>1, Invariance, PTL

(* A thread that Thread::_state calls paused does not run, except between  *)
(* the kernel call of Thread::resume and the update of _state.             *)
THEOREM PausedIsSuspendedHolds == Spec => []PausedIsSuspended
<1>1. IInv => PausedIsSuspended
  BY DEF IInv
<1> QED
  BY <1>1, Invariance, PTL

-----------------------------------------------------------------------------
(* A suspended thread is only put back to work by a Resume of it: neither  *)
(* a reply on its way nor a call it had queued wakes it.                   *)
THEOREM SuspendedStaysPutHolds == Spec => SuspendedStaysPut
<1> DEFINE Woken(t) == kernel[t] = "inactive" /\ kernel'[t] # "inactive"
<1>1. ASSUME IInv, [Next]_vars, NEW t \in threads, Woken(t)
      PROVE  pc = "process" /\ Op = "Resume" /\ Target = t
  <2>1. t \in Threads
    BY <1>1 DEF IInv, TypeOK
  <2>2. ASSUME NEW u \in Threads, Client(u) PROVE FALSE
    BY <1>1, <2>1, <2>2
       DEF IInv, TypeOK, Client, ClientStep, EnterMain, Trap, UnlockHeap,
           SuspendSelf, TCBSuspend, HeapGranted, LockHeap, EntryReturns,
           Perform, Moves, ipc
  <2>3. ~Receive
    BY <1>1, <2>1, TailQueue DEF IInv, TypeOK, EndpointExact, Receive
  <2>4. ~Reply
    BY <1>1, <2>1 DEF IInv, TypeOK, ReplyDue, Reply
  <2>5. ~ProcessSuspend
    BY <1>1, <2>1 DEF IInv, TypeOK, ProcessSuspend, TCBSuspend
  <2>6. kernel' # kernel
    BY <1>1
  <2>7. CASE ServerStep
    <3>1. ~\E u \in Threads : StartThread(u)
      BY <1>1, <2>1 DEF IInv, TypeOK, StartThread
    <3>2. ProcessResume
      BY <2>3, <2>4, <2>5, <2>6, <2>7, <3>1
         DEF ServerStep, MarkStarted, EnterLoop, ProcessDebug, ProcessHeap,
             ServerUnlocks, ProcessPlain, ProcessUnknown, ProcessSetPriority,
             MarkPaused, MarkRunning, ipc
    <3> QED
      BY <1>1, <2>1, <3>2
         DEF IInv, TypeOK, ProcessResume, TCBResume, Serve, ipc
  <2> QED
    BY <1>1, <2>2, <2>6, <2>7 DEF Next, ServerGranted, vars, ipc
<1>2. IInv /\ [Next]_vars =>
        [\A t \in threads : Woken(t)
            => pc = "process" /\ Op = "Resume" /\ Target = t]_vars
  BY <1>1
<1> QED
  BY <1>2, Invariance, PTL DEF Spec, SuspendedStaysPut

-----------------------------------------------------------------------------
(* The service implements Service.                                         *)

Phases == [t \in Threads |-> Phase(t)]

(* A step after which every thread is in the phase it was in is a stutter. *)
LEMMA SamePhases ==
  ASSUME \A u \in Threads : Phase(u)' = Phase(u), UNCHANGED <<req, result>>
  PROVE  UNCHANGED Svc!vars
BY DEF Svc!vars

(* A step that moves one thread from one phase to another.                 *)
LEMMA OnePhase ==
  ASSUME NEW t \in Threads, NEW from, NEW to,
         Phase(t) = from, Phase(t)' = to,
         \A u \in Threads \ {t} : Phase(u)' = Phase(u)
  PROVE  Svc!Moves(t, from, to)
<1>1. Phases[t] = from
  BY DEF Phases
<1>2. Phases' = [Phases EXCEPT ![t] = to]
  BY DEF Phases
<1> QED
  BY <1>1, <1>2 DEF Svc!Moves, Phases

LEMMA ClientRefines ==
  ASSUME IInv, NEW t \in Threads, Client(t)
  PROVE  [Svc!Next]_(Svc!vars)
<1>1. CASE EnterMain(t) \/ LockHeap(t) \/ HeapGranted(t) \/ UnlockHeap(t)
             \/ EntryReturns(t)
  <2>1. /\ \E to : to # "trap" /\ code' = [code EXCEPT ![t] = to]
        /\ code[t] # "trap"
        /\ UNCHANGED <<kernel, req, result>>
    BY <1>1 DEF EnterMain, LockHeap, HeapGranted, UnlockHeap, EntryReturns,
                Moves, ipc
  <2>2. \A u \in Threads : Phase(u)' = Phase(u)
    BY <2>1 DEF IInv, TypeOK, Phase
  <2> QED
    BY <2>1, <2>2, SamePhases
<1>2. CASE Trap(t)
  <2>1. /\ kernel[t] = "ready" /\ code' = code
        /\ kernel' = [kernel EXCEPT ![t] = "queued"]
        /\ UNCHANGED <<req, result>>
    BY <1>2 DEF IInv, TypeOK, Trap, Moves
  <2>2. \A u \in Threads : Phase(u)' = Phase(u)
    BY <2>1 DEF IInv, TypeOK, Phase
  <2> QED
    BY <2>1, <2>2, SamePhases
<1>3. CASE SuspendSelf(t)
  <2>1. /\ code[t] = "exit" /\ code' = code
        /\ kernel' = [kernel EXCEPT ![t] = "inactive"]
        /\ UNCHANGED <<req, result>>
    BY <1>3 DEF IInv, TypeOK, SuspendSelf, TCBSuspend, Moves
  <2>2. \A u \in Threads : Phase(u)' = Phase(u)
    BY <2>1 DEF IInv, TypeOK, Phase
  <2> QED
    BY <2>1, <2>2, SamePhases
<1>4. ASSUME NEW r \in Requests, Perform(t, r)
      PROVE  Svc!Call(t, r)
  <2>1. /\ kernel[t] = "ready" /\ code[t] = "user"
        /\ code' = [code EXCEPT ![t] = "trap"]
        /\ kernel' = kernel
        /\ req' = [req EXCEPT ![t] = r]
        /\ result' = [result EXCEPT ![t] = NoAnswer]
    BY <1>4 DEF Perform, Moves, ipc
  <2>2. /\ Phase(t) = "idle" /\ Phase(t)' = "called"
        /\ \A u \in Threads \ {t} : Phase(u)' = Phase(u)
    BY <2>1 DEF IInv, TypeOK, Phase
  <2>3. Svc!Moves(t, "idle", "called")
    BY <2>2, OnePhase
  <2> QED
    BY <2>1, <2>3 DEF Svc!Call
<1> QED
  BY <1>1, <1>2, <1>3, <1>4 DEF Client, ClientStep, Svc!Next

(* A call that is being served and is cancelled by the server is its own   *)
(* request's doing.                                                        *)
LEMMA CancelRefines ==
  ASSUME IInv, pc = "process", Op \in {"Suspend", "Resume"}, Target \in Threads,
         NEW k \in {"inactive", "ready"},
         kernel' = [kernel EXCEPT ![Target] = k],
         UNCHANGED <<code, req, result>>
  PROVE  [Svc!Next]_(Svc!vars)
<1>1. PICK t \in Threads : t = Target
  OBVIOUS
<1>2. \A u \in Threads \ {t} : Phase(u)' = Phase(u)
  BY <1>1 DEF IInv, TypeOK, Phase
<1>3. CASE kernel[t] # "awaiting"
  <2>1. \A u \in Threads : Phase(u)' = Phase(u)
    BY <1>1, <1>2, <1>3 DEF IInv, TypeOK, Phase
  <2> QED
    BY <2>1, SamePhases
<1>4. CASE kernel[t] = "awaiting"
  <2>1. req[t] = msg /\ msg \in Requests /\ code[t] = "trap"
    BY <1>4 DEF IInv, ReplyDue, CallsFilled, ServerKnows, Processing
  <2>2. Phase(t) = "served" /\ Phase(t)' = "called"
    BY <1>1, <1>4, <2>1 DEF IInv, TypeOK, Phase
  <2>3. Svc!Moves(t, "served", "called")
    BY <1>2, <2>2, OnePhase
  <2>4. Svc!Restart(t)
    BY <1>1, <2>1, <2>3 DEF Svc!Restart, Op, Target
  <2> QED
    BY <2>4 DEF Svc!Next
<1> QED
  BY <1>3, <1>4

LEMMA ReceiveRefines ==
  ASSUME IInv, Receive
  PROVE  Svc!Next
<1>1. PICK t \in Threads : t = Head(sendq) /\ kernel[t] = "queued"
  BY TailQueue DEF IInv, TypeOK, EndpointExact, Receive
<1>2. code[t] = "trap" /\ req[t] \in Requests
  BY <1>1 DEF IInv, CallsFilled
<1>3. CASE req[t].op \in OneWayOps
  <2>1. /\ kernel' = [kernel EXCEPT ![t] = "ready"]
        /\ code' = [code EXCEPT ![t] = "user"]
        /\ UNCHANGED <<req, result>>
    BY <1>1, <1>3 DEF Receive
  <2>2. /\ Phase(t) = "called" /\ Phase(t)' = "idle"
        /\ \A u \in Threads \ {t} : Phase(u)' = Phase(u)
    BY <1>1, <1>2, <2>1 DEF IInv, TypeOK, Phase
  <2>3. Svc!Moves(t, "called", "idle")
    BY <1>1, <2>2, OnePhase
  <2>4. Svc!Deliver(t)
    BY <1>2, <1>3, <2>1, <2>3 DEF Svc!Deliver
  <2> QED
    BY <1>1, <2>4 DEF Svc!Next
<1>4. CASE req[t].op \notin OneWayOps
  <2>1. /\ kernel' = [kernel EXCEPT ![t] = "awaiting"]
        /\ code' = code
        /\ UNCHANGED <<req, result>>
    BY <1>1, <1>4 DEF IInv, TypeOK, Receive
  <2>2. /\ Phase(t) = "called" /\ Phase(t)' = "served"
        /\ \A u \in Threads \ {t} : Phase(u)' = Phase(u)
    BY <1>1, <1>2, <2>1 DEF IInv, TypeOK, Phase
  <2>3. Svc!Moves(t, "called", "served")
    BY <1>1, <2>2, OnePhase
  <2>4. Svc!Serve(t)
    BY <1>4, <2>1, <2>3 DEF Svc!Serve
  <2> QED
    BY <1>1, <2>4 DEF Svc!Next
<1> QED
  BY <1>3, <1>4

LEMMA ReplyRefines ==
  ASSUME IInv, Reply
  PROVE  [Svc!Next]_(Svc!vars)
<1>1. CASE replyTo = None
  <2>1. UNCHANGED <<kernel, code, req, result>>
    BY <1>1 DEF Reply
  <2> QED
    BY <2>1, SamePhases DEF Phase
<1>2. CASE replyTo # None
  <2>1. PICK t \in Threads : t = replyTo
    BY <1>2 DEF IInv, TypeOK
  <2>2. /\ kernel[t] = "awaiting" /\ code[t] = "trap"
        /\ req[t] = msg /\ msg \in Requests
        /\ answer \in AnswersTo(msg.op)
    BY <1>2, <2>1 DEF IInv, ReplyDue, CallsFilled, ServerKnows, Processing,
                Reply, Serve, Op
  <2>3. /\ kernel' = [kernel EXCEPT ![t] = "ready"]
        /\ code' = [code EXCEPT ![t] = "user"]
        /\ result' = [result EXCEPT ![t] = answer]
        /\ req' = req
    BY <1>2, <2>1 DEF Reply
  <2>4. /\ Phase(t) = "served" /\ Phase(t)' = "idle"
        /\ \A u \in Threads \ {t} : Phase(u)' = Phase(u)
    BY <2>2, <2>3 DEF IInv, TypeOK, Phase
  <2>5. Svc!Moves(t, "served", "idle")
    BY <2>4, OnePhase
  <2>6. Svc!Return(t)
    BY <2>2, <2>3, <2>5 DEF Svc!Return
  <2> QED
    BY <2>6 DEF Svc!Next
<1> QED
  BY <1>1, <1>2

LEMMA StepRefines ==
  ASSUME IInv, [Next]_vars
  PROVE  [Svc!Next]_(Svc!vars)
<1>1. CASE UNCHANGED <<kernel, code, req, result>>
  BY <1>1, SamePhases DEF Phase
<1>2. CASE ProcessSuspend
  <2>1. /\ pc = "process" /\ Op = "Suspend" /\ Target \in Threads
        /\ kernel' = [kernel EXCEPT ![Target] = "inactive"]
        /\ UNCHANGED <<code, req, result>>
    BY <1>2 DEF IInv, TypeOK, ProcessSuspend, Serve, TCBSuspend
  <2> QED
    BY <2>1, CancelRefines
<1>3. CASE ProcessResume /\ kernel[Target] # "ready"
  <2>1. /\ pc = "process" /\ Op = "Resume" /\ Target \in Threads
        /\ kernel' = [kernel EXCEPT ![Target] = "ready"]
        /\ UNCHANGED <<code, req, result>>
    BY <1>3 DEF IInv, TypeOK, ProcessResume, Serve, TCBResume
  <2> QED
    BY <2>1, CancelRefines
<1>4. CASE \E t \in Threads : StartThread(t)
  <2>1. PICK t \in Threads : StartThread(t)
    BY <1>4
  <2>2. /\ kernel[t] = "inactive"
        /\ kernel' = [kernel EXCEPT ![t] = "ready"]
        /\ UNCHANGED <<code, req, result>>
    BY <2>1 DEF IInv, Unstarted, StartThread
  <2>3. \A u \in Threads : Phase(u)' = Phase(u)
    BY <2>2 DEF IInv, TypeOK, Phase
  <2> QED
    BY <2>2, <2>3, SamePhases
<1>5. CASE ServerStep
  <2>1. UNCHANGED <<kernel, code, req, result>>
          \/ Receive \/ Reply \/ ProcessSuspend
          \/ (\E t \in Threads : StartThread(t))
          \/ (ProcessResume /\ kernel[Target] # "ready")
    BY <1>5
       DEF ServerStep, MarkStarted, EnterLoop, ProcessDebug, ProcessHeap,
           ServerUnlocks, ProcessPlain, ProcessUnknown, ProcessSetPriority,
           MarkPaused, ProcessResume, TCBResume, MarkRunning, ipc
  <2> QED
    BY <1>1, <1>2, <1>3, <1>4, <2>1, ReceiveRefines, ReplyRefines
<1>6. CASE ServerGranted \/ UNCHANGED vars
  BY <1>1, <1>6 DEF ServerGranted, vars, ipc
<1> QED
  BY <1>5, <1>6, ClientRefines DEF Next

LEMMA InitRefines == Init => Svc!Init
BY DEF Init, Svc!Init, Phase

(* Every system call is served once and returns with an answer to that     *)
(* request, unless it asks for its own sender to be suspended or resumed.  *)
THEOREM ServiceRefinement == Spec => ImplementsService
<1>1. Init => Svc!Init
  BY InitRefines
<1>2. IInv /\ [Next]_vars => [Svc!Next]_(Svc!vars)
  BY StepRefines
<1> QED
  BY <1>1, <1>2, Invariance, PTL DEF Spec, ImplementsService, Svc!Spec
=============================================================================
