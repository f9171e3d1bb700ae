---------------------------- MODULE BinSemProofs ----------------------------
(***************************************************************************)
(* Safety of the mutex of userland/mutex.h for any finite set of threads   *)
(* and any width of the counter: proofs of the invariants of BinSem, and   *)
(* that it implements the safety part of Mutex.                            *)
(***************************************************************************)
EXTENDS BinSem, FiniteSetTheorems, SequenceTheorems, TLAPS

-----------------------------------------------------------------------------
(* The inductive invariant.                                                *)

(* The right to enter is a token: a thread carries it in its critical      *)
(* section and until its signal, the notification carries it afterwards.   *)
Carries(t) == pc[t] \in {"held", "signal"}

OneToken ==
  /\ \A t, u \in Threads : Carries(t) /\ Carries(u) => t = u
  /\ active => \A t \in Threads : ~Carries(t)

(* There is a token exactly while the counter says the lock is taken.      *)
TokenWhenTaken == Contending # {} <=> TokenExists

(* The kernel's queue holds the blocked threads, each once.                *)
QueueExact ==
  /\ \A i \in 1..Len(queue) : pc[queue[i]] = "blocked"
  /\ \A i, j \in 1..Len(queue) : queue[i] = queue[j] => i = j
  /\ \A t \in Threads :
       pc[t] = "blocked" => \E i \in 1..Len(queue) : queue[i] = t

(* The exchange is never reached with the value that cannot be decremented.*)
NoUnderflow == \A t \in Threads : pc[t] = "cas" => oldval[t] # IntMin

IInv ==
  /\ TypeOK
  /\ CountExact
  /\ OneToken
  /\ TokenWhenTaken
  /\ QueueExact
  /\ NoUnderflow

-----------------------------------------------------------------------------
(* Counting the contending threads.                                        *)

LEMMA ContendingFinite ==
  /\ IsFiniteSet(Contending)
  /\ Cardinality(Contending) \in Nat
  /\ Cardinality(Contending) = 0 <=> Contending = {}
<1>1. Contending \in SUBSET Threads
  BY DEF Contending
<1>2. IsFiniteSet(Contending)
  BY <1>1, ConstAssumption, FS_Subset
<1> QED
  BY <1>2, FS_CardinalityType, FS_EmptySet

(* The counter is 1 exactly when nobody contends.                          *)
LEMMA FreeWhenOne ==
  ASSUME CountExact
  PROVE  /\ value \in Int
         /\ value <= 1
         /\ value = 1 <=> Contending = {}
BY ContendingFinite DEF CountExact

LEMMA CountStays ==
  ASSUME CountExact, Contending' = Contending, value' = value
  PROVE  CountExact'
BY DEF CountExact

LEMMA CountJoins ==
  ASSUME CountExact, NEW t \in Threads, t \notin Contending,
         Contending' = Contending \cup {t}, value' = value - 1
  PROVE  CountExact'
<1>1. Cardinality(Contending \cup {t}) = Cardinality(Contending) + 1
  BY ContendingFinite, FS_AddElement
<1> QED
  BY <1>1, ContendingFinite DEF CountExact

LEMMA CountLeaves ==
  ASSUME CountExact, NEW t \in Threads, t \in Contending,
         Contending' = Contending \ {t}, value' = value + 1
  PROVE  CountExact'
<1>1. Cardinality(Contending \ {t}) = Cardinality(Contending) - 1
  BY ContendingFinite, FS_RemoveElement
<1> QED
  BY <1>1, ContendingFinite DEF CountExact

-----------------------------------------------------------------------------
LEMMA InitInv == Init => IInv
<1> SUFFICES ASSUME Init PROVE IInv
  OBVIOUS
<1>1. Contending = {}
  BY DEF Init, Contending
<1>2. TypeOK
  <2>1. queue \in Seq(Threads)
    BY EmptySeq DEF Init
  <2>2. /\ value \in IntMin..1
        /\ oldval \in [Threads -> IntMin..1]
    BY ConstAssumption DEF Init
  <2>3. active \in BOOLEAN
    BY Zenon DEF Init
  <2> QED
    BY <2>1, <2>2, <2>3 DEF Init, TypeOK
<1>3. CountExact
  BY <1>1, FS_EmptySet DEF Init, CountExact
<1>4. TokenWhenTaken
  BY <1>1 DEF Init, TokenWhenTaken, TokenExists
<1>5. QueueExact
  BY DEF Init, QueueExact
<1> QED
  BY <1>2, <1>3, <1>4, <1>5 DEF Init, IInv, OneToken, Carries, NoUnderflow

-----------------------------------------------------------------------------
(* One lemma per action: it preserves the invariant.                       *)

(* A step that moves t inside a part of the code where it neither contends *)
(* nor carries the token, and changes neither counter nor notification.    *)
LEMMA QuietStep ==
  ASSUME IInv, TypeOK', NoUnderflow', NEW t \in Threads,
         pc[t] \in {"idle", "load", "cas", "failed"},
         NEW label \in {"idle", "load", "cas", "failed"}, Goto(t, label),
         value' = value, active' = active, queue' = queue
  PROVE  IInv'
<1>1. Contending' = Contending
  BY DEF IInv, TypeOK, Goto, Contending
<1>2. CountExact'
  BY <1>1, CountStays DEF IInv
<1>3. \A u \in Threads : Carries(u)' <=> Carries(u)
  BY DEF IInv, TypeOK, Goto, Carries
<1>4. OneToken'
  BY <1>3 DEF IInv, OneToken
<1>5. TokenWhenTaken'
  BY <1>1, <1>3 DEF IInv, TokenWhenTaken, TokenExists, Carries
<1>6. QueueExact'
  <2>1. \A i \in 1..Len(queue) : queue[i] \in Threads
    BY ElementOfSeq DEF IInv, TypeOK
  <2> QED
    BY <2>1 DEF IInv, TypeOK, QueueExact, Goto
<1> QED
  BY <1>2, <1>4, <1>5, <1>6 DEF IInv

LEMMA LockInv ==
  ASSUME IInv, NEW t \in Threads, Lock(t)
  PROVE  IInv'
<1>1. TypeOK' /\ NoUnderflow'
  BY DEF Lock, IInv, TypeOK, NoUnderflow, Goto
<1> QED
  BY <1>1, QuietStep DEF Lock

LEMMA LoadInv ==
  ASSUME IInv, NEW t \in Threads, Load(t)
  PROVE  IInv'
<1>1. TypeOK' /\ NoUnderflow'
  BY ConstAssumption DEF Load, IInv, TypeOK, NoUnderflow, Goto
<1> QED
  BY <1>1, QuietStep DEF Load

LEMMA CasFailsInv ==
  ASSUME IInv, NEW t \in Threads, CasFails(t)
  PROVE  IInv'
<1>1. TypeOK' /\ NoUnderflow'
  BY DEF CasFails, IInv, TypeOK, NoUnderflow, Goto
<1> QED
  BY <1>1, QuietStep DEF CasFails

LEMMA WaitFailedInv ==
  ASSUME IInv, NEW t \in Threads, WaitFailed(t)
  PROVE  IInv'
<1>1. TypeOK' /\ NoUnderflow'
  BY DEF WaitFailed, IInv, TypeOK, NoUnderflow, Goto
<1> QED
  BY <1>1, QuietStep DEF WaitFailed

LEMMA CasSucceedsInv ==
  ASSUME IInv, NEW t \in Threads, CasSucceeds(t)
  PROVE  IInv'
<1> DEFINE label == IF oldval[t] <= 0 THEN "wait" ELSE "held"
<1>1. /\ pc[t] = "cas" /\ value = oldval[t] /\ value # IntMin
      /\ pc' = [pc EXCEPT ![t] = label]
  BY DEF CasSucceeds, Goto, IInv, NoUnderflow
<1>2. Contending' = Contending \cup {t} /\ t \notin Contending
  BY <1>1 DEF IInv, TypeOK, Contending
<1>3. CountExact'
  BY <1>2, CountJoins DEF CasSucceeds, IInv
<1>4. TypeOK'
  BY <1>1, ConstAssumption DEF CasSucceeds, IInv, TypeOK
<1>5. NoUnderflow'
  BY <1>1 DEF CasSucceeds, IInv, TypeOK, NoUnderflow
<1>6. QueueExact'
  <2>1. \A i \in 1..Len(queue) : queue[i] \in Threads
    BY ElementOfSeq DEF IInv, TypeOK
  <2> QED
    BY <1>1, <2>1 DEF CasSucceeds, IInv, TypeOK, QueueExact
<1>7. value = 1 <=> Contending = {}
  BY FreeWhenOne DEF IInv
<1>8. CASE oldval[t] <= 0
  <2>1. \A u \in Threads : Carries(u)' <=> Carries(u)
    BY <1>1, <1>8 DEF IInv, TypeOK, Carries
  <2>2. TokenExists
    BY <1>1, <1>7, <1>8 DEF IInv, TokenWhenTaken
  <2>3. TokenExists'
    BY <2>1, <2>2 DEF CasSucceeds, TokenExists, Carries
  <2>4. OneToken'
    BY <2>1 DEF CasSucceeds, IInv, OneToken
  <2> QED
    BY <1>2, <1>3, <1>4, <1>5, <1>6, <2>3, <2>4 DEF IInv, TokenWhenTaken
<1>9. CASE ~(oldval[t] <= 0)
  <2>1. value = 1
    BY <1>1, <1>9 DEF IInv, TypeOK
  <2>2. ~TokenExists
    BY <1>7, <2>1 DEF IInv, TokenWhenTaken
  <2>3. ~active /\ \A u \in Threads : ~Carries(u)
    BY <2>2 DEF TokenExists, Carries
  <2>4. pc'[t] = "held" /\ \A u \in Threads \ {t} : pc'[u] = pc[u]
    BY <1>1, <1>9 DEF IInv, TypeOK
  <2>5. TokenExists'
    BY <2>4 DEF TokenExists
  <2>6. OneToken'
    BY <2>3, <2>4 DEF CasSucceeds, OneToken, Carries
  <2> QED
    BY <1>2, <1>3, <1>4, <1>5, <1>6, <2>5, <2>6 DEF IInv, TokenWhenTaken
<1> QED
  BY <1>8, <1>9

LEMMA WaitConsumesInv ==
  ASSUME IInv, NEW t \in Threads, WaitConsumes(t)
  PROVE  IInv'
<1>1. /\ pc[t] = "wait" /\ active /\ ~active'
      /\ pc' = [pc EXCEPT ![t] = "held"]
  BY DEF WaitConsumes, Goto
<1>2. pc'[t] = "held" /\ \A u \in Threads \ {t} : pc'[u] = pc[u]
  BY <1>1 DEF IInv, TypeOK
<1>3. Contending' = Contending
  BY <1>1, <1>2 DEF Contending
<1>4. CountExact'
  BY <1>3, CountStays DEF WaitConsumes, IInv
<1>5. TypeOK'
  <2>1. active' \in BOOLEAN
    BY Zenon DEF WaitConsumes
  <2> QED
    BY <1>1, <2>1 DEF WaitConsumes, IInv, TypeOK
<1>6. NoUnderflow'
  BY <1>1, <1>2 DEF WaitConsumes, IInv, NoUnderflow
<1>7. QueueExact'
  <2>1. \A i \in 1..Len(queue) : queue[i] \in Threads
    BY ElementOfSeq DEF IInv, TypeOK
  <2> QED
    BY <1>1, <1>2, <2>1 DEF WaitConsumes, IInv, QueueExact
<1>8. OneToken'
  BY <1>1, <1>2 DEF IInv, OneToken, Carries
<1>9. TokenWhenTaken'
  BY <1>1, <1>2 DEF TokenWhenTaken, TokenExists, Contending
<1> QED
  BY <1>4, <1>5, <1>6, <1>7, <1>8, <1>9 DEF IInv

LEMMA WaitBlocksInv ==
  ASSUME IInv, NEW t \in Threads, WaitBlocks(t)
  PROVE  IInv'
<1>1. /\ pc[t] = "wait" /\ queue' = Append(queue, t)
      /\ pc' = [pc EXCEPT ![t] = "blocked"]
  BY DEF WaitBlocks, Goto
<1>2. pc'[t] = "blocked" /\ \A u \in Threads \ {t} : pc'[u] = pc[u]
  BY <1>1 DEF IInv, TypeOK
<1>3. Contending' = Contending
  BY <1>1, <1>2 DEF Contending
<1>4. CountExact'
  BY <1>3, CountStays DEF WaitBlocks, IInv
<1>5. /\ queue' \in Seq(Threads)
      /\ Len(queue) \in Nat
      /\ Len(queue') = Len(queue) + 1
      /\ \A i \in 1..Len(queue) : queue'[i] = queue[i] /\ queue[i] \in Threads
      /\ queue'[Len(queue) + 1] = t
  BY <1>1, AppendProperties, ElementOfSeq, LenProperties DEF IInv, TypeOK
<1>6. TypeOK'
  BY <1>1, <1>5 DEF WaitBlocks, IInv, TypeOK
<1>7. NoUnderflow'
  BY <1>1, <1>2 DEF WaitBlocks, IInv, NoUnderflow
<1>8. \A u \in Threads : Carries(u)' <=> Carries(u)
  BY <1>1, <1>2 DEF Carries
<1>9. OneToken'
  BY <1>8 DEF WaitBlocks, IInv, OneToken
<1>10. TokenWhenTaken'
  BY <1>3, <1>8 DEF WaitBlocks, IInv, TokenWhenTaken, TokenExists, Carries
<1>11. QueueExact'
  <2>1. \A i \in 1..Len(queue) : queue[i] # t
    BY <1>1 DEF IInv, QueueExact
  <2>2. \A i \in 1..Len(queue') : pc'[queue'[i]] = "blocked"
    BY <1>2, <1>5, <2>1 DEF IInv, QueueExact
  <2>3. \A i, j \in 1..Len(queue') : queue'[i] = queue'[j] => i = j
    BY <1>5, <2>1 DEF IInv, QueueExact
  <2>4. \A u \in Threads :
          pc'[u] = "blocked" => \E i \in 1..Len(queue') : queue'[i] = u
    BY <1>2, <1>5 DEF IInv, QueueExact
  <2> QED
    BY <2>2, <2>3, <2>4 DEF QueueExact
<1> QED
  BY <1>4, <1>6, <1>7, <1>9, <1>10, <1>11 DEF IInv

LEMMA PostInv ==
  ASSUME IInv, NEW t \in Threads, Post(t)
  PROVE  IInv'
<1> DEFINE label == IF value + 1 <= 0 THEN "signal" ELSE "idle"
<1>1. /\ pc[t] = "held" /\ value' = value + 1
      /\ pc' = [pc EXCEPT ![t] = label]
  BY DEF Post, Goto
<1>2. pc'[t] = label /\ \A u \in Threads \ {t} : pc'[u] = pc[u]
  BY <1>1 DEF IInv, TypeOK
<1>3. t \in Contending /\ Contending' = Contending \ {t}
  BY <1>1, <1>2 DEF Contending
<1>4. CountExact'
  BY <1>1, <1>3, CountLeaves DEF IInv
<1>5. value <= 0
  BY <1>3, FreeWhenOne DEF IInv
<1>6. TypeOK'
  BY <1>1, <1>5, ConstAssumption DEF Post, IInv, TypeOK
<1>7. NoUnderflow'
  BY <1>1, <1>2 DEF Post, IInv, NoUnderflow
<1>8. QueueExact'
  <2>1. \A i \in 1..Len(queue) : queue[i] \in Threads /\ queue[i] # t
    BY <1>1, ElementOfSeq DEF IInv, TypeOK, QueueExact
  <2> QED
    BY <1>2, <2>1 DEF Post, IInv, QueueExact
<1>9. ~active /\ \A u \in Threads \ {t} : ~Carries(u)
  BY <1>1 DEF IInv, OneToken, Carries
<1>10. OneToken'
  BY <1>2, <1>9 DEF Post, OneToken, Carries
<1>11. value' = 1 <=> Contending' = {}
  <2>1. /\ IsFiniteSet(Contending)
        /\ Cardinality(Contending \ {t}) = Cardinality(Contending) - 1
    BY <1>3, ContendingFinite, FS_RemoveElement
  <2>2. Contending \ {t} = {} <=> Cardinality(Contending \ {t}) = 0
    BY <2>1, FS_EmptySet, FS_RemoveElement
  <2> QED
    BY <1>1, <1>3, <2>1, <2>2, ContendingFinite DEF IInv, CountExact
<1>12. TokenWhenTaken'
  <2>1. TokenExists' <=> label = "signal"
    BY <1>2, <1>9 DEF Post, TokenExists, Carries
  <2> QED
    BY <1>1, <1>5, <1>11, <2>1 DEF IInv, TypeOK, TokenWhenTaken
<1> QED
  BY <1>4, <1>6, <1>7, <1>8, <1>10, <1>12 DEF IInv

LEMMA SignalPendsInv ==
  ASSUME IInv, NEW t \in Threads, SignalPends(t)
  PROVE  IInv'
<1>1. /\ pc[t] = "signal" /\ active'
      /\ pc' = [pc EXCEPT ![t] = "idle"]
  BY DEF SignalPends, Goto
<1>2. pc'[t] = "idle" /\ \A u \in Threads \ {t} : pc'[u] = pc[u]
  BY <1>1 DEF IInv, TypeOK
<1>3. Contending' = Contending
  BY <1>1, <1>2 DEF Contending
<1>4. CountExact'
  BY <1>3, CountStays DEF SignalPends, IInv
<1>5. TypeOK'
  <2>1. active' \in BOOLEAN
    BY Zenon DEF SignalPends
  <2> QED
    BY <1>1, <2>1 DEF SignalPends, IInv, TypeOK
<1>6. NoUnderflow'
  BY <1>1, <1>2 DEF SignalPends, IInv, NoUnderflow
<1>7. QueueExact'
  <2>1. \A i \in 1..Len(queue) : queue[i] \in Threads
    BY ElementOfSeq DEF IInv, TypeOK
  <2> QED
    BY <1>1, <1>2, <2>1 DEF SignalPends, IInv, QueueExact
<1>8. \A u \in Threads \ {t} : ~Carries(u)
  BY <1>1 DEF IInv, OneToken, Carries
<1>9. OneToken'
  BY <1>2, <1>8 DEF OneToken, Carries
<1>10. TokenWhenTaken'
  BY <1>1, <1>3 DEF IInv, TokenWhenTaken, TokenExists
<1> QED
  BY <1>4, <1>5, <1>6, <1>7, <1>9, <1>10 DEF IInv

LEMMA SignalWakesInv ==
  ASSUME IInv, NEW t \in Threads, SignalWakes(t)
  PROVE  IInv'
<1> DEFINE w == Head(queue)
<1>1. /\ pc[t] = "signal" /\ queue # <<>> /\ queue' = Tail(queue)
      /\ pc' = [pc EXCEPT ![t] = "idle", ![w] = "held"]
  BY DEF SignalWakes
<1>2. /\ w \in Threads
      /\ queue' \in Seq(Threads)
      /\ Len(queue) \in Nat \ {0}
      /\ Len(queue') = Len(queue) - 1
      /\ w = queue[1]
      /\ \A i \in 1..Len(queue') : queue'[i] = queue[i + 1]
      /\ \A i \in 1..Len(queue) : queue[i] \in Threads
  BY <1>1, HeadTailProperties, EmptySeq, ElementOfSeq DEF IInv, TypeOK
<1>3. pc[w] = "blocked"
  BY <1>2 DEF IInv, QueueExact
<1>4. /\ w # t
      /\ pc'[t] = "idle"
      /\ pc'[w] = "held"
      /\ \A u \in Threads \ {t, w} : pc'[u] = pc[u]
  BY <1>1, <1>2, <1>3 DEF IInv, TypeOK
<1>5. Contending' = Contending
  BY <1>1, <1>3, <1>4 DEF Contending
<1>6. CountExact'
  BY <1>5, CountStays DEF SignalWakes, IInv
<1>7. TypeOK'
  BY <1>1, <1>2 DEF SignalWakes, IInv, TypeOK
<1>8. NoUnderflow'
  BY <1>1, <1>4 DEF SignalWakes, IInv, NoUnderflow
<1>9. ~active /\ \A u \in Threads \ {t} : ~Carries(u)
  BY <1>1 DEF IInv, OneToken, Carries
<1>10. OneToken'
  BY <1>4, <1>9 DEF SignalWakes, OneToken, Carries
<1>11. TokenWhenTaken'
  <2>1. TokenExists'
    BY <1>2, <1>4 DEF TokenExists
  <2>2. w \in Contending
    BY <1>2, <1>3 DEF Contending
  <2> QED
    BY <1>5, <2>1, <2>2 DEF TokenWhenTaken
<1>12. QueueExact'
  <2>1. \A i \in 1..Len(queue') : queue'[i] # w /\ queue'[i] # t
    BY <1>1, <1>2 DEF IInv, QueueExact
  <2>2. \A i \in 1..Len(queue') : pc'[queue'[i]] = "blocked"
    BY <1>2, <1>4, <2>1 DEF IInv, QueueExact
  <2>3. \A i, j \in 1..Len(queue') : queue'[i] = queue'[j] => i = j
    BY <1>2 DEF IInv, QueueExact
  <2>4. ASSUME NEW u \in Threads, pc'[u] = "blocked"
        PROVE  \E i \in 1..Len(queue') : queue'[i] = u
    <3>1. pc[u] = "blocked" /\ u # w
      BY <1>4, <2>4
    <3>2. PICK i \in 1..Len(queue) : queue[i] = u
      BY <3>1 DEF IInv, QueueExact
    <3>3. i - 1 \in 1..Len(queue') /\ queue'[i - 1] = u
      BY <1>2, <3>1, <3>2
    <3> QED
      BY <3>3
  <2> QED
    BY <2>2, <2>3, <2>4 DEF QueueExact
<1> QED
  BY <1>6, <1>7, <1>8, <1>10, <1>11, <1>12 DEF IInv

LEMMA StepInv == IInv /\ [Next]_vars => IInv'
<1> SUFFICES ASSUME IInv, [Next]_vars PROVE IInv'
  OBVIOUS
<1>1. CASE UNCHANGED vars
  BY <1>1 DEF vars, IInv, TypeOK, CountExact, Contending, OneToken, Carries,
              TokenWhenTaken, TokenExists, QueueExact, NoUnderflow
<1>2. CASE Next
  <2>1. PICK t \in Threads : Lock(t) \/ Progress(t)
    BY <1>2 DEF Next
  <2> QED
    BY <2>1, LockInv, LoadInv, CasSucceedsInv, CasFailsInv, WaitConsumesInv,
       WaitBlocksInv, WaitFailedInv, PostInv, SignalWakesInv, SignalPendsInv
       DEF Progress
<1> QED
  BY <1>1, <1>2

-----------------------------------------------------------------------------
(* The inductive invariant holds.                                          *)
LEMMA Invariance == Spec => []IInv
BY InitInv, StepInv, PTL DEF Spec

(* The counter stays between INT_MIN and 1, whatever the number of callers,*)
(* and every variable keeps its type.                                      *)
THEOREM TypeCorrect == Spec => []TypeOK
<1>1. IInv => TypeOK
  BY DEF IInv
<1> QED
  BY <1>1, Invariance, PTL

(* At most one thread is between sync_mutex_lock and sync_mutex_unlock.    *)
THEOREM MutualExclusionHolds == Spec => []MutualExclusion
<1>1. IInv => MutualExclusion
  BY DEF IInv, OneToken, Carries, MutualExclusion
<1> QED
  BY <1>1, Invariance, PTL

(* The counter is 1 minus the callers that hold the lock or wait for it.   *)
THEOREM CountExactHolds == Spec => []CountExact
<1>1. IInv => CountExact
  BY DEF IInv
<1> QED
  BY <1>1, Invariance, PTL

(* While a caller waits, the right to enter is held or on its way.         *)
THEOREM NoLostWakeupHolds == Spec => []NoLostWakeup
<1>1. IInv => NoLostWakeup
  BY DEF IInv, TokenWhenTaken, NoLostWakeup
<1> QED
  BY <1>1, Invariance, PTL

(* The binary notification never has to absorb a second signal.            *)
THEOREM NoSignalAbsorbedHolds == Spec => []NoSignalAbsorbed
<1>1. IInv => NoSignalAbsorbed
  BY DEF IInv, OneToken, Carries, NoSignalAbsorbed
<1> QED
  BY <1>1, Invariance, PTL

-----------------------------------------------------------------------------
(* The semaphore implements Mutex.                                         *)

LEMMA OwnerHeld ==
  ASSUME MutualExclusion, NEW t \in Threads, pc[t] = "held"
  PROVE  Owner = t
BY DEF MutualExclusion, Owner

LEMMA OwnerNobody ==
  ASSUME \A t \in Threads : pc[t] # "held"
  PROVE  Owner = NoOwner
BY DEF Owner

(* A step after which the same threads hold and wait is a stutter.         *)
LEMMA SameHolders ==
  ASSUME \A u \in Threads : (pc'[u] = "held") <=> (pc[u] = "held"),
         \A u \in Threads : pc'[u] \in {"wait", "blocked"}
                            <=> pc[u] \in {"wait", "blocked"}
  PROVE  UNCHANGED M!vars
<1>1. Owner' = Owner
  BY DEF Owner
<1>2. Waiting' = Waiting
  BY DEF Waiting
<1> QED
  BY <1>1, <1>2 DEF M!vars

LEMMA StepRefines ==
  ASSUME IInv, IInv', [Next]_vars
  PROVE  [M!Next]_(M!vars)
<1>1. MutualExclusion /\ MutualExclusion'
  BY DEF IInv, OneToken, Carries, MutualExclusion
<1>2. CASE UNCHANGED vars
  BY <1>2, SameHolders DEF vars
<1>3. ASSUME NEW t \in Threads, NEW from, NEW to,
             {from, to} \cap {"held", "wait", "blocked"} = {},
             pc[t] = from, pc' = [pc EXCEPT ![t] = to]
      PROVE  UNCHANGED M!vars
  BY <1>3, SameHolders DEF IInv, TypeOK
<1>4. ASSUME NEW t \in Threads,
             Lock(t) \/ Load(t) \/ CasFails(t) \/ WaitFailed(t) \/ SignalPends(t)
      PROVE  UNCHANGED M!vars
  BY <1>3, <1>4 DEF Lock, Load, CasFails, WaitFailed, SignalPends, Goto
<1>5. ASSUME NEW t \in Threads, CasSucceeds(t)
      PROVE  M!Enter(t) \/ M!Queue(t)
  <2>1. pc[t] = "cas" /\ value = oldval[t] /\ value \in IntMin..1
    BY <1>5 DEF CasSucceeds, IInv, TypeOK
  <2>2. value = 1 <=> Contending = {}
    BY FreeWhenOne DEF IInv
  <2>3. CASE value = 1
    <3>1. pc' = [pc EXCEPT ![t] = "held"]
      BY <1>5, <2>1, <2>3 DEF CasSucceeds, Goto
    <3>2. pc'[t] = "held"
      BY <3>1 DEF IInv, TypeOK
    <3>3. Owner = NoOwner /\ Waiting = {}
      BY <2>2, <2>3, OwnerNobody DEF Contending, Waiting
    <3>4. Waiting' = {}
      BY <2>1, <3>1, <3>3 DEF Waiting, IInv, TypeOK
    <3>5. Owner' = t
      BY <1>1, <3>2 DEF MutualExclusion, Owner
    <3> QED
      BY <3>3, <3>4, <3>5 DEF M!Enter
  <2>4. CASE value # 1
    <3>1. value <= 0
      BY <2>1, <2>4, ConstAssumption
    <3>2. pc' = [pc EXCEPT ![t] = "wait"]
      BY <1>5, <2>1, <3>1 DEF CasSucceeds, Goto
    <3>3. t \notin Waiting /\ Waiting' = Waiting \cup {t}
      BY <2>1, <3>2 DEF Waiting, IInv, TypeOK
    <3>4. Owner' = Owner
      BY <2>1, <3>2 DEF Owner, IInv, TypeOK
    <3>5. Owner # NoOwner \/ Waiting # {}
      <4>1. PICK u \in Threads : pc[u] \in {"wait", "blocked", "held"}
        BY <2>2, <2>4 DEF Contending
      <4> QED
        BY <1>1, <4>1, OwnerHeld, ConstAssumption DEF Waiting
    <3> QED
      BY <3>3, <3>4, <3>5 DEF M!Queue
  <2> QED
    BY <2>3, <2>4
<1>6. ASSUME NEW t \in Threads, t \in Waiting, pc'[t] = "held",
             Waiting' = Waiting \ {t}, \A u \in Threads : pc[u] # "held"
      PROVE  M!Grant(t)
  <2>1. Owner = NoOwner
    BY <1>6, OwnerNobody
  <2>2. Owner' = t
    BY <1>1, <1>6 DEF MutualExclusion, Owner
  <2> QED
    BY <1>6, <2>1, <2>2 DEF M!Grant
<1>7. ASSUME NEW t \in Threads, WaitConsumes(t)
      PROVE  M!Grant(t)
  <2>1. pc[t] = "wait" /\ active /\ pc' = [pc EXCEPT ![t] = "held"]
    BY <1>7 DEF WaitConsumes, Goto
  <2>2. \A u \in Threads : pc[u] # "held"
    BY <2>1 DEF IInv, OneToken, Carries
  <2>3. t \in Waiting /\ pc'[t] = "held" /\ Waiting' = Waiting \ {t}
    BY <2>1 DEF Waiting, IInv, TypeOK
  <2> QED
    BY <1>6, <2>2, <2>3
<1>8. ASSUME NEW t \in Threads, WaitBlocks(t)
      PROVE  UNCHANGED M!vars
  <2>1. pc[t] = "wait" /\ pc' = [pc EXCEPT ![t] = "blocked"]
    BY <1>8 DEF WaitBlocks, Goto
  <2> QED
    BY <2>1, SameHolders DEF IInv, TypeOK
<1>9. ASSUME NEW t \in Threads, Post(t)
      PROVE  M!Release(t)
  <2>1. PICK to \in {"signal", "idle"} :
          pc[t] = "held" /\ pc' = [pc EXCEPT ![t] = to]
    BY <1>9 DEF Post, Goto
  <2>2. Owner = t
    BY <1>1, <2>1, OwnerHeld
  <2>3. \A u \in Threads : pc'[u] # "held"
    BY <1>1, <2>1 DEF MutualExclusion, IInv, TypeOK
  <2>4. Owner' = NoOwner
    BY <2>3 DEF Owner
  <2>5. Waiting' = Waiting
    BY <2>1 DEF Waiting, IInv, TypeOK
  <2> QED
    BY <2>2, <2>4, <2>5 DEF M!Release
<1>10. ASSUME NEW t \in Threads, SignalWakes(t)
       PROVE  \E w \in Threads : M!Grant(w)
  <2> DEFINE w == Head(queue)
  <2>1. /\ pc[t] = "signal" /\ queue # <<>>
        /\ pc' = [pc EXCEPT ![t] = "idle", ![w] = "held"]
    BY <1>10 DEF SignalWakes
  <2>2. w \in Threads /\ w = queue[1] /\ Len(queue) \in Nat \ {0}
    BY <2>1, HeadTailProperties, EmptySeq DEF IInv, TypeOK
  <2>3. pc[w] = "blocked"
    BY <2>2 DEF IInv, QueueExact
  <2>4. \A u \in Threads : pc[u] # "held"
    BY <2>1 DEF IInv, OneToken, Carries
  <2>5. w \in Waiting /\ pc'[w] = "held" /\ Waiting' = Waiting \ {w}
    BY <2>1, <2>2, <2>3 DEF Waiting, IInv, TypeOK
  <2> QED
    BY <1>6, <2>2, <2>4, <2>5
<1>11. CASE Next
  <2>1. PICK t \in Threads : Lock(t) \/ Progress(t)
    BY <1>11 DEF Next
  <2> QED
    BY <2>1, <1>4, <1>5, <1>7, <1>8, <1>9, <1>10 DEF Progress, M!Next
<1> QED
  BY <1>2, <1>11

LEMMA InitRefines == Init => M!Init
BY OwnerNobody DEF Init, M!Init, Waiting

(* The safety of ImplementsMutex: a released lock goes to a waiter if there*)
(* is one, and every waiter stays one until it gets the lock.              *)
THEOREM MutexRefinement == Spec => M!Spec
<1>1. Init => M!Init
  BY InitRefines
<1>2. IInv /\ IInv' /\ [Next]_vars => [M!Next]_(M!vars)
  BY StepRefines
<1> QED
  BY <1>1, <1>2, Invariance, PTL DEF Spec, M!Spec
=============================================================================
