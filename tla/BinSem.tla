------------------------------- MODULE BinSem -------------------------------
(***************************************************************************)
(* The mutex of userland/mutex.h, a binary semaphore (bin_sem.h,           *)
(* bin_sem_bare.h) made of an atomic counter and a seL4 notification:      *)
(*                                                                         *)
(*   wait:  decrement `value` with a compare-and-swap loop; if the value   *)
(*          was <= 0, seL4_Wait on the notification                        *)
(*   post:  increment `value`; if it is still <= 0, seL4_Signal            *)
(*                                                                         *)
(* One step is one access to shared memory or one kernel call, so every    *)
(* interleaving of the threads between those is explored.  The counter and *)
(* the notification are updated separately: between a decrement and its    *)
(* seL4_Wait, and between an increment and its seL4_Signal, any number of  *)
(* other threads may run.                                                  *)
(*                                                                         *)
(* The notification is the kernel's (external): a binary flag and a FIFO   *)
(* queue.  A signal wakes the first queued thread or, when there is none,  *)
(* sets the flag; a second signal on a set flag is absorbed.               *)
(***************************************************************************)
EXTENDS Integers, Sequences, FiniteSets

CONSTANTS
  Threads,   \* threads that use the semaphore
  NoOwner,   \* "no thread", for the refinement to Mutex
  IntMin     \* INT_MIN, the value at which the decrement gives up

ASSUME ConstAssumption ==
  /\ IsFiniteSet(Threads)
  /\ NoOwner \notin Threads
  /\ IntMin \in Int
  /\ IntMin < 0

VARIABLES
  value,     \* sem->value: 1 free, 0 taken, -n taken with n more callers
  oldval,    \* oldval[t]: the local of sync_bin_sem_bare_wait
  active,    \* notification: a signal is pending
  queue,     \* notification: threads blocked in seL4_Wait, oldest first
  pc         \* pc[t]: where t is in wait / post

vars == <<value, oldval, active, queue, pc>>

Goto(t, label) == pc' = [pc EXCEPT ![t] = label]

(* sync_bin_sem_init with value 1, as sync_mutex_init calls it.            *)
Init ==
  /\ value = 1
  /\ oldval = [t \in Threads |-> 0]
  /\ active = FALSE
  /\ queue = <<>>
  /\ pc = [t \in Threads |-> "idle"]

-----------------------------------------------------------------------------
(* sync_mutex_lock -> sync_bin_sem_wait -> sync_bin_sem_bare_wait          *)

(* A client decides to take the lock.                                      *)
Lock(t) ==
  /\ pc[t] = "idle"
  /\ Goto(t, "load")
  /\ UNCHANGED <<value, oldval, active, queue>>

Load_NoOverflowCheck(t) ==   \* faulty variant: INT_MIN is not tested
  /\ pc[t] = "load"
  /\ oldval' = [oldval EXCEPT ![t] = value]
  /\ Goto(t, "cas")
  /\ UNCHANGED <<value, active, queue>>

(* `*oldval = *x`, and the return of -1 when decrementing would overflow.  *)
Load(t) ==
  /\ pc[t] = "load"
  /\ oldval' = [oldval EXCEPT ![t] = value]
  /\ Goto(t, IF value = IntMin THEN "failed" ELSE "cas")
  /\ UNCHANGED <<value, active, queue>>

CasSucceeds_PlainStore(t) ==   \* faulty variant: a store, not a compare-exchange
  /\ pc[t] = "cas"
  /\ value' = oldval[t] - 1
  /\ Goto(t, IF oldval[t] <= 0 THEN "wait" ELSE "held")
  /\ UNCHANGED <<oldval, active, queue>>

(* __atomic_compare_exchange_n succeeds; `if (oldval <= 0)` decides.       *)
CasSucceeds(t) ==
  /\ pc[t] = "cas"
  /\ value = oldval[t]
  /\ value' = value - 1
  /\ Goto(t, IF oldval[t] <= 0 THEN "wait" ELSE "held")
  /\ UNCHANGED <<oldval, active, queue>>

(* The counter moved since the load: store it in oldval and loop.          *)
CasFails(t) ==
  /\ pc[t] = "cas"
  /\ value # oldval[t]
  /\ oldval' = [oldval EXCEPT ![t] = value]
  /\ Goto(t, "load")
  /\ UNCHANGED <<value, active, queue>>

WaitConsumes_KeepsFlag(t) ==   \* faulty variant: the signal is not consumed
  /\ pc[t] = "wait"
  /\ active
  /\ Goto(t, "held")
  /\ UNCHANGED <<value, oldval, active, queue>>

(* seL4_Wait finds a pending signal and consumes it.                       *)
WaitConsumes(t) ==
  /\ pc[t] = "wait"
  /\ active
  /\ active' = FALSE
  /\ Goto(t, "held")
  /\ UNCHANGED <<value, oldval, queue>>

(* seL4_Wait finds none and blocks the thread.                             *)
WaitBlocks(t) ==
  /\ pc[t] = "wait"
  /\ ~active
  /\ queue' = Append(queue, t)
  /\ Goto(t, "blocked")
  /\ UNCHANGED <<value, oldval, active>>

(* sync_bin_sem_bare_wait returned -1: the caller does not own the lock.   *)
WaitFailed(t) ==
  /\ pc[t] = "failed"
  /\ Goto(t, "idle")
  /\ UNCHANGED <<value, oldval, active, queue>>

-----------------------------------------------------------------------------
(* sync_mutex_unlock -> sync_bin_sem_post -> sync_bin_sem_bare_post        *)

Post_SignalBelowZero(t) ==   \* faulty variant: `val < 0` for `val <= 0`
  /\ pc[t] = "held"
  /\ value' = value + 1
  /\ Goto(t, IF value + 1 < 0 THEN "signal" ELSE "idle")
  /\ UNCHANGED <<oldval, active, queue>>

Post_AlwaysSignals(t) ==   \* faulty variant: the test of val is dropped
  /\ pc[t] = "held"
  /\ value' = value + 1
  /\ Goto(t, "signal")
  /\ UNCHANGED <<oldval, active, queue>>

(* __atomic_add_fetch, and the test of the value it returns.               *)
Post(t) ==
  /\ pc[t] = "held"
  /\ value' = value + 1
  /\ Goto(t, IF value + 1 <= 0 THEN "signal" ELSE "idle")
  /\ UNCHANGED <<oldval, active, queue>>

(* seL4_Signal with a thread blocked: it returns from seL4_Wait.           *)
SignalWakes(t) ==
  /\ pc[t] = "signal"
  /\ queue # <<>>
  /\ queue' = Tail(queue)
  /\ pc' = [pc EXCEPT ![t] = "idle", ![Head(queue)] = "held"]
  /\ UNCHANGED <<value, oldval, active>>

(* seL4_Signal with nobody blocked: the notification becomes active.       *)
SignalPends(t) ==
  /\ pc[t] = "signal"
  /\ queue = <<>>
  /\ active' = TRUE
  /\ Goto(t, "idle")
  /\ UNCHANGED <<value, oldval, queue>>

-----------------------------------------------------------------------------
(* The steps a thread takes once it has called lock or unlock; Post is the *)
(* end of its critical section.                                            *)
Progress(t) ==
  \/ Load(t) \/ CasSucceeds(t) \/ CasFails(t)
  \/ WaitConsumes(t) \/ WaitBlocks(t) \/ WaitFailed(t)
  \/ Post(t) \/ SignalWakes(t) \/ SignalPends(t)

Next == \E t \in Threads : Lock(t) \/ Progress(t)

Spec == Init /\ [][Next]_vars

(* Threads have equal priority and the kernel runs them round robin, and   *)
(* critical sections end: each runnable thread keeps taking steps.  Nobody *)
(* is obliged to ask for the lock.                                         *)
Fairness == \A t \in Threads : WF_vars(Progress(t))

FairSpec == Spec /\ Fairness

-----------------------------------------------------------------------------
(* Callers whose decrement succeeded and whose increment is still to come. *)
Contending == {t \in Threads : pc[t] \in {"wait", "blocked", "held"}}

(* The right to enter is somewhere: with the owner, with a thread about to *)
(* signal, or in the notification.                                         *)
TokenExists ==
  \/ active
  \/ \E t \in Threads : pc[t] \in {"held", "signal"}

TypeOK ==
  /\ value \in IntMin..1
  /\ oldval \in [Threads -> IntMin..1]
  /\ active \in BOOLEAN
  /\ queue \in Seq(Threads)
  /\ pc \in [Threads -> {"idle", "load", "cas", "failed", "wait", "blocked",
                         "held", "signal"}]

(* At most one thread is between lock and unlock, whatever the others do   *)
(* between the counter update and the kernel call of wait and post.        *)
MutualExclusion ==
  \A t, u \in Threads : pc[t] = "held" /\ pc[u] = "held" => t = u

(* The counter is exactly 1 minus the callers committed to the lock: no    *)
(* decrement is lost to a race, and a call that fails leaves no trace.     *)
CountExact == value = 1 - Cardinality(Contending)

(* While anybody waits, the right to enter is with the owner or on its way *)
(* to a waiter; a post that loses it would block every caller for ever.    *)
NoLostWakeup == Contending # {} => TokenExists

(* A binary notification absorbs a second signal: post never signals while *)
(* an earlier signal is pending or another thread is about to signal.      *)
NoSignalAbsorbed ==
  \A t \in Threads : pc[t] = "signal" =>
    /\ ~active
    /\ \A u \in Threads \ {t} : pc[u] \notin {"signal", "held"}

(* A thread whose decrement succeeded gets the lock.  (A thread still in   *)
(* the compare-and-swap loop may retry as long as others change value.)    *)
WaitersServed ==
  \A t \in Threads : pc[t] \in {"wait", "blocked"} ~> pc[t] = "held"

-----------------------------------------------------------------------------
(* The owner Mutex speaks of is the thread that returned from wait.        *)
Owner ==
  IF \E t \in Threads : pc[t] = "held"
    THEN CHOOSE t \in Threads : pc[t] = "held"
    ELSE NoOwner

Waiting == {t \in Threads : pc[t] \in {"wait", "blocked"}}

M == INSTANCE Mutex WITH owner <- Owner, waiting <- Waiting

(* The semaphore is a mutex without barging: a lock released with waiters  *)
(* goes to one of them, and each of them gets it.                          *)
ImplementsMutex == M!FairSpec
=============================================================================
