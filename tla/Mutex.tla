------------------------------- MODULE Mutex -------------------------------
(***************************************************************************)
(* What the mutex of userland/mutex.h promises to kmalloc.cpp: at most one *)
(* owner, and no barging.  A caller that finds the lock busy joins         *)
(* `waiting`; a released lock with waiters can only go to a waiter, never  *)
(* to a thread that arrives later.  A thread that asks again for the lock  *)
(* it owns queues like anybody else (the mutex is not recursive), and then *)
(* nobody ever gets it.                                                    *)
(*                                                                         *)
(* BinSem implements this specification; KMalloc is built on it.           *)
(***************************************************************************)
CONSTANTS
  Threads,   \* callers of sync_mutex_lock / sync_mutex_unlock
  NoOwner    \* value of owner while nobody holds the lock (not a thread)

VARIABLES
  owner,     \* the thread that holds the lock, or NoOwner
  waiting    \* the threads committed to wait for it

vars == <<owner, waiting>>

Init ==
  /\ owner = NoOwner
  /\ waiting = {}

(* sync_mutex_lock on a free lock that nobody waits for.                   *)
Enter(t) ==
  /\ owner = NoOwner
  /\ waiting = {}
  /\ owner' = t
  /\ UNCHANGED waiting

(* sync_mutex_lock on a busy lock, or on one promised to a waiter.         *)
Queue(t) ==
  /\ t \notin waiting
  /\ owner # NoOwner \/ waiting # {}
  /\ waiting' = waiting \cup {t}
  /\ UNCHANGED owner

(* The lock is handed to a waiter.                                         *)
Grant(t) ==
  /\ owner = NoOwner
  /\ t \in waiting
  /\ owner' = t
  /\ waiting' = waiting \ {t}

(* sync_mutex_unlock.                                                      *)
Release(t) ==
  /\ owner = t
  /\ owner' = NoOwner
  /\ UNCHANGED waiting

Next == \E t \in Threads : Enter(t) \/ Queue(t) \/ Grant(t) \/ Release(t)

Spec == Init /\ [][Next]_vars

(* Every waiter is granted the lock if it is released again and again.     *)
Fairness == \A t \in Threads : SF_vars(Grant(t))

FairSpec == Spec /\ Fairness
=============================================================================
