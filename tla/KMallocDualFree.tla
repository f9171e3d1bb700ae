-------------------------- MODULE KMallocDualFree --------------------------
(***************************************************************************)
(* KMalloc with a client that frees a pointer again while the block is     *)
(* still free, the mistake that `return; // dual free` in relink is        *)
(* written for.  One thread is enough for it.                              *)
(***************************************************************************)
EXTENDS KMalloc

(* kfree of a pointer that was freed before: the header, which no other    *)
(* block has covered with its data since, still has the size of the block. *)
CallFreeAgain(t, ptr) ==
  /\ pc[t] = "idle"
  /\ ptr - 1 \in FreeChunk
  /\ size[ptr - 1] \in 1..(Word - 1)
  /\ RequestLock(t)
  /\ call' = [call EXCEPT ![t] = [op |-> "free", ptr |-> ptr, size |-> 0]]
  /\ UNCHANGED <<heap, regs, held>>

DualFreeNext ==
  \/ Next
  \/ \E t \in Threads, ptr \in 2..(ChunkMax + 1) : CallFreeAgain(t, ptr)

DualFreeSpec == Init /\ [][DualFreeNext]_vars

(* `return; // dual free`: the second free of a block changes nothing, so  *)
(* the allocator's total stays what it was.                                *)
DualFreeIgnored ==
  [][\A t \in Threads :
       (pc[t] = "body" /\ call[t].op = "free" /\ call[t].ptr - 1 \in FreeChunk)
         => UNCHANGED total]_vars
=============================================================================
