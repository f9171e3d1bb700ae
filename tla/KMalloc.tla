------------------------------ MODULE KMalloc ------------------------------
(***************************************************************************)
(* The allocator of userland/kmalloc.cpp: a pool of equal chunks, a doubly *)
(* linked list of the free ones in address order between two sentinels,    *)
(* in-band headers, first fit by walking the list, and one mutex around    *)
(* every entry point.                                                      *)
(*                                                                         *)
(* Each iteration of the two list walks (the search of kmalloc_no_lock and *)
(* the seek of relink) is a step, so other threads arrive at any point of  *)
(* a walk; the pointer updates of unlink and relink, which nobody can      *)
(* observe half done under the lock, are one step each.  The mutex is the  *)
(* abstract one of Mutex, which BinSem implements.                         *)
(*                                                                         *)
(* A chunk is named by its index in the pool.  A header takes one chunk    *)
(* (sizeof(struct info) = sizeof(union chunk)), so the pointer handed to a *)
(* client, top->data + sizeof(struct info), is the index top + 1.          *)
(***************************************************************************)
EXTENDS Integers

CONSTANTS
  Threads,       \* threads that allocate
  NoOwner,       \* owner of the mutex while it is free
  ChunkMax,      \* chunk_max
  ChunkSize,     \* sizeof(union chunk), also sizeof(struct info)
  Word,          \* 2^64: size_t is arithmetic modulo Word
  Sizes,         \* sizes, in bytes, passed to kmalloc and krealloc(NULL)
  ReallocSizes   \* sizes passed to krealloc with a live block

ASSUME ConstAssumption ==
  /\ NoOwner \notin Threads
  /\ ChunkMax \in Nat \ {0}
  /\ ChunkSize \in Nat \ {0}
  /\ Word \in Nat \ {0}
  /\ Word % ChunkSize = 0
  /\ Sizes \subseteq 0..(Word - 1)
  /\ ReallocSizes \subseteq 0..(Word - 1)

Chunk == 1..ChunkMax

(* The statics head and tail; their addresses are below the pool.          *)
Head == 0
Tail == -1
Node == Chunk \cup {Head, Tail}

Null == -2   \* a null pointer
Junk == -3   \* whatever a client stored where a chunk had its fields

VARIABLES
  next, prev,    \* info.next and info.prev of every node
  count, size,   \* info.count and info.size of every chunk
  initialized,   \* the static initialized
  total,         \* _totalAllocated
  owner,         \* _lock: its owner ...
  waiting,       \* ... and the threads that wait for it
  pc,            \* pc[t]: where t is in kmalloc.cpp
  call,          \* call[t]: the entry point t is in and its arguments
  regs,          \* regs[t]: its locals and result
  live,          \* history: tops of the blocks unlinked and not relinked
  held           \* pointers returned to a client and not yet passed back

heap == <<next, prev, count, size, initialized, total, live>>
lock == <<owner, waiting>>
vars == <<heap, lock, pc, call, regs, held>>

Mtx == INSTANCE Mutex

NoCall == [op |-> "none", ptr |-> Null, size |-> 0]
NoRegs == [want |-> 0, keep |-> 0, top |-> Null, curr |-> Null, res |-> Null]

Goto(t, label) == pc' = [pc EXCEPT ![t] = label]

(* setMemoryPool has run on the zeroed pages of RootServer::reservePages.  *)
Init ==
  /\ next = [n \in Node |-> Null]
  /\ prev = [n \in Node |-> Null]
  /\ count = [c \in Chunk |-> 0]
  /\ size = [c \in Chunk |-> 0]
  /\ initialized = FALSE
  /\ total = 0
  /\ Mtx!Init
  /\ pc = [t \in Threads |-> "idle"]
  /\ call = [t \in Threads |-> NoCall]
  /\ regs = [t \in Threads |-> NoRegs]
  /\ live = {}
  /\ held = {}

-----------------------------------------------------------------------------
(* Arithmetic of chunk_count, in size_t.                                   *)

Need(bytes) == (bytes + ChunkSize) % Word

(* chunks_size takes the multiples of ChunkSize below Word: it never       *)
(* reaches a need above the last of them and the loop does not end.        *)
CountsForever(bytes) == Need(bytes) > Word - ChunkSize

ChunkCount_NoHeader(bytes) ==   \* faulty variant: room for the data only
  (bytes + ChunkSize - 1) \div ChunkSize

ChunkCount(bytes) == (Need(bytes) + ChunkSize - 1) \div ChunkSize

(* The chunks of the allocated block that starts at top.                   *)
Block(top) == top..(top + count[top] - 1)

Allocated == UNION {Block(top) : top \in live}

FreeChunk == Chunk \ Allocated

-----------------------------------------------------------------------------
(* Entry points: the caller asks for the mutex.                            *)

RequestLock(t) ==
  \/ Mtx!Enter(t) /\ Goto(t, "body")
  \/ Mtx!Queue(t) /\ Goto(t, "waiting")

(* kmalloc, operator new; krealloc(NULL, bytes) has the same effect.       *)
CallMalloc(t, bytes) ==
  /\ pc[t] = "idle"
  /\ RequestLock(t)
  /\ call' = [call EXCEPT ![t] = [op |-> "malloc", ptr |-> Null, size |-> bytes]]
  /\ UNCHANGED <<heap, regs, held>>

(* kfree, operator delete: of a pointer a client owns, of NULL (the string *)
(* whose strdup failed), or of an address outside the pool.                *)
CallFree(t, ptr) ==
  /\ pc[t] = "idle"
  /\ RequestLock(t)
  /\ call' = [call EXCEPT ![t] = [op |-> "free", ptr |-> ptr, size |-> 0]]
  /\ held' = held \ {ptr}
  /\ UNCHANGED <<heap, regs>>

(* krealloc of a block the client owns, as vector::doRealloc does.         *)
CallRealloc(t, ptr, bytes) ==
  /\ pc[t] = "idle"
  /\ RequestLock(t)
  /\ call' = [call EXCEPT ![t] = [op |-> "realloc", ptr |-> ptr, size |-> bytes]]
  /\ held' = held \ {ptr}
  /\ UNCHANGED <<heap, regs>>

(* A waiter comes back from sync_mutex_lock with the mutex.                *)
LockGranted(t) ==
  /\ pc[t] = "waiting"
  /\ Mtx!Grant(t)
  /\ Goto(t, "body")
  /\ UNCHANGED <<heap, call, regs, held>>

(* A client writes the data of a block: everything behind the header,      *)
(* which is where the chunks had their list fields while they were free.   *)
ClientWrites(ptr) ==
  LET data == Block(ptr - 1) \ {ptr - 1}
      Clobber(f) == [n \in DOMAIN f |-> IF n \in data THEN Junk ELSE f[n]]
  IN /\ ptr \in held
     /\ data # {}
     /\ next' = Clobber(next)
     /\ prev' = Clobber(prev)
     /\ count' = Clobber(count)
     /\ size' = Clobber(size)
     /\ UNCHANGED <<initialized, total, live, lock, pc, call, regs, held>>

-----------------------------------------------------------------------------
(* kmalloc_no_lock.                                                        *)

Predecessor(c) == IF c = 1 THEN Head ELSE c - 1
Successor(c) == IF c = ChunkMax THEN Tail ELSE c + 1

(* init() on the first allocation: all the chunks are free, in order.      *)
EnsureInit ==
  \/ /\ initialized
     /\ UNCHANGED <<next, prev, count, initialized>>
  \/ /\ ~initialized
     /\ next' = [n \in Node |-> CASE n = Head -> 1
                                  [] n \in Chunk -> Successor(n)
                                  [] OTHER -> next[n]]
     /\ prev' = [n \in Node |-> CASE n = Tail -> ChunkMax
                                  [] n \in Chunk -> Predecessor(n)
                                  [] OTHER -> prev[n]]
     /\ count' = [c \in Chunk |-> 0]
     /\ initialized' = TRUE

(* Up to the first iteration of the search.                                *)
BeginMalloc(t) ==
  /\ pc[t] = "body"
  /\ call[t].op = "malloc"
  /\ ~CountsForever(call[t].size)
  /\ EnsureInit
  /\ regs' = [regs EXCEPT ![t] = [want |-> ChunkCount(call[t].size), keep |-> 0,
                                  top |-> next'[Head], curr |-> next'[Head],
                                  res |-> Null]]
  /\ Goto(t, "search")
  /\ UNCHANGED <<size, total, live, lock, call, held>>

(* chunk_count does not terminate, and the mutex is held.                  *)
Spin(t) ==
  /\ pc[t] = "body"
  /\ call[t].op = "malloc"
  /\ CountsForever(call[t].size)
  /\ EnsureInit
  /\ Goto(t, "spin")
  /\ UNCHANGED <<size, total, live, lock, call, regs, held>>

(* The iteration completes a run of `want` chunks: unlink takes it out.    *)
SearchFound(t) ==
  LET top == regs[t].top
      n == regs[t].want
      before == prev[top]
      after == next[top + n - 1]
  IN /\ pc[t] = "search"
     /\ regs[t].curr # Tail
     /\ regs[t].keep + 1 = n
     /\ next' = [next EXCEPT ![before] = after]
     /\ prev' = [prev EXCEPT ![after] = before]
     /\ count' = [count EXCEPT ![top] = n]
     /\ size' = [size EXCEPT ![top] = call[t].size]
     /\ total' = (total + call[t].size) % Word
     /\ live' = live \cup {top}
     /\ regs' = [regs EXCEPT ![t].res = top + 1]
     /\ Goto(t, "unlock")
     /\ UNCHANGED <<initialized, lock, call, held>>

SearchNext_StaleTop(t) ==   \* faulty variant: top is not moved behind the gap
  LET curr == regs[t].curr
      after == next[curr]
  IN /\ pc[t] = "search"
     /\ curr # Tail
     /\ regs[t].keep + 1 # regs[t].want
     /\ regs' = [regs EXCEPT ![t].keep = IF after = curr + 1 THEN @ + 1 ELSE 0,
                             ![t].curr = after]
     /\ UNCHANGED <<heap, lock, pc, call, held>>

SearchNext_NoReset(t) ==   \* faulty variant: `keep = 0` is missing
  LET curr == regs[t].curr
      after == next[curr]
  IN /\ pc[t] = "search"
     /\ curr # Tail
     /\ regs[t].keep + 1 # regs[t].want
     /\ regs' = [regs EXCEPT ![t].keep = @ + 1, ![t].curr = after]
     /\ UNCHANGED <<heap, lock, pc, call, held>>

SearchNext_NoContinue(t) ==   \* faulty variant: the run never grows
  /\ pc[t] = "search"
  /\ regs[t].curr # Tail
  /\ regs[t].keep + 1 # regs[t].want
  /\ regs' = [regs EXCEPT ![t].keep = 0, ![t].top = next[regs[t].curr],
                          ![t].curr = next[@]]
  /\ UNCHANGED <<heap, lock, pc, call, held>>

(* The iteration goes on: the run grows, or starts again behind a gap.     *)
SearchNext(t) ==
  LET curr == regs[t].curr
      after == next[curr]
  IN /\ pc[t] = "search"
     /\ curr # Tail
     /\ regs[t].keep + 1 # regs[t].want
     /\ \/ /\ after = curr + 1
           /\ regs' = [regs EXCEPT ![t].keep = @ + 1, ![t].curr = after]
        \/ /\ after # curr + 1
           /\ regs' = [regs EXCEPT ![t].keep = 0, ![t].top = after, ![t].curr = after]
     /\ UNCHANGED <<heap, lock, pc, call, held>>

SearchFails_KeepsLock(t) ==   \* faulty variant: returns without unlocking
  /\ pc[t] = "search"
  /\ regs[t].curr = Tail
  /\ Goto(t, "idle")
  /\ UNCHANGED <<heap, lock, call, regs, held>>

(* The end of the list: return NULL.                                       *)
SearchFails(t) ==
  /\ pc[t] = "search"
  /\ regs[t].curr = Tail
  /\ Goto(t, "unlock")
  /\ UNCHANGED <<heap, lock, call, regs, held>>

-----------------------------------------------------------------------------
(* kfree_no_lock and relink.                                               *)

(* NULL, or a chunk outside the pool: nothing to do.                       *)
FreeIgnored(t) ==
  /\ pc[t] = "body"
  /\ call[t].op = "free"
  /\ call[t].ptr = Null \/ call[t].ptr - 1 \notin Chunk
  /\ Goto(t, "unlock")
  /\ UNCHANGED <<heap, lock, call, regs, held>>

BeginFree_Signed(t) ==   \* faulty variant: the total is not a size_t
  LET top == call[t].ptr - 1
  IN /\ pc[t] = "body"
     /\ call[t].op = "free"
     /\ top \in Chunk
     /\ total' = total - size[top]
     /\ regs' = [regs EXCEPT ![t].top = top, ![t].curr = Head]
     /\ Goto(t, "seek")
     /\ UNCHANGED <<next, prev, count, size, initialized, live, lock, call, held>>

(* The total is lowered before the place in the list is looked for.        *)
BeginFree(t) ==
  LET top == call[t].ptr - 1
  IN /\ pc[t] = "body"
     /\ call[t].op = "free"
     /\ top \in Chunk
     /\ total' = (total - size[top]) % Word
     /\ regs' = [regs EXCEPT ![t].top = top, ![t].curr = Head]
     /\ Goto(t, "seek")
     /\ UNCHANGED <<next, prev, count, size, initialized, live, lock, call, held>>

(* The condition of the loop of relink.                                    *)
Beyond(node, top) == next[node] = Tail \/ next[node] >= top

SeekNext(t) ==
  /\ pc[t] = "seek"
  /\ ~Beyond(regs[t].curr, regs[t].top)
  /\ regs' = [regs EXCEPT ![t].curr = next[@]]
  /\ UNCHANGED <<heap, lock, pc, call, held>>

Splice_OneWay(t) ==   \* faulty variant: `next->prev = prev` is missing
  LET top == regs[t].top
      before == regs[t].curr
      last == top + count[top] - 1
  IN /\ pc[t] = "seek"
     /\ Beyond(before, top)
     /\ next' = [c \in Node |-> CASE c = last -> next[before]
                                  [] c \in top..(last - 1) -> c + 1
                                  [] c = before -> top
                                  [] OTHER -> next[c]]
     /\ prev' = [c \in Node |-> CASE c = top -> before
                                  [] c \in (top + 1)..last -> c - 1
                                  [] OTHER -> prev[c]]
     /\ count' = [c \in Chunk |-> IF c \in top..last THEN 0 ELSE count[c]]
     /\ live' = live \ {top}
     /\ Goto(t, "unlock")
     /\ UNCHANGED <<size, initialized, total, lock, call, regs, held>>

(* The end of relink: the chunks of the block go back, one by one, between *)
(* `before` and `after`; a block of no chunk leaves `top` half linked.     *)
Splice(t) ==
  LET top == regs[t].top
      before == regs[t].curr
      after == next[before]
      n == count[top]
      last == IF n = 0 THEN before ELSE top + n - 1
  IN /\ pc[t] = "seek"
     /\ Beyond(before, top)
     /\ IF before = top   \* "dual free"
        THEN UNCHANGED <<next, prev, count, live>>
        ELSE
           /\ next' = [c \in Node |-> CASE c = last -> after
                                        [] c \in top..(last - 1) -> c + 1
                                        [] c = before /\ c # last -> top
                                        [] OTHER -> next[c]]
           /\ prev' = [c \in Node |-> CASE c = after -> last
                                        [] c = top /\ n > 0 -> before
                                        [] c \in (top + 1)..last -> c - 1
                                        [] OTHER -> prev[c]]
           /\ count' = [c \in Chunk |-> IF c \in top..(top + n - 1) THEN 0 ELSE count[c]]
           /\ live' = live \ {top}
     /\ Goto(t, "unlock")
     /\ UNCHANGED <<size, initialized, total, lock, call, regs, held>>

-----------------------------------------------------------------------------
(* krealloc of a block.                                                    *)

ReallocRefused_ShrinksInPlace(t) ==   \* faulty variant: total is not adjusted
  /\ pc[t] = "body"
  /\ call[t].op = "realloc"
  /\ call[t].size < size[call[t].ptr - 1]
  /\ size' = [size EXCEPT ![call[t].ptr - 1] = call[t].size]
  /\ Goto(t, "unlock")
  /\ UNCHANGED <<next, prev, count, initialized, total, live, lock, call, regs, held>>

(* A smaller size is refused: NULL, and the block stays allocated.         *)
ReallocRefused(t) ==
  /\ pc[t] = "body"
  /\ call[t].op = "realloc"
  /\ call[t].size < size[call[t].ptr - 1]
  /\ Goto(t, "unlock")
  /\ UNCHANGED <<heap, lock, call, regs, held>>

(* Otherwise it calls kmalloc, which asks for the mutex this thread holds. *)
(* What follows in krealloc (the copy from the header on, the free of a    *)
(* pointer already moved back) is behind a call that does not return.      *)
ReallocCallsMalloc(t) ==
  /\ pc[t] = "body"
  /\ call[t].op = "realloc"
  /\ call[t].size >= size[call[t].ptr - 1]
  /\ Mtx!Queue(t)
  /\ call' = [call EXCEPT ![t].op = "malloc"]
  /\ Goto(t, "waiting")
  /\ UNCHANGED <<heap, regs, held>>

-----------------------------------------------------------------------------
(* sync_mutex_unlock, and the return to the client with its pointer.       *)
Unlock(t) ==
  LET kept == IF call[t].op = "realloc" THEN call[t].ptr ELSE Null
  IN /\ pc[t] = "unlock"
     /\ Mtx!Release(t)
     /\ held' = held \cup ({regs[t].res, kept} \ {Null})
     /\ call' = [call EXCEPT ![t] = NoCall]
     /\ regs' = [regs EXCEPT ![t] = NoRegs]
     /\ Goto(t, "idle")
     /\ UNCHANGED heap

Call(t) ==
  \/ \E bytes \in Sizes : CallMalloc(t, bytes)
  \/ \E ptr \in held \cup {Null, Head + 1, ChunkMax + 2} : CallFree(t, ptr)
  \/ \E ptr \in held, bytes \in ReallocSizes : CallRealloc(t, ptr, bytes)

(* What a thread does between its lock and its unlock.                     *)
Critical(t) ==
  \/ BeginMalloc(t) \/ Spin(t)
  \/ SearchFound(t) \/ SearchNext(t) \/ SearchFails(t)
  \/ FreeIgnored(t) \/ BeginFree(t) \/ SeekNext(t) \/ Splice(t)
  \/ ReallocRefused(t) \/ ReallocCallsMalloc(t)
  \/ Unlock(t)

Next ==
  \/ \E t \in Threads : Call(t) \/ LockGranted(t) \/ Critical(t)
  \/ \E ptr \in held : ClientWrites(ptr)

Spec == Init /\ [][Next]_vars

(* A thread in the allocator keeps running (round robin, one priority);    *)
(* the mutex serves its waiters, which is what BinSem guarantees.          *)
Fairness ==
  \A t \in Threads : WF_vars(Critical(t)) /\ SF_vars(LockGranted(t))

FairSpec == Spec /\ Fairness

-----------------------------------------------------------------------------
Ops == {"none", "malloc", "free", "realloc"}

Pointer == {Null} \cup 1..(ChunkMax + 2)

TypeOK ==
  /\ next \in [Node -> Node \cup {Null, Junk}]
  /\ prev \in [Node -> Node \cup {Null, Junk}]
  /\ count \in [Chunk -> 0..ChunkMax \cup {Junk}]
  /\ size \in [Chunk -> 0..(Word - 1) \cup {Junk}]
  /\ initialized \in BOOLEAN
  /\ total \in 0..(Word - 1)
  /\ owner \in Threads \cup {NoOwner}
  /\ waiting \subseteq Threads
  /\ pc \in [Threads -> {"idle", "waiting", "body", "search", "seek", "spin",
                         "unlock"}]
  /\ call \in [Threads -> [op : Ops, ptr : Pointer, size : 0..(Word - 1)]]
  /\ regs \in [Threads -> [want : 0..Word, keep : 0..ChunkMax,
                           top : Node \cup {Null}, curr : Node \cup {Null},
                           res : Pointer]]
  /\ live \subseteq Chunk
  /\ held \subseteq 2..(ChunkMax + 1)

(* No chunk belongs to two blocks, and no block reaches past the pool: two *)
(* clients never share a byte.                                             *)
BlocksDisjoint ==
  /\ \A a \in live : Block(a) # {} /\ Block(a) \subseteq Chunk
  /\ \A a, b \in live : a # b => Block(a) \cap Block(b) = {}

(* A block has room for its header and for the bytes that were asked for,  *)
(* unless their sum does not fit in a size_t.                              *)
BlockCoversRequest ==
  \A a \in live : size[a] + ChunkSize < Word
                    => count[a] * ChunkSize >= size[a] + ChunkSize

(* m is the node behind n when the list is in address order.               *)
Follows(m, n) ==
  \/ m \in FreeChunk /\ m > n /\ \A c \in FreeChunk : c <= n \/ m <= c
  \/ m = Tail /\ \A c \in FreeChunk : c <= n

(* The list holds the free chunks, all of them, in address order, linked   *)
(* both ways, whatever clients wrote into the blocks since; no chunk is    *)
(* lost (leaked) and none is linked while a client owns it.                *)
FreeListExact ==
  initialized =>
    \A n \in FreeChunk \cup {Head} : Follows(next[n], n) /\ prev[next[n]] = n

(* The sum of the sizes at these tops, chunk by chunk.                     *)
SumOfSizes(sizes, tops) ==
  LET sum[n \in Nat] ==
        IF n = 0 THEN 0 ELSE sum[n - 1] + (IF n \in tops THEN sizes[n] ELSE 0)
  IN sum[ChunkMax]

(* With the mutex free, getTotalKMallocated is the sum of the sizes of the *)
(* live blocks, as the shell's `kmalloc` command reports it.               *)
TotalExact ==
  owner = NoOwner => total = SumOfSizes(size, live) % Word

(* NULL means that no run of free chunks is long enough: the allocator     *)
(* never gives up because of fragmented bookkeeping.                       *)
NullOnlyIfNoFit ==
  \A t \in Threads :
    (pc[t] = "unlock" /\ call[t].op = "malloc" /\ regs[t].res = Null) =>
      \A c \in Chunk : regs[t].want > 0 =>
        ~(c..(c + regs[t].want - 1) \subseteq FreeChunk)

H == INSTANCE Heap WITH blocks <- {<<a, count[a]>> : a \in live}

(* Seen from outside, kmalloc and kfree are atomic operations of a first   *)
(* fit allocator.                                                          *)
ImplementsHeap == H!Spec

(* Every call of the allocator returns.                                    *)
CallsReturn == \A t \in Threads : pc[t] # "idle" ~> pc[t] = "idle"
=============================================================================
