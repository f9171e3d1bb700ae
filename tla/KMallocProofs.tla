--------------------------- MODULE KMallocProofs ---------------------------
(***************************************************************************)
(* Safety of the allocator, for any number of threads, any pool, any chunk *)
(* size and any width of size_t: under its mutex the list of free chunks   *)
(* stays exact, blocks stay disjoint, a search fails only where nothing    *)
(* fits, and all of it together is the first fit allocator of Heap.        *)
(***************************************************************************)
EXTENDS KMalloc, NatInduction, TLAPS

-----------------------------------------------------------------------------
(* The free list, as a relation between the set of free chunks and the     *)
(* two pointer fields.                                                     *)

(* Where a node stands in the order of addresses; the tail is the last.    *)
Place(n) == IF n = Tail THEN ChunkMax + 1 ELSE n

(* Between m and n, in this order, there is no chunk of F.                 *)
Adjacent(F, m, n) ==
  m < Place(n) /\ \A c \in F : c <= m \/ Place(n) <= c

Links(F, nx, pv) ==
  /\ \A m \in F \cup {Head} :
       nx[m] \in F \cup {Tail} /\ Adjacent(F, m, nx[m]) /\ pv[nx[m]] = m
  /\ \A n \in F \cup {Tail} : pv[n] \in F \cup {Head} /\ nx[pv[n]] = n

(* n chunks of F from c on.                                                *)
Run(F, c, n) == c \in Chunk /\ c..(c + n - 1) \subseteq F

-----------------------------------------------------------------------------
(* The inductive invariant.                                                *)

(* Who is between its lock and its unlock owns the mutex.                  *)
Inside == {"body", "search", "seek", "spin", "unlock"}

LockHeld == \A t \in Threads : pc[t] \in Inside => owner = t

(* The header of a block says what was asked for.                          *)
Headers ==
  \A a \in live : /\ count[a] \in 1..ChunkMax /\ size[a] \in 0..(Word - 1)
                  /\ count[a] = ChunkCount(size[a])

(* The heap is consistent in every state, not only with the mutex free: a  *)
(* block is live until it is linked again.                                 *)
HeapExact ==
  /\ BlocksDisjoint
  /\ Headers
  /\ initialized => Links(FreeChunk, next, prev)
  /\ ~initialized => live = {}

(* The pointers a call has in its hands.                                   *)
Claim(t) ==
  {p \in {call[t].ptr, regs[t].res} :
     p - 1 \in Chunk /\ ~(pc[t] = "unlock" /\ call[t].op = "free")}

(* A block is known to one client, or to one call, at a time.              *)
Claims ==
  /\ \A p \in held : p - 1 \in live
  /\ \A t \in Threads : \A p \in Claim(t) : p - 1 \in live /\ p \notin held
  /\ \A t, u \in Threads : t # u => Claim(t) \cap Claim(u) = {}

(* Where a thread is says what it does, and with which locals.             *)
Stage(t) ==
  /\ pc[t] = "idle" => call[t] = NoCall
  /\ pc[t] # "idle" => call[t].op # "none"
  /\ pc[t] \in {"idle", "waiting", "body", "spin"} => regs[t] = NoRegs
  /\ pc[t] \in {"search", "seek"} => regs[t].res = Null
  /\ pc[t] \in {"search", "spin"} => call[t].op = "malloc"
  /\ pc[t] = "seek" => call[t].op = "free" /\ regs[t].top = call[t].ptr - 1
  /\ call[t].op = "realloc" => call[t].ptr - 1 \in Chunk
  /\ regs[t].res # Null => regs[t].res - 1 \in Chunk /\ call[t].op = "malloc"

(* The loop of kmalloc_no_lock: the run from top to curr is free, is still *)
(* too short, and nothing before it was long enough.                       *)
Searching(t) ==
  pc[t] = "search" =>
    /\ initialized
    /\ regs[t].want = ChunkCount(call[t].size)
    /\ \/ /\ regs[t].curr = Tail
          /\ regs[t].want > 0 => \A c \in Chunk : ~Run(FreeChunk, c, regs[t].want)
       \/ /\ regs[t].top \in Chunk
          /\ regs[t].curr = regs[t].top + regs[t].keep
          /\ regs[t].curr \in Chunk
          /\ regs[t].top..regs[t].curr \subseteq FreeChunk
          /\ regs[t].want > 0 =>
               /\ regs[t].keep < regs[t].want
               /\ \A c \in 1..(regs[t].top - 1) : ~Run(FreeChunk, c, regs[t].want)

(* The loop of relink: curr is in the list, in front of the block.         *)
Seeking(t) ==
  pc[t] = "seek" =>
    /\ regs[t].top \in Chunk
    /\ regs[t].curr \in FreeChunk \cup {Head}
    /\ regs[t].curr < regs[t].top

(* kmalloc_no_lock has given up.                                           *)
NothingFits(t) ==
  pc[t] = "unlock" /\ call[t].op = "malloc" /\ regs[t].res = Null =>
    (regs[t].want > 0 => \A c \in Chunk : ~Run(FreeChunk, c, regs[t].want))

Local(t) == Stage(t) /\ Searching(t) /\ Seeking(t) /\ NothingFits(t)

IInv ==
  /\ TypeOK
  /\ LockHeld
  /\ HeapExact
  /\ Claims
  /\ \A t \in Threads : Local(t)

-----------------------------------------------------------------------------
(* Arithmetic of sizes.                                                    *)

LEMMA Remainder ==
  ASSUME NEW x \in Int, NEW d \in Nat \ {0}
  PROVE  x % d \in 0..(d - 1)
OBVIOUS

LEMMA RoundUp ==
  ASSUME NEW n \in Nat, NEW d \in Nat \ {0}
  PROVE  /\ (n + d - 1) \div d \in Nat
         /\ ((n + d - 1) \div d) * d >= n
         /\ (n + d - 1) \div d <= n + d - 1
OBVIOUS

LEMMA ChunkCountType ==
  ASSUME NEW bytes \in 0..(Word - 1), ~CountsForever(bytes)
  PROVE  ChunkCount(bytes) \in 0..Word
<1>1. Need(bytes) \in 0..(Word - 1)
  BY Remainder, ConstAssumption DEF Need
<1>2. Need(bytes) <= Word - ChunkSize
  BY <1>1, ConstAssumption DEF CountsForever
<1>3. PICK n : n = Need(bytes)
  OBVIOUS
<1>4. /\ n \in Nat
      /\ (n + ChunkSize - 1) \div ChunkSize \in Nat
      /\ (n + ChunkSize - 1) \div ChunkSize <= n + ChunkSize - 1
  BY <1>1, <1>3, RoundUp, ConstAssumption
<1> QED
  BY <1>2, <1>3, <1>4, ConstAssumption DEF ChunkCount

LEMMA ChunkCountCovers ==
  ASSUME NEW bytes \in 0..(Word - 1), bytes + ChunkSize < Word
  PROVE  ChunkCount(bytes) * ChunkSize >= bytes + ChunkSize
<1>1. PICK n : n = bytes + ChunkSize
  OBVIOUS
<1>2. n \in Nat /\ n < Word
  BY <1>1, ConstAssumption
<1>3. n % Word = n
  BY <1>2, ConstAssumption
<1>4. ((n + ChunkSize - 1) \div ChunkSize) * ChunkSize >= n
  BY <1>2, RoundUp, ConstAssumption
<1> QED
  BY <1>1, <1>3, <1>4 DEF ChunkCount, Need

-----------------------------------------------------------------------------
(* The list: init, unlink and relink keep it exact.                        *)

LEMMA PlaceType ==
  ASSUME NEW n \in Chunk \cup {Tail}
  PROVE  Place(n) \in 1..(ChunkMax + 1) /\ (n = Tail \/ Place(n) = n)
BY ConstAssumption DEF Place, Chunk

LEMMA InitLinks ==
  ASSUME NEW nx, NEW pv, nx[Head] = 1, pv[Tail] = ChunkMax,
         \A c \in Chunk : nx[c] = Successor(c) /\ pv[c] = Predecessor(c)
  PROVE  Links(Chunk, nx, pv)
<1>1. ASSUME NEW m \in Chunk \cup {Head}
      PROVE  nx[m] \in Chunk \cup {Tail} /\ Adjacent(Chunk, m, nx[m]) /\ pv[nx[m]] = m
  BY ConstAssumption DEF Chunk, Head, Tail, Successor, Predecessor, Adjacent, Place
<1>2. ASSUME NEW n \in Chunk \cup {Tail}
      PROVE  pv[n] \in Chunk \cup {Head} /\ nx[pv[n]] = n
  BY ConstAssumption DEF Chunk, Head, Tail, Successor, Predecessor
<1> QED
  BY <1>1, <1>2 DEF Links

(* unlink: the run top..last leaves the list.                              *)
LEMMA UnlinkLinks ==
  ASSUME NEW F \in SUBSET Chunk, NEW nx, NEW pv, Links(F, nx, pv),
         NEW top \in Chunk, NEW last \in Chunk, top <= last, top..last \subseteq F,
         NEW before, before = pv[top], NEW after, after = nx[last],
         NEW G, G = F \ (top..last), NEW nx2, NEW pv2,
         nx2[before] = after, \A m \in G \cup {Head} : m # before => nx2[m] = nx[m],
         pv2[after] = before, \A n \in G \cup {Tail} : n # after => pv2[n] = pv[n]
  PROVE  Links(G, nx2, pv2)
<1>1. /\ top \in F /\ last \in F
      /\ before \in F \cup {Head} /\ nx[before] = top /\ Adjacent(F, before, top)
      /\ after \in F \cup {Tail} /\ pv[after] = last /\ Adjacent(F, last, after)
  <2>1. top \in F /\ last \in F
    BY DEF Chunk
  <2> QED
    BY <2>1 DEF Links
<1>2. before \in G \cup {Head} /\ after \in G \cup {Tail}
  BY <1>1, ConstAssumption DEF Adjacent, Place, Chunk, Head, Tail
<1>3. Adjacent(G, before, after)
  <2>1. before \in Int /\ Place(after) \in Int /\ before < top /\ last < Place(after)
    <3>1. after \in Chunk \cup {Tail}
      BY <1>1
    <3>2. Place(after) \in Int /\ Place(top) = top
      BY <3>1, PlaceType DEF Chunk, Tail
    <3>3. before \in Chunk \cup {Head}
      BY <1>1
    <3>4. before \in Int
      BY <3>3 DEF Chunk, Head
    <3> QED
      BY <1>1, <3>2, <3>4 DEF Adjacent
  <2>2. ASSUME NEW c \in G
        PROVE  c <= before \/ Place(after) <= c
    <3>1. (c <= before \/ top <= c) /\ (c <= last \/ Place(after) <= c)
      BY <1>1 DEF Adjacent, Place, Chunk, Tail
    <3> QED
      BY <2>1, <3>1 DEF Chunk
  <2> QED
    BY <2>1, <2>2 DEF Adjacent, Chunk
<1>4. ASSUME NEW m \in G \cup {Head}, m # before
      PROVE  /\ nx[m] \in G \cup {Tail} /\ nx[m] # after
             /\ Adjacent(G, m, nx[m]) /\ pv[nx[m]] = m
  <2>1. m \in F \cup {Head} /\ m \notin top..last
    BY DEF Head, Chunk
  <2>2. nx[m] \in F \cup {Tail} /\ Adjacent(F, m, nx[m]) /\ pv[nx[m]] = m
    BY <2>1 DEF Links
  <2>3. nx[m] # after /\ nx[m] # top
    BY <1>1, <1>4, <2>1, <2>2 DEF Chunk
  <2>4. ASSUME nx[m] \in (top + 1)..last
        PROVE  FALSE
    <3>1. PICK k \in (top + 1)..last : k = nx[m]
      BY <2>4
    <3>2. k - 1 \in F /\ k - 1 \in top..last /\ Place(k) = k
      BY <3>1 DEF Chunk, Place, Tail
    <3>3. m < k /\ k - 1 <= m
      BY <2>2, <3>1, <3>2 DEF Adjacent, Chunk
    <3> QED
      BY <2>1, <3>1, <3>2, <3>3 DEF Chunk, Head
  <2> QED
    BY <2>2, <2>3, <2>4 DEF Adjacent, Chunk, Tail
<1>5. ASSUME NEW n \in G \cup {Tail}, n # after
      PROVE  pv[n] \in G \cup {Head} /\ pv[n] # before /\ nx[pv[n]] = n
  <2>1. n \in F \cup {Tail} /\ n \notin top..last
    BY DEF Tail, Chunk
  <2>2. pv[n] \in F \cup {Head} /\ nx[pv[n]] = n /\ Adjacent(F, pv[n], n)
    BY <2>1 DEF Links
  <2>3. pv[n] # before /\ pv[n] # last
    BY <1>1, <1>5, <2>1, <2>2 DEF Chunk
  <2>4. ASSUME pv[n] \in top..(last - 1)
        PROVE  FALSE
    <3>1. PICK k \in top..(last - 1) : k = pv[n]
      BY <2>4
    <3>2. k + 1 \in F /\ k + 1 \in top..last
      BY <3>1 DEF Chunk
    <3>3. k < Place(n) /\ Place(n) <= k + 1
      BY <2>2, <3>1, <3>2 DEF Adjacent, Chunk
    <3> QED
      BY <2>1, <3>1, <3>2, <3>3, ConstAssumption DEF Chunk, Place, Tail
  <2> QED
    BY <2>2, <2>3, <2>4 DEF Chunk, Head
<1>6. ASSUME NEW m \in G \cup {Head}
      PROVE  nx2[m] \in G \cup {Tail} /\ Adjacent(G, m, nx2[m]) /\ pv2[nx2[m]] = m
  BY <1>2, <1>3, <1>4
<1>7. ASSUME NEW n \in G \cup {Tail}
      PROVE  pv2[n] \in G \cup {Head} /\ nx2[pv2[n]] = n
  BY <1>2, <1>5
<1> QED
  BY <1>6, <1>7 DEF Links

(* relink: the block top..last comes back behind `before`.                 *)
LEMMA RelinkLinks ==
  ASSUME NEW F \in SUBSET Chunk, NEW nx, NEW pv, Links(F, nx, pv),
         NEW top \in Chunk, NEW last \in Chunk, top <= last,
         F \cap (top..last) = {},
         NEW before \in F \cup {Head}, before < top,
         NEW after, after = nx[before], after = Tail \/ after >= top,
         NEW G, G = F \cup top..last, NEW nx2, NEW pv2,
         nx2[last] = after, \A c \in top..(last - 1) : nx2[c] = c + 1,
         nx2[before] = top, \A m \in F \cup {Head} : m # before => nx2[m] = nx[m],
         pv2[after] = last, \A c \in (top + 1)..last : pv2[c] = c - 1,
         pv2[top] = before, \A n \in F \cup {Tail} : n # after => pv2[n] = pv[n]
  PROVE  Links(G, nx2, pv2)
<1>1. /\ after \in F \cup {Tail} /\ Adjacent(F, before, after) /\ pv[after] = before
      /\ before \in Int
  BY DEF Links, Chunk, Head
<1>2. /\ last < Place(after) /\ Place(after) \in Int
      /\ top \in top..last /\ last \in top..last
      /\ \A c \in F : c \in Int /\ (c < top \/ c > last)
  <2>1. /\ top \in top..last /\ last \in top..last
        /\ \A c \in F : c \in Int /\ (c < top \/ c > last)
    BY DEF Chunk
  <2>2. CASE after = Tail
    BY <2>1, <2>2, ConstAssumption DEF Place, Chunk
  <2>3. CASE after # Tail
    <3>1. after \in F /\ after >= top
      BY <1>1, <2>3
    <3>2. after \in Int /\ after > last
      BY <2>1, <3>1 DEF Chunk
    <3> QED
      BY <2>1, <2>3, <3>2 DEF Place
  <2> QED
    BY <2>2, <2>3
<1>3. ASSUME NEW m \in G \cup {Head}
      PROVE  nx2[m] \in G \cup {Tail} /\ Adjacent(G, m, nx2[m]) /\ pv2[nx2[m]] = m
  <2>1. CASE m = last
    <3>1. Adjacent(G, last, after)
      BY <1>1, <1>2, ConstAssumption DEF Adjacent, Place, Chunk, Tail
    <3> QED
      BY <1>1, <2>1, <3>1
  <2>2. CASE m \in top..(last - 1)
    <3>1. nx2[m] = m + 1 /\ m + 1 \in (top + 1)..last /\ pv2[m + 1] = m
      BY <2>2 DEF Chunk
    <3>2. Adjacent(G, m, m + 1)
      BY <2>2, <3>1 DEF Adjacent, Place, Chunk, Tail
    <3> QED
      BY <3>1, <3>2 DEF Chunk
  <2>3. CASE m = before
    <3>1. ASSUME NEW c \in G
          PROVE  c <= before \/ top <= c
      <4>1. CASE c \in F
        <5>1. c <= before \/ Place(after) <= c
          BY <1>1, <4>1 DEF Adjacent
        <5> QED
          BY <1>1, <1>2, <4>1, <5>1 DEF Chunk
      <4> QED
        BY <4>1 DEF Chunk
    <3>2. Adjacent(G, before, top)
      BY <3>1 DEF Adjacent, Place, Chunk, Tail
    <3> QED
      BY <1>2, <2>3, <3>2
  <2>4. CASE m \in (F \cup {Head}) \ {before}
    <3>1. /\ nx2[m] = nx[m] /\ nx[m] \in F \cup {Tail} /\ Adjacent(F, m, nx[m])
          /\ pv[nx[m]] = m
      BY <2>4 DEF Links
    <3>2. nx[m] # after
      BY <1>1, <2>4, <3>1
    <3>3. ASSUME NEW c \in top..last
          PROVE  c <= m \/ Place(nx[m]) <= c
      <4>1. m \in Int /\ c \in Int /\ (m < before \/ m > before)
        BY <1>1, <2>4 DEF Chunk, Head
      <4>2. CASE m < before
        <5>1. before \in F
          BY <2>4, <4>2 DEF Chunk, Head
        <5>2. Place(nx[m]) <= before
          BY <1>1, <3>1, <4>1, <4>2, <5>1 DEF Adjacent
        <5>3. Place(nx[m]) \in Int
          BY <3>1, PlaceType
        <5> QED
          BY <1>1, <5>2, <5>3 DEF Chunk
      <4>3. CASE m > before
        <5>1. m \in F
          BY <2>4, <4>3 DEF Chunk, Head
        <5>2. Place(after) <= m
          BY <1>1, <4>1, <4>3, <5>1 DEF Adjacent
        <5> QED
          BY <1>2, <4>1, <5>2 DEF Chunk
      <4> QED
        BY <4>1, <4>2, <4>3
    <3>4. Adjacent(G, m, nx[m])
      BY <3>1, <3>3 DEF Adjacent
    <3> QED
      BY <3>1, <3>2, <3>4
  <2> QED
    BY <2>1, <2>2, <2>3, <2>4 DEF Chunk
<1>4. ASSUME NEW n \in G \cup {Tail}
      PROVE  pv2[n] \in G \cup {Head} /\ nx2[pv2[n]] = n
  <2>1. CASE n = after
    BY <1>2, <2>1
  <2>2. CASE n = top
    BY <2>2
  <2>3. CASE n \in (top + 1)..last
    <3>1. pv2[n] = n - 1 /\ n - 1 \in top..(last - 1) /\ nx2[n - 1] = n
      BY <2>3 DEF Chunk
    <3> QED
      BY <3>1 DEF Chunk
  <2>4. CASE n \in (F \cup {Tail}) \ {after}
    <3>1. pv2[n] = pv[n] /\ pv[n] \in F \cup {Head} /\ nx[pv[n]] = n
      BY <2>4 DEF Links
    <3> QED
      BY <2>4, <3>1
  <2> QED
    BY <2>1, <2>2, <2>3, <2>4 DEF Chunk
<1> QED
  BY <1>3, <1>4 DEF Links

-----------------------------------------------------------------------------
(* What a step leaves alone.                                               *)

LEMMA BlocksStay ==
  ASSUME live' = live, \A a \in live : count'[a] = count[a]
  PROVE  FreeChunk' = FreeChunk /\ \A a \in live : Block(a)' = Block(a)
BY DEF FreeChunk, Allocated, Block

(* The chunks of a block are in the pool, and are not free.                *)
LEMMA BlockTaken ==
  ASSUME TypeOK, HeapExact, NEW a \in live
  PROVE  /\ a \in Block(a) /\ Block(a) \subseteq Chunk
         /\ Block(a) \cap FreeChunk = {}
<1>1. a \in Chunk /\ count[a] \in 1..ChunkMax
  BY DEF TypeOK, HeapExact, Headers
<1>2. a \in Block(a)
  BY <1>1, ConstAssumption DEF Block, Chunk
<1>3. Block(a) \subseteq Chunk
  BY DEF HeapExact, BlocksDisjoint
<1> QED
  BY <1>2, <1>3 DEF FreeChunk, Allocated

LEMMA HeapStays ==
  ASSUME HeapExact, UNCHANGED <<next, prev, count, initialized, live>>,
         \A a \in live : size'[a] = size[a]
  PROVE  HeapExact' /\ FreeChunk' = FreeChunk
<1>1. FreeChunk' = FreeChunk /\ \A a \in live : Block(a)' = Block(a)
  BY BlocksStay
<1>2. BlocksDisjoint' /\ Headers'
  BY <1>1 DEF HeapExact, BlocksDisjoint, Headers
<1>3. initialized' => Links(FreeChunk, next, prev)'
  BY <1>1 DEF HeapExact, Links
<1> QED
  BY <1>1, <1>2, <1>3 DEF HeapExact

(* A step of one thread, seen from the others: it hands over only pointers *)
(* it had in its hands, a client had, or nobody had; and it changes the    *)
(* list only with the mutex.                                               *)
LEMMA StepOfOne ==
  ASSUME IInv, NEW t \in Threads,
         \A u \in Threads \ {t} :
           pc'[u] = pc[u] /\ call'[u] = call[u] /\ regs'[u] = regs[u],
         TypeOK', HeapExact', Local(t)',
         owner' = owner \/ owner = NoOwner \/ owner = t,
         pc'[t] \in Inside => owner' = t,
         owner = t \/ (FreeChunk' = FreeChunk /\ initialized' = initialized),
         \A a \in live \ live' : a + 1 \in Claim(t),
         \A p \in held' : p - 1 \in live' /\ p \in held \cup Claim(t),
         \A p \in Claim(t)' : /\ p - 1 \in live' /\ p \notin held'
                              /\ p \in held \cup Claim(t) \/ p - 1 \notin live
  PROVE  IInv'
<1>1. ASSUME NEW u \in Threads \ {t}
      PROVE  Claim(u)' = Claim(u)
  BY DEF Claim
<1>2. LockHeld'
  BY ConstAssumption DEF IInv, LockHeld
<1>3. ASSUME NEW u \in Threads \ {t}
      PROVE  Local(u)'
  <2>1. Local(u)
    BY DEF IInv
  <2>2. Stage(u)'
    BY <2>1 DEF Local, Stage
  <2>3. CASE owner = t
    <3>1. pc'[u] \notin Inside
      BY <2>3 DEF IInv, LockHeld
    <3> QED
      BY <2>2, <3>1 DEF Local, Searching, Seeking, NothingFits, Inside
  <2>4. CASE FreeChunk' = FreeChunk /\ initialized' = initialized
    BY <2>1, <2>2, <2>4 DEF Local, Searching, Seeking, NothingFits
  <2> QED
    BY <2>3, <2>4
<1>4. Claims'
  <2>1. \A p \in held' : p - 1 \in live'
    OBVIOUS
  <2>2. ASSUME NEW u \in Threads, NEW p \in Claim(u)'
        PROVE  p - 1 \in live' /\ p \notin held'
    <3>1. CASE u = t
      BY <3>1
    <3>2. CASE u # t
      <4>1. p \in Claim(u) /\ p - 1 \in Chunk
        BY <1>1, <3>2 DEF Claim
      <4>2. p - 1 \in live /\ p \notin held /\ p \notin Claim(t)
        BY <3>2, <4>1 DEF IInv, Claims
      <4>3. p \in Int
        BY <4>1 DEF IInv, TypeOK, Claim, Pointer, Null
      <4> QED
        BY <4>2, <4>3 DEF Chunk
    <3> QED
      BY <3>1, <3>2
  <2>3. ASSUME NEW u \in Threads, NEW v \in Threads, u # v
        PROVE  (Claim(u) \cap Claim(v) = {})'
    <3>1. CASE u # t /\ v # t
      BY <1>1, <2>3, <3>1 DEF IInv, Claims
    <3>2. ASSUME NEW w \in Threads, w # t
          PROVE  Claim(w)' \cap Claim(t)' = {}
      BY <1>1, <3>2 DEF IInv, Claims
    <3> QED
      BY <2>3, <3>1, <3>2
  <2> QED
    BY <2>1, <2>2, <2>3 DEF Claims
<1> QED
  BY <1>2, <1>3, <1>4 DEF IInv

-----------------------------------------------------------------------------
(* One lemma per action: it preserves the invariant.                       *)

(* RequestLock leaves the caller outside or makes it the owner.            *)
LEMMA RequestMoves ==
  ASSUME TypeOK, NEW t \in Threads, RequestLock(t)
  PROVE  /\ owner' \in Threads \cup {NoOwner} /\ waiting' \subseteq Threads
         /\ owner' = owner \/ owner = NoOwner
         /\ \/ pc' = [pc EXCEPT ![t] = "body"] /\ owner' = t
            \/ pc' = [pc EXCEPT ![t] = "waiting"]
BY DEF RequestLock, Mtx!Enter, Mtx!Queue, Goto, TypeOK

LEMMA CallMallocInv ==
  ASSUME IInv, NEW t \in Threads, NEW bytes \in Sizes, CallMalloc(t, bytes)
  PROVE  IInv'
<1>1. /\ pc[t] = "idle"
      /\ call' = [call EXCEPT ![t] = [op |-> "malloc", ptr |-> Null, size |-> bytes]]
      /\ UNCHANGED <<next, prev, count, size, initialized, total, live, regs, held>>
  BY DEF CallMalloc, heap
<1>2. /\ owner' \in Threads \cup {NoOwner} /\ waiting' \subseteq Threads
      /\ owner' = owner \/ owner = NoOwner
      /\ \/ pc' = [pc EXCEPT ![t] = "body"] /\ owner' = t
         \/ pc' = [pc EXCEPT ![t] = "waiting"]
  BY RequestMoves DEF IInv, CallMalloc
<1>3. regs[t] = NoRegs /\ Claim(t)' = {} /\ pc'[t] \in {"body", "waiting"}
  BY <1>1, <1>2 DEF IInv, TypeOK, Local, Stage, Claim, NoRegs, Null, Chunk
<1>4. TypeOK'
  <2>1. bytes \in 0..(Word - 1)
    BY ConstAssumption
  <2> QED
    BY <1>1, <1>2, <2>1 DEF IInv, TypeOK, Ops, Pointer
<1>5. HeapExact' /\ FreeChunk' = FreeChunk
  BY <1>1, HeapStays DEF IInv
<1>6. Local(t)'
  BY <1>1, <1>3 DEF IInv, TypeOK, Local, Stage, Searching, Seeking, NothingFits, NoRegs
<1>7. \A u \in Threads \ {t} : pc'[u] = pc[u] /\ call'[u] = call[u] /\ regs'[u] = regs[u]
  BY <1>1, <1>2 DEF IInv, TypeOK
<1>8. pc'[t] \in Inside => owner' = t
  BY <1>2 DEF IInv, TypeOK, Inside
<1>9. \A p \in held' : p - 1 \in live' /\ p \in held
  BY <1>1 DEF IInv, Claims
<1> QED
  BY <1>1, <1>2, <1>3, <1>4, <1>5, <1>6, <1>7, <1>8, <1>9, StepOfOne

LEMMA CallFreeInv ==
  ASSUME IInv, NEW t \in Threads, NEW ptr \in held \cup {Null, Head + 1, ChunkMax + 2},
         CallFree(t, ptr)
  PROVE  IInv'
<1>1. /\ pc[t] = "idle" /\ held' = held \ {ptr}
      /\ call' = [call EXCEPT ![t] = [op |-> "free", ptr |-> ptr, size |-> 0]]
      /\ UNCHANGED <<next, prev, count, size, initialized, total, live, regs>>
  BY DEF CallFree, heap
<1>2. /\ owner' \in Threads \cup {NoOwner} /\ waiting' \subseteq Threads
      /\ owner' = owner \/ owner = NoOwner
      /\ \/ pc' = [pc EXCEPT ![t] = "body"] /\ owner' = t
         \/ pc' = [pc EXCEPT ![t] = "waiting"]
  BY RequestMoves DEF IInv, CallFree
<1>3. /\ regs[t] = NoRegs /\ pc'[t] \in {"body", "waiting"}
      /\ \A p \in Claim(t)' : p = ptr /\ p \in held
  <2>1. regs[t] = NoRegs /\ pc'[t] \in {"body", "waiting"}
    BY <1>1, <1>2 DEF IInv, TypeOK, Local, Stage
  <2>2. Claim(t)' \subseteq {ptr, Null} /\ \A p \in Claim(t)' : p - 1 \in Chunk
    BY <1>1, <2>1 DEF IInv, TypeOK, Claim, NoRegs
  <2>3. \A p \in {Null, Head + 1, ChunkMax + 2} : p - 1 \notin Chunk
    BY ConstAssumption DEF Null, Head, Chunk
  <2> QED
    BY <2>1, <2>2, <2>3
<1>4. TypeOK'
  <2>1. ptr \in Pointer /\ held' \subseteq 2..(ChunkMax + 1) /\ 0 \in 0..(Word - 1)
    BY <1>1, ConstAssumption DEF IInv, TypeOK, Pointer, Head
  <2> QED
    BY <1>1, <1>2, <2>1 DEF IInv, TypeOK, Ops
<1>5. HeapExact' /\ FreeChunk' = FreeChunk
  BY <1>1, HeapStays DEF IInv
<1>6. Local(t)'
  BY <1>1, <1>3 DEF IInv, TypeOK, Local, Stage, Searching, Seeking, NothingFits, NoRegs
<1>7. \A u \in Threads \ {t} : pc'[u] = pc[u] /\ call'[u] = call[u] /\ regs'[u] = regs[u]
  BY <1>1, <1>2 DEF IInv, TypeOK
<1>8. pc'[t] \in Inside => owner' = t
  BY <1>2 DEF IInv, TypeOK, Inside
<1>9. /\ \A p \in held' : p - 1 \in live' /\ p \in held
      /\ \A p \in Claim(t)' : p - 1 \in live' /\ p \notin held'
  BY <1>1, <1>3 DEF IInv, Claims
<1> QED
  BY <1>1, <1>2, <1>3, <1>4, <1>5, <1>6, <1>7, <1>8, <1>9, StepOfOne

LEMMA CallReallocInv ==
  ASSUME IInv, NEW t \in Threads, NEW ptr \in held, NEW bytes \in ReallocSizes,
         CallRealloc(t, ptr, bytes)
  PROVE  IInv'
<1>1. /\ pc[t] = "idle" /\ held' = held \ {ptr}
      /\ call' = [call EXCEPT ![t] = [op |-> "realloc", ptr |-> ptr, size |-> bytes]]
      /\ UNCHANGED <<next, prev, count, size, initialized, total, live, regs>>
  BY DEF CallRealloc, heap
<1>2. /\ owner' \in Threads \cup {NoOwner} /\ waiting' \subseteq Threads
      /\ owner' = owner \/ owner = NoOwner
      /\ \/ pc' = [pc EXCEPT ![t] = "body"] /\ owner' = t
         \/ pc' = [pc EXCEPT ![t] = "waiting"]
  BY RequestMoves DEF IInv, CallRealloc
<1>3. /\ regs[t] = NoRegs /\ pc'[t] \in {"body", "waiting"}
      /\ \A p \in Claim(t)' : p = ptr /\ p \in held
  <2>1. regs[t] = NoRegs /\ pc'[t] \in {"body", "waiting"}
    BY <1>1, <1>2 DEF IInv, TypeOK, Local, Stage
  <2>2. Claim(t)' \subseteq {ptr, Null} /\ \A p \in Claim(t)' : p - 1 \in Chunk
    BY <1>1, <2>1 DEF IInv, TypeOK, Claim, NoRegs
  <2>3. Null - 1 \notin Chunk
    BY DEF Null, Chunk
  <2> QED
    BY <2>1, <2>2, <2>3
<1>4. TypeOK' /\ ptr - 1 \in Chunk
  <2>1. ptr \in 2..(ChunkMax + 1) /\ bytes \in 0..(Word - 1)
    BY ConstAssumption DEF IInv, TypeOK
  <2>2. ptr \in Pointer /\ held' \subseteq 2..(ChunkMax + 1) /\ ptr - 1 \in Chunk
    BY <1>1, <2>1, ConstAssumption DEF IInv, TypeOK, Pointer, Chunk
  <2> QED
    BY <1>1, <1>2, <2>1, <2>2 DEF IInv, TypeOK, Ops
<1>5. HeapExact' /\ FreeChunk' = FreeChunk
  BY <1>1, HeapStays DEF IInv
<1>6. Local(t)'
  BY <1>1, <1>3, <1>4
     DEF IInv, TypeOK, Local, Stage, Searching, Seeking, NothingFits, NoRegs
<1>7. \A u \in Threads \ {t} : pc'[u] = pc[u] /\ call'[u] = call[u] /\ regs'[u] = regs[u]
  BY <1>1, <1>2 DEF IInv, TypeOK
<1>8. pc'[t] \in Inside => owner' = t
  BY <1>2 DEF IInv, TypeOK, Inside
<1>9. /\ \A p \in held' : p - 1 \in live' /\ p \in held
      /\ \A p \in Claim(t)' : p - 1 \in live' /\ p \notin held'
  BY <1>1, <1>3 DEF IInv, Claims
<1> QED
  BY <1>1, <1>2, <1>3, <1>4, <1>5, <1>6, <1>7, <1>8, <1>9, StepOfOne

LEMMA LockGrantedInv ==
  ASSUME IInv, NEW t \in Threads, LockGranted(t)
  PROVE  IInv'
<1>1. /\ pc[t] = "waiting" /\ pc' = [pc EXCEPT ![t] = "body"]
      /\ owner = NoOwner /\ owner' = t /\ waiting' = waiting \ {t}
      /\ UNCHANGED <<next, prev, count, size, initialized, total, live, call, regs, held>>
  BY DEF LockGranted, Mtx!Grant, Goto, heap
<1>2. pc'[t] = "body" /\ Claim(t)' = Claim(t)
  BY <1>1 DEF IInv, TypeOK, Claim
<1>3. TypeOK'
  BY <1>1 DEF IInv, TypeOK
<1>4. HeapExact' /\ FreeChunk' = FreeChunk
  BY <1>1, HeapStays DEF IInv
<1>5. Local(t)'
  BY <1>1, <1>2 DEF IInv, TypeOK, Local, Stage, Searching, Seeking, NothingFits
<1>6. \A u \in Threads \ {t} : pc'[u] = pc[u] /\ call'[u] = call[u] /\ regs'[u] = regs[u]
  BY <1>1 DEF IInv, TypeOK
<1>7. /\ \A p \in held' : p - 1 \in live' /\ p \in held
      /\ \A p \in Claim(t)' : p - 1 \in live' /\ p \notin held'
  BY <1>1, <1>2 DEF IInv, Claims
<1> QED
  BY <1>1, <1>2, <1>3, <1>4, <1>5, <1>6, <1>7, StepOfOne

(* A step of the owner that leaves the heap and the clients alone.         *)
LEMMA QuietInside ==
  ASSUME IInv, NEW t \in Threads, pc[t] \in Inside,
         UNCHANGED <<next, prev, count, size, initialized, live, call, held>>,
         \A u \in Threads \ {t} : pc'[u] = pc[u] /\ regs'[u] = regs[u],
         TypeOK', Local(t)', owner' = owner, Claim(t)' \subseteq Claim(t)
  PROVE  IInv'
<1>1. owner = t
  BY DEF IInv, LockHeld
<1>2. HeapExact'
  BY HeapStays DEF IInv
<1>3. /\ \A p \in held' : p - 1 \in live' /\ p \in held
      /\ \A p \in Claim(t)' : p - 1 \in live' /\ p \notin held' /\ p \in Claim(t)
  BY DEF IInv, Claims
<1> QED
  BY <1>1, <1>2, <1>3, StepOfOne

LEMMA FreeIgnoredInv ==
  ASSUME IInv, NEW t \in Threads, FreeIgnored(t)
  PROVE  IInv'
<1>1. /\ pc[t] = "body" /\ call[t].op = "free" /\ pc' = [pc EXCEPT ![t] = "unlock"]
      /\ UNCHANGED <<next, prev, count, size, initialized, total, live, owner,
                     waiting, call, regs, held>>
  BY DEF FreeIgnored, Goto, heap, lock
<1>2. TypeOK' /\ pc'[t] = "unlock"
  BY <1>1 DEF IInv, TypeOK
<1>3. Local(t)'
  BY <1>1, <1>2 DEF IInv, Local, Stage, Searching, Seeking, NothingFits
<1>4. Claim(t)' \subseteq Claim(t)
  BY <1>1, <1>2 DEF Claim
<1> QED
  BY <1>1, <1>2, <1>3, <1>4, QuietInside DEF Inside, IInv, TypeOK

LEMMA ReallocRefusedInv ==
  ASSUME IInv, NEW t \in Threads, ReallocRefused(t)
  PROVE  IInv'
<1>1. /\ pc[t] = "body" /\ call[t].op = "realloc" /\ pc' = [pc EXCEPT ![t] = "unlock"]
      /\ UNCHANGED <<next, prev, count, size, initialized, total, live, owner,
                     waiting, call, regs, held>>
  BY DEF ReallocRefused, Goto, heap, lock
<1>2. TypeOK' /\ pc'[t] = "unlock"
  BY <1>1 DEF IInv, TypeOK
<1>3. Local(t)'
  BY <1>1, <1>2 DEF IInv, Local, Stage, Searching, Seeking, NothingFits
<1>4. Claim(t)' \subseteq Claim(t)
  BY <1>1, <1>2 DEF Claim
<1> QED
  BY <1>1, <1>2, <1>3, <1>4, QuietInside DEF Inside, IInv, TypeOK

LEMMA SearchFailsInv ==
  ASSUME IInv, NEW t \in Threads, SearchFails(t)
  PROVE  IInv'
<1>1. /\ pc[t] = "search" /\ regs[t].curr = Tail /\ pc' = [pc EXCEPT ![t] = "unlock"]
      /\ UNCHANGED <<next, prev, count, size, initialized, total, live, owner,
                     waiting, call, regs, held>>
  BY DEF SearchFails, Goto, heap, lock
<1>2. TypeOK' /\ pc'[t] = "unlock"
  BY <1>1 DEF IInv, TypeOK
<1>3. FreeChunk' = FreeChunk
  BY <1>1 DEF FreeChunk, Allocated, Block
<1>4. regs[t].want > 0 => \A c \in Chunk : ~Run(FreeChunk, c, regs[t].want)
  BY <1>1 DEF IInv, Local, Searching, Tail, Chunk
<1>5. Local(t)'
  BY <1>1, <1>2, <1>3, <1>4
     DEF IInv, Local, Stage, Searching, Seeking, NothingFits
<1>6. Claim(t)' \subseteq Claim(t)
  BY <1>1, <1>2 DEF Claim
<1> QED
  BY <1>1, <1>2, <1>5, <1>6, QuietInside DEF Inside, IInv, TypeOK

(* The registers of a thread, as the type invariant has them.              *)
Registers == [want : 0..Word, keep : 0..ChunkMax, top : Node \cup {Null},
              curr : Node \cup {Null}, res : Pointer]

LEMMA RegistersNow ==
  ASSUME TypeOK
  PROVE  /\ regs \in [Threads -> Registers]
         /\ \A t \in Threads, g \in Registers :
              [regs EXCEPT ![t] = g] \in [Threads -> Registers]
<1>1. regs \in [Threads -> Registers]
  BY DEF TypeOK, Registers
<1> QED
  BY <1>1

(* A step that only moves registers keeps the types.                       *)
LEMMA TypeOfRegisters ==
  ASSUME TypeOK, regs' \in [Threads -> Registers],
         UNCHANGED <<next, prev, count, size, initialized, total, live, owner,
                     waiting, pc, call, held>>
  PROVE  TypeOK'
BY DEF TypeOK, Registers

LEMMA BeginFreeInv ==
  ASSUME IInv, NEW t \in Threads, BeginFree(t)
  PROVE  IInv'
<1> DEFINE top == call[t].ptr - 1
<1>1. /\ pc[t] = "body" /\ call[t].op = "free" /\ top \in Chunk
      /\ total' = (total - size[top]) % Word
      /\ regs' = [regs EXCEPT ![t].top = top, ![t].curr = Head]
      /\ pc' = [pc EXCEPT ![t] = "seek"]
      /\ UNCHANGED <<next, prev, count, size, initialized, live, owner, waiting,
                     call, held>>
  BY DEF BeginFree, Goto, lock
<1>2. top \in live
  BY <1>1 DEF IInv, Claims, Claim
<1>3. regs[t] = NoRegs
  BY <1>1 DEF IInv, Local, Stage
<1>4. /\ regs'[t].top = top /\ regs'[t].curr = Head /\ regs'[t].res = Null
      /\ pc'[t] = "seek"
  BY <1>1, <1>3 DEF IInv, TypeOK, NoRegs
<1>5. TypeOK'
  <2>1. total' \in 0..(Word - 1)
    <3>1. total - size[top] \in Int
      BY <1>2, ConstAssumption DEF IInv, TypeOK, HeapExact, Headers
    <3> QED
      BY <1>1, <3>1, Remainder, ConstAssumption
  <2>2. top \in Node /\ Head \in Node
    BY <1>1 DEF Node
  <2>3. regs' \in [Threads -> Registers]
    <3>1. PICK g : g = [regs[t] EXCEPT !.top = top, !.curr = Head]
      OBVIOUS
    <3>2. g \in Registers
      <4>1. PICK old, c : old = regs[t] /\ c = Head
        OBVIOUS
      <4>2. PICK p : p = top
        OBVIOUS
      <4>3. old \in Registers /\ p \in Node /\ c \in Node
        BY <2>2, <4>1, <4>2, RegistersNow DEF IInv
      <4>4. g = [old EXCEPT !.top = p, !.curr = c]
        BY <3>1, <4>1, <4>2
      <4> QED
        BY <4>3, <4>4 DEF Registers
    <3>3. regs' = [regs EXCEPT ![t] = g]
      BY <1>1, <3>1
    <3> QED
      BY <3>2, <3>3, RegistersNow DEF IInv
  <2>4. pc' \in [Threads -> {"idle", "waiting", "body", "search", "seek", "spin",
                             "unlock"}]
    BY <1>1 DEF IInv, TypeOK
  <2>5. UNCHANGED <<next, prev, count, size, initialized, live, owner, waiting,
                    call, held>>
    BY <1>1
  <2> QED
    BY <2>1, <2>3, <2>4, <2>5 DEF IInv, TypeOK, Registers
<1>6. Local(t)'
  BY <1>1, <1>4 DEF IInv, Local, Stage, Searching, Seeking, NothingFits, Head, Chunk
<1>7. Claim(t)' \subseteq Claim(t)
  BY <1>1, <1>3, <1>4 DEF Claim, NoRegs
<1>8. \A u \in Threads \ {t} : pc'[u] = pc[u] /\ regs'[u] = regs[u]
  BY <1>1 DEF IInv, TypeOK
<1> QED
  BY <1>1, <1>5, <1>6, <1>7, <1>8, QuietInside DEF Inside

LEMMA SeekNextInv ==
  ASSUME IInv, NEW t \in Threads, SeekNext(t)
  PROVE  IInv'
<1> DEFINE curr == regs[t].curr
           top == regs[t].top
<1>1. /\ pc[t] = "seek" /\ next[curr] # Tail /\ ~(next[curr] >= top)
      /\ regs' = [regs EXCEPT ![t].curr = next[@]]
      /\ UNCHANGED <<next, prev, count, size, initialized, total, live, owner,
                     waiting, pc, call, held>>
  BY DEF SeekNext, Beyond, heap, lock
<1>2. /\ curr \in FreeChunk \cup {Head} /\ curr < top /\ top \in Chunk
      /\ call[t].op = "free" /\ top = call[t].ptr - 1
  BY <1>1 DEF IInv, Local, Stage, Seeking
<1>3. top \in live
  BY <1>1, <1>2 DEF IInv, Claims, Claim, Chunk
<1>4. initialized
  BY <1>3 DEF IInv, HeapExact
<1>5. next[curr] \in FreeChunk /\ next[curr] < top
  <2>1. next[curr] \in FreeChunk
    BY <1>1, <1>2, <1>4 DEF IInv, HeapExact, Links
  <2> QED
    BY <1>1, <1>2, <2>1 DEF FreeChunk, Chunk
<1>6. regs'[t] = [regs[t] EXCEPT !.curr = next[curr]]
  BY <1>1 DEF IInv, TypeOK
<1>7. TypeOK'
  <2>1. next[curr] \in Node
    BY <1>5 DEF FreeChunk, Node
  <2> QED
    BY <1>1, <1>6, <2>1 DEF IInv, TypeOK
<1>8. FreeChunk' = FreeChunk
  BY <1>1 DEF FreeChunk, Allocated, Block
<1>9. /\ regs'[t].top = top /\ regs'[t].res = regs[t].res
      /\ regs'[t].curr = next[curr]
  BY <1>6 DEF IInv, TypeOK
<1>10. Local(t)'
  BY <1>1, <1>2, <1>5, <1>8, <1>9
     DEF IInv, Local, Stage, Searching, Seeking, NothingFits
<1>11. Claim(t)' \subseteq Claim(t)
  BY <1>1, <1>9 DEF Claim
<1>12. \A u \in Threads \ {t} : pc'[u] = pc[u] /\ regs'[u] = regs[u]
  BY <1>1 DEF IInv, TypeOK
<1> QED
  BY <1>1, <1>7, <1>10, <1>11, <1>12, QuietInside DEF Inside

LEMMA EnsureInitMoves ==
  ASSUME IInv, EnsureInit, UNCHANGED <<size, live>>
  PROVE  /\ initialized' /\ FreeChunk' = FreeChunk /\ HeapExact'
         /\ Links(FreeChunk, next', prev')
         /\ next' \in [Node -> Node \cup {Null, Junk}]
         /\ prev' \in [Node -> Node \cup {Null, Junk}]
         /\ count' \in [Chunk -> 0..ChunkMax \cup {Junk}]
         /\ initialized' \in BOOLEAN
<1>1. CASE initialized /\ UNCHANGED <<next, prev, count, initialized>>
  <2>1. HeapExact' /\ FreeChunk' = FreeChunk
    BY <1>1, HeapStays DEF IInv
  <2>2. initialized' \in BOOLEAN
    BY <1>1, Zenon DEF IInv, TypeOK
  <2> QED
    BY <1>1, <2>1, <2>2 DEF IInv, TypeOK, HeapExact
<1>2. CASE ~initialized
  <2>1. /\ next' = [n \in Node |-> CASE n = Head -> 1
                                     [] n \in Chunk -> Successor(n)
                                     [] OTHER -> next[n]]
        /\ prev' = [n \in Node |-> CASE n = Tail -> ChunkMax
                                     [] n \in Chunk -> Predecessor(n)
                                     [] OTHER -> prev[n]]
        /\ count' = [c \in Chunk |-> 0]
        /\ initialized' = TRUE
    BY <1>2 DEF EnsureInit
  <2>2. live = {} /\ live' = {}
    BY <1>2 DEF IInv, HeapExact
  <2>3. FreeChunk = Chunk /\ FreeChunk' = Chunk
    BY <2>2 DEF FreeChunk, Allocated
  <2>4. /\ next'[Head] = 1 /\ prev'[Tail] = ChunkMax
        /\ \A c \in Chunk : next'[c] = Successor(c) /\ prev'[c] = Predecessor(c)
    BY <2>1 DEF Node, Chunk, Head, Tail
  <2>5. Links(Chunk, next', prev')
    BY <2>4, InitLinks
  <2>6. HeapExact'
    <3>1. Links(FreeChunk, next, prev)'
      <4>1. PICK F, nx, pv : F = FreeChunk' /\ nx = next' /\ pv = prev'
        OBVIOUS
      <4> QED
        BY <2>3, <2>5, <4>1 DEF Links
    <3> QED
      BY <2>1, <2>2, <3>1 DEF HeapExact, BlocksDisjoint, Headers
  <2>7. /\ \A c \in Chunk : Successor(c) \in Node /\ Predecessor(c) \in Node
        /\ 1 \in Node /\ ChunkMax \in Node /\ 0 \in 0..ChunkMax
    BY ConstAssumption DEF Successor, Predecessor, Node, Chunk, Head, Tail
  <2>8. /\ next' \in [Node -> Node \cup {Null, Junk}]
        /\ prev' \in [Node -> Node \cup {Null, Junk}]
    BY <2>1, <2>7 DEF IInv, TypeOK
  <2> QED
    BY <2>1, <2>3, <2>5, <2>6, <2>7, <2>8
<1> QED
  BY <1>1, <1>2 DEF EnsureInit

LEMMA BeginMallocInv ==
  ASSUME IInv, NEW t \in Threads, BeginMalloc(t)
  PROVE  IInv'
<1> DEFINE want == ChunkCount(call[t].size)
           first == next'[Head]
<1>1. /\ pc[t] = "body" /\ call[t].op = "malloc" /\ ~CountsForever(call[t].size)
      /\ EnsureInit
      /\ regs' = [regs EXCEPT ![t] = [want |-> want, keep |-> 0, top |-> first,
                                      curr |-> first, res |-> Null]]
      /\ pc' = [pc EXCEPT ![t] = "search"]
      /\ UNCHANGED <<size, total, live, owner, waiting, call, held>>
  BY DEF BeginMalloc, Goto, lock
<1>2. /\ initialized' /\ FreeChunk' = FreeChunk /\ HeapExact'
      /\ Links(FreeChunk, next', prev')
      /\ next' \in [Node -> Node \cup {Null, Junk}]
      /\ prev' \in [Node -> Node \cup {Null, Junk}]
      /\ count' \in [Chunk -> 0..ChunkMax \cup {Junk}]
      /\ initialized' \in BOOLEAN
  BY <1>1, EnsureInitMoves
<1>3. want \in 0..Word
  BY <1>1, ChunkCountType DEF IInv, TypeOK
<1>4. first \in FreeChunk \cup {Tail} /\ Adjacent(FreeChunk, Head, first)
  BY <1>2 DEF Links
<1>5. /\ pc'[t] = "search"
      /\ regs'[t].want = want /\ regs'[t].keep = 0 /\ regs'[t].top = first
      /\ regs'[t].curr = first /\ regs'[t].res = Null
  BY <1>1 DEF IInv, TypeOK
<1>6. TypeOK'
  <2>1. first \in Node /\ 0 \in 0..ChunkMax
    BY <1>4, ConstAssumption DEF Node, FreeChunk
  <2> QED
    BY <1>1, <1>2, <1>3, <2>1 DEF IInv, TypeOK, Pointer
<1>7. Local(t)'
  <2>1. \A c \in Chunk : want > 0 /\ Run(FreeChunk, c, want) => c \in FreeChunk
    BY <1>3, ConstAssumption DEF Run, Chunk
  <2>2. CASE first = Tail
    <3>1. \A c \in FreeChunk : FALSE
      BY <1>4, <2>2, ConstAssumption DEF Adjacent, Place, FreeChunk, Chunk, Head
    <3>2. Searching(t)'
      BY <1>1, <1>2, <1>5, <2>1, <2>2, <3>1 DEF Searching
    <3> QED
      BY <1>1, <1>5, <3>2 DEF IInv, Local, Stage, Seeking, NothingFits
  <2>3. CASE first # Tail
    <3>1. first \in FreeChunk /\ first \in Chunk /\ first + 0 = first
          /\ first..first \subseteq FreeChunk
      BY <1>4, <2>3 DEF FreeChunk, Chunk
    <3>2. ASSUME want > 0, NEW c \in 1..(first - 1)
          PROVE  ~Run(FreeChunk, c, want)
      <4>1. c \in Chunk /\ c \notin FreeChunk
        BY <1>4, <2>3, <3>1, ConstAssumption DEF Adjacent, Place, Chunk, Head
      <4> QED
        BY <2>1, <3>2, <4>1
    <3>3. Searching(t)'
      BY <1>1, <1>2, <1>5, <3>1, <3>2, <1>3 DEF Searching
    <3> QED
      BY <1>1, <1>5, <3>3 DEF IInv, Local, Stage, Seeking, NothingFits
  <2> QED
    BY <2>2, <2>3
<1>8. Claim(t)' \subseteq Claim(t)
  BY <1>1, <1>5 DEF Claim, Null, Chunk
<1>9. \A u \in Threads \ {t} : pc'[u] = pc[u] /\ call'[u] = call[u] /\ regs'[u] = regs[u]
  BY <1>1 DEF IInv, TypeOK
<1>10. owner = t /\ owner' = t
  BY <1>1 DEF IInv, LockHeld, Inside
<1>11. /\ \A p \in held' : p - 1 \in live' /\ p \in held
       /\ \A p \in Claim(t)' : p - 1 \in live' /\ p \notin held' /\ p \in Claim(t)
  BY <1>1, <1>8 DEF IInv, Claims
<1> QED
  BY <1>1, <1>2, <1>6, <1>7, <1>9, <1>10, <1>11, StepOfOne

LEMMA SpinInv ==
  ASSUME IInv, NEW t \in Threads, Spin(t)
  PROVE  IInv'
<1>1. /\ pc[t] = "body" /\ call[t].op = "malloc" /\ EnsureInit
      /\ pc' = [pc EXCEPT ![t] = "spin"]
      /\ UNCHANGED <<size, total, live, owner, waiting, call, regs, held>>
  BY DEF Spin, Goto, lock
<1>2. /\ initialized' /\ FreeChunk' = FreeChunk /\ HeapExact'
      /\ next' \in [Node -> Node \cup {Null, Junk}]
      /\ prev' \in [Node -> Node \cup {Null, Junk}]
      /\ count' \in [Chunk -> 0..ChunkMax \cup {Junk}]
      /\ initialized' \in BOOLEAN
  BY <1>1, EnsureInitMoves
<1>3. TypeOK' /\ pc'[t] = "spin"
  BY <1>1, <1>2 DEF IInv, TypeOK
<1>4. Local(t)'
  BY <1>1, <1>3 DEF IInv, Local, Stage, Searching, Seeking, NothingFits
<1>5. Claim(t)' \subseteq Claim(t)
  BY <1>1, <1>3 DEF Claim
<1>6. \A u \in Threads \ {t} : pc'[u] = pc[u] /\ call'[u] = call[u] /\ regs'[u] = regs[u]
  BY <1>1 DEF IInv, TypeOK
<1>7. owner = t /\ owner' = t
  BY <1>1 DEF IInv, LockHeld, Inside
<1>8. /\ \A p \in held' : p - 1 \in live' /\ p \in held
      /\ \A p \in Claim(t)' : p - 1 \in live' /\ p \notin held' /\ p \in Claim(t)
  BY <1>1, <1>5 DEF IInv, Claims
<1> QED
  BY <1>1, <1>2, <1>3, <1>4, <1>6, <1>7, <1>8, StepOfOne

(* Behind a gap the search starts again, and has missed nothing.           *)
LEMMA SearchStep ==
  ASSUME NEW F \in SUBSET Chunk, NEW top \in Chunk, NEW curr \in Chunk, NEW keep \in Nat,
         NEW want \in Nat, curr = top + keep, keep < want, keep + 1 # want,
         \A c \in 1..(top - 1) : ~Run(F, c, want),
         NEW after \in F \cup {Tail}, Adjacent(F, curr, after), after # curr + 1
  PROVE  \A c \in Chunk : Run(F, c, want) => Place(after) <= c
<1> SUFFICES ASSUME NEW c \in Chunk, Run(F, c, want), ~(Place(after) <= c)
             PROVE  FALSE
  OBVIOUS
<1>1. Place(after) \in Int /\ (after = Tail => Place(after) = ChunkMax + 1)
      /\ (after # Tail => Place(after) = after)
  <2>1. after \in Chunk \cup {Tail}
    OBVIOUS
  <2> QED
    BY <2>1, PlaceType, ConstAssumption DEF Place
<1>2. c \in F
  BY DEF Run, Chunk
<1>3. c <= curr
  BY <1>2 DEF Adjacent
<1>4. top <= c
  BY DEF Chunk
<1>5. curr + 1 \in c..(c + want - 1)
  BY <1>3, <1>4 DEF Chunk
<1>6. curr + 1 \in F
  BY <1>5 DEF Run
<1>7. Place(after) = curr + 1
  BY <1>1, <1>6 DEF Adjacent, Chunk
<1> QED
  BY <1>1, <1>6, <1>7, ConstAssumption DEF Chunk

LEMMA SearchNextInv ==
  ASSUME IInv, NEW t \in Threads, SearchNext(t)
  PROVE  IInv'
<1> DEFINE r == regs[t]
           after == next[r.curr]
<1>1. /\ pc[t] = "search" /\ r.curr # Tail /\ r.keep + 1 # r.want
      /\ UNCHANGED <<next, prev, count, size, initialized, total, live, owner,
                     waiting, pc, call, held>>
  BY DEF SearchNext, heap, lock
<1>2. /\ initialized /\ r.want = ChunkCount(call[t].size)
      /\ r.top \in Chunk /\ r.curr \in Chunk /\ r.curr = r.top + r.keep
      /\ r.top..r.curr \subseteq FreeChunk
      /\ r.want > 0 => /\ r.keep < r.want
                       /\ \A c \in 1..(r.top - 1) : ~Run(FreeChunk, c, r.want)
  BY <1>1 DEF IInv, Local, Searching
<1>3. r.want \in Nat /\ r.keep \in Nat /\ FreeChunk \in SUBSET Chunk
  BY ConstAssumption DEF IInv, TypeOK, FreeChunk
<1>4. r.curr \in FreeChunk
  BY <1>2, <1>3 DEF Chunk
<1>5. after \in FreeChunk \cup {Tail} /\ Adjacent(FreeChunk, r.curr, after)
  BY <1>2, <1>4 DEF IInv, HeapExact, Links
<1>6. FreeChunk' = FreeChunk
  BY <1>1 DEF FreeChunk, Allocated, Block
<1>7. CASE /\ after = r.curr + 1
           /\ regs' = [regs EXCEPT ![t].keep = @ + 1, ![t].curr = after]
  <2>1. /\ regs'[t].keep = r.keep + 1 /\ regs'[t].curr = after
        /\ regs'[t].want = r.want /\ regs'[t].top = r.top /\ regs'[t].res = r.res
    BY <1>7 DEF IInv, TypeOK
  <2>2. /\ after \in Chunk /\ after \in FreeChunk /\ after = r.top + (r.keep + 1)
        /\ r.top..after \subseteq FreeChunk /\ r.keep + 1 \in 0..ChunkMax
    BY <1>2, <1>3, <1>5, <1>7, ConstAssumption DEF Chunk, Tail
  <2>3. TypeOK'
    <3>1. after \in Node
      BY <2>2 DEF Node
    <3>2. PICK g : g = [regs[t] EXCEPT !.keep = @ + 1, !.curr = after]
      OBVIOUS
    <3>3. g \in Registers
      <4>1. PICK old, k, c : old = regs[t] /\ k = regs[t].keep + 1 /\ c = after
        OBVIOUS
      <4>2. old \in Registers /\ k \in 0..ChunkMax /\ c \in Node
        BY <2>2, <3>1, <4>1, RegistersNow DEF IInv
      <4>3. g = [old EXCEPT !.keep = k, !.curr = c]
        BY <3>2, <4>1
      <4> QED
        BY <4>2, <4>3 DEF Registers
    <3>4. regs' = [regs EXCEPT ![t] = g]
      BY <1>7, <3>2
    <3> QED
      BY <1>1, <3>3, <3>4, RegistersNow, TypeOfRegisters DEF IInv
  <2>4. Searching(t)'
    <3>1. r.want > 0 => r.keep + 1 < r.want
      BY <1>1, <1>2, <1>3
    <3> QED
      BY <1>1, <1>2, <1>6, <2>1, <2>2, <3>1 DEF Searching
  <2>5. Local(t)'
    BY <1>1, <2>1, <2>4 DEF IInv, Local, Stage, Seeking, NothingFits
  <2>6. Claim(t)' \subseteq Claim(t)
    BY <1>1, <2>1 DEF Claim
  <2>7. \A u \in Threads \ {t} : pc'[u] = pc[u] /\ regs'[u] = regs[u]
    BY <1>1, <1>7 DEF IInv, TypeOK
  <2> QED
    BY <1>1, <2>3, <2>5, <2>6, <2>7, QuietInside DEF Inside
<1>8. CASE /\ after # r.curr + 1
           /\ regs' = [regs EXCEPT ![t].keep = 0, ![t].top = after, ![t].curr = after]
  <2>1. /\ regs'[t].keep = 0 /\ regs'[t].curr = after
        /\ regs'[t].want = r.want /\ regs'[t].top = after /\ regs'[t].res = r.res
    BY <1>8 DEF IInv, TypeOK
  <2>2. TypeOK'
    <3>1. after \in Node /\ 0 \in 0..ChunkMax
      BY <1>5, ConstAssumption DEF Node, FreeChunk
    <3>2. PICK g : g = [regs[t] EXCEPT !.keep = 0, !.top = after, !.curr = after]
      OBVIOUS
    <3>3. g \in Registers
      <4>1. PICK old, c : old = regs[t] /\ c = after
        OBVIOUS
      <4>2. old \in Registers /\ 0 \in 0..ChunkMax /\ c \in Node
        BY <3>1, <4>1, RegistersNow DEF IInv
      <4>3. g = [old EXCEPT !.keep = 0, !.top = c, !.curr = c]
        BY <3>2, <4>1
      <4> QED
        BY <4>2, <4>3 DEF Registers
    <3>4. regs' = [regs EXCEPT ![t] = g]
      BY <1>8, <3>2
    <3> QED
      BY <1>1, <3>3, <3>4, RegistersNow, TypeOfRegisters DEF IInv
  <2>3. r.want > 0 => \A c \in Chunk : Run(FreeChunk, c, r.want) => Place(after) <= c
    <3>1. PICK F, rr : F = FreeChunk /\ rr = r
      OBVIOUS
    <3> QED
      BY <1>1, <1>2, <1>3, <1>5, <1>8, <3>1, SearchStep
  <2>4. Searching(t)'
    <3>1. CASE after = Tail
      <4>1. r.want > 0 => \A c \in Chunk : ~Run(FreeChunk, c, r.want)
        BY <2>3, <3>1, ConstAssumption DEF Place, Chunk
      <4> QED
        BY <1>1, <1>2, <1>6, <2>1, <3>1, <4>1 DEF Searching
    <3>2. CASE after # Tail
      <4>1. /\ after \in FreeChunk /\ after \in Chunk /\ after = after + 0
            /\ after..after \subseteq FreeChunk /\ Place(after) = after
        BY <1>5, <3>2 DEF FreeChunk, Chunk, Place
      <4>2. r.want > 0 => \A c \in 1..(after - 1) : ~Run(FreeChunk, c, r.want)
        BY <2>3, <4>1, ConstAssumption DEF Chunk
      <4> QED
        BY <1>1, <1>2, <1>3, <1>6, <2>1, <4>1, <4>2 DEF Searching
    <3> QED
      BY <3>1, <3>2
  <2>5. Local(t)'
    BY <1>1, <2>1, <2>4 DEF IInv, Local, Stage, Seeking, NothingFits
  <2>6. Claim(t)' \subseteq Claim(t)
    BY <1>1, <2>1 DEF Claim
  <2>7. \A u \in Threads \ {t} : pc'[u] = pc[u] /\ regs'[u] = regs[u]
    BY <1>1, <1>8 DEF IInv, TypeOK
  <2> QED
    BY <1>1, <2>2, <2>5, <2>6, <2>7, QuietInside DEF Inside
<1> QED
  BY <1>7, <1>8 DEF SearchNext

(* What unlink does: the run top..last becomes a block.                    *)
UnlinkRun(top, last, bytes) ==
  /\ next' = [next EXCEPT ![prev[top]] = next[last]]
  /\ prev' = [prev EXCEPT ![next[last]] = prev[top]]
  /\ count' = [count EXCEPT ![top] = last - top + 1]
  /\ size' = [size EXCEPT ![top] = bytes]
  /\ live' = live \cup {top}
  /\ UNCHANGED initialized

LEMMA UnlinkMoves ==
  ASSUME TypeOK, HeapExact, initialized,
         NEW top \in Chunk, NEW last \in Chunk, top <= last, top..last \subseteq FreeChunk,
         NEW bytes \in 0..(Word - 1), last - top + 1 = ChunkCount(bytes),
         UnlinkRun(top, last, bytes)
  PROVE  /\ HeapExact' /\ top \notin live
         /\ FreeChunk' = FreeChunk \ (top..last)
         /\ \A a \in live : count'[a] = count[a]
         /\ count'[top] = last - top + 1 /\ last - top + 1 \in 1..ChunkMax
         /\ next' \in [Node -> Node \cup {Null, Junk}]
         /\ prev' \in [Node -> Node \cup {Null, Junk}]
         /\ count' \in [Chunk -> 0..ChunkMax \cup {Junk}]
         /\ size' \in [Chunk -> 0..(Word - 1) \cup {Junk}]
         /\ live' \subseteq Chunk
<1>1. top \in top..last /\ top \in FreeChunk /\ last \in FreeChunk
  BY DEF Chunk
<1>2. top \notin live
  BY <1>1, BlockTaken
<1>3. last - top + 1 \in 1..ChunkMax
  BY ConstAssumption DEF Chunk
<1>4. /\ count'[top] = last - top + 1 /\ size'[top] = bytes
      /\ \A a \in live : count'[a] = count[a] /\ size'[a] = size[a]
      /\ live' = live \cup {top}
  BY <1>2 DEF TypeOK, UnlinkRun
<1>5. /\ Block(top)' = top..last
      /\ \A a \in live : Block(a)' = Block(a)
  <2>1. top + (last - top + 1) - 1 = last
    BY DEF Chunk
  <2> QED
    BY <1>4, <2>1 DEF Block
<1>6. Allocated' = Allocated \cup top..last
  BY <1>4, <1>5 DEF Allocated
<1>7. FreeChunk' = FreeChunk \ (top..last)
  BY <1>6 DEF FreeChunk
<1>8. BlocksDisjoint'
  <2>1. top..last \subseteq Chunk /\ top..last # {}
    BY <1>1 DEF FreeChunk
  <2>2. \A a \in live : Block(a) \cap (top..last) = {}
    BY BlockTaken
  <2>3. \A a \in live' : Block(a)' # {} /\ Block(a)' \subseteq Chunk
    BY <1>4, <1>5, <2>1 DEF HeapExact, BlocksDisjoint
  <2>4. ASSUME NEW a \in live', NEW b \in live', a # b
        PROVE  Block(a)' \cap Block(b)' = {}
    <3>1. CASE a = top \/ b = top
      BY <1>4, <1>5, <2>2, <2>4, <3>1
    <3>2. CASE a # top /\ b # top
      BY <1>4, <1>5, <2>4, <3>2 DEF HeapExact, BlocksDisjoint
    <3> QED
      BY <3>1, <3>2
  <2> QED
    BY <2>3, <2>4 DEF BlocksDisjoint
<1>9. Headers'
  BY <1>3, <1>4 DEF HeapExact, Headers
<1>10. /\ prev[top] \in FreeChunk \cup {Head} /\ next[last] \in FreeChunk \cup {Tail}
       /\ prev[top] \in Node /\ next[last] \in Node
  BY <1>1 DEF HeapExact, Links, FreeChunk, Node
<1>11. Links(FreeChunk, next, prev)'
  <2>1. PICK F, nx, pv : F = FreeChunk /\ nx = next /\ pv = prev
    OBVIOUS
  <2>2. PICK G, nx2, pv2 : G = FreeChunk' /\ nx2 = next' /\ pv2 = prev'
    OBVIOUS
  <2>3. F \in SUBSET Chunk /\ Links(F, nx, pv) /\ G = F \ (top..last)
    BY <1>7, <2>1, <2>2 DEF FreeChunk, HeapExact
  <2>4. /\ nx2[pv[top]] = nx[last] /\ pv2[nx[last]] = pv[top]
        /\ \A m \in G \cup {Head} : m # pv[top] => nx2[m] = nx[m]
        /\ \A n \in G \cup {Tail} : n # nx[last] => pv2[n] = pv[n]
    <3>1. \A m \in G \cup {Head, Tail} : m \in Node
      BY <2>3 DEF Node
    <3> QED
      BY <1>10, <2>1, <2>2, <3>1 DEF TypeOK, UnlinkRun
  <2>5. Links(G, nx2, pv2)
    BY <2>1, <2>3, <2>4, UnlinkLinks
  <2> QED
    BY <2>2, <2>5 DEF Links
<1>12. /\ next' \in [Node -> Node \cup {Null, Junk}]
       /\ prev' \in [Node -> Node \cup {Null, Junk}]
       /\ count' \in [Chunk -> 0..ChunkMax \cup {Junk}]
       /\ size' \in [Chunk -> 0..(Word - 1) \cup {Junk}]
       /\ live' \subseteq Chunk
  BY <1>3, <1>4, <1>10 DEF TypeOK, UnlinkRun
<1> QED
  BY <1>2, <1>3, <1>4, <1>7, <1>8, <1>9, <1>11, <1>12 DEF HeapExact, UnlinkRun

(* The step that finds the run is unlink of the run it has walked.         *)
LEMMA SearchFoundMoves ==
  ASSUME IInv, NEW t \in Threads, SearchFound(t)
  PROVE  /\ initialized
         /\ regs[t].top \in Chunk /\ regs[t].curr \in Chunk
         /\ regs[t].top <= regs[t].curr
         /\ regs[t].top..regs[t].curr \subseteq FreeChunk
         /\ regs[t].curr - regs[t].top + 1 = regs[t].want
         /\ regs[t].want = ChunkCount(call[t].size)
         /\ UnlinkRun(regs[t].top, regs[t].curr, call[t].size)
         /\ regs[t].want > 0
         /\ \A c \in 1..(regs[t].top - 1) : ~Run(FreeChunk, c, regs[t].want)
<1> DEFINE r == regs[t]
<1>1. pc[t] = "search" /\ r.curr # Tail /\ r.keep + 1 = r.want
  BY DEF SearchFound
<1>2. r.want \in Nat /\ r.keep \in Nat /\ r.want > 0
  BY <1>1, ConstAssumption DEF IInv, TypeOK
<1>3. /\ initialized /\ r.want = ChunkCount(call[t].size)
      /\ r.top \in Chunk /\ r.curr \in Chunk /\ r.curr = r.top + r.keep
      /\ r.top..r.curr \subseteq FreeChunk
      /\ \A c \in 1..(r.top - 1) : ~Run(FreeChunk, c, r.want)
  BY <1>1, <1>2 DEF IInv, Local, Searching
<1>4. /\ r.top <= r.curr /\ r.curr - r.top + 1 = r.want
      /\ r.top + r.want - 1 = r.curr
  BY <1>1, <1>2, <1>3 DEF Chunk
<1>5. UnlinkRun(r.top, r.curr, call[t].size)
  BY <1>4 DEF SearchFound, UnlinkRun
<1> QED
  BY <1>2, <1>3, <1>4, <1>5

LEMMA SearchFoundInv ==
  ASSUME IInv, NEW t \in Threads, SearchFound(t)
  PROVE  IInv'
<1>1. PICK top, last, bytes :
        top = regs[t].top /\ last = regs[t].curr /\ bytes = call[t].size
  OBVIOUS
<1>2. /\ pc[t] = "search"
      /\ total' = (total + bytes) % Word
      /\ regs' = [regs EXCEPT ![t].res = top + 1]
      /\ pc' = [pc EXCEPT ![t] = "unlock"]
      /\ live' = live \cup {top}
      /\ UNCHANGED <<initialized, owner, waiting, call, held>>
  BY <1>1 DEF SearchFound, Goto, lock
<1>3. /\ HeapExact' /\ top \notin live /\ top \in Chunk
      /\ next' \in [Node -> Node \cup {Null, Junk}]
      /\ prev' \in [Node -> Node \cup {Null, Junk}]
      /\ count' \in [Chunk -> 0..ChunkMax \cup {Junk}]
      /\ size' \in [Chunk -> 0..(Word - 1) \cup {Junk}]
      /\ live' \subseteq Chunk
  <2>1. bytes \in 0..(Word - 1)
    BY <1>1 DEF IInv, TypeOK
  <2> QED
    BY <1>1, <2>1, SearchFoundMoves, UnlinkMoves DEF IInv
<1>4. PICK ptr : ptr = top + 1
  OBVIOUS
<1>5. /\ ptr \in Pointer /\ ptr # Null /\ ptr - 1 = top
      /\ pc'[t] = "unlock" /\ regs'[t].res = ptr /\ call[t].op = "malloc"
      /\ regs[t].res = Null
  <2>1. ptr \in Pointer /\ ptr # Null /\ ptr - 1 = top
    BY <1>3, <1>4, ConstAssumption DEF Pointer, Null, Chunk
  <2> QED
    BY <1>2, <1>4, <2>1 DEF IInv, TypeOK, Local, Stage
<1>6. TypeOK'
  <2>1. total' \in 0..(Word - 1)
    <3>1. total + bytes \in Int
      BY <1>1, ConstAssumption DEF IInv, TypeOK
    <3> QED
      BY <1>2, <3>1, Remainder, ConstAssumption
  <2>2. regs' \in [Threads -> [want : 0..Word, keep : 0..ChunkMax,
                               top : Node \cup {Null}, curr : Node \cup {Null},
                               res : Pointer]]
    <3>1. PICK g : g = [regs[t] EXCEPT !.res = ptr]
      OBVIOUS
    <3>2. g \in Registers
      <4>1. PICK old : old = regs[t]
        OBVIOUS
      <4>2. old \in Registers /\ ptr \in Pointer
        BY <1>5, <4>1, RegistersNow DEF IInv
      <4>3. g = [old EXCEPT !.res = ptr]
        BY <3>1, <4>1
      <4> QED
        BY <4>2, <4>3 DEF Registers
    <3>3. regs' = [regs EXCEPT ![t] = g]
      BY <1>2, <1>4, <3>1
    <3> QED
      BY <3>2, <3>3, RegistersNow DEF IInv, Registers
  <2>3. UNCHANGED <<initialized, owner, waiting, call, held>> /\ pc' = [pc EXCEPT ![t] = "unlock"]
    BY <1>2
  <2> QED
    BY <1>3, <2>1, <2>2, <2>3 DEF IInv, TypeOK
<1>7. Local(t)'
  BY <1>2, <1>3, <1>5 DEF IInv, Local, Stage, Searching, Seeking, NothingFits
<1>8. \A u \in Threads \ {t} : pc'[u] = pc[u] /\ call'[u] = call[u] /\ regs'[u] = regs[u]
  BY <1>2 DEF IInv, TypeOK
<1>9. owner = t /\ owner' = t
  BY <1>2 DEF IInv, LockHeld, Inside
<1>10. \A p \in held' : p - 1 \in live' /\ p \in held
  BY <1>2 DEF IInv, Claims
<1>11. ASSUME NEW p \in Claim(t)'
       PROVE  /\ p - 1 \in live' /\ p \notin held'
              /\ p \in held \cup Claim(t) \/ p - 1 \notin live
  <2>1. CASE p = ptr
    BY <1>2, <1>3, <1>5, <2>1 DEF IInv, Claims
  <2>2. CASE p # ptr
    <3>1. p \in Claim(t)
      BY <1>2, <1>5, <2>2 DEF Claim
    <3> QED
      BY <1>2, <3>1 DEF IInv, Claims
  <2> QED
    BY <2>1, <2>2
<1> QED
  BY <1>2, <1>3, <1>6, <1>7, <1>8, <1>9, <1>10, <1>11, StepOfOne

(* What relink does: the block of top is linked behind `before`.           *)
RelinkBlock(top, before) ==
  LET after == next[before]
      last == top + count[top] - 1
  IN /\ next' = [c \in Node |-> CASE c = last -> after
                                  [] c \in top..(last - 1) -> c + 1
                                  [] c = before -> top
                                  [] OTHER -> next[c]]
     /\ prev' = [c \in Node |-> CASE c = after -> last
                                  [] c = top -> before
                                  [] c \in (top + 1)..last -> c - 1
                                  [] OTHER -> prev[c]]
     /\ count' = [c \in Chunk |-> IF c \in top..last THEN 0 ELSE count[c]]
     /\ live' = live \ {top}
     /\ UNCHANGED <<size, initialized>>

LEMMA RelinkMoves ==
  ASSUME TypeOK, HeapExact, initialized,
         NEW top \in live, NEW before \in FreeChunk \cup {Head}, before < top,
         next[before] = Tail \/ next[before] >= top, RelinkBlock(top, before)
  PROVE  /\ HeapExact'
         /\ FreeChunk' = FreeChunk \cup Block(top)
         /\ \A a \in live' : count'[a] = count[a]
         /\ next' \in [Node -> Node \cup {Null, Junk}]
         /\ prev' \in [Node -> Node \cup {Null, Junk}]
         /\ count' \in [Chunk -> 0..ChunkMax \cup {Junk}]
<1>1. PICK last : last = top + count[top] - 1
  OBVIOUS
<1>2. /\ top \in Chunk /\ top \in Block(top) /\ Block(top) = top..last
      /\ Block(top) \subseteq Chunk /\ Block(top) \cap FreeChunk = {}
      /\ last \in Chunk /\ top <= last
  <2>1. /\ top \in Chunk /\ top \in Block(top)
        /\ Block(top) \subseteq Chunk /\ Block(top) \cap FreeChunk = {}
    BY BlockTaken DEF TypeOK
  <2>2. count[top] \in 1..ChunkMax
    BY DEF HeapExact, Headers
  <2>3. top <= last /\ last \in top..last
    BY <1>1, <2>1, <2>2, ConstAssumption DEF Chunk
  <2> QED
    BY <1>1, <2>1, <2>3 DEF Block
<1>3. PICK after : after = next[before]
  OBVIOUS
<1>4. /\ next' = [c \in Node |-> CASE c = last -> after
                                   [] c \in top..(last - 1) -> c + 1
                                   [] c = before -> top
                                   [] OTHER -> next[c]]
      /\ prev' = [c \in Node |-> CASE c = after -> last
                                   [] c = top -> before
                                   [] c \in (top + 1)..last -> c - 1
                                   [] OTHER -> prev[c]]
      /\ count' = [c \in Chunk |-> IF c \in top..last THEN 0 ELSE count[c]]
      /\ live' = live \ {top}
      /\ UNCHANGED <<size, initialized>>
  BY <1>1, <1>3 DEF RelinkBlock
<1>5. \A a \in live' : /\ a \notin top..last /\ a \in live /\ a \in Chunk
                       /\ Block(a) \cap Block(top) = {}
  BY <1>2, <1>4, BlockTaken DEF HeapExact, BlocksDisjoint, TypeOK
<1>6. \A a \in live' : count'[a] = count[a] /\ size'[a] = size[a] /\ Block(a)' = Block(a)
  BY <1>4, <1>5 DEF Block
<1>7. FreeChunk' = FreeChunk \cup Block(top)
  <2>1. Allocated' = Allocated \ Block(top)
    BY <1>4, <1>5, <1>6 DEF Allocated
  <2> QED
    BY <1>2, <2>1 DEF FreeChunk
<1>8. BlocksDisjoint' /\ Headers'
  BY <1>5, <1>6 DEF HeapExact, BlocksDisjoint, Headers
<1>9. /\ before \in Node /\ after \in FreeChunk \cup {Tail} /\ after \in Node
      /\ top \in Node /\ last \in Node
  <2>1. after \in FreeChunk \cup {Tail}
    BY <1>3 DEF HeapExact, Links
  <2> QED
    BY <1>2, <2>1 DEF FreeChunk, Node
<1>10. Links(FreeChunk, next, prev)'
  <2>1. PICK F, nx, pv : F = FreeChunk /\ nx = next /\ pv = prev
    OBVIOUS
  <2>2. PICK G, nx2, pv2 : G = FreeChunk' /\ nx2 = next' /\ pv2 = prev'
    OBVIOUS
  <2>3. /\ F \in SUBSET Chunk /\ Links(F, nx, pv) /\ G = F \cup top..last
        /\ F \cap (top..last) = {} /\ after = nx[before]
    BY <1>2, <1>3, <1>7, <2>1, <2>2 DEF FreeChunk, HeapExact
  <2>4. before \in F \cup {Head} /\ before \notin top..last /\ after \notin top..last
    BY <1>2, <1>9, <2>1, <2>3 DEF Chunk, Head, Tail
  <2>5. \A c \in top..last : c \in Node
    BY <1>2 DEF Node
  <2>6. \A m \in F \cup {Head, Tail} : m \in Node /\ m \notin top..last
    BY <1>2, <2>3 DEF Node, Chunk, Head, Tail
  <2>7. /\ nx2[last] = after /\ \A c \in top..(last - 1) : nx2[c] = c + 1
        /\ nx2[before] = top
        /\ \A m \in F \cup {Head} : m # before => nx2[m] = nx[m]
    <3>1. \A c \in top..(last - 1) : c \in top..last /\ c # last
      BY <1>2 DEF Chunk
    <3> QED
      BY <1>2, <1>4, <1>9, <2>1, <2>2, <2>4, <2>5, <2>6, <3>1 DEF Chunk
  <2>8. /\ pv2[after] = last /\ \A c \in (top + 1)..last : pv2[c] = c - 1
        /\ pv2[top] = before
        /\ \A n \in F \cup {Tail} : n # after => pv2[n] = pv[n]
    <3>1. \A c \in (top + 1)..last : c \in top..last /\ c # top /\ c # after
      BY <1>2, <2>4 DEF Chunk
    <3>2. top # after
      BY <1>2, <2>4
    <3>3. \A n \in F \cup {Tail} : n # top /\ n \notin (top + 1)..last
      BY <1>2, <2>6, <3>1
    <3> QED
      BY <1>2, <1>4, <1>9, <2>1, <2>2, <2>5, <2>6, <3>1, <3>2, <3>3
  <2>9. Links(G, nx2, pv2)
    BY <1>2, <1>3, <2>1, <2>3, <2>4, <2>7, <2>8, RelinkLinks
  <2> QED
    BY <2>2, <2>9 DEF Links
<1>11. /\ next' \in [Node -> Node \cup {Null, Junk}]
       /\ prev' \in [Node -> Node \cup {Null, Junk}]
       /\ count' \in [Chunk -> 0..ChunkMax \cup {Junk}]
  <2>1. /\ \A c \in top..(last - 1) : c + 1 \in Node
        /\ \A c \in (top + 1)..last : c - 1 \in Node
        /\ 0 \in 0..ChunkMax
    BY <1>2, ConstAssumption DEF Chunk, Node
  <2> QED
    BY <1>4, <1>9, <2>1 DEF TypeOK
<1> QED
  BY <1>4, <1>6, <1>7, <1>8, <1>10, <1>11 DEF HeapExact

(* The end of kfree is relink of the block it was called for.              *)
LEMMA SpliceMoves ==
  ASSUME IInv, NEW t \in Threads, Splice(t)
  PROVE  /\ initialized /\ regs[t].top \in live
         /\ regs[t].top = call[t].ptr - 1 /\ call[t].op = "free"
         /\ regs[t].curr \in FreeChunk \cup {Head} /\ regs[t].curr < regs[t].top
         /\ next[regs[t].curr] = Tail \/ next[regs[t].curr] >= regs[t].top
         /\ RelinkBlock(regs[t].top, regs[t].curr)
<1> DEFINE top == regs[t].top
           before == regs[t].curr
<1>1. pc[t] = "seek" /\ Beyond(before, top)
  BY DEF Splice
<1>2. /\ top = call[t].ptr - 1 /\ call[t].op = "free"
      /\ top \in Chunk /\ before \in FreeChunk \cup {Head} /\ before < top
  BY <1>1 DEF IInv, Local, Stage, Seeking
<1>3. top \in live
  BY <1>1, <1>2 DEF IInv, Claims, Claim
<1>4. initialized
  BY <1>3 DEF IInv, HeapExact
<1>5. count[top] \in 1..ChunkMax /\ count[top] > 0 /\ count[top] # 0
  BY <1>3, ConstAssumption DEF IInv, HeapExact, Headers
<1>6. before # top
  BY <1>2 DEF Chunk, FreeChunk, Head
<1>7. PICK last : last = top + count[top] - 1
  OBVIOUS
<1>8. before # last
  BY <1>2, <1>5, <1>7, ConstAssumption DEF Chunk, FreeChunk, Head
<1>9. RelinkBlock(top, before)
  <2>1. /\ next' = [c \in Node |-> CASE c = last -> next[before]
                                     [] c \in top..(last - 1) -> c + 1
                                     [] c = before -> top
                                     [] OTHER -> next[c]]
        /\ prev' = [c \in Node |-> CASE c = next[before] -> last
                                     [] c = top -> before
                                     [] c \in (top + 1)..last -> c - 1
                                     [] OTHER -> prev[c]]
        /\ count' = [c \in Chunk |-> IF c \in top..last THEN 0 ELSE count[c]]
        /\ live' = live \ {top}
        /\ UNCHANGED <<size, initialized>>
    BY <1>5, <1>6, <1>7, <1>8 DEF Splice
  <2> QED
    BY <1>7, <2>1 DEF RelinkBlock
<1> QED
  BY <1>1, <1>2, <1>3, <1>4, <1>9 DEF Beyond

LEMMA SpliceInv ==
  ASSUME IInv, NEW t \in Threads, Splice(t)
  PROVE  IInv'
<1>1. PICK top, before : top = regs[t].top /\ before = regs[t].curr
  OBVIOUS
<1>2. /\ initialized /\ top \in live /\ top = call[t].ptr - 1 /\ call[t].op = "free"
      /\ before \in FreeChunk \cup {Head} /\ before < top
      /\ next[before] = Tail \/ next[before] >= top
      /\ RelinkBlock(top, before)
  BY <1>1, SpliceMoves
<1>3. /\ pc[t] = "seek" /\ pc' = [pc EXCEPT ![t] = "unlock"]
      /\ UNCHANGED <<total, owner, waiting, call, regs, held>>
      /\ live' = live \ {top} /\ size' = size /\ initialized' = initialized
  BY <1>2 DEF Splice, Goto, lock, RelinkBlock
<1>4. /\ HeapExact'
      /\ next' \in [Node -> Node \cup {Null, Junk}]
      /\ prev' \in [Node -> Node \cup {Null, Junk}]
      /\ count' \in [Chunk -> 0..ChunkMax \cup {Junk}]
  BY <1>2, RelinkMoves DEF IInv
<1>5. TypeOK' /\ pc'[t] = "unlock"
  BY <1>3, <1>4 DEF IInv, TypeOK
<1>6. Local(t)'
  BY <1>2, <1>3, <1>5 DEF IInv, Local, Stage, Searching, Seeking, NothingFits
<1>7. \A u \in Threads \ {t} : pc'[u] = pc[u] /\ call'[u] = call[u] /\ regs'[u] = regs[u]
  BY <1>3 DEF IInv, TypeOK
<1>8. owner = t /\ owner' = t
  BY <1>3 DEF IInv, LockHeld, Inside
<1>9. Claim(t)' = {}
  BY <1>2, <1>3, <1>5 DEF Claim
<1>10. call[t].ptr \in Claim(t) /\ call[t].ptr = top + 1
  <2>1. call[t].ptr \in Int /\ top \in Chunk
    BY <1>2 DEF IInv, TypeOK, Pointer, Null
  <2>2. call[t].ptr = top + 1
    BY <1>2, <2>1 DEF Chunk
  <2> QED
    BY <1>2, <1>3, <2>1, <2>2 DEF Claim
<1>11. \A p \in held' : p - 1 \in live' /\ p \in held
  <2>1. ASSUME NEW p \in held
        PROVE  p - 1 \in live /\ p - 1 # top
    <3>1. p - 1 \in live /\ p # call[t].ptr /\ p \in Int
      BY <1>10 DEF IInv, TypeOK, Claims
    <3> QED
      BY <1>10, <3>1, <1>2 DEF IInv, TypeOK, Chunk
  <2> QED
    BY <1>3, <2>1
<1>12. \A a \in live \ live' : a + 1 \in Claim(t)
  BY <1>3, <1>10
<1> QED
  BY <1>4, <1>5, <1>6, <1>7, <1>8, <1>9, <1>11, <1>12, StepOfOne

LEMMA ReallocCallsMallocInv ==
  ASSUME IInv, NEW t \in Threads, ReallocCallsMalloc(t)
  PROVE  IInv'
<1>1. /\ pc[t] = "body" /\ call[t].op = "realloc"
      /\ call' = [call EXCEPT ![t].op = "malloc"]
      /\ pc' = [pc EXCEPT ![t] = "waiting"]
      /\ owner' = owner /\ waiting' = waiting \cup {t}
      /\ UNCHANGED <<next, prev, count, size, initialized, total, live, regs, held>>
  BY DEF ReallocCallsMalloc, Mtx!Queue, Goto, heap
<1>2. /\ pc'[t] = "waiting" /\ call'[t].op = "malloc" /\ call'[t].ptr = call[t].ptr
      /\ regs[t] = NoRegs
  BY <1>1 DEF IInv, TypeOK, Local, Stage
<1>3. TypeOK'
  BY <1>1 DEF IInv, TypeOK, Ops
<1>4. HeapExact' /\ FreeChunk' = FreeChunk
  BY <1>1, HeapStays DEF IInv
<1>5. Local(t)'
  BY <1>1, <1>2 DEF Local, Stage, Searching, Seeking, NothingFits, NoRegs
<1>6. Claim(t)' \subseteq Claim(t)
  BY <1>1, <1>2 DEF Claim
<1>7. \A u \in Threads \ {t} : pc'[u] = pc[u] /\ call'[u] = call[u] /\ regs'[u] = regs[u]
  BY <1>1 DEF IInv, TypeOK
<1>8. owner = t
  BY <1>1 DEF IInv, LockHeld, Inside
<1>9. /\ \A p \in held' : p - 1 \in live' /\ p \in held
      /\ \A p \in Claim(t)' : p - 1 \in live' /\ p \notin held' /\ p \in Claim(t)
  BY <1>1, <1>6 DEF IInv, Claims
<1> QED
  BY <1>1, <1>3, <1>4, <1>5, <1>7, <1>8, <1>9, StepOfOne

LEMMA UnlockInv ==
  ASSUME IInv, NEW t \in Threads, Unlock(t)
  PROVE  IInv'
<1> DEFINE kept == IF call[t].op = "realloc" THEN call[t].ptr ELSE Null
           given == {regs[t].res, kept} \ {Null}
<1>1. /\ pc[t] = "unlock" /\ owner = t /\ owner' = NoOwner /\ waiting' = waiting
      /\ held' = held \cup given
      /\ call' = [call EXCEPT ![t] = NoCall]
      /\ regs' = [regs EXCEPT ![t] = NoRegs]
      /\ pc' = [pc EXCEPT ![t] = "idle"]
      /\ UNCHANGED <<next, prev, count, size, initialized, total, live>>
  BY DEF Unlock, Mtx!Release, Goto, heap
<1>2. \A p \in given : p \in Claim(t) /\ p \in Pointer
  BY <1>1 DEF IInv, TypeOK, Local, Stage, Claim
<1>3. given \subseteq 2..(ChunkMax + 1)
  BY <1>2, ConstAssumption DEF Claim, Pointer, Null, Chunk
<1>4. pc'[t] = "idle" /\ call'[t] = NoCall /\ regs'[t] = NoRegs
  BY <1>1 DEF IInv, TypeOK
<1>5. TypeOK'
  <2>1. /\ NoCall \in [op : Ops, ptr : Pointer, size : 0..(Word - 1)]
        /\ NoRegs \in [want : 0..Word, keep : 0..ChunkMax, top : Node \cup {Null},
                       curr : Node \cup {Null}, res : Pointer]
    BY ConstAssumption DEF NoCall, NoRegs, Ops, Pointer
  <2> QED
    BY <1>1, <1>3, <2>1 DEF IInv, TypeOK
<1>6. HeapExact' /\ FreeChunk' = FreeChunk
  BY <1>1, HeapStays DEF IInv
<1>7. Local(t)'
  BY <1>4 DEF Local, Stage, Searching, Seeking, NothingFits, NoCall, NoRegs
<1>8. Claim(t)' = {}
  BY <1>4 DEF Claim, NoCall, NoRegs, Null, Chunk
<1>9. \A u \in Threads \ {t} : pc'[u] = pc[u] /\ call'[u] = call[u] /\ regs'[u] = regs[u]
  BY <1>1 DEF IInv, TypeOK
<1>10. \A p \in held' : p - 1 \in live' /\ p \in held \cup Claim(t)
  BY <1>1, <1>2 DEF IInv, Claims
<1>11. pc'[t] \notin Inside
  BY <1>4 DEF Inside
<1> QED
  BY <1>1, <1>5, <1>6, <1>7, <1>8, <1>9, <1>10, <1>11, StepOfOne

(* What a client stores in its block reaches neither the list nor a header.*)
LEMMA ClientWritesKeeps ==
  ASSUME IInv, NEW ptr \in held, ClientWrites(ptr)
  PROVE  /\ UNCHANGED live
         /\ \A a \in live : count'[a] = count[a] /\ size'[a] = size[a]
         /\ \A n \in FreeChunk \cup {Head, Tail} : next'[n] = next[n] /\ prev'[n] = prev[n]
         /\ TypeOK'
<1> DEFINE data == Block(ptr - 1) \ {ptr - 1}
           Clobber(f) == [n \in DOMAIN f |-> IF n \in data THEN Junk ELSE f[n]]
<1>1. /\ next' = Clobber(next) /\ prev' = Clobber(prev)
      /\ count' = Clobber(count) /\ size' = Clobber(size)
      /\ UNCHANGED <<initialized, total, live, owner, waiting, pc, call, regs, held>>
  BY DEF ClientWrites, lock
<1>2. ptr - 1 \in live
  BY DEF IInv, Claims
<1>3. data \subseteq Chunk /\ data \cap live = {} /\ data \cap FreeChunk = {}
  <2>1. data \subseteq Chunk /\ data \cap FreeChunk = {}
    BY <1>2, BlockTaken DEF IInv
  <2>2. ASSUME NEW a \in live, a \in data
        PROVE  FALSE
    <3>1. a \in Block(a) /\ a # ptr - 1 /\ a \in Block(ptr - 1)
      BY <2>2, BlockTaken DEF IInv
    <3> QED
      BY <1>2, <3>1 DEF IInv, HeapExact, BlocksDisjoint
  <2> QED
    BY <2>1, <2>2
<1>4. /\ \A a \in live : count'[a] = count[a] /\ size'[a] = size[a]
      /\ \A n \in FreeChunk \cup {Head, Tail} : next'[n] = next[n] /\ prev'[n] = prev[n]
  <2>1. Head \notin data /\ Tail \notin data
    <3>1. Head \notin Chunk /\ Tail \notin Chunk
      BY DEF Chunk, Head, Tail
    <3> QED
      BY <1>3, <3>1
  <2> QED
    BY <1>1, <1>3, <2>1 DEF IInv, TypeOK, Node, FreeChunk
<1>5. TypeOK'
  BY <1>1 DEF IInv, TypeOK
<1> QED
  BY <1>1, <1>4, <1>5

LEMMA ClientWritesInv ==
  ASSUME IInv, NEW ptr \in held, ClientWrites(ptr)
  PROVE  IInv'
<1>1. UNCHANGED <<initialized, total, live, owner, waiting, pc, call, regs, held>>
  BY DEF ClientWrites, lock
<1>2. /\ \A a \in live : count'[a] = count[a] /\ size'[a] = size[a]
      /\ \A n \in FreeChunk \cup {Head, Tail} : next'[n] = next[n] /\ prev'[n] = prev[n]
      /\ TypeOK'
  BY ClientWritesKeeps
<1>3. FreeChunk' = FreeChunk /\ \A a \in live : Block(a)' = Block(a)
  BY <1>1, <1>2, BlocksStay
<1>4. HeapExact'
  <2>1. BlocksDisjoint' /\ Headers'
    BY <1>1, <1>2, <1>3 DEF IInv, HeapExact, BlocksDisjoint, Headers
  <2>2. ASSUME initialized'
        PROVE  Links(FreeChunk, next, prev)'
    <3>1. PICK F, nx, pv : F = FreeChunk /\ nx = next /\ pv = prev
      OBVIOUS
    <3>2. PICK nx2, pv2 : nx2 = next' /\ pv2 = prev'
      OBVIOUS
    <3>3. Links(F, nx, pv)
      BY <1>1, <2>2, <3>1 DEF IInv, HeapExact
    <3>4. \A n \in F \cup {Head, Tail} : nx2[n] = nx[n] /\ pv2[n] = pv[n]
      BY <1>2, <3>1, <3>2
    <3>5. Links(F, nx2, pv2)
      BY <3>3, <3>4 DEF Links
    <3> QED
      BY <1>3, <3>1, <3>2, <3>5 DEF Links
  <2> QED
    BY <1>1, <2>1, <2>2 DEF IInv, HeapExact
<1>5. LockHeld' /\ Claims'
  BY <1>1 DEF IInv, LockHeld, Claims, Claim
<1>6. \A t \in Threads : Local(t)'
  BY <1>1, <1>3 DEF IInv, Local, Stage, Searching, Seeking, NothingFits
<1> QED
  BY <1>2, <1>4, <1>5, <1>6 DEF IInv

-----------------------------------------------------------------------------
(* The invariant holds.                                                    *)

LEMMA InitInv == Init => IInv
<1> SUFFICES ASSUME Init
             PROVE  IInv
  OBVIOUS
<1>1. /\ owner = NoOwner /\ waiting = {}
      /\ pc = [t \in Threads |-> "idle"]
      /\ call = [t \in Threads |-> NoCall]
      /\ regs = [t \in Threads |-> NoRegs]
      /\ live = {} /\ held = {} /\ ~initialized /\ initialized \in BOOLEAN
  BY Zenon DEF Init, Mtx!Init
<1>2. TypeOK
  <2>1. /\ NoCall \in [op : Ops, ptr : Pointer, size : 0..(Word - 1)]
        /\ NoRegs \in [want : 0..Word, keep : 0..ChunkMax, top : Node \cup {Null},
                       curr : Node \cup {Null}, res : Pointer]
        /\ 0 \in 0..ChunkMax /\ 0 \in 0..(Word - 1)
    BY ConstAssumption DEF NoCall, NoRegs, Ops, Pointer
  <2>2. /\ next \in [Node -> Node \cup {Null, Junk}]
        /\ prev \in [Node -> Node \cup {Null, Junk}]
        /\ count \in [Chunk -> 0..ChunkMax \cup {Junk}]
        /\ size \in [Chunk -> 0..(Word - 1) \cup {Junk}]
        /\ total \in 0..(Word - 1)
    BY <2>1 DEF Init
  <2> QED
    BY <1>1, <2>1, <2>2 DEF TypeOK
<1>3. LockHeld
  BY <1>1 DEF LockHeld, Inside
<1>4. HeapExact
  BY <1>1 DEF HeapExact, BlocksDisjoint, Headers
<1>5. Claims
  <2>1. ASSUME NEW t \in Threads
        PROVE  Claim(t) = {}
    <3>1. pc[t] = "idle" /\ call[t] = NoCall /\ regs[t] = NoRegs
      BY <1>1
    <3>2. call[t].ptr = Null /\ regs[t].res = Null
      BY <3>1 DEF NoCall, NoRegs
    <3>3. Null - 1 \notin Chunk
      BY DEF Null, Chunk
    <3> QED
      BY <3>2, <3>3 DEF Claim
  <2> QED
    BY <1>1, <2>1 DEF Claims
<1>6. \A t \in Threads : Local(t)
  <2>1. SUFFICES ASSUME NEW t \in Threads
                 PROVE  Local(t)
    OBVIOUS
  <2>2. pc[t] = "idle" /\ call[t] = NoCall /\ regs[t] = NoRegs
    BY <1>1
  <2>3. call[t].op = "none" /\ regs[t].res = Null
    BY <2>2 DEF NoCall, NoRegs
  <2>4. Stage(t)
    BY <2>2, <2>3 DEF Stage
  <2>5. Searching(t) /\ Seeking(t)
    BY <2>2 DEF Searching, Seeking
  <2>6. NothingFits(t)
    BY <2>2, <2>3 DEF NothingFits
  <2> QED
    BY <2>4, <2>5, <2>6 DEF Local
<1> QED
  BY <1>2, <1>3, <1>4, <1>5, <1>6 DEF IInv

LEMMA StepInv == IInv /\ [Next]_vars => IInv'
<1> SUFFICES ASSUME IInv, [Next]_vars
             PROVE  IInv'
  OBVIOUS
<1>1. CASE UNCHANGED vars
  <2>1. /\ UNCHANGED <<next, prev, count, size, initialized, total, live>>
        /\ UNCHANGED <<owner, waiting, pc, call, regs, held>>
    BY <1>1 DEF vars, heap, lock
  <2>2. HeapExact' /\ FreeChunk' = FreeChunk
    BY <2>1, HeapStays DEF IInv
  <2>3. TypeOK' /\ LockHeld' /\ Claims'
    BY <2>1 DEF IInv, TypeOK, LockHeld, Claims, Claim
  <2>4. \A t \in Threads : Local(t)'
    BY <2>1, <2>2 DEF IInv, Local, Stage, Searching, Seeking, NothingFits
  <2> QED
    BY <2>2, <2>3, <2>4 DEF IInv
<1>2. ASSUME NEW t \in Threads, Call(t)
      PROVE  IInv'
  BY <1>2, CallMallocInv, CallFreeInv, CallReallocInv DEF Call
<1>3. ASSUME NEW t \in Threads, Critical(t)
      PROVE  IInv'
  BY <1>3, BeginMallocInv, SpinInv, SearchFoundInv, SearchNextInv, SearchFailsInv,
     FreeIgnoredInv, BeginFreeInv, SeekNextInv, SpliceInv, ReallocRefusedInv,
     ReallocCallsMallocInv, UnlockInv DEF Critical
<1> QED
  BY <1>1, <1>2, <1>3, LockGrantedInv, ClientWritesInv DEF Next

LEMMA Invariance == Spec => []IInv
BY InitInv, StepInv, PTL DEF Spec

(* Every pointer, count and size of kmalloc.cpp stays in its range: the    *)
(* two list walks never read a chunk a client has written to.              *)
THEOREM TypeCorrect == Spec => []TypeOK
BY Invariance, PTL DEF IInv

(* kmalloc hands no chunk to two clients, and none behind the pool.        *)
THEOREM BlocksDisjointHolds == Spec => []BlocksDisjoint
BY Invariance, PTL DEF IInv, HeapExact

(* chunk_count leaves room for the header and for every byte asked for.    *)
THEOREM BlockCoversRequestHolds == Spec => []BlockCoversRequest
<1>1. IInv => BlockCoversRequest
  BY ChunkCountCovers DEF IInv, HeapExact, Headers, BlockCoversRequest
<1> QED
  BY <1>1, Invariance, PTL

(* unlink, relink and all that clients write into their blocks leave       *)
(* exactly the free chunks on the list, in address order, linked both ways.*)
THEOREM FreeListExactHolds == Spec => []FreeListExact
<1>1. IInv => FreeListExact
  <2> SUFFICES ASSUME IInv, initialized, NEW n \in FreeChunk \cup {Head}
               PROVE  Follows(next[n], n) /\ prev[next[n]] = n
    BY DEF FreeListExact
  <2>1. /\ next[n] \in FreeChunk \cup {Tail} /\ Adjacent(FreeChunk, n, next[n])
        /\ prev[next[n]] = n
    BY DEF IInv, HeapExact, Links
  <2>2. CASE next[n] = Tail
    BY <2>1, <2>2, ConstAssumption DEF Follows, Adjacent, Place, FreeChunk, Chunk
  <2>3. CASE next[n] # Tail
    BY <2>1, <2>3 DEF Follows, Adjacent, Place, FreeChunk, Chunk, Head
  <2> QED
    BY <2>1, <2>2, <2>3
<1> QED
  BY <1>1, Invariance, PTL

(* kmalloc returns NULL only where the size wraps to no chunk at all or no *)
(* run of free chunks is long enough.                                      *)
THEOREM NullOnlyIfNoFitHolds == Spec => []NullOnlyIfNoFit
<1>1. IInv => NullOnlyIfNoFit
  BY DEF IInv, Local, NothingFits, Run, NullOnlyIfNoFit
<1> QED
  BY <1>1, Invariance, PTL

-----------------------------------------------------------------------------
(* The refinement of Heap.                                                 *)

Blocks == {<<a, count[a]>> : a \in live}

LEMMA SameFreeChunk == H!FreeChunk = FreeChunk
<1>1. \A a \in live : H!Cover(<<a, count[a]>>) = Block(a)
  BY DEF H!Cover, Block
<1>2. UNION {H!Cover(b) : b \in Blocks} = Allocated
  BY <1>1 DEF Blocks, Allocated
<1> QED
  BY <1>2 DEF H!FreeChunk, H!Chunk, FreeChunk, Chunk, Blocks

LEMMA FitsIsRun ==
  ASSUME NEW c, NEW n
  PROVE  H!Fits(c, n) <=> Run(FreeChunk, c, n)
BY SameFreeChunk DEF H!Fits, H!Cover, H!Chunk, Run, Chunk

(* The search takes what Alloc takes: the lowest run that is long enough.  *)
LEMMA SearchFoundAllocates ==
  ASSUME IInv, NEW t \in Threads, SearchFound(t)
  PROVE  \E n \in 1..ChunkMax : H!Alloc(n)
<1>1. PICK top, last, n : top = regs[t].top /\ last = regs[t].curr /\ n = regs[t].want
  OBVIOUS
<1>2. PICK bytes \in 0..(Word - 1) : bytes = call[t].size
  BY DEF IInv, TypeOK
<1>3. /\ initialized /\ top \in Chunk /\ last \in Chunk /\ top <= last
      /\ top..last \subseteq FreeChunk /\ last - top + 1 = n
      /\ n = ChunkCount(bytes) /\ UnlinkRun(top, last, bytes)
      /\ \A c \in 1..(top - 1) : ~Run(FreeChunk, c, n)
  BY <1>1, <1>2, SearchFoundMoves
<1>4. /\ \A a \in live : count'[a] = count[a]
      /\ count'[top] = n /\ n \in 1..ChunkMax /\ live' = live \cup {top}
  <2>1. TypeOK /\ HeapExact
    BY DEF IInv
  <2>2. last - top + 1 = ChunkCount(bytes)
    BY <1>3
  <2>3. /\ \A a \in live : count'[a] = count[a]
        /\ count'[top] = last - top + 1 /\ last - top + 1 \in 1..ChunkMax
    BY <1>3, <2>1, <2>2, UnlinkMoves
  <2>4. live' = live \cup {top}
    BY <1>3 DEF UnlinkRun
  <2> QED
    BY <1>3, <2>3, <2>4
<1>5. Blocks' = Blocks \cup {<<top, n>>}
  BY <1>4 DEF Blocks
<1>6. Run(FreeChunk, top, n)
  <2>1. top + n - 1 = last
    BY <1>3 DEF Chunk
  <2> QED
    BY <1>3, <2>1 DEF Run
<1>7. H!Fits(top, n) /\ \A lower \in 1..(top - 1) : ~H!Fits(lower, n)
  BY <1>3, <1>6, FitsIsRun
<1>8. H!Alloc(n)
  BY <1>3, <1>5, <1>7 DEF H!Alloc, H!Chunk, Chunk, Blocks
<1> QED
  BY <1>4, <1>8

(* relink gives back one block, and that block only.                       *)
LEMMA SpliceReleases ==
  ASSUME IInv, NEW t \in Threads, Splice(t)
  PROVE  \E b \in Blocks : H!Release(b)
<1>1. PICK top, before : top = regs[t].top /\ before = regs[t].curr
  OBVIOUS
<1>2. /\ initialized /\ top \in live
      /\ before \in FreeChunk \cup {Head} /\ before < top
      /\ next[before] = Tail \/ next[before] >= top
      /\ RelinkBlock(top, before)
  BY <1>1, SpliceMoves
<1>3. live' = live \ {top} /\ \A a \in live' : count'[a] = count[a]
  BY <1>2, RelinkMoves DEF IInv, RelinkBlock
<1>4. Blocks' = Blocks \ {<<top, count[top]>>} /\ <<top, count[top]>> \in Blocks
  BY <1>2, <1>3 DEF Blocks
<1> QED
  BY <1>4 DEF H!Release, Blocks

(* Nothing else that happens in the allocator is seen from outside.        *)
LEMMA OthersStutter ==
  ASSUME IInv, live' = live, \A a \in live : count'[a] = count[a]
  PROVE  Blocks' = Blocks
BY DEF Blocks

(* kmalloc.cpp, with its list walks interleaved with the calls and writes  *)
(* of other threads, is the atomic first fit allocator.                    *)
THEOREM HeapRefinement == Spec => ImplementsHeap
<1>1. Init => H!Init
  BY DEF Init, H!Init
<1>2. IInv /\ [Next]_vars => [H!Next]_Blocks
  <2> SUFFICES ASSUME IInv, [Next]_vars
               PROVE  H!Next \/ Blocks' = Blocks
    OBVIOUS
  <2>1. CASE UNCHANGED vars
    BY <2>1 DEF vars, heap, Blocks
  <2>2. ASSUME NEW t \in Threads, Call(t) \/ LockGranted(t)
        PROVE  Blocks' = Blocks
    BY <2>2 DEF Call, CallMalloc, CallFree, CallRealloc, LockGranted, heap, Blocks
  <2>3. ASSUME NEW t \in Threads, Critical(t)
        PROVE  H!Next \/ Blocks' = Blocks
    <3>1. CASE SearchFound(t)
      BY <3>1, SearchFoundAllocates DEF H!Next
    <3>2. CASE Splice(t)
      BY <3>2, SpliceReleases DEF H!Next, Blocks
    <3>3. CASE BeginMalloc(t) \/ Spin(t)
      <4>1. EnsureInit /\ live' = live
        BY <3>3 DEF BeginMalloc, Spin
      <4>2. \A a \in live : count'[a] = count[a]
        BY <4>1 DEF EnsureInit, IInv, HeapExact
      <4> QED
        BY <4>1, <4>2, OthersStutter
    <3>4. CASE \/ SearchNext(t) \/ SearchFails(t) \/ FreeIgnored(t) \/ BeginFree(t)
               \/ SeekNext(t) \/ ReallocRefused(t) \/ ReallocCallsMalloc(t) \/ Unlock(t)
      BY <3>4 DEF SearchNext, SearchFails, FreeIgnored, BeginFree, SeekNext,
         ReallocRefused, ReallocCallsMalloc, Unlock, heap, Blocks
    <3> QED
      BY <2>3, <3>1, <3>2, <3>3, <3>4 DEF Critical
  <2>4. ASSUME NEW ptr \in held, ClientWrites(ptr)
        PROVE  Blocks' = Blocks
    BY <2>4, ClientWritesKeeps, OthersStutter DEF ClientWrites
  <2> QED
    BY <2>1, <2>2, <2>3, <2>4 DEF Next
<1>3. Spec => [][H!Next]_Blocks
  BY <1>2, Invariance, PTL DEF Spec
<1> QED
  BY <1>1, <1>3, PTL DEF Spec, ImplementsHeap, H!Spec, Blocks

-----------------------------------------------------------------------------
(* The total of the allocated bytes.                                       *)

LEMMA QuotientUnique ==
  ASSUME NEW a \in Int, NEW w \in Nat \ {0}, NEW q \in Int, NEW r \in 0..(w - 1),
         a = w * q + r
  PROVE  a % w = r
<1>1. /\ a \div w \in Int /\ a % w \in 0..(w - 1)
      /\ a = w * (a \div w) + (a % w)
  OBVIOUS
<1>2. PICK k \in Int, s \in 0..(w - 1) : k = a \div w /\ s = a % w
  BY <1>1
<1>3. w * k + s = w * q + r
  BY <1>1, <1>2
<1>4. w * (k - q) = r - s
  BY <1>3
<1>5. PICK d \in Int : d = k - q
  OBVIOUS
<1>6. w * d = r - s
  BY <1>4, <1>5
<1>7. ~(d >= 1)
  <2>1. d >= 1 => w * d >= w
    OBVIOUS
  <2> QED
    BY <1>6, <2>1
<1>8. ~(d <= -1)
  <2>1. d <= -1 => w * d <= -w
    OBVIOUS
  <2> QED
    BY <1>6, <2>1
<1>9. d = 0
  BY <1>7, <1>8
<1>10. r = s
  BY <1>6, <1>9
<1> QED
  BY <1>2, <1>10

(* Sizes may be added or taken away before or after the total wraps.       *)
LEMMA WrapsOnce ==
  ASSUME NEW x \in Int, NEW y \in Int, NEW w \in Nat \ {0}
  PROVE  ((x % w) + y) % w = (x + y) % w
<1>1. PICK q \in Int, r \in 0..(w - 1) : r = x % w /\ x = w * q + r
  BY Z3
<1>2. PICK p \in Int, s \in 0..(w - 1) : s = (r + y) % w /\ r + y = w * p + s
  <2>1. r + y \in Int
    OBVIOUS
  <2> QED
    BY <2>1, Z3
<1>3. x + y = w * (q + p) + s
  <2>1. w * (q + p) = w * q + w * p
    OBVIOUS
  <2>2. w * q \in Int /\ w * p \in Int /\ w * (q + p) \in Int
    OBVIOUS
  <2>3. PICK u, v \in Int : u = w * q /\ v = w * p
    BY <2>2
  <2>4. x = u + r /\ r + y = v + s /\ w * (q + p) = u + v
    BY <1>1, <1>2, <2>1, <2>3
  <2> QED
    BY <2>4
<1>4. (x + y) % w = s
  <2>1. x + y \in Int /\ q + p \in Int
    OBVIOUS
  <2> QED
    BY <1>3, <2>1, QuotientUnique
<1> QED
  BY <1>1, <1>2, <1>4

(* What each address adds to the sum.                                      *)
Parts(sizes, tops) == [n \in Nat |-> IF n \in tops THEN sizes[n] ELSE 0]

LEMMA SumIs ==
  ASSUME NEW tops \in SUBSET Chunk, NEW sizes, \A c \in tops : sizes[c] \in Int
  PROVE  /\ Parts(sizes, tops) \in [Nat -> Int]
         /\ \E f : Adds(Parts(sizes, tops), f) /\ SumOfSizes(sizes, tops) = f[ChunkMax]
<1> DEFINE sum == CHOOSE f : f = [n \in Nat |->
                    IF n = 0 THEN 0 ELSE f[n - 1] + (IF n \in tops THEN sizes[n] ELSE 0)]
<1>1. SumOfSizes(sizes, tops) = sum[ChunkMax]
  BY DEF SumOfSizes
<1>2. Parts(sizes, tops) \in [Nat -> Int]
  BY DEF Parts
<1>3. PICK f : Adds(Parts(sizes, tops), f)
  BY <1>2, AddsExists
<1>4. f = [n \in Nat |->
             IF n = 0 THEN 0 ELSE f[n - 1] + (IF n \in tops THEN sizes[n] ELSE 0)]
  <2>1. ASSUME NEW n \in Nat \ {0}
        PROVE  f[n] = f[n - 1] + (IF n \in tops THEN sizes[n] ELSE 0)
    BY <1>3 DEF Adds, Parts
  <2> QED
    BY <1>3, <2>1 DEF Adds
<1>5. sum = [n \in Nat |->
               IF n = 0 THEN 0 ELSE sum[n - 1] + (IF n \in tops THEN sizes[n] ELSE 0)]
  BY <1>4
<1> HIDE DEF sum
<1>6. PICK g : g = Parts(sizes, tops)
  OBVIOUS
<1>7. sum \in [Nat -> Int]
  <2> DEFINE S == {n \in Nat : sum[n] \in Int}
  <2>1. 0 \in S
    BY <1>5
  <2>2. ASSUME NEW n \in Nat \ {0}, n - 1 \in S
        PROVE  n \in S
    <3>1. sum[n] = sum[n - 1] + (IF n \in tops THEN sizes[n] ELSE 0)
      BY <1>5
    <3> QED
      BY <2>2, <3>1
  <2>3. S = Nat
    <3> HIDE DEF S
    <3>1. S \in SUBSET Nat
      BY DEF S
    <3> QED
      BY <2>1, <2>2, <3>1, SetInduction
  <2>4. \A n \in Nat : sum[n] \in Int
    BY <2>3
  <2>5. DOMAIN sum = Nat /\ sum = [n \in DOMAIN sum |-> sum[n]]
    BY <1>5
  <2> QED
    BY <2>4, <2>5
<1>8. sum[0] = 0 /\ \A n \in Nat \ {0} : sum[n] = sum[n - 1] + g[n]
  BY <1>5, <1>6 DEF Parts
<1>9. Adds(g, sum)
  BY <1>7, <1>8 DEF Adds
<1> QED
  BY <1>1, <1>2, <1>6, <1>9

LEMMA SumSame ==
  ASSUME NEW tops \in SUBSET Chunk, NEW sizes, NEW sizes2,
         \A c \in tops : sizes[c] \in Int /\ sizes2[c] = sizes[c]
  PROVE  SumOfSizes(sizes2, tops) = SumOfSizes(sizes, tops)
<1>1. Parts(sizes2, tops) = Parts(sizes, tops)
  BY DEF Parts
<1>2. PICK f : Adds(Parts(sizes, tops), f) /\ SumOfSizes(sizes, tops) = f[ChunkMax]
  BY SumIs
<1>3. PICK h : Adds(Parts(sizes2, tops), h) /\ SumOfSizes(sizes2, tops) = h[ChunkMax]
  BY SumIs
<1>4. f = h
  BY <1>1, <1>2, <1>3, AddsUnique
<1> QED
  BY <1>2, <1>3, <1>4

(* One block more.                                                         *)
LEMMA SumAdds ==
  ASSUME NEW tops \in SUBSET Chunk, NEW top \in Chunk \ tops, NEW sizes,
         \A c \in tops \cup {top} : sizes[c] \in Int
  PROVE  /\ SumOfSizes(sizes, tops) \in Int
         /\ SumOfSizes(sizes, tops \cup {top}) = SumOfSizes(sizes, tops) + sizes[top]
<1>1. PICK g, h : g = Parts(sizes, tops) /\ h = Parts(sizes, tops \cup {top})
  OBVIOUS
<1>2. tops \cup {top} \in SUBSET Chunk
  OBVIOUS
<1>3. g \in [Nat -> Int] /\ h \in [Nat -> Int]
  BY <1>1, <1>2, SumIs
<1>4. PICK f : Adds(g, f) /\ SumOfSizes(sizes, tops) = f[ChunkMax]
  BY <1>1, SumIs
<1>5. PICK k : Adds(h, k) /\ SumOfSizes(sizes, tops \cup {top}) = k[ChunkMax]
  BY <1>1, <1>2, SumIs
<1>6. top \in Nat \ {0} /\ ChunkMax \in Nat /\ ChunkMax >= top
  BY ConstAssumption DEF Chunk
<1>7. /\ \A n \in Nat \ {top} : g[n] = h[n]
      /\ g[top] = 0 /\ h[top] = sizes[top] /\ sizes[top] \in Int
  BY <1>1, <1>6 DEF Parts
<1>8. \A n \in Nat : k[n] = IF n >= top THEN f[n] + h[top] - g[top] ELSE f[n]
  BY <1>3, <1>4, <1>5, <1>6, <1>7, AddsChanged
<1>9. f[ChunkMax] \in Int
  BY <1>4, <1>6 DEF Adds
<1> QED
  BY <1>4, <1>5, <1>6, <1>7, <1>8, <1>9

LEMMA SumNone ==
  ASSUME NEW sizes
  PROVE  SumOfSizes(sizes, {}) = 0
<1>1. PICK g : g = Parts(sizes, {})
  OBVIOUS
<1>2. \A n \in Nat : g[n] = 0
  BY <1>1 DEF Parts
<1>3. PICK f : Adds(g, f) /\ SumOfSizes(sizes, {}) = f[ChunkMax]
  BY <1>1, SumIs
<1>4. PICK z : z = [n \in Nat |-> 0]
  OBVIOUS
<1>5. Adds(g, z)
  BY <1>2, <1>4 DEF Adds
<1>6. f = z
  BY <1>3, <1>5, AddsUnique
<1> QED
  BY <1>3, <1>4, <1>6, ConstAssumption

-----------------------------------------------------------------------------
(* kfree lowers the total before the block goes back on the list: a block  *)
(* whose place is looked for is live, but no longer counted.               *)
Settled == {a \in live : \A t \in Threads : ~(pc[t] = "seek" /\ regs[t].top = a)}

TotalInv == total = SumOfSizes(size, Settled) % Word

LEMMA SettledSizes ==
  ASSUME IInv
  PROVE  Settled \in SUBSET Chunk /\ \A c \in live : size[c] \in Int
BY DEF Settled, IInv, TypeOK, HeapExact, Headers

LEMMA TotalStays ==
  ASSUME IInv, TotalInv, total' = total, Settled' = Settled,
         \A c \in live : size'[c] = size[c]
  PROVE  TotalInv'
<1>1. PICK S, sz, sz2 : S = Settled /\ sz = size /\ sz2 = size'
  OBVIOUS
<1>2. S \in SUBSET Chunk /\ \A c \in S : sz[c] \in Int /\ sz2[c] = sz[c]
  BY <1>1, SettledSizes DEF Settled
<1>3. SumOfSizes(sz2, S) = SumOfSizes(sz, S)
  BY <1>2, SumSame
<1> QED
  BY <1>1, <1>3 DEF TotalInv

(* A step of one thread outside the seek, or within.                       *)
LEMMA SettledStays ==
  ASSUME NEW t \in Threads, UNCHANGED <<size, total, live>>, IInv, TotalInv,
         \A u \in Threads \ {t} : pc'[u] = pc[u] /\ regs'[u].top = regs[u].top,
         \/ pc[t] # "seek" /\ pc'[t] # "seek"
         \/ pc'[t] = pc[t] /\ regs'[t].top = regs[t].top
  PROVE  TotalInv'
<1>1. Settled' = Settled
  BY DEF Settled
<1> QED
  BY <1>1, TotalStays

(* Nobody seeks while another thread has the mutex.                        *)
LEMMA SettledInside ==
  ASSUME IInv, NEW t \in Threads, pc[t] \in Inside
  PROVE  /\ \A u \in Threads \ {t} : pc[u] # "seek"
         /\ pc[t] # "seek" => Settled = live
         /\ pc[t] = "seek" => Settled = live \ {regs[t].top}
<1>1. ASSUME NEW u \in Threads \ {t}, pc[u] = "seek"
      PROVE  FALSE
  <2>1. owner = t /\ owner = u
    BY <1>1 DEF IInv, LockHeld, Inside
  <2> QED
    BY <2>1
<1> QED
  BY <1>1 DEF Settled

LEMMA RequestTotal ==
  ASSUME IInv, TotalInv, NEW t \in Threads, Call(t) \/ LockGranted(t)
  PROVE  TotalInv'
<1>1. /\ UNCHANGED <<size, total, live, regs>>
      /\ pc[t] # "seek"
      /\ pc' = [pc EXCEPT ![t] = "body"] \/ pc' = [pc EXCEPT ![t] = "waiting"]
  BY DEF Call, CallMalloc, CallFree, CallRealloc, LockGranted, RequestLock, Goto, heap
<1>2. pc'[t] # "seek" /\ \A u \in Threads \ {t} : pc'[u] = pc[u] /\ regs'[u].top = regs[u].top
  BY <1>1 DEF IInv, TypeOK
<1> QED
  BY <1>1, <1>2, SettledStays

(* What a step with the mutex does outside relink and unlink.              *)
LEMMA QuietTotal ==
  ASSUME IInv, TotalInv, NEW t \in Threads,
         \/ BeginMalloc(t) \/ Spin(t) \/ SearchNext(t) \/ SearchFails(t)
         \/ FreeIgnored(t) \/ SeekNext(t)
         \/ ReallocRefused(t) \/ ReallocCallsMalloc(t) \/ Unlock(t)
  PROVE  TotalInv'
<1>1. UNCHANGED <<size, total, live>>
  BY DEF BeginMalloc, Spin, SearchNext, SearchFails, FreeIgnored, SeekNext,
     ReallocRefused, ReallocCallsMalloc, Unlock, heap
<1>2. CASE SeekNext(t)
  <2>1. pc' = pc /\ regs' = [regs EXCEPT ![t].curr = next[@]]
    BY <1>2 DEF SeekNext
  <2>2. \A u \in Threads : regs'[u].top = regs[u].top
    BY <2>1 DEF IInv, TypeOK
  <2> QED
    BY <1>1, <2>1, <2>2, SettledStays
<1>3. CASE ~SeekNext(t)
  <2>1. /\ pc[t] # "seek"
        /\ \/ pc' = pc
           \/ \E label \in {"search", "spin", "unlock", "waiting", "idle"} :
                pc' = [pc EXCEPT ![t] = label]
    BY <1>3 DEF BeginMalloc, Spin, SearchNext, SearchFails, FreeIgnored,
       ReallocRefused, ReallocCallsMalloc, Unlock, Goto
  <2>2. \A u \in Threads \ {t} : regs'[u] = regs[u]
    BY <1>3 DEF BeginMalloc, Spin, SearchNext, SearchFails, FreeIgnored,
       ReallocRefused, ReallocCallsMalloc, Unlock, IInv, TypeOK
  <2>3. pc'[t] # "seek" /\ \A u \in Threads \ {t} : pc'[u] = pc[u]
    BY <2>1 DEF IInv, TypeOK
  <2> QED
    BY <1>1, <2>1, <2>2, <2>3, SettledStays
<1> QED
  BY <1>2, <1>3

LEMMA SearchFoundTotal ==
  ASSUME IInv, TotalInv, NEW t \in Threads, SearchFound(t)
  PROVE  TotalInv'
<1>1. PICK top, n : top = regs[t].top /\ n = call[t].size
  OBVIOUS
<1>2. /\ pc[t] = "search" /\ live' = live \cup {top}
      /\ size' = [size EXCEPT ![top] = n]
      /\ total' = (total + n) % Word
      /\ pc' = [pc EXCEPT ![t] = "unlock"]
  BY <1>1 DEF SearchFound, Goto
<1>3. top \in Chunk \ live /\ n \in 0..(Word - 1)
  <2>1. /\ top \in Chunk /\ regs[t].curr \in Chunk /\ top <= regs[t].curr
        /\ top..regs[t].curr \subseteq FreeChunk
    BY <1>1, SearchFoundMoves
  <2>2. top \in FreeChunk
    BY <2>1 DEF Chunk
  <2>3. top \notin live
    BY <2>2, BlockTaken DEF IInv
  <2>4. n \in 0..(Word - 1)
    BY <1>1 DEF IInv, TypeOK
  <2> QED
    BY <2>1, <2>3, <2>4
<1>4. Settled = live /\ \A u \in Threads : pc'[u] # "seek"
  BY <1>2, SettledInside DEF Inside, IInv, TypeOK
<1>5. Settled' = live \cup {top}
  BY <1>2, <1>4 DEF Settled
<1>6. PICK sz, sz2, S : sz = size /\ sz2 = size' /\ S = live
  OBVIOUS
<1>7. /\ S \in SUBSET Chunk /\ \A c \in S : sz[c] \in Int /\ sz2[c] = sz[c]
      /\ sz2[top] = n /\ n \in Int /\ top \in Chunk \ S
  BY <1>2, <1>3, <1>6, SettledSizes DEF IInv, TypeOK
<1>8. SumOfSizes(sz2, S) = SumOfSizes(sz, S)
  BY <1>7, SumSame
<1>9. /\ SumOfSizes(sz2, S) \in Int
      /\ SumOfSizes(sz2, S \cup {top}) = SumOfSizes(sz2, S) + n
  BY <1>7, SumAdds
<1>10. PICK x \in Int : x = SumOfSizes(sz, S)
  BY <1>8, <1>9
<1>11. total = x % Word
  BY <1>4, <1>6, <1>10 DEF TotalInv
<1>12. ((x % Word) + n) % Word = (x + n) % Word
  BY <1>7, WrapsOnce, ConstAssumption
<1> QED
  BY <1>2, <1>5, <1>6, <1>8, <1>9, <1>10, <1>11, <1>12 DEF TotalInv

LEMMA BeginFreeTotal ==
  ASSUME IInv, TotalInv, NEW t \in Threads, BeginFree(t)
  PROVE  TotalInv'
<1>1. PICK top, n : top = call[t].ptr - 1 /\ n = size[top]
  OBVIOUS
<1>2. /\ pc[t] = "body" /\ call[t].op = "free" /\ top \in Chunk
      /\ total' = (total - n) % Word
      /\ regs' = [regs EXCEPT ![t].top = top, ![t].curr = Head]
      /\ pc' = [pc EXCEPT ![t] = "seek"]
      /\ UNCHANGED <<size, live>>
  BY <1>1 DEF BeginFree, Goto
<1>3. top \in live
  BY <1>1, <1>2 DEF IInv, Claims, Claim
<1>4. Settled = live /\ \A u \in Threads \ {t} : pc[u] # "seek"
  BY <1>2, SettledInside DEF Inside
<1>5. Settled' = live \ {top}
  <2>1. /\ pc'[t] = "seek" /\ regs'[t].top = top
        /\ \A u \in Threads \ {t} : pc'[u] # "seek"
    BY <1>2, <1>4 DEF IInv, TypeOK
  <2> QED
    BY <1>2, <2>1 DEF Settled
<1>6. PICK sz, S : sz = size /\ S = live \ {top}
  OBVIOUS
<1>7. /\ S \in SUBSET Chunk /\ top \in Chunk \ S /\ live = S \cup {top}
      /\ \A c \in S \cup {top} : sz[c] \in Int
      /\ sz[top] = n /\ n \in Int
  BY <1>1, <1>2, <1>3, <1>6, SettledSizes DEF IInv, TypeOK
<1>8. /\ SumOfSizes(sz, S) \in Int
      /\ SumOfSizes(sz, S \cup {top}) = SumOfSizes(sz, S) + n
  BY <1>7, SumAdds
<1>9. PICK x \in Int : x = SumOfSizes(sz, S) + n
  BY <1>7, <1>8
<1>10. total = x % Word
  BY <1>4, <1>6, <1>7, <1>8, <1>9 DEF TotalInv
<1>11. ((x % Word) + (-n)) % Word = (x + (-n)) % Word
  <2>1. -n \in Int
    BY <1>7
  <2> QED
    BY <2>1, WrapsOnce, ConstAssumption
<1>12. x + (-n) = SumOfSizes(sz, S)
  BY <1>7, <1>8, <1>9
<1>13. total' = ((x % Word) + (-n)) % Word
  <2>1. x % Word \in Int
    BY ConstAssumption
  <2>2. (x % Word) - n = (x % Word) + (-n)
    BY <1>7, <2>1
  <2> QED
    BY <1>2, <1>10, <2>2
<1> QED
  BY <1>2, <1>5, <1>6, <1>11, <1>12, <1>13 DEF TotalInv

LEMMA SpliceTotal ==
  ASSUME IInv, TotalInv, NEW t \in Threads, Splice(t)
  PROVE  TotalInv'
<1>1. /\ pc[t] = "seek" /\ pc' = [pc EXCEPT ![t] = "unlock"]
      /\ UNCHANGED <<size, total, regs>>
  BY DEF Splice, Goto
<1>2. live' = live \ {regs[t].top}
  BY SpliceMoves DEF RelinkBlock
<1>3. Settled = live \ {regs[t].top} /\ \A u \in Threads : pc'[u] # "seek"
  BY <1>1, SettledInside DEF Inside, IInv, TypeOK
<1>4. Settled' = Settled
  BY <1>2, <1>3 DEF Settled
<1> QED
  BY <1>1, <1>4, TotalStays

LEMMA TotalStep ==
  ASSUME IInv, TotalInv, [Next]_vars
  PROVE  TotalInv'
<1>1. CASE UNCHANGED vars
  <2>1. UNCHANGED <<size, total, live, pc, regs>>
    BY <1>1 DEF vars, heap
  <2> QED
    BY <2>1 DEF TotalInv, Settled
<1>2. ASSUME NEW t \in Threads, Call(t) \/ LockGranted(t)
      PROVE  TotalInv'
  BY <1>2, RequestTotal
<1>3. ASSUME NEW t \in Threads, Critical(t)
      PROVE  TotalInv'
  BY <1>3, QuietTotal, SearchFoundTotal, BeginFreeTotal, SpliceTotal DEF Critical
<1>4. ASSUME NEW ptr \in held, ClientWrites(ptr)
      PROVE  TotalInv'
  <2>1. UNCHANGED <<total, live, pc, regs>>
    BY <1>4 DEF ClientWrites
  <2>2. \A a \in live : size'[a] = size[a]
    BY <1>4, ClientWritesKeeps
  <2>3. Settled' = Settled
    BY <2>1 DEF Settled
  <2> QED
    BY <2>1, <2>2, <2>3, TotalStays
<1> QED
  BY <1>1, <1>2, <1>3, <1>4 DEF Next

(* kmalloc.cpp: with the mutex free, _totalAllocated is the sum of what    *)
(* was asked for, of the blocks that are allocated, modulo 2^64.           *)
THEOREM TotalExactHolds == Spec => []TotalExact
<1>1. Init => TotalInv
  <2>1. SUFFICES ASSUME Init
                 PROVE  TotalInv
    OBVIOUS
  <2>2. total = 0 /\ Settled = {}
    <3>1. total = 0 /\ live = {}
      BY <2>1, Zenon DEF Init
    <3> QED
      BY <3>1 DEF Settled
  <2>3. SumOfSizes(size, {}) = 0
    BY SumNone
  <2>4. 0 % Word = 0
    BY ConstAssumption
  <2> QED
    BY <2>2, <2>3, <2>4 DEF TotalInv
<1>2. IInv /\ TotalInv /\ [Next]_vars => TotalInv'
  BY TotalStep
<1>3. IInv /\ TotalInv => TotalExact
  <2>1. SUFFICES ASSUME IInv, TotalInv, owner = NoOwner
                 PROVE  total = SumOfSizes(size, live) % Word
    BY DEF TotalExact
  <2>2. \A t \in Threads : pc[t] # "seek"
    BY <2>1, ConstAssumption DEF IInv, LockHeld, Inside
  <2>3. Settled = live
    BY <2>2 DEF Settled
  <2> QED
    BY <2>1, <2>3 DEF TotalInv
<1> QED
  BY <1>1, <1>2, <1>3, Invariance, PTL DEF Spec
=============================================================================
