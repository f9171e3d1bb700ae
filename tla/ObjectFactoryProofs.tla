------------------------ MODULE ObjectFactoryProofs ------------------------
(***************************************************************************)
(* Safety of the creation of threads, for any boot information, any amount *)
(* of memory and any number of threads: whatever kernel call fails, the    *)
(* rollback of createThread leaves no page mapped but those of the pool    *)
(* and of the finished threads, and takes nothing from another thread.     *)
(***************************************************************************)
EXTENDS ObjectFactory, FiniteSetTheorems, SequenceTheorems, TLAPS

-----------------------------------------------------------------------------
(* The inductive invariant.                                                *)

(* Each frame mapPage gave out is counted once.                            *)
Counted == mappedPages = Cardinality(DOMAIN given)

(* A slot that was handed out is never handed out again.                   *)
SlotsFresh ==
  /\ emptySlotPos = 0 \/ emptySlotPos > SlotStart
  /\ DOMAIN given \subseteq 1..(FreeSlot - 1)

(* What a finished thread, and the one being made, has so far.             *)
Owns(th) ==
  /\ th.badge < tcbBadgeCounter
  /\ th.tcb < FreeSlot /\ th.endpoint < FreeSlot
  /\ \A i \in 1..Len(th.caps) :
       /\ th.caps[i] \in DOMAIN given
       /\ given[th.caps[i]] = th.pages[i]
       /\ ReservedPages < th.pages[i] /\ th.pages[i] < currentVirtualAddress
  /\ \A i, j \in 1..Len(th.caps) :
       i # j => th.caps[i] # th.caps[j] /\ th.pages[i] # th.pages[j]

Apart(a, b) ==
  /\ a.badge # b.badge
  /\ PagesOf(a) \cap PagesOf(b) = {}
  /\ CapsOf(a) \cap CapsOf(b) \subseteq {NoCap}

Complete(th) ==
  /\ th.badge # 0 /\ th.tcb # NoCap /\ th.endpoint # NoCap
  /\ Len(th.pages) = 3

ThreadsApart ==
  /\ Owns(new)
  /\ \A th \in threads : Owns(th) /\ Complete(th) /\ Apart(new, th)
  /\ \A a, b \in threads : a # b => Apart(a, b)

(* The stages of the boot, and of createThread.                            *)
BeforePool == {"pdpt", "pd", "pt"}
BeforeIdle == {"notification", "api", "com1", "irq"}
WithPages == {"ipcbuffer", "priority", "endpoint", "mint", "share"}
Creating == {"new", "setspace", "pages"} \cup WithPages
Stopping == {"newtable", "panic", "fault"}

Stages ==
  /\ pc \in BeforePool \cup {"reserve"} \cup BeforeIdle =>
       threads = {} /\ tcbBadgeCounter = 1 /\ currentVirtualAddress = 1 + ReservedPages
  /\ pc \in BeforePool => mappedPages = 0
  /\ pc \notin Creating \cup Stopping => new = NoThread
  /\ pc \in Creating => new.badge # 0 /\ new.tcb # NoCap
  /\ pc \in WithPages => Len(new.pages) = 3
  /\ pc \in {"mint", "share"} => new.endpoint # NoCap

(* Every counted page is one of the pool, of a thread, or of the thread    *)
(* being made; pages take addresses that were not used before.             *)
PagesAccounted ==
  /\ IsFiniteSet(threads)
  /\ pc \notin BeforePool \cup {"reserve"} \cup Stopping =>
       mappedPages = ReservedPages + 3 * Cardinality(threads) + Len(new.caps)
  /\ mappedPages < currentVirtualAddress /\ ReservedPages < currentVirtualAddress
  /\ IF new.badge = 0
       THEN currentVirtualAddress <= 1 + ReservedPages + 3 * (tcbBadgeCounter - 1)
       ELSE currentVirtualAddress <= 1 + ReservedPages + 3 * (tcbBadgeCounter - 2)
                                       + Len(new.pages)

(* A frame is the pool's, a thread's, or the thread's that is being made;  *)
(* the pool's are all mapped once the boot has come past reservePages.     *)
Owned(c) ==
  \/ given[c] <= ReservedPages
  \/ c \in FramesOf(new)
  \/ \E th \in threads : c \in FramesOf(th)

FramesOwned == \A c \in DOMAIN given : Owned(c)

(* An allocation that failed once for want of a slot or of memory fails    *)
(* ever after.                                                             *)
CanAlloc == SlotsLeft /\ memory > 0 /\ Usable(FreeSlot)

Notified ==
  /\ MutexHasNotification
  /\ pc \in {"com1", "irq", "idle"} \cup Creating => notification # NoCap
  /\ pc = "api" /\ notification = NoCap => ~CanAlloc

IInv ==
  /\ TypeOK
  /\ Counted
  /\ SlotsFresh
  /\ ThreadsApart
  /\ Stages
  /\ PagesAccounted
  /\ FramesOwned
  /\ PoolMapped
  /\ Notified

-----------------------------------------------------------------------------
(* The pool.                                                               *)

(* What every use of the pool leaves behind.                               *)
PoolMoves ==
  /\ emptySlotPos' \in 0..(SlotEnd + 1)
  /\ emptySlotPos' = 0 \/ emptySlotPos' > SlotStart
  /\ memory' \in 0..Memory
  /\ exhausted' \in BOOLEAN
  /\ FreeSlot' \in Nat /\ FreeSlot <= FreeSlot'
  /\ ~CanAlloc => ~CanAlloc'

LEMMA FreeSlotType ==
  ASSUME TypeOK, SlotsFresh
  PROVE  FreeSlot \in Nat /\ 1 <= FreeSlot /\ SlotStart <= FreeSlot
BY ConstAssumption DEF TypeOK, SlotsFresh, FreeSlot

LEMMA AllocObjectMoves ==
  ASSUME TypeOK, SlotsFresh, AllocObject
  PROVE  /\ PoolMoves /\ CanAlloc
         /\ FreeSlot' = FreeSlot + 1
         /\ FreeSlot \in 1..SlotEnd
<1>1. /\ emptySlotPos' = FreeSlot + 1 /\ emptySlotPos <= SlotEnd
      /\ memory > 0 /\ memory' = memory - 1
      /\ FreeSlot < SlotEnd
      /\ exhausted' = exhausted
      /\ CanAlloc
  BY DEF AllocObject, SlotsLeft, Usable, TakeSlot, CanAlloc
<1>2. FreeSlot' = FreeSlot + 1
  BY <1>1, FreeSlotType DEF FreeSlot
<1>3. exhausted' \in BOOLEAN
  BY <1>1, Zenon DEF TypeOK
<1> QED
  BY <1>1, <1>2, <1>3, FreeSlotType, ConstAssumption DEF TypeOK, PoolMoves

LEMMA AllocFailsMoves ==
  ASSUME TypeOK, SlotsFresh, AllocFails
  PROVE  PoolMoves /\ ~CanAlloc /\ ~CanAlloc'
<1>1. memory' = memory /\ exhausted' = TRUE
  BY DEF AllocFails
<1>2. CASE ~SlotsLeft /\ UNCHANGED emptySlotPos
  BY <1>1, <1>2, FreeSlotType, ConstAssumption
     DEF TypeOK, SlotsFresh, PoolMoves, CanAlloc, SlotsLeft, FreeSlot
<1>3. CASE SlotsLeft /\ (memory = 0 \/ ~Usable(FreeSlot)) /\ TakeSlot
  <2>1. /\ emptySlotPos' = FreeSlot + 1 /\ emptySlotPos <= SlotEnd
        /\ FreeSlot' = FreeSlot + 1
    BY <1>3, FreeSlotType DEF SlotsLeft, TakeSlot, FreeSlot
  <2>2. ~CanAlloc /\ ~CanAlloc'
    BY <1>1, <1>3, <2>1, FreeSlotType, ConstAssumption
       DEF TypeOK, CanAlloc, Usable
  <2>3. FreeSlot <= SlotEnd
    BY <2>1, ConstAssumption DEF TypeOK, FreeSlot
  <2> QED
    BY <1>1, <2>1, <2>2, <2>3, FreeSlotType, ConstAssumption
       DEF TypeOK, PoolMoves
<1> QED
  BY <1>2, <1>3 DEF AllocFails

LEMMA TakeSlotMoves ==
  ASSUME TypeOK, SlotsFresh, SlotsLeft, TakeSlot, UNCHANGED <<memory, exhausted>>
  PROVE  /\ PoolMoves
         /\ FreeSlot' = FreeSlot + 1
         /\ FreeSlot \in 1..SlotEnd
<1>1. /\ emptySlotPos' = FreeSlot + 1 /\ emptySlotPos <= SlotEnd
      /\ FreeSlot' = FreeSlot + 1
  BY FreeSlotType DEF SlotsLeft, TakeSlot, FreeSlot
<1>2. FreeSlot <= SlotEnd
  BY <1>1, ConstAssumption DEF TypeOK, FreeSlot
<1>3. ~CanAlloc => ~CanAlloc'
  BY <1>1, <1>2, FreeSlotType, ConstAssumption
     DEF TypeOK, CanAlloc, SlotsLeft, Usable
<1>4. exhausted' \in BOOLEAN
  BY Zenon DEF TypeOK
<1> QED
  BY <1>1, <1>2, <1>3, <1>4, FreeSlotType, ConstAssumption DEF TypeOK, PoolMoves

LEMMA PoolStays ==
  ASSUME TypeOK, SlotsFresh, UNCHANGED <<emptySlotPos, memory>>,
         exhausted' = TRUE \/ exhausted' = exhausted
  PROVE  PoolMoves
<1>1. exhausted' \in BOOLEAN
  BY Zenon DEF TypeOK
<1> QED
  BY <1>1, FreeSlotType, ConstAssumption
     DEF TypeOK, SlotsFresh, PoolMoves, CanAlloc, SlotsLeft, Usable, FreeSlot

-----------------------------------------------------------------------------
(* Threads, capabilities and pages.                                        *)

LEMMA DistinctCount ==
  ASSUME NEW S, NEW s \in Seq(S), NEW R, R = {s[i] : i \in 1..Len(s)},
         \A i, j \in 1..Len(s) : i # j => s[i] # s[j]
  PROVE  IsFiniteSet(R) /\ Cardinality(R) = Len(s)
<1> DEFINE f == [i \in 1..Len(s) |-> s[i]]
<1>1. f \in Bijection(1..Len(s), R)
  BY DEF Bijection, Injection, Surjection, IsInjective
<1>2. Len(s) \in Nat
  BY LenProperties
<1>3. ExistsBijection(1..Len(s), R)
  BY <1>1 DEF ExistsBijection
<1> QED
  BY <1>2, <1>3, FS_CountingElements, FS_NatBijection

LEMMA MappedFinite ==
  ASSUME TypeOK
  PROVE  IsFiniteSet(DOMAIN given)
<1>1. IsFiniteSet(Cap)
  BY FS_Interval, ConstAssumption DEF Cap
<1> QED
  BY <1>1, FS_Subset DEF TypeOK

(* What a thread owns stays its own while its pages stay mapped.           *)
LEMMA OwnsStays ==
  ASSUME TypeOK, SlotsFresh, PoolMoves, NEW th, ThreadRecord(th), Owns(th),
         tcbBadgeCounter' \in Nat, tcbBadgeCounter <= tcbBadgeCounter',
         currentVirtualAddress' \in Nat,
         currentVirtualAddress <= currentVirtualAddress',
         \A i \in 1..Len(th.caps) : /\ th.caps[i] \in DOMAIN given'
                                   /\ given'[th.caps[i]] = given[th.caps[i]]
  PROVE  Owns(th)'
<1>1. FreeSlot \in Nat /\ FreeSlot' \in Nat /\ FreeSlot <= FreeSlot'
  BY FreeSlotType DEF PoolMoves
<1>2. /\ th.badge \in Nat /\ th.tcb \in Nat /\ th.endpoint \in Nat
      /\ \A i \in 1..Len(th.caps) : th.pages[i] \in Nat
  <2>1. th.pages \in Seq(Page) /\ Len(th.pages) = Len(th.caps)
    BY DEF ThreadRecord
  <2>2. \A i \in 1..Len(th.pages) : th.pages[i] \in Page
    BY <2>1, ElementOfSeq
  <2>3. \A i \in 1..Len(th.caps) : th.pages[i] \in Nat
    BY <2>1, <2>2, ConstAssumption DEF Page
  <2>4. th.badge \in 0..Creations /\ th.tcb \in Cap /\ th.endpoint \in Cap
    BY DEF ThreadRecord
  <2> QED
    BY <2>3, <2>4, ConstAssumption DEF Cap
<1>3. tcbBadgeCounter \in Nat /\ currentVirtualAddress \in Nat
  BY ConstAssumption DEF TypeOK
<1> QED
  BY <1>1, <1>2, <1>3 DEF Owns

LEMMA SlotsStayFresh ==
  ASSUME TypeOK, SlotsFresh, PoolMoves, DOMAIN given' \subseteq DOMAIN given
  PROVE  SlotsFresh'
<1>1. FreeSlot \in Nat /\ FreeSlot' \in Nat /\ FreeSlot <= FreeSlot'
  BY FreeSlotType DEF PoolMoves
<1>2. DOMAIN given \subseteq 1..(FreeSlot' - 1)
  BY <1>1 DEF SlotsFresh
<1> QED
  BY <1>2 DEF SlotsFresh, PoolMoves

(* A step of the boot or of createThread that touches neither the pages    *)
(* nor a thread.                                                           *)
LEMMA QuietStep ==
  ASSUME IInv, PoolMoves,
         UNCHANGED <<pageVars, currentVirtualAddress, tcbBadgeCounter, threads, new>>
  PROVE  Counted' /\ SlotsFresh' /\ ThreadsApart'
<1>1. Counted'
  BY DEF IInv, Counted, pageVars
<1>2. SlotsFresh'
  BY SlotsStayFresh DEF IInv, pageVars
<1>3. tcbBadgeCounter \in Nat /\ currentVirtualAddress \in Nat
  BY ConstAssumption DEF IInv, TypeOK
<1>4. ASSUME NEW th, ThreadRecord(th), Owns(th)
      PROVE  Owns(th)'
  <2>1. \A i \in 1..Len(th.caps) : th.caps[i] \in DOMAIN given
    BY <1>4 DEF Owns
  <2> QED
    BY <1>3, <1>4, <2>1, OwnsStays DEF IInv, pageVars
<1>5. Owns(new)'
  <2>1. PICK n : n = new
    OBVIOUS
  <2>2. Owns(n)'
    BY <1>4, <2>1 DEF IInv, TypeOK, ThreadsApart
  <2> QED
    BY <2>1, <2>2 DEF Owns
<1>6. \A th \in threads : Owns(th)'
  BY <1>4 DEF IInv, TypeOK, ThreadsApart
<1>7. \A th \in threads : Apart(new, th)'
  BY DEF IInv, ThreadsApart
<1> QED
  BY <1>1, <1>2, <1>5, <1>6, <1>7 DEF IInv, ThreadsApart

AllStages ==
  BeforePool \cup {"reserve"} \cup BeforeIdle \cup {"idle"} \cup Creating \cup Stopping

LEMMA QuietInv ==
  ASSUME IInv, PoolMoves,
         UNCHANGED <<pageVars, currentVirtualAddress, tcbBadgeCounter, threads, new>>,
         notification' \in Cap, pc' \in AllStages,
         Stages', PagesAccounted', PoolMapped', Notified'
  PROVE  IInv'
<1>1. TypeOK'
  BY DEF IInv, TypeOK, PoolMoves, pageVars, AllStages, BeforePool, BeforeIdle,
         Creating, WithPages, Stopping
<1>2. FramesOwned'
  BY DEF IInv, FramesOwned, Owned, FramesOf, pageVars
<1> QED
  BY <1>1, <1>2, QuietStep DEF IInv

(* The root server stops, wherever it is.                                  *)
LEMMA StopInv ==
  ASSUME IInv, PoolMoves, pc' \in Stopping,
         UNCHANGED <<pageVars, currentVirtualAddress, tcbBadgeCounter, threads,
                     new, notification>>
  PROVE  IInv'
<1>1. pc' \in AllStages /\ notification' \in Cap
  BY DEF IInv, TypeOK, AllStages
<1>2. Stages'
  BY DEF Stages, BeforePool, BeforeIdle, Creating, WithPages, Stopping
<1>3. PagesAccounted'
  BY DEF IInv, PagesAccounted, Stopping, pageVars
<1>4. PoolMapped' /\ Notified'
  BY DEF IInv, PoolMapped, Notified, MutexHasNotification, Creating, WithPages, Stopping
<1> QED
  BY <1>1, <1>2, <1>3, <1>4, QuietInv

(* The addresses of one more thread, used or given up.                     *)
LEMMA AddressesUsed ==
  ASSUME NEW used \in Nat, NEW begun \in Nat, NEW n \in Nat, n <= 3,
         used <= 1 + ReservedPages + 3 * (begun - 2) + n
  PROVE  used <= 1 + ReservedPages + 3 * (begun - 1)
BY ConstAssumption

LEMMA AddressUsed ==
  ASSUME NEW used \in Nat, NEW begun \in Nat, NEW n \in Nat,
         used <= 1 + ReservedPages + 3 * (begun - 2) + n
  PROVE  used + 1 <= 1 + ReservedPages + 3 * (begun - 2) + (n + 1)
BY ConstAssumption

(* The rollback of createThread.                                           *)
LEMMA FailInv ==
  ASSUME IInv, pc \in Creating, Fail,
         UNCHANGED <<poolVars, currentVirtualAddress, tcbBadgeCounter, threads,
                     notification>>
  PROVE  IInv'
<1> DEFINE frames == FramesOf(new)
<1>1. /\ new.caps \in Seq(Cap) /\ Len(new.caps) = Len(new.pages)
      /\ Len(new.caps) \in Nat /\ Len(new.caps) <= 3
      /\ new.badge \in Nat \ {0}
  BY LenProperties, ConstAssumption DEF IInv, TypeOK, ThreadRecord, Stages
<1>2. IsFiniteSet(frames) /\ Cardinality(frames) = Len(new.caps)
  BY <1>1, DistinctCount DEF IInv, ThreadsApart, Owns, FramesOf
<1>3. /\ frames \subseteq DOMAIN given
      /\ \A c \in frames : ReservedPages < given[c]
  BY DEF IInv, ThreadsApart, Owns, FramesOf
<1>4. /\ mapped' = mapped \ frames
      /\ DOMAIN given' = DOMAIN given \ frames
      /\ \A c \in DOMAIN given \ frames : given'[c] = given[c]
      /\ mappedPages' = mappedPages - Len(new.caps)
      /\ new' = NoThread /\ pc' = "idle"
  BY DEF Fail, Unmap
<1>5. Counted' /\ mappedPages' \in Nat
  <2>1. Cardinality(DOMAIN given \ frames)
          = Cardinality(DOMAIN given) - Cardinality(frames)
    <3>1. (DOMAIN given) \cap frames = frames
      BY <1>3
    <3> QED
      BY <3>1, MappedFinite, FS_Difference DEF IInv
  <2>2. Cardinality(DOMAIN given') = mappedPages'
    BY <1>2, <1>4, <2>1 DEF IInv, Counted
  <2>3. Cardinality(DOMAIN given') \in Nat
    BY <1>4, MappedFinite, FS_Difference, FS_CardinalityType DEF IInv
  <2> QED
    BY <2>2, <2>3 DEF Counted
<1>6. PoolMoves
  BY PoolStays DEF IInv, poolVars
<1>7. SlotsFresh'
  BY <1>4, <1>6, SlotsStayFresh DEF IInv
<1>8. ASSUME NEW th \in threads
      PROVE  Owns(th)' /\ Apart(NoThread, th)
  <2>1. Owns(th) /\ Complete(th) /\ Apart(new, th) /\ ThreadRecord(th)
    BY DEF IInv, TypeOK, ThreadsApart
  <2>2. ASSUME NEW i \in 1..Len(th.caps)
        PROVE  th.caps[i] \in DOMAIN given \ frames
    <3>1. th.caps[i] \in DOMAIN given
      BY <2>1 DEF Owns
    <3>2. th.caps[i] # NoCap
      BY <3>1, FreeSlotType DEF IInv, SlotsFresh, NoCap
    <3> QED
      BY <2>1, <3>1, <3>2 DEF Apart, CapsOf, FramesOf
  <2>3. tcbBadgeCounter \in Nat /\ currentVirtualAddress \in Nat
    BY ConstAssumption DEF IInv, TypeOK
  <2>4. Owns(th)'
    BY <1>4, <1>6, <2>1, <2>2, <2>3, OwnsStays DEF IInv
  <2>5. Apart(NoThread, th)
    BY <2>1 DEF Apart, Complete, NoThread, PagesOf, CapsOf, FramesOf
  <2> QED
    BY <2>4, <2>5
<1>9. Owns(new)'
  BY <1>4, <1>7, FreeSlotType, ConstAssumption
     DEF IInv, TypeOK, Owns, NoThread, NoCap, poolVars, FreeSlot
<1>10. ThreadsApart'
  BY <1>4, <1>8, <1>9 DEF IInv, ThreadsApart
<1>11. TypeOK'
  <2>1. ThreadRecord(NoThread)
    BY EmptySeq, ConstAssumption DEF ThreadRecord, NoThread, NoCap, Cap
  <2>2. /\ mapped' \subseteq DOMAIN given' /\ DOMAIN given' \subseteq Cap
        /\ \A c \in DOMAIN given' : given'[c] \in Page
    BY <1>4 DEF IInv, TypeOK
  <2>3. mappedPages' \in 0..(ReservedPages + 3 * Creations)
    <3>1. mappedPages \in 0..(ReservedPages + 3 * Creations)
      BY DEF IInv, TypeOK
    <3>2. mappedPages' \in Nat /\ mappedPages' <= mappedPages
      BY <1>1, <1>4, <1>5, <3>1
    <3> QED
      BY <3>1, <3>2, ConstAssumption
  <2> QED
    BY <1>4, <2>1, <2>2, <2>3 DEF IInv, TypeOK, poolVars
<1>12. Stages' /\ Notified'
  BY <1>4 DEF IInv, Stages, Notified, MutexHasNotification, Creating, WithPages,
              Stopping, BeforePool, BeforeIdle
<1>13. PagesAccounted'
  <2>1. mappedPages = ReservedPages + 3 * Cardinality(threads) + Len(new.caps)
    BY DEF IInv, PagesAccounted, Creating, WithPages, Stopping, BeforePool
  <2>2. IsFiniteSet(threads) /\ Cardinality(threads) \in Nat
    BY FS_CardinalityType DEF IInv, PagesAccounted
  <2>3. mappedPages' = ReservedPages + 3 * Cardinality(threads)
    BY <1>1, <1>4, <2>1, <2>2, ConstAssumption
  <2>4. NoThread.badge = 0 /\ Len(NoThread.caps) = 0 /\ Len(NoThread.pages) = 0
    BY DEF NoThread
  <2>5. mappedPages' < currentVirtualAddress /\ ReservedPages < currentVirtualAddress
    BY <1>1, <1>4, ConstAssumption DEF IInv, TypeOK, PagesAccounted
  <2>6. currentVirtualAddress <= 1 + ReservedPages + 3 * (tcbBadgeCounter - 1)
    <3>1. currentVirtualAddress
            <= 1 + ReservedPages + 3 * (tcbBadgeCounter - 2) + Len(new.pages)
      BY <1>1 DEF IInv, PagesAccounted
    <3>2. tcbBadgeCounter \in Nat /\ currentVirtualAddress \in Nat
      BY ConstAssumption DEF IInv, TypeOK
    <3>3. Len(new.pages) \in Nat /\ Len(new.pages) <= 3
      BY <1>1
    <3> QED
      BY <3>1, <3>2, <3>3, AddressesUsed
  <2> QED
    BY <1>4, <2>2, <2>3, <2>4, <2>5, <2>6, ConstAssumption DEF PagesAccounted
<1>14. FramesOwned'
  BY <1>4 DEF IInv, FramesOwned, Owned
<1>15. PoolMapped'
  <2>1. PoolPages = 1..ReservedPages
    BY DEF IInv, PoolMapped, Creating, WithPages
  <2>2. ASSUME NEW p \in 1..ReservedPages
        PROVE  p \in PoolPages'
    <3>1. PICK c \in mapped : given[c] = p
      BY <2>1 DEF PoolPages
    <3>2. c \notin frames
      BY <1>3, <3>1, ConstAssumption
    <3>3. c \in mapped' /\ given'[c] = p
      BY <1>4, <3>1, <3>2 DEF IInv, TypeOK
    <3> QED
      BY <3>3 DEF PoolPages
  <2> QED
    BY <2>2 DEF PoolMapped, PoolPages
<1> QED
  BY <1>5, <1>7, <1>10, <1>11, <1>12, <1>13, <1>14, <1>15 DEF IInv

(* A page that is mapped gets a capability that was never used before.     *)
LEMMA MapPageMoves ==
  ASSUME IInv, NEW page \in Page, MapPage(page)
  PROVE  /\ PoolMoves /\ FreeSlot' = FreeSlot + 1 /\ FreeSlot \in 1..SlotEnd
         /\ FreeSlot \notin DOMAIN given
         /\ DOMAIN given' = DOMAIN given \cup {FreeSlot}
         /\ given'[FreeSlot] = page
         /\ \A c \in DOMAIN given : given'[c] = given[c]
         /\ mappedPages' = mappedPages + 1
         /\ Counted' /\ SlotsFresh'
         /\ mapped \subseteq mapped' /\ mapped' \subseteq DOMAIN given'
         /\ DOMAIN given' \subseteq Cap
         /\ \A c \in DOMAIN given' : given'[c] \in Page
<1>1. /\ PoolMoves /\ FreeSlot' = FreeSlot + 1 /\ FreeSlot \in 1..SlotEnd
  BY AllocObjectMoves DEF IInv, MapPage
<1>2. FreeSlot \notin DOMAIN given
  BY <1>1, ConstAssumption DEF IInv, SlotsFresh
<1>3. /\ DOMAIN given' = DOMAIN given \cup {FreeSlot}
      /\ given'[FreeSlot] = page
      /\ \A c \in DOMAIN given : given'[c] = given[c]
      /\ mappedPages' = mappedPages + 1
  <2>1. given' = With(FreeSlot, page) /\ mappedPages' = mappedPages + 1
    BY DEF MapPage
  <2> QED
    BY <1>2, <2>1 DEF With
<1>4. Counted'
  BY <1>2, <1>3, MappedFinite, FS_AddElement DEF IInv, Counted
<1>5. SlotsFresh'
  <2>1. DOMAIN given' \subseteq 1..(FreeSlot' - 1)
    BY <1>1, <1>3, ConstAssumption DEF IInv, SlotsFresh
  <2> QED
    BY <1>1, <2>1 DEF SlotsFresh, PoolMoves
<1>6. /\ DOMAIN given' \subseteq Cap
      /\ \A c \in DOMAIN given' : given'[c] \in Page
  BY <1>1, <1>3, ConstAssumption DEF IInv, TypeOK, Cap
<1>7. mapped \subseteq mapped' /\ mapped' \subseteq DOMAIN given'
  BY <1>3 DEF IInv, TypeOK, MapPage
<1> QED
  BY <1>1, <1>2, <1>3, <1>4, <1>5, <1>6, <1>7

LEMMA MapPagePanicsInv ==
  ASSUME IInv, NEW page, MapPagePanics(page),
         UNCHANGED <<currentVirtualAddress, tcbBadgeCounter, threads, new, notification>>
  PROVE  IInv'
<1>1. PoolMoves
  BY AllocFailsMoves, AllocObjectMoves DEF IInv, MapPagePanics
<1>2. pc' \in Stopping /\ UNCHANGED pageVars
  BY DEF MapPagePanics, Stopping
<1> QED
  BY <1>1, <1>2, StopInv

-----------------------------------------------------------------------------
(* One lemma per action: it preserves the invariant.                       *)

(* The boot: the stages are passed one after the other.                    *)
LEMMA BootMoves ==
  ASSUME IInv, PoolMoves, NEW to, pc' = to,
         <<pc, to>> \in {<<"pdpt", "pd">>, <<"pd", "pt">>, <<"pt", "reserve">>,
                        <<"api", "com1">>, <<"com1", "irq">>, <<"irq", "idle">>},
         pc = "api" => CanAlloc,
         UNCHANGED <<pageVars, currentVirtualAddress, tcbBadgeCounter, threads,
                     new, notification>>
  PROVE  IInv'
<1>1. pc' \in AllStages /\ notification' \in Cap
  BY DEF IInv, TypeOK, AllStages, BeforePool, BeforeIdle
<1>2. Stages'
  BY DEF IInv, Stages, BeforePool, BeforeIdle, Creating, WithPages, Stopping,
         pageVars
<1>3. PagesAccounted'
  BY DEF IInv, PagesAccounted, Stages, BeforePool, BeforeIdle, Stopping, pageVars
<1>4. PoolMapped' /\ Notified'
  BY DEF IInv, PoolMapped, PoolPages, pageVars, Notified, MutexHasNotification,
         Creating, WithPages
<1> QED
  BY <1>1, <1>2, <1>3, <1>4, QuietInv

LEMMA BootObjectInv ==
  ASSUME IInv, NEW from, NEW to, BootObject(from, to),
         <<from, to>> \in {<<"pdpt", "pd">>, <<"pd", "pt">>, <<"pt", "reserve">>,
                          <<"api", "com1">>}
  PROVE  IInv'
<1>1. CASE AllocObject /\ pc' = to
  BY <1>1, AllocObjectMoves, BootMoves DEF IInv, BootObject
<1>2. CASE AllocFails /\ pc' = "panic"
  BY <1>2, AllocFailsMoves, StopInv DEF IInv, BootObject, Stopping
<1> QED
  BY <1>1, <1>2 DEF BootObject

LEMMA BootSlotInv ==
  ASSUME IInv, NEW from, NEW to, BootSlot(from, to),
         <<from, to>> \in {<<"com1", "irq">>, <<"irq", "idle">>}
  PROVE  IInv'
<1>1. CASE SlotsLeft
  BY <1>1, TakeSlotMoves, BootMoves DEF IInv, BootSlot
<1>2. CASE ~SlotsLeft
  BY <1>2, PoolStays, StopInv DEF IInv, BootSlot, Stopping
<1> QED
  BY <1>1, <1>2

LEMMA NewTablePanicsInv ==
  ASSUME IInv, NewTablePanics
  PROVE  IInv'
BY AllocObjectMoves, AllocFailsMoves, StopInv DEF IInv, NewTablePanics, Stopping

LEMMA ReservePageInv ==
  ASSUME IInv, ReservePage
  PROVE  IInv'
<1> DEFINE page == 1 + mappedPages
<1>1. /\ pc = "reserve" /\ mappedPages < ReservedPages
      /\ UNCHANGED <<currentVirtualAddress, tcbBadgeCounter, threads, new,
                     notification>>
  BY DEF ReservePage
<1>2. CASE MapPagePanics(page)
  <2>1. PICK p : p = page
    OBVIOUS
  <2> QED
    BY <1>1, <1>2, <2>1, MapPagePanicsInv
<1>3. CASE MapPage(page) /\ UNCHANGED pc
  <2>1. PICK p \in Page : p = page
    BY <1>1, ConstAssumption DEF IInv, TypeOK, Page
  <2>2. MapPage(p)
    BY <1>3, <2>1
  <2>3. mappedPages' = mappedPages + 1 /\ mappedPages \in Nat
    BY <2>2, MapPageMoves, ConstAssumption DEF IInv, TypeOK
  <2>4. TypeOK'
    BY <1>1, <1>3, <2>2, <2>3, MapPageMoves, ConstAssumption
       DEF IInv, TypeOK, PoolMoves
  <2>5. threads = {} /\ new = NoThread
    BY <1>1 DEF IInv, Stages, Creating, WithPages, Stopping
  <2>6. ThreadsApart'
    <3>1. FreeSlot' \in Nat /\ 1 <= FreeSlot'
      BY <2>2, MapPageMoves, ConstAssumption
    <3>2. Owns(new)'
      BY <1>1, <2>5, <3>1, ConstAssumption DEF IInv, TypeOK, Owns, NoThread, NoCap
    <3> QED
      BY <1>1, <2>5, <3>2 DEF ThreadsApart
  <2>7. Stages'
    BY <1>1, <1>3 DEF IInv, Stages, BeforePool, BeforeIdle, Creating, WithPages,
                      Stopping
  <2>8. PagesAccounted'
    BY <1>1, <1>3, <2>3, <2>5, ConstAssumption
       DEF IInv, PagesAccounted, Stages, Stopping
  <2>9. Notified'
    BY <1>1, <1>3 DEF IInv, Notified, MutexHasNotification, Creating, WithPages
  <2>10. PoolMapped'
    BY <1>1, <1>3 DEF PoolMapped
  <2>11. FramesOwned'
    <3>1. p <= ReservedPages
      BY <1>1, <2>1, ConstAssumption DEF IInv, TypeOK
    <3>2. ASSUME NEW c \in DOMAIN given'
          PROVE  Owned(c)'
      <4>1. CASE c = FreeSlot
        BY <2>2, <3>1, <4>1, MapPageMoves DEF Owned
      <4>2. CASE c # FreeSlot
        <5>1. c \in DOMAIN given /\ given'[c] = given[c]
          BY <2>2, <4>2, MapPageMoves
        <5> QED
          BY <1>1, <5>1 DEF IInv, FramesOwned, Owned
      <4> QED
        BY <4>1, <4>2
    <3> QED
      BY <3>2 DEF FramesOwned
  <2> QED
    BY <2>2, <2>4, <2>6, <2>7, <2>8, <2>9, <2>10, <2>11, MapPageMoves DEF IInv
<1> QED
  BY <1>2, <1>3 DEF ReservePage

LEMMA ReservedInv ==
  ASSUME IInv, Reserved
  PROVE  IInv'
<1>1. /\ pc = "reserve" /\ mappedPages = ReservedPages
      /\ UNCHANGED <<poolVars, pageVars, currentVirtualAddress, tcbBadgeCounter,
                     threads, new, notification>>
  BY DEF Reserved
<1>2. PoolMoves
  BY <1>1, PoolStays DEF IInv, poolVars
<1>3. CASE pc' = "fault"
  BY <1>1, <1>2, <1>3, StopInv DEF Stopping
<1>4. CASE PoolPages = 1..ReservedPages /\ pc' = "notification"
  <2>1. pc' \in AllStages /\ notification' \in Cap
    BY <1>1, <1>4 DEF IInv, TypeOK, AllStages, BeforeIdle
  <2>2. Stages' /\ Notified'
    BY <1>1, <1>4 DEF IInv, Stages, Notified, MutexHasNotification, BeforePool,
                      BeforeIdle, Creating, WithPages, Stopping
  <2>3. PagesAccounted'
    <3>1. threads = {} /\ new = NoThread
      BY <1>1 DEF IInv, Stages, Creating, WithPages, Stopping
    <3>2. Cardinality(threads) = 0 /\ Len(new.caps) = 0
      BY <3>1, FS_EmptySet DEF NoThread
    <3> QED
      BY <1>1, <1>4, <3>2, ConstAssumption DEF IInv, PagesAccounted, pageVars
  <2>4. PoolMapped'
    BY <1>1, <1>4 DEF PoolMapped, PoolPages, pageVars
  <2> QED
    BY <1>1, <1>2, <2>1, <2>2, <2>3, <2>4, QuietInv
<1> QED
  BY <1>3, <1>4 DEF Reserved

LEMMA CreateNotificationInv ==
  ASSUME IInv, CreateNotification
  PROVE  IInv'
<1>1. /\ pc = "notification" /\ pc' = "api"
      /\ UNCHANGED <<pageVars, currentVirtualAddress, tcbBadgeCounter, threads,
                     new>>
  BY DEF CreateNotification
<1>2. PoolMoves
  BY AllocObjectMoves, AllocFailsMoves DEF IInv, CreateNotification
<1>3. /\ notification' \in Cap
      /\ notification' = NoCap => ~CanAlloc'
  <2>1. CASE AllocObject /\ notification' = FreeSlot
    BY <2>1, AllocObjectMoves, ConstAssumption DEF IInv, Cap, NoCap
  <2>2. CASE AllocFails /\ UNCHANGED notification
    BY <2>2, AllocFailsMoves DEF IInv, TypeOK
  <2> QED
    BY <2>1, <2>2 DEF CreateNotification
<1>4. threads = {}
  BY <1>1 DEF IInv, Stages, BeforeIdle
<1>5. pc' \in AllStages /\ Stages'
  BY <1>1 DEF IInv, AllStages, Stages, BeforePool, BeforeIdle, Creating,
              WithPages, Stopping
<1>6. PagesAccounted'
  BY <1>1 DEF IInv, PagesAccounted, BeforePool, Stopping, pageVars
<1>7. Notified'
  BY <1>1, <1>3, <1>4 DEF Notified, MutexHasNotification, Creating, WithPages
<1>8. PoolMapped'
  BY <1>1 DEF IInv, PoolMapped, PoolPages, pageVars
<1> QED
  BY <1>1, <1>2, <1>3, <1>5, <1>6, <1>7, <1>8, QuietInv

(* A step of createThread that changes nothing but the stage.              *)
LEMMA KernelCallInv ==
  ASSUME IInv, NEW from, NEW to, KernelCall(from, to),
         from \in Creating, to \in Creating,
         to \in WithPages => from \in WithPages \/ Len(new.pages) = 3,
         to \notin {"mint", "share"}
  PROVE  IInv'
<1>1. /\ pc = from
      /\ UNCHANGED <<poolVars, currentVirtualAddress, tcbBadgeCounter, threads,
                     notification>>
  BY DEF KernelCall
<1>2. CASE Fail
  BY <1>1, <1>2, FailInv
<1>3. CASE pc' = to /\ UNCHANGED <<pageVars, new>>
  <2>1. PoolMoves
    BY <1>1, PoolStays DEF IInv, poolVars
  <2>2. pc' \in AllStages /\ notification' \in Cap
    BY <1>1, <1>3 DEF IInv, TypeOK, AllStages
  <2>3. Stages' /\ Notified'
    BY <1>1, <1>3 DEF IInv, Stages, Notified, MutexHasNotification, BeforePool,
                      BeforeIdle, Creating, WithPages, Stopping
  <2>4. PagesAccounted'
    BY <1>1, <1>3 DEF IInv, PagesAccounted, BeforePool, Creating, WithPages,
                      Stopping, pageVars
  <2>5. PoolMapped'
    BY <1>1, <1>3 DEF IInv, PoolMapped, PoolPages, pageVars, Creating, WithPages
  <2> QED
    BY <1>1, <1>3, <2>1, <2>2, <2>3, <2>4, <2>5, QuietInv
<1> QED
  BY <1>2, <1>3 DEF KernelCall

LEMMA NewThreadInv ==
  ASSUME IInv, NewThread
  PROVE  IInv'
<1>1. /\ pc = "new"
      /\ UNCHANGED <<emptySlotPos, memory, pageVars, currentVirtualAddress,
                     tcbBadgeCounter, threads, new, notification>>
  BY DEF NewThread
<1>2. PoolMoves
  BY <1>1, PoolStays DEF IInv, NewThread, NullFromNew
<1>3. CASE pc' = "panic"
  BY <1>1, <1>2, <1>3, StopInv DEF Stopping
<1>4. CASE pc' = "setspace"
  <2>1. pc' \in AllStages /\ notification' \in Cap
    BY <1>1, <1>4 DEF IInv, TypeOK, AllStages, Creating
  <2>2. Stages' /\ Notified'
    BY <1>1, <1>4 DEF IInv, Stages, Notified, MutexHasNotification, BeforePool,
                      BeforeIdle, Creating, WithPages, Stopping
  <2>3. PagesAccounted'
    BY <1>1, <1>4 DEF IInv, PagesAccounted, BeforePool, Stopping, pageVars
  <2>4. PoolMapped'
    BY <1>1, <1>4 DEF IInv, PoolMapped, PoolPages, pageVars
  <2> QED
    BY <1>1, <1>2, <2>1, <2>2, <2>3, <2>4, QuietInv
<1> QED
  BY <1>3, <1>4 DEF NewThread, NullFromNew

LEMMA MintInv ==
  ASSUME IInv, Mint
  PROVE  IInv'
<1>1. /\ pc = "mint"
      /\ UNCHANGED <<poolVars, currentVirtualAddress, tcbBadgeCounter, threads,
                     notification>>
  BY DEF Mint
<1>2. CASE Fail
  BY <1>1, <1>2, FailInv DEF Creating, WithPages
<1>3. CASE pc' = "share" /\ UNCHANGED <<pageVars, new>>
  <2>1. PoolMoves
    BY <1>1, PoolStays DEF IInv, poolVars
  <2>2. pc' \in AllStages /\ notification' \in Cap
    BY <1>1, <1>3 DEF IInv, TypeOK, AllStages, Creating, WithPages
  <2>3. Stages' /\ Notified'
    BY <1>1, <1>3 DEF IInv, Stages, Notified, MutexHasNotification, BeforePool,
                      BeforeIdle, Creating, WithPages, Stopping
  <2>4. PagesAccounted'
    BY <1>1, <1>3 DEF IInv, PagesAccounted, BeforePool, Stopping, pageVars
  <2>5. PoolMapped'
    BY <1>1, <1>3 DEF IInv, PoolMapped, PoolPages, pageVars
  <2> QED
    BY <1>1, <1>3, <2>1, <2>2, <2>3, <2>4, <2>5, QuietInv
<1> QED
  BY <1>2, <1>3 DEF Mint

LEMMA AllocTcbInv ==
  ASSUME IInv, AllocTcb
  PROVE  IInv'
<1>1. /\ pc = "idle" /\ tcbBadgeCounter <= Creations
      /\ tcbBadgeCounter' = tcbBadgeCounter + 1
      /\ UNCHANGED <<pageVars, currentVirtualAddress, threads, notification>>
  BY DEF AllocTcb
<1>2. PoolMoves
  BY AllocObjectMoves, AllocFailsMoves DEF IInv, AllocTcb
<1>3. /\ tcbBadgeCounter \in 1..Creations /\ currentVirtualAddress \in Nat
      /\ new = NoThread
  BY <1>1, ConstAssumption DEF IInv, TypeOK, Stages, Creating, WithPages, Stopping
<1>4. Counted' /\ SlotsFresh'
  BY <1>1, <1>2, SlotsStayFresh DEF IInv, Counted, pageVars
<1>5. ASSUME NEW th \in threads
      PROVE  Owns(th)'
  <2>1. ThreadRecord(th) /\ Owns(th)
    BY DEF IInv, TypeOK, ThreadsApart
  <2>2. \A i \in 1..Len(th.caps) : th.caps[i] \in DOMAIN given
    BY <2>1 DEF Owns
  <2>3. tcbBadgeCounter' \in Nat /\ tcbBadgeCounter <= tcbBadgeCounter'
    BY <1>1, <1>3, ConstAssumption
  <2> QED
    BY <1>1, <1>2, <1>3, <2>1, <2>2, <2>3, OwnsStays DEF IInv, pageVars
<1>6. ASSUME NEW th \in threads
      PROVE  /\ Complete(th) /\ th.badge < tcbBadgeCounter
             /\ \A c \in CapsOf(th) : c < FreeSlot
  <2>1. ThreadRecord(th) /\ Owns(th) /\ Complete(th)
    BY DEF IInv, TypeOK, ThreadsApart
  <2>2. \A i \in 1..Len(th.caps) : th.caps[i] \in 1..(FreeSlot - 1)
    BY <2>1 DEF IInv, SlotsFresh, Owns
  <2>3. \A i \in 1..Len(th.caps) : th.caps[i] < FreeSlot
    BY <2>2, FreeSlotType DEF IInv
  <2> QED
    BY <2>1, <2>3 DEF Owns, CapsOf, FramesOf
<1>7. FramesOwned' /\ PoolMapped'
  <2>1. FramesOf(new) = {} /\ PoolPages = 1..ReservedPages
    BY <1>1, <1>3 DEF IInv, PoolMapped, FramesOf, NoThread
  <2>2. FramesOwned'
    BY <1>1, <2>1 DEF IInv, FramesOwned, Owned, FramesOf, pageVars
  <2> QED
    BY <1>1, <2>1, <2>2 DEF PoolMapped, PoolPages, pageVars
<1>8. CASE AllocFails /\ UNCHANGED <<new, pc>>
  <2>1. TypeOK'
    BY <1>1, <1>2, <1>3, <1>8, ConstAssumption DEF IInv, TypeOK, PoolMoves, pageVars
  <2>2. ThreadsApart'
    <3>1. Owns(new)'
      BY <1>1, <1>2, <1>3, <1>8, FreeSlotType, ConstAssumption
         DEF IInv, Owns, NoThread, NoCap, PoolMoves
    <3> QED
      BY <1>1, <1>5, <1>8, <3>1 DEF IInv, ThreadsApart
  <2>3. Stages' /\ Notified'
    BY <1>1, <1>8 DEF IInv, Stages, Notified, MutexHasNotification, BeforePool,
                      BeforeIdle, Creating, WithPages, Stopping
  <2>4. PagesAccounted'
    <3>1. new.badge = 0
      BY <1>3 DEF NoThread
    <3>2. currentVirtualAddress <= 1 + ReservedPages + 3 * (tcbBadgeCounter' - 1)
      BY <1>1, <1>3, <3>1, ConstAssumption DEF IInv, PagesAccounted
    <3> QED
      BY <1>1, <1>8, <3>1, <3>2 DEF IInv, PagesAccounted, pageVars
  <2> QED
    BY <1>4, <1>7, <2>1, <2>2, <2>3, <2>4 DEF IInv
<1>9. CASE AllocObject /\ pc' = "new"
           /\ new' = [NoThread EXCEPT !.badge = tcbBadgeCounter, !.tcb = FreeSlot]
  <2>1. /\ FreeSlot \in 1..SlotEnd /\ FreeSlot' = FreeSlot + 1
    BY <1>9, AllocObjectMoves DEF IInv
  <2>2. new' = [badge |-> tcbBadgeCounter, tcb |-> FreeSlot, pages |-> <<>>,
                caps |-> <<>>, endpoint |-> NoCap]
    BY <1>9 DEF NoThread
  <2>3. TypeOK'
    <3>1. ThreadRecord(new)'
      BY <1>3, <2>1, <2>2, EmptySeq, ConstAssumption DEF ThreadRecord, NoCap, Cap
    <3> QED
      BY <1>1, <1>2, <1>3, <1>9, <3>1, ConstAssumption
         DEF IInv, TypeOK, PoolMoves, pageVars
  <2>4. ThreadsApart'
    <3>1. Owns(new)'
      BY <1>1, <1>3, <2>1, <2>2, ConstAssumption DEF Owns, NoCap
    <3>2. ASSUME NEW th \in threads
          PROVE  Apart(new, th)'
      <4>1. PagesOf(new') = {} /\ CapsOf(new') = {FreeSlot, NoCap}
        BY <2>2 DEF PagesOf, CapsOf, FramesOf
      <4>2. FreeSlot \notin CapsOf(th) /\ new'.badge # th.badge
        BY <1>3, <1>6, <2>1, <2>2, ConstAssumption
      <4> QED
        BY <4>1, <4>2 DEF Apart
    <3> QED
      BY <1>1, <1>5, <3>1, <3>2 DEF IInv, ThreadsApart
  <2>5. Stages'
    BY <1>3, <1>9, <2>1, <2>2, ConstAssumption
       DEF Stages, BeforePool, BeforeIdle, Creating, WithPages, NoCap
  <2>6. Notified'
    BY <1>1, <1>9 DEF IInv, Notified, MutexHasNotification
  <2>7. PagesAccounted'
    <3>1. /\ new.badge = 0 /\ Len(new.caps) = 0
          /\ new'.badge # 0 /\ Len(new'.caps) = 0 /\ Len(new'.pages) = 0
      BY <1>3, <2>2, ConstAssumption DEF NoThread
    <3>2. currentVirtualAddress
            <= 1 + ReservedPages + 3 * (tcbBadgeCounter' - 2) + Len(new'.pages)
      BY <1>1, <1>3, <3>1, ConstAssumption DEF IInv, PagesAccounted
    <3>3. mappedPages = ReservedPages + 3 * Cardinality(threads) + Len(new'.caps)
      BY <1>1, <3>1 DEF IInv, PagesAccounted, BeforePool, Stopping
    <3> QED
      BY <1>1, <3>1, <3>2, <3>3 DEF IInv, PagesAccounted, pageVars
  <2> QED
    BY <1>4, <1>7, <2>3, <2>4, <2>5, <2>6, <2>7 DEF IInv
<1> QED
  BY <1>8, <1>9 DEF AllocTcb

LEMMA MapThreadPageInv ==
  ASSUME IInv, MapThreadPage
  PROVE  IInv'
<1> DEFINE n == Len(new.pages)
<1>1. /\ pc = "pages" /\ n < 3
      /\ UNCHANGED <<tcbBadgeCounter, threads, notification>>
  BY DEF MapThreadPage
<1>2. PICK page : page = currentVirtualAddress
  OBVIOUS
<1>3. CASE MapPagePanics(page) /\ UNCHANGED <<new, currentVirtualAddress>>
  BY <1>1, <1>3, MapPagePanicsInv
<1>4. CASE /\ MapPage(page)
           /\ new' = [new EXCEPT !.pages = Append(@, page),
                                 !.caps = Append(@, FreeSlot)]
           /\ currentVirtualAddress' = page + 1
           /\ UNCHANGED pc
  <2>1. /\ n \in Nat /\ Len(new.caps) = n
        /\ new \in [badge : 0..Creations, tcb : Cap, pages : Seq(Page),
                    caps : Seq(Cap), endpoint : Cap]
    BY LenProperties DEF IInv, TypeOK, ThreadRecord
  <2>2. /\ tcbBadgeCounter \in Nat /\ tcbBadgeCounter <= Creations + 1
        /\ page \in Nat /\ 1 <= page
    BY <1>2, ConstAssumption DEF IInv, TypeOK
  <2>3. new.badge # 0
    BY <1>1 DEF IInv, Stages, Creating
  <2>4. page <= 1 + ReservedPages + 3 * (tcbBadgeCounter - 2) + n
    BY <1>2, <2>3 DEF IInv, PagesAccounted
  <2>5. page <= ReservedPages + 3 * Creations
    <3>1. n <= 2
      BY <1>1, <2>1
    <3> QED
      BY <2>1, <2>2, <2>4, <3>1, ConstAssumption
  <2>6. page \in Page
    BY <2>2, <2>5, ConstAssumption DEF Page
  <2>7. /\ PoolMoves /\ FreeSlot' = FreeSlot + 1 /\ FreeSlot \in 1..SlotEnd
        /\ FreeSlot \notin DOMAIN given
        /\ DOMAIN given' = DOMAIN given \cup {FreeSlot}
        /\ given'[FreeSlot] = page
        /\ \A c \in DOMAIN given : given'[c] = given[c]
        /\ mappedPages' = mappedPages + 1
        /\ Counted' /\ SlotsFresh'
        /\ mapped \subseteq mapped' /\ mapped' \subseteq DOMAIN given'
        /\ DOMAIN given' \subseteq Cap
        /\ \A c \in DOMAIN given' : given'[c] \in Page
    BY <1>4, <2>6, MapPageMoves
  <2>8. /\ new'.badge = new.badge /\ new'.tcb = new.tcb
        /\ new'.endpoint = new.endpoint
        /\ new'.pages = Append(new.pages, page)
        /\ new'.caps = Append(new.caps, FreeSlot)
        /\ new' \in [badge : 0..Creations, tcb : Cap, pages : Seq(Page),
                     caps : Seq(Cap), endpoint : Cap]
    <3>1. FreeSlot \in Cap
      BY <2>7, ConstAssumption DEF Cap
    <3> QED
      BY <1>4, <2>1, <2>6, <3>1, AppendProperties
  <2>9. /\ Len(new'.pages) = n + 1 /\ Len(new'.caps) = n + 1
        /\ \A i \in 1..n : /\ new'.pages[i] = new.pages[i]
                           /\ new'.caps[i] = new.caps[i]
        /\ new'.pages[n + 1] = page /\ new'.caps[n + 1] = FreeSlot
    <3>1. FreeSlot \in Cap
      BY <2>7, ConstAssumption DEF Cap
    <3> QED
      BY <2>1, <2>6, <2>8, <3>1, AppendProperties
  <2>10. TypeOK'
    <3>1. ThreadRecord(new)'
      BY <1>1, <2>1, <2>8, <2>9 DEF ThreadRecord
    <3>2. mappedPages' \in 0..(ReservedPages + 3 * Creations)
      BY <1>2, <2>2, <2>5, <2>7, ConstAssumption DEF IInv, TypeOK, PagesAccounted
    <3>3. currentVirtualAddress' \in 1..(1 + ReservedPages + 3 * Creations)
      BY <1>4, <2>2, <2>5, ConstAssumption
    <3> QED
      BY <1>1, <1>4, <2>7, <3>1, <3>2, <3>3 DEF IInv, TypeOK, PoolMoves
  <2>11. Owns(new)'
    <3>1. /\ FreeSlot' \in Nat /\ new.tcb < FreeSlot' /\ new.endpoint < FreeSlot'
          /\ new.badge < tcbBadgeCounter'
      BY <1>1, <2>1, <2>7, ConstAssumption DEF IInv, ThreadsApart, Owns, Cap
    <3>2. \A i \in 1..n : /\ new.caps[i] \in DOMAIN given
                         /\ given[new.caps[i]] = new.pages[i]
                         /\ ReservedPages < new.pages[i]
                         /\ new.pages[i] < page
                         /\ new.pages[i] \in Nat
      <4>1. \A i \in 1..n : new.pages[i] \in Page
        BY <2>1, ElementOfSeq
      <4> QED
        BY <1>2, <2>1, <4>1, ConstAssumption DEF IInv, ThreadsApart, Owns, Page
    <3>3. ReservedPages < page
      BY <2>2, <1>2, ConstAssumption DEF IInv, TypeOK, PagesAccounted
    <3>4. ASSUME NEW i \in 1..Len(new'.caps)
          PROVE  /\ new'.caps[i] \in DOMAIN given'
                 /\ given'[new'.caps[i]] = new'.pages[i]
                 /\ ReservedPages < new'.pages[i]
                 /\ new'.pages[i] < currentVirtualAddress'
      BY <1>4, <2>1, <2>2, <2>7, <2>9, <3>2, <3>3
    <3>5. ASSUME NEW i \in 1..Len(new'.caps), NEW j \in 1..Len(new'.caps), i # j
          PROVE  new'.caps[i] # new'.caps[j] /\ new'.pages[i] # new'.pages[j]
      <4>1. (i \in 1..n \/ i = n + 1) /\ (j \in 1..n \/ j = n + 1)
        BY <2>1, <2>9
      <4>2. CASE i \in 1..n /\ j \in 1..n
        BY <2>1, <2>9, <3>5, <4>2 DEF IInv, ThreadsApart, Owns
      <4>3. CASE i = n + 1 \/ j = n + 1
        <5>1. \A k \in 1..n : new.caps[k] # FreeSlot /\ new.pages[k] # page
          BY <2>2, <2>7, <3>2
        <5> QED
          BY <2>9, <3>5, <4>1, <4>3, <5>1
      <4> QED
        BY <4>1, <4>2, <4>3
    <3> QED
      BY <2>8, <3>1, <3>4, <3>5 DEF Owns
  <2>12. /\ FramesOf(new') = FramesOf(new) \cup {FreeSlot}
         /\ PagesOf(new') = PagesOf(new) \cup {page}
    <3>1. PICK slot : slot = FreeSlot
      OBVIOUS
    <3>2. /\ FramesOf(new) = {new.caps[i] : i \in 1..n}
          /\ FramesOf(new') = {new'.caps[i] : i \in 1..(n + 1)}
          /\ PagesOf(new) = {new.pages[i] : i \in 1..n}
          /\ PagesOf(new') = {new'.pages[i] : i \in 1..(n + 1)}
      BY <2>1, <2>9 DEF FramesOf, PagesOf
    <3>3. 1..(n + 1) = 1..n \cup {n + 1}
      BY <2>1
    <3>4. FramesOf(new') = FramesOf(new) \cup {slot}
      BY <2>9, <3>1, <3>2, <3>3
    <3>5. PagesOf(new') = PagesOf(new) \cup {page}
      BY <2>9, <3>2, <3>3
    <3> QED
      BY <3>1, <3>4, <3>5
  <2>13. ASSUME NEW th \in threads
         PROVE  Owns(th)' /\ Apart(new, th)'
    <3>1. ThreadRecord(th) /\ Owns(th) /\ Apart(new, th) /\ Len(th.pages) = Len(th.caps)
      BY DEF IInv, TypeOK, ThreadsApart, ThreadRecord
    <3>2. \A i \in 1..Len(th.caps) : th.caps[i] \in DOMAIN given
      BY <3>1 DEF Owns
    <3>3. Owns(th)'
      BY <1>1, <1>2, <1>4, <2>2, <2>7, <3>1, <3>2, OwnsStays DEF IInv
    <3>4. /\ PagesOf(new') = PagesOf(new) \cup {page}
          /\ CapsOf(new') = CapsOf(new) \cup {FreeSlot}
      BY <2>8, <2>12 DEF CapsOf
    <3>5. page \notin PagesOf(th)
      BY <1>2, <2>2, <3>1 DEF Owns, PagesOf
    <3>6. FreeSlot \notin CapsOf(th)
      BY <2>7, <3>1, <3>2 DEF Owns, CapsOf, FramesOf
    <3> QED
      BY <2>8, <3>1, <3>3, <3>4, <3>5, <3>6 DEF Apart
  <2>14. ThreadsApart'
    BY <1>1, <2>11, <2>13 DEF IInv, ThreadsApart
  <2>15. Stages' /\ Notified'
    BY <1>1, <1>4, <2>8 DEF IInv, Stages, Notified, MutexHasNotification,
              BeforePool, BeforeIdle, Creating, WithPages, Stopping
  <2>16. PagesAccounted'
    <3>1. mappedPages = ReservedPages + 3 * Cardinality(threads) + n
      BY <1>1, <2>1 DEF IInv, PagesAccounted, BeforePool, Stopping
    <3>2. Cardinality(threads) \in Nat
      BY FS_CardinalityType DEF IInv, PagesAccounted
    <3>3. mappedPages' = ReservedPages + 3 * Cardinality(threads) + Len(new'.caps)
      BY <2>1, <2>7, <2>9, <3>1, <3>2, ConstAssumption
    <3>4. mappedPages' < currentVirtualAddress' /\ ReservedPages < currentVirtualAddress'
      <4>1. /\ mappedPages \in Nat /\ mappedPages < page /\ ReservedPages < page
        BY <1>2, ConstAssumption DEF IInv, TypeOK, PagesAccounted
      <4>2. mappedPages' = mappedPages + 1 /\ currentVirtualAddress' = page + 1
        BY <1>4, <2>7
      <4> QED
        BY <2>2, <4>1, <4>2, ConstAssumption
    <3>5. currentVirtualAddress'
            <= 1 + ReservedPages + 3 * (tcbBadgeCounter - 2) + Len(new'.pages)
      BY <1>4, <2>1, <2>2, <2>4, <2>9, AddressUsed
    <3> QED
      BY <1>1, <2>3, <2>8, <3>3, <3>4, <3>5 DEF IInv, PagesAccounted
  <2>17. FramesOwned'
    BY <1>1, <2>7, <2>12 DEF IInv, FramesOwned, Owned
  <2>18. PoolMapped'
    <3>1. PoolPages = 1..ReservedPages
      BY <1>1 DEF IInv, PoolMapped
    <3>2. PoolPages \subseteq PoolPages'
      BY <2>7 DEF IInv, TypeOK, PoolPages
    <3> QED
      BY <3>1, <3>2 DEF PoolMapped, PoolPages
  <2> QED
    BY <2>7, <2>10, <2>14, <2>15, <2>16, <2>17, <2>18 DEF IInv
<1> QED
  BY <1>2, <1>3, <1>4 DEF MapThreadPage

(* getFreeSlot for the endpoint.                                           *)
LEMMA EndpointSlotInv ==
  ASSUME IInv, EndpointSlot
  PROVE  IInv'
<1>1. /\ pc = "endpoint"
      /\ UNCHANGED <<memory, pageVars, currentVirtualAddress, tcbBadgeCounter,
                     threads, notification>>
  BY DEF EndpointSlot
<1>2. CASE ~SlotsLeft
  BY <1>1, <1>2, PoolStays, StopInv DEF IInv, EndpointSlot, Stopping
<1>3. CASE SlotsLeft
  <2>1. /\ TakeSlot /\ new' = [new EXCEPT !.endpoint = FreeSlot]
        /\ pc' = "mint" /\ UNCHANGED exhausted
    BY <1>3 DEF EndpointSlot
  <2>2. PoolMoves /\ FreeSlot' = FreeSlot + 1 /\ FreeSlot \in 1..SlotEnd
    BY <1>1, <1>3, <2>1, TakeSlotMoves DEF IInv
  <2>3. new \in [badge : 0..Creations, tcb : Cap, pages : Seq(Page),
                caps : Seq(Cap), endpoint : Cap]
    BY DEF IInv, TypeOK, ThreadRecord
  <2>4. /\ new'.badge = new.badge /\ new'.tcb = new.tcb
        /\ new'.endpoint = FreeSlot
        /\ new'.pages = new.pages /\ new'.caps = new.caps
        /\ new' \in [badge : 0..Creations, tcb : Cap, pages : Seq(Page),
                     caps : Seq(Cap), endpoint : Cap]
    <3>1. PICK c : c = FreeSlot
      OBVIOUS
    <3>2. c \in Cap
      BY <2>2, <3>1, ConstAssumption DEF Cap
    <3>3. new' = [new EXCEPT !.endpoint = c]
      BY <2>1, <3>1
    <3> QED
      BY <2>3, <3>1, <3>2, <3>3
  <2>5. tcbBadgeCounter \in Nat /\ currentVirtualAddress \in Nat
    BY ConstAssumption DEF IInv, TypeOK
  <2>6. TypeOK'
    BY <1>1, <2>1, <2>2, <2>4 DEF IInv, TypeOK, ThreadRecord, PoolMoves, pageVars
  <2>7. Counted' /\ SlotsFresh'
    BY <1>1, <2>2, SlotsStayFresh DEF IInv, Counted, pageVars
  <2>8. Owns(new)'
    <3>1. new.tcb < FreeSlot /\ new.tcb \in Int
      BY <2>3, ConstAssumption DEF IInv, ThreadsApart, Owns, Cap
    <3>2. new.tcb < FreeSlot' /\ FreeSlot < FreeSlot'
      BY <2>2, <3>1, ConstAssumption
    <3>3. new'.tcb < FreeSlot' /\ new'.endpoint < FreeSlot'
      BY <2>4, <3>2
    <3>4. /\ new'.caps = new.caps /\ new'.pages = new.pages /\ new'.badge = new.badge
          /\ given' = given /\ tcbBadgeCounter' = tcbBadgeCounter
          /\ currentVirtualAddress' = currentVirtualAddress
      BY <1>1, <2>4 DEF pageVars
    <3> QED
      BY <3>3, <3>4 DEF IInv, ThreadsApart, Owns
  <2>9. ASSUME NEW th \in threads
        PROVE  Owns(th)' /\ Apart(new, th)'
    <3>1. ThreadRecord(th) /\ Owns(th) /\ Apart(new, th)
      BY DEF IInv, TypeOK, ThreadsApart
    <3>2. \A i \in 1..Len(th.caps) : th.caps[i] \in DOMAIN given
      BY <3>1 DEF Owns
    <3>3. Owns(th)'
      BY <1>1, <2>2, <2>5, <3>1, <3>2, OwnsStays DEF IInv, pageVars
    <3>4. PagesOf(new') = PagesOf(new)
      BY <2>4 DEF PagesOf
    <3>5. CapsOf(new') \subseteq CapsOf(new) \cup {FreeSlot}
      BY <2>4 DEF CapsOf, FramesOf
    <3>6. FreeSlot \notin CapsOf(th)
      <4>1. \A i \in 1..Len(th.caps) : th.caps[i] # FreeSlot
        BY <2>2, <3>2 DEF IInv, SlotsFresh
      <4>2. th.tcb # FreeSlot /\ th.endpoint # FreeSlot
        BY <2>2, <3>1 DEF Owns
      <4> QED
        BY <4>1, <4>2 DEF CapsOf, FramesOf
    <3> QED
      BY <2>4, <3>1, <3>3, <3>4, <3>5, <3>6 DEF Apart
  <2>10. ThreadsApart'
    BY <1>1, <2>8, <2>9 DEF IInv, ThreadsApart
  <2>11. Stages' /\ Notified'
    BY <1>1, <2>1, <2>2, <2>4 DEF IInv, Stages, Notified, MutexHasNotification,
              BeforePool, BeforeIdle, Creating, WithPages, Stopping, NoCap
  <2>12. PagesAccounted'
    BY <1>1, <2>1, <2>4 DEF IInv, PagesAccounted, BeforePool, Stopping, pageVars
  <2>13. FramesOwned' /\ PoolMapped'
    BY <1>1, <2>4 DEF IInv, FramesOwned, Owned, FramesOf, PoolMapped, PoolPages, pageVars
  <2> QED
    BY <2>6, <2>7, <2>10, <2>11, <2>12, <2>13 DEF IInv
<1> QED
  BY <1>2, <1>3

(* The capabilities of a finished thread are real ones.                    *)
LEMMA CompleteCaps ==
  ASSUME IInv, NEW th \in threads \cup {new}, Complete(th)
  PROVE  NoCap \notin CapsOf(th)
<1>1. \A i \in 1..Len(th.caps) : th.caps[i] \in DOMAIN given
  BY DEF IInv, ThreadsApart, Owns
<1>2. \A c \in DOMAIN given : c # NoCap
  BY FreeSlotType DEF IInv, SlotsFresh, NoCap
<1> QED
  BY <1>1, <1>2 DEF Complete, CapsOf, FramesOf

LEMMA AddThreadInv ==
  ASSUME IInv, AddThread
  PROVE  IInv'
<1>1. /\ pc = "share"
      /\ UNCHANGED <<emptySlotPos, memory, pageVars, currentVirtualAddress,
                     tcbBadgeCounter, notification>>
  BY DEF AddThread
<1>2. PoolMoves
  BY <1>1, PoolStays DEF IInv, AddThread, NullFromNew
<1>3. CASE NullFromNew /\ UNCHANGED <<threads, new>>
  BY <1>1, <1>2, <1>3, StopInv DEF NullFromNew, Stopping
<1>4. CASE threads' = threads \cup {new} /\ new' = NoThread /\ pc' = "idle"
  <2>1. PICK made : made = new
    OBVIOUS
  <2>2. /\ ThreadRecord(made) /\ Owns(made) /\ Complete(made)
        /\ \A th \in threads : Apart(made, th) /\ Apart(th, made)
    <3>1. Complete(new)
      BY <1>1 DEF IInv, Stages, Creating, WithPages, Complete
    <3> QED
      BY <2>1, <3>1 DEF IInv, TypeOK, ThreadsApart, Apart
  <2>3. tcbBadgeCounter \in Nat /\ currentVirtualAddress \in Nat
    BY ConstAssumption DEF IInv, TypeOK
  <2>4. ASSUME NEW th \in threads'
        PROVE  /\ ThreadRecord(th) /\ Owns(th)' /\ Complete(th)
               /\ Apart(NoThread, th)
    <3>1. th \in threads \cup {made}
      BY <1>4, <2>1
    <3>2. ThreadRecord(th) /\ Owns(th) /\ Complete(th)
      BY <2>2, <3>1 DEF IInv, TypeOK, ThreadsApart
    <3>3. \A i \in 1..Len(th.caps) : th.caps[i] \in DOMAIN given
      BY <3>2 DEF Owns
    <3>4. Owns(th)'
      BY <1>1, <1>2, <2>3, <3>2, <3>3, OwnsStays DEF IInv, pageVars
    <3>5. Apart(NoThread, th)
      BY <3>2 DEF Apart, Complete, NoThread, PagesOf, CapsOf, FramesOf
    <3> QED
      BY <3>2, <3>4, <3>5
  <2>5. Counted' /\ SlotsFresh'
    BY <1>1, <1>2, SlotsStayFresh DEF IInv, Counted, pageVars
  <2>6. Owns(new)'
    BY <1>1, <1>2, <1>4, <2>3, FreeSlotType, ConstAssumption
       DEF IInv, TypeOK, Owns, NoThread, NoCap, PoolMoves
  <2>7. ThreadsApart'
    <3>1. \A a, b \in threads' : a # b => Apart(a, b)
      BY <1>4, <2>1, <2>2 DEF IInv, ThreadsApart
    <3> QED
      BY <1>4, <2>4, <2>6, <3>1 DEF ThreadsApart
  <2>8. TypeOK'
    <3>1. ThreadRecord(NoThread)
      BY EmptySeq, ConstAssumption DEF ThreadRecord, NoThread, NoCap, Cap
    <3> QED
      BY <1>1, <1>2, <1>4, <2>4, <3>1 DEF IInv, TypeOK, PoolMoves, pageVars
  <2>9. Stages'
    BY <1>1, <1>4 DEF Stages, BeforePool, BeforeIdle, Creating, WithPages
  <2>10. Notified'
    BY <1>1, <1>4 DEF IInv, Notified, MutexHasNotification, Creating, WithPages
  <2>11. PagesAccounted'
    <3>1. IsFiniteSet(threads) /\ Cardinality(threads) \in Nat
      BY FS_CardinalityType DEF IInv, PagesAccounted
    <3>2. new \notin threads
      BY DEF IInv, ThreadsApart, Apart
    <3>3. /\ IsFiniteSet(threads') /\ Cardinality(threads') = Cardinality(threads) + 1
      BY <1>4, <3>1, <3>2, FS_AddElement
    <3>4. /\ Len(new.caps) = 3 /\ Len(new.pages) = 3
          /\ new.badge # 0
      BY <1>1 DEF IInv, TypeOK, ThreadRecord, Stages, Creating, WithPages
    <3>5. mappedPages = ReservedPages + 3 * Cardinality(threads) + 3
      BY <1>1, <3>4 DEF IInv, PagesAccounted, WithPages, BeforePool, Stopping
    <3>6. NoThread.badge = 0 /\ Len(NoThread.caps) = 0
      BY DEF NoThread
    <3>7. mappedPages' = ReservedPages + 3 * Cardinality(threads') + Len(new'.caps)
      BY <1>1, <1>4, <3>1, <3>3, <3>5, <3>6, ConstAssumption DEF pageVars
    <3>8. currentVirtualAddress <= 1 + ReservedPages + 3 * (tcbBadgeCounter - 1)
      <4>1. currentVirtualAddress
              <= 1 + ReservedPages + 3 * (tcbBadgeCounter - 2) + Len(new.pages)
        BY <3>4 DEF IInv, PagesAccounted
      <4> QED
        BY <2>3, <3>4, <4>1, AddressesUsed
    <3> QED
      BY <1>1, <1>4, <3>3, <3>6, <3>7, <3>8 DEF IInv, PagesAccounted, pageVars
  <2>12. FramesOwned'
    BY <1>1, <1>4 DEF IInv, FramesOwned, Owned, pageVars
  <2>13. PoolMapped'
    BY <1>1 DEF IInv, PoolMapped, PoolPages, pageVars
  <2> QED
    BY <2>5, <2>7, <2>8, <2>9, <2>10, <2>11, <2>12, <2>13 DEF IInv
<1> QED
  BY <1>3, <1>4 DEF AddThread

-----------------------------------------------------------------------------
(* The invariant holds.                                                    *)

LEMMA InitInv ==
  Init => IInv
<1> SUFFICES ASSUME Init
             PROVE  IInv
  OBVIOUS
<1>1. /\ new = [badge |-> 0, tcb |-> NoCap, pages |-> <<>>, caps |-> <<>>,
               endpoint |-> NoCap]
      /\ Len(new.pages) = 0 /\ Len(new.caps) = 0
      /\ new.pages \in Seq(Page) /\ new.caps \in Seq(Cap)
  BY EmptySeq DEF Init, NoThread
<1>2. DOMAIN given = {} /\ Cardinality(DOMAIN given) = 0
  BY FS_EmptySet DEF Init
<1>3. TypeOK
  <2>1. ThreadRecord(new)
    BY <1>1, ConstAssumption DEF ThreadRecord, NoCap, Cap
  <2>2. exhausted \in BOOLEAN
    BY Zenon DEF Init
  <2> QED
    BY <1>2, <2>1, <2>2, ConstAssumption DEF Init, TypeOK, NoCap, Cap
<1>4. Counted
  BY <1>2 DEF Init, Counted
<1>5. FreeSlot = SlotStart /\ SlotsFresh
  BY <1>2 DEF Init, FreeSlot, SlotsFresh
<1>6. ThreadsApart
  BY <1>1, <1>5, ConstAssumption DEF Init, ThreadsApart, Owns, NoCap
<1>7. Stages /\ Notified
  BY DEF Init, Stages, Notified, MutexHasNotification, BeforePool, BeforeIdle,
         Creating, WithPages, Stopping
<1>8. PagesAccounted
  BY <1>1, FS_EmptySet, ConstAssumption DEF Init, PagesAccounted, BeforePool
<1>9. FramesOwned /\ PoolMapped
  BY <1>2 DEF Init, FramesOwned, PoolMapped
<1> QED
  BY <1>3, <1>4, <1>5, <1>6, <1>7, <1>8, <1>9 DEF IInv

LEMMA StepInv ==
  IInv /\ [Next]_vars => IInv'
<1> SUFFICES ASSUME IInv, [Next]_vars
             PROVE  IInv'
  OBVIOUS
<1>1. CASE UNCHANGED vars
  <2> USE <1>1 DEF vars, poolVars, pageVars
  <2>1. TypeOK' /\ Counted' /\ SlotsFresh' /\ Stages'
    BY DEF IInv, TypeOK, Counted, SlotsFresh, FreeSlot, Stages
  <2>2. ThreadsApart' /\ PagesAccounted'
    BY DEF IInv, ThreadsApart, Owns, FreeSlot, PagesAccounted
  <2>3. FramesOwned'
    BY DEF IInv, FramesOwned, Owned, FramesOf
  <2>4. PoolMapped'
    BY DEF IInv, PoolMapped, PoolPages
  <2>5. Notified'
    BY DEF IInv, Notified, MutexHasNotification, CanAlloc, SlotsLeft, FreeSlot, Usable
  <2> QED
    BY <2>1, <2>2, <2>3, <2>4, <2>5 DEF IInv
<1>2. CASE InitPageTable
  BY <1>2, BootObjectInv DEF InitPageTable
<1>3. CASE LateInit
  BY <1>3, BootObjectInv, BootSlotInv DEF LateInit
<1>4. CASE SetSpace
  BY <1>4, KernelCallInv DEF SetSpace, Creating, WithPages
<1>5. CASE SetTLSBase
  BY <1>5, KernelCallInv DEF SetTLSBase, Creating, WithPages
<1>6. CASE SetIPCBuffer
  BY <1>6, KernelCallInv DEF SetIPCBuffer, Creating, WithPages
<1>7. CASE SetPriority
  BY <1>7, KernelCallInv DEF SetPriority, Creating, WithPages
<1> QED
  BY <1>1, <1>2, <1>3, <1>4, <1>5, <1>6, <1>7, ReservePageInv, NewTablePanicsInv,
     ReservedInv, CreateNotificationInv, AllocTcbInv, NewThreadInv,
     MapThreadPageInv, EndpointSlotInv, MintInv, AddThreadInv
     DEF Next

LEMMA Invariance == Spec => []IInv
BY InitInv, StepInv, PTL DEF Spec

(* Every counter, slot and page number of the pool, of PageTable and of    *)
(* createThread stays in the range the boot information and the number of  *)
(* calls allow.                                                            *)
THEOREM TypeCorrect == Spec => []TypeOK
BY Invariance, PTL DEF IInv

(* mappedPages, counted up by mapPage and down by unmapPage, is the number *)
(* of frames given out and not taken back, after any mixture of threads    *)
(* made and rolled back and of pages the kernel refused to map, and so     *)
(* never below the number of mapped pages.                                 *)
THEOREM PagesCountedHolds == Spec => []PagesCounted
<1>1. IInv => PagesCounted
  <2> SUFFICES ASSUME IInv
               PROVE  PagesCounted
    OBVIOUS
  <2>1. mapped \subseteq DOMAIN given
    BY DEF IInv, TypeOK
  <2>2. Cardinality(mapped) <= Cardinality(DOMAIN given)
    BY <2>1, MappedFinite, FS_Subset DEF IInv
  <2> QED
    BY <2>2 DEF IInv, Counted, PagesCounted
<1> QED
  BY <1>1, Invariance, PTL

(* createThread never gives two threads a badge, a page or a capability in *)
(* common, however many calls failed between them, and a rollback takes no *)
(* page from a thread that was made before.                                *)
THEOREM ThreadsIndependentHolds == Spec => []ThreadsIndependent
<1>1. IInv => ThreadsIndependent
  <2> SUFFICES ASSUME IInv
               PROVE  ThreadsIndependent
    OBVIOUS
  <2>1. ASSUME NEW th \in threads
        PROVE  /\ Cardinality(PagesOf(th)) = 3
               /\ \A p \in PagesOf(th) : p > ReservedPages
               /\ \A i \in 1..3 : th.caps[i] \in DOMAIN given /\ given[th.caps[i]] = th.pages[i]
    <3>1. /\ th.pages \in Seq(Page) /\ Len(th.pages) = 3 /\ Len(th.caps) = 3
          /\ Owns(th)
      BY DEF IInv, TypeOK, ThreadRecord, ThreadsApart, Complete
    <3>2. \A i \in 1..3 : th.pages[i] \in Nat
      BY <3>1, ElementOfSeq, ConstAssumption DEF Page
    <3>3. Cardinality(PagesOf(th)) = 3
      <4>1. \A i, j \in 1..Len(th.pages) : i # j => th.pages[i] # th.pages[j]
        BY <3>1 DEF Owns
      <4> QED
        BY <3>1, <4>1, DistinctCount DEF PagesOf
    <3>4. \A p \in PagesOf(th) : p > ReservedPages
      BY <3>1, <3>2, ConstAssumption DEF Owns, PagesOf
    <3> QED
      BY <3>1, <3>3, <3>4 DEF Owns
  <2>2. ASSUME NEW a \in threads, NEW b \in threads, a # b
        PROVE  /\ a.badge # b.badge
               /\ PagesOf(a) \cap PagesOf(b) = {}
               /\ CapsOf(a) \cap CapsOf(b) = {}
    <3>1. Apart(a, b)
      BY <2>2 DEF IInv, ThreadsApart
    <3>2. NoCap \notin CapsOf(a)
      BY CompleteCaps DEF IInv, ThreadsApart
    <3> QED
      BY <3>1, <3>2 DEF Apart
  <2> QED
    BY <2>1, <2>2 DEF ThreadsIndependent
<1> QED
  BY <1>1, Invariance, PTL

(* Whatever kernel call of createThread fails, what was mapped for the     *)
(* thread is unmapped before the root server serves the next call: no      *)
(* mapped frame is without an owner, and the count is the owners' pages.   *)
THEOREM NoPageLeakedHolds == Spec => []NoPageLeaked
<1>1. IInv => NoPageLeaked
  <2> SUFFICES ASSUME IInv, pc = "idle"
               PROVE  /\ mappedPages = ReservedPages + 3 * Cardinality(threads)
                      /\ \A c \in mapped : given[c] > ReservedPages =>
                           \E th \in threads : c \in FramesOf(th)
    BY DEF NoPageLeaked
  <2>1. new = NoThread
    BY DEF IInv, Stages, Creating, WithPages, Stopping
  <2>2. mappedPages = ReservedPages + 3 * Cardinality(threads) + Len(new.caps)
    BY DEF IInv, PagesAccounted, BeforePool, Stopping
  <2>3. Cardinality(threads) \in Nat
    BY FS_CardinalityType DEF IInv, PagesAccounted
  <2>4. mappedPages = ReservedPages + 3 * Cardinality(threads)
    BY <2>1, <2>2, <2>3, ConstAssumption DEF NoThread
  <2>5. ASSUME NEW c \in mapped, given[c] > ReservedPages
        PROVE  \E th \in threads : c \in FramesOf(th)
    <3>1. c \in DOMAIN given /\ given[c] \in Nat
      BY ConstAssumption DEF IInv, TypeOK, Page
    <3>2. Owned(c) /\ ~(given[c] <= ReservedPages)
      BY <2>5, <3>1, ConstAssumption DEF IInv, FramesOwned
    <3>3. FramesOf(new) = {}
      BY <2>1 DEF FramesOf, NoThread
    <3> QED
      BY <3>2, <3>3 DEF Owned
  <2> QED
    BY <2>4, <2>5
<1> QED
  BY <1>1, Invariance, PTL

(* mapPage's silence about a page it could not map never reaches the       *)
(* allocator: its pool is mapped from reservePages on, whatever is refused *)
(* or rolled back later.                                                   *)
THEOREM PoolMappedHolds == Spec => []PoolMapped
BY Invariance, PTL DEF IInv

(* A step unmaps only what belongs to the thread being made.               *)
LEMMA StepKeepsPages ==
  ASSUME IInv, [Next]_vars, NEW th \in threads
  PROVE  FramesOf(th) \cap mapped \subseteq mapped'
<1>1. CASE Fail
  <2>1. Apart(new, th)
    BY DEF IInv, ThreadsApart
  <2>2. FramesOf(new) \cap FramesOf(th) \subseteq {NoCap}
    BY <2>1 DEF Apart, CapsOf
  <2>3. NoCap \notin mapped
    BY FreeSlotType DEF IInv, TypeOK, SlotsFresh, NoCap
  <2> QED
    BY <1>1, <2>2, <2>3 DEF Fail, Unmap
<1>2. CASE ~Fail
  <2>1. mapped \subseteq mapped'
    BY <1>2 DEF Next, vars, pageVars, InitPageTable, LateInit, BootObject, BootSlot,
       ReservePage, MapPage, MapPagePanics, NewTablePanics, Reserved, CreateNotification,
       AllocTcb, NewThread, SetSpace, MapThreadPage, SetTLSBase, SetIPCBuffer, SetPriority,
       KernelCall, EndpointSlot, Mint, AddThread
  <2> QED
    BY <2>1
<1> QED
  BY <1>1, <1>2

(* The rollback of one createThread, and the failures before it, unmap no  *)
(* page of a thread that was made before.                                  *)
THEOREM ThreadKeepsPagesHolds == Spec => ThreadKeepsPages
<1>1. IInv /\ [Next]_vars => \A th \in threads : FramesOf(th) \cap mapped \subseteq mapped'
  BY StepKeepsPages
<1>2. IInv /\ [Next]_vars => [\A th \in threads : FramesOf(th) \cap mapped \subseteq mapped']_vars
  BY <1>1
<1> QED
  BY <1>2, Invariance, PTL DEF Spec, ThreadKeepsPages

(* The error of createNotification, which no caller looks at, never leaves *)
(* the allocator's mutex without a notification once there are threads:    *)
(* the pool that could not make it cannot make the endpoint either.        *)
THEOREM MutexHasNotificationHolds == Spec => []MutexHasNotification
BY Invariance, PTL DEF IInv, Notified
=============================================================================
