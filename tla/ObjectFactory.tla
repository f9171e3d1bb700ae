--------------------------- MODULE ObjectFactory ---------------------------
(***************************************************************************)
(* How the root server makes kernel objects and threads:                   *)
(* InitialUntypedPool (capability slots and retyping), PageTable (mapping  *)
(* pages) and ObjectFactory::createThread, which uses both and rolls back  *)
(* when a step fails.                                                      *)
(*                                                                         *)
(* Only the root server's own thread runs this code; what is hard is       *)
(* failure: any kernel call of createThread may fail, after earlier ones   *)
(* took slots, pages and addresses.  Each step of createThread is one      *)
(* step here.  The kernel may refuse to map a page as well, and mapPage    *)
(* does not tell its caller.  A failed assert writes through a null        *)
(* pointer and stops the root server: "panic"; "fault" is where it touches *)
(* a page that is not mapped.                                              *)
(*                                                                         *)
(* Addresses are page numbers counted from AddressTables; a capability is  *)
(* the slot it is in.  The kernel (external) retypes while it has memory   *)
(* and the slot exists; it maps a page under a mapped page table, or       *)
(* refuses to.                                                             *)
(***************************************************************************)
EXTENDS Integers, Sequences, FiniteSets

CONSTANTS
  SlotStart, SlotEnd,   \* bootinfo->empty, end exclusive as in the boot info
  Memory,          \* bound on the objects the untypeds have room for
  PagesPerTable,   \* pages one page table maps
  ReservedPages,   \* pages of the allocator's pool
  Creations        \* bound on the calls of createThread

ASSUME ConstAssumption ==
  /\ SlotStart \in Nat \ {0}
  /\ SlotEnd \in Nat /\ SlotStart <= SlotEnd
  /\ Memory \in Nat
  /\ PagesPerTable \in Nat \ {0}
  /\ ReservedPages \in Nat
  /\ Creations \in Nat

VARIABLES
  emptySlotPos,            \* InitialUntypedPool: 0, or the next free slot
  memory,                  \* the kernel: objects still to be had
  exhausted,               \* history: an allocation has failed
  mapped,                  \* the kernel: the capabilities of mapped frames
  given,                   \* history: frame mapPage gave out -> its page
  mappedPages,             \* PageTable::_mappedPages
  currentVirtualAddress,   \* ObjectFactory: next page for a thread
  tcbBadgeCounter,         \* RootServer::_tcbBadgeCounter
  threads,                 \* the threads in the ThreadTable
  new,                     \* the locals of createThread
  notification,            \* the capability given to setMemoryPool
  pc                       \* where the root server is

poolVars == <<emptySlotPos, memory, exhausted>>
pageVars == <<mapped, given, mappedPages>>
vars == <<poolVars, pageVars, currentVirtualAddress, tcbBadgeCounter, threads, new, notification, pc>>

NoCap == 0
NoThread == [badge |-> 0, tcb |-> NoCap, pages |-> <<>>, caps |-> <<>>, endpoint |-> NoCap]

Init ==
  /\ emptySlotPos = 0
  /\ memory \in 0..Memory
  /\ exhausted = FALSE
  /\ mapped = {}
  /\ given = [c \in {} |-> 0]
  /\ mappedPages = 0
  /\ currentVirtualAddress = 1 + ReservedPages
  /\ tcbBadgeCounter = 1
  /\ threads = {}
  /\ new = NoThread
  /\ notification = NoCap
  /\ pc = "pdpt"

-----------------------------------------------------------------------------
(* InitialUntypedPool.                                                     *)

(* getFreeSlot.                                                            *)
FreeSlot == IF emptySlotPos = 0 THEN SlotStart ELSE emptySlotPos

SlotsLeft_Unchecked == TRUE   \* faulty variant: the end is not tested

SlotsLeft == emptySlotPos <= SlotEnd
TakeSlot == emptySlotPos' = FreeSlot + 1

(* The kernel refuses a slot outside the empty region.                     *)
Usable(slot) == slot < SlotEnd

(* allocObject: retype into a fresh slot.                                  *)
AllocObject ==
  /\ SlotsLeft
  /\ memory > 0 /\ Usable(FreeSlot)
  /\ TakeSlot
  /\ memory' = memory - 1
  /\ UNCHANGED exhausted

(* No slot, or no untyped with room: the slot taken for it is lost.        *)
AllocFails ==
  /\ \/ ~SlotsLeft /\ UNCHANGED emptySlotPos
     \/ SlotsLeft /\ (memory = 0 \/ ~Usable(FreeSlot)) /\ TakeSlot
  /\ exhausted' = TRUE
  /\ UNCHANGED memory

-----------------------------------------------------------------------------
(* PageTable.                                                              *)

(* PageTable::init maps one page table, the one at AddressTables.          *)
HasTable(page) == page < PagesPerTable

With(frame, page) == [c \in DOMAIN given \cup {frame} |-> IF c = frame THEN page ELSE given[c]]

(* unmapPage of each frame.  The kernel has no error for a frame, and      *)
(* nothing to do for one that is not mapped.                               *)
Unmap(frames) ==
  /\ mapped' = mapped \ frames
  /\ given' = [c \in DOMAIN given \ frames |-> given[c]]

(* mapPage, when it returns: always with success.  The error of Page_Map   *)
(* is compared with the one for a missing page table only: after any other *)
(* the page is counted all the same.                                       *)
MapPage(page) ==
  /\ AllocObject
  /\ given' = With(FreeSlot, page)
  /\ mappedPages' = mappedPages + 1
  /\ \/ HasTable(page) /\ mapped' = mapped \cup {FreeSlot}
     \/ UNCHANGED mapped

(* mapPage without a frame: an assert.  Where the page table is missing,   *)
(* mapPage retypes a new one next.                                         *)
MapPagePanics(page) ==
  /\ \/ AllocFails /\ pc' = "panic"
     \/ AllocObject /\ ~HasTable(page) /\ pc' = "newtable"
  /\ UNCHANGED pageVars

(* What is passed to PageTable_Map is not the new table's capability (an   *)
(* Expected converts to bool): the kernel refuses it, and the assert on    *)
(* the result fails, before Page_Map is tried again.                       *)
NewTablePanics ==
  /\ pc = "newtable"
  /\ AllocObject \/ AllocFails
  /\ pc' = "panic"
  /\ UNCHANGED <<pageVars, currentVirtualAddress, tcbBadgeCounter, threads, new, notification>>

-----------------------------------------------------------------------------
(* Boot: the RootServer constructor, earlyInit and lateInit.               *)

(* An object, or a slot, without which the server stops.                   *)
BootObject(from, to) ==
  /\ pc = from
  /\ \/ AllocObject /\ pc' = to
     \/ AllocFails /\ pc' = "panic"
  /\ UNCHANGED <<pageVars, currentVirtualAddress, tcbBadgeCounter, threads, new, notification>>

BootSlot(from, to) ==
  /\ pc = from
  /\ IF SlotsLeft
       THEN TakeSlot /\ pc' = to /\ UNCHANGED exhausted
       ELSE pc' = "panic" /\ exhausted' = TRUE /\ UNCHANGED emptySlotPos
  /\ UNCHANGED <<memory, pageVars, currentVirtualAddress, tcbBadgeCounter, threads, new, notification>>

(* PageTable::init; without a PDPT the mapping of the directory fails.     *)
InitPageTable ==
  BootObject("pdpt", "pd") \/ BootObject("pd", "pt") \/ BootObject("pt", "reserve")

ReservePage ==
  /\ pc = "reserve"
  /\ mappedPages < ReservedPages
  /\ \/ MapPage(1 + mappedPages) /\ UNCHANGED pc
     \/ MapPagePanics(1 + mappedPages)
  /\ UNCHANGED <<currentVirtualAddress, tcbBadgeCounter, threads, new, notification>>

Reserved_Untouched ==   \* faulty variant: the pages are not written to
  /\ pc = "reserve"
  /\ mappedPages = ReservedPages
  /\ pc' = "notification"
  /\ UNCHANGED <<poolVars, pageVars, currentVirtualAddress, tcbBadgeCounter, threads, new, notification>>

PoolPages == {given[c] : c \in mapped} \cap 1..ReservedPages

(* reservePages writes to every page of the pool; the root server has no   *)
(* fault handler.                                                          *)
Reserved ==
  /\ pc = "reserve"
  /\ mappedPages = ReservedPages
  /\ \/ PoolPages = 1..ReservedPages /\ pc' = "notification"
     \/ PoolPages # 1..ReservedPages /\ pc' = "fault"
  /\ UNCHANGED <<poolVars, pageVars, currentVirtualAddress, tcbBadgeCounter, threads, new, notification>>

CreateNotification_Dropped ==   \* faulty variant: its value is not passed on
  /\ pc = "notification"
  /\ AllocObject \/ AllocFails
  /\ pc' = "api"
  /\ UNCHANGED <<pageVars, currentVirtualAddress, tcbBadgeCounter, threads, new, notification>>

(* The notification of the allocator's mutex; its error is not looked at.  *)
CreateNotification ==
  /\ pc = "notification"
  /\ \/ AllocObject /\ notification' = FreeSlot
     \/ AllocFails /\ UNCHANGED notification
  /\ pc' = "api"
  /\ UNCHANGED <<pageVars, currentVirtualAddress, tcbBadgeCounter, threads, new>>

LateInit ==
  BootObject("api", "com1") \/ BootSlot("com1", "irq") \/ BootSlot("irq", "idle")

-----------------------------------------------------------------------------
(* RootServer::createThread and ObjectFactory::createThread.               *)

FramesOf(th) == {th.caps[i] : i \in 1..Len(th.caps)}

Fail_SkipsLast ==   \* faulty variant: the page mapped last is forgotten
  LET frames == {new.caps[i] : i \in 1..(Len(new.caps) - 1)}
  IN /\ Unmap(frames)
     /\ mappedPages' = mappedPages - Cardinality(frames)
     /\ new' = NoThread
     /\ pc' = "idle"

Fail_NoCount ==   \* faulty variant: unmapped without PageTable::unmapPage
  /\ Unmap(FramesOf(new))
  /\ new' = NoThread
  /\ pc' = "idle"
  /\ UNCHANGED mappedPages

Fail_LastThree ==   \* faulty variant: the last three pages, whosever they are
  LET frames == {c \in DOMAIN given : given[c] > ReservedPages /\ given[c] + 3 >= currentVirtualAddress}
  IN /\ Unmap(frames)
     /\ mappedPages' = mappedPages - Cardinality(frames)
     /\ new' = NoThread
     /\ pc' = "idle"

(* createThread returns an error: the pages mapped so far are unmapped;    *)
(* releaseObject and releaseSlot do nothing, the addresses and the badge   *)
(* stay used.                                                              *)
Fail ==
  /\ Unmap(FramesOf(new))
  /\ mappedPages' = mappedPages - Len(new.caps)
  /\ new' = NoThread
  /\ pc' = "idle"

(* A kernel call that changes nothing else: it succeeds or fails.          *)
KernelCall(from, to) ==
  /\ pc = from
  /\ \/ pc' = to /\ UNCHANGED <<pageVars, new>>
     \/ Fail
  /\ UNCHANGED <<poolVars, currentVirtualAddress, tcbBadgeCounter, threads, notification>>

AllocTcb ==
  /\ pc = "idle"
  /\ tcbBadgeCounter <= Creations
  /\ tcbBadgeCounter' = tcbBadgeCounter + 1
  /\ \/ /\ AllocObject
        /\ new' = [NoThread EXCEPT !.badge = tcbBadgeCounter, !.tcb = FreeSlot]
        /\ pc' = "new"
     \/ /\ AllocFails
        /\ UNCHANGED <<new, pc>>
  /\ UNCHANGED <<pageVars, currentVirtualAddress, threads, notification>>

(* operator new may return NULL, and no caller can tell: the object is     *)
(* constructed there before the result is looked at (`if(!thread)`).       *)
NullFromNew == exhausted' = TRUE /\ pc' = "panic"

NewThread ==
  /\ pc = "new"
  /\ \/ pc' = "setspace" /\ UNCHANGED exhausted
     \/ NullFromNew
  /\ UNCHANGED <<emptySlotPos, memory, pageVars, currentVirtualAddress, tcbBadgeCounter, threads, new, notification>>

SetSpace == KernelCall("setspace", "pages")

MapThreadPage_SameAddress ==   \* faulty variant: the address is not advanced
  /\ pc = "pages"
  /\ Len(new.pages) < 3
  /\ \/ /\ MapPage(currentVirtualAddress)
        /\ new' = [new EXCEPT !.pages = Append(@, currentVirtualAddress),
                              !.caps = Append(@, FreeSlot)]
        /\ UNCHANGED pc
     \/ MapPagePanics(currentVirtualAddress) /\ UNCHANGED new
  /\ UNCHANGED <<currentVirtualAddress, tcbBadgeCounter, threads, notification>>

(* Stack, TLS and IPC buffer, one page after the other.                    *)
MapThreadPage ==
  /\ pc = "pages"
  /\ Len(new.pages) < 3
  /\ \/ /\ MapPage(currentVirtualAddress)
        /\ new' = [new EXCEPT !.pages = Append(@, currentVirtualAddress),
                              !.caps = Append(@, FreeSlot)]
        /\ currentVirtualAddress' = currentVirtualAddress + 1
        /\ UNCHANGED pc
     \/ /\ MapPagePanics(currentVirtualAddress)
        /\ UNCHANGED <<new, currentVirtualAddress>>
  /\ UNCHANGED <<tcbBadgeCounter, threads, notification>>

SetTLSBase == Len(new.pages) = 3 /\ KernelCall("pages", "ipcbuffer")

SetIPCBuffer == KernelCall("ipcbuffer", "priority")

SetPriority == KernelCall("priority", "endpoint")

(* getFreeSlot for the badged endpoint; an assert on its result.           *)
EndpointSlot ==
  /\ pc = "endpoint"
  /\ IF SlotsLeft
       THEN /\ TakeSlot
            /\ new' = [new EXCEPT !.endpoint = FreeSlot]
            /\ pc' = "mint"
            /\ UNCHANGED exhausted
       ELSE /\ pc' = "panic"
            /\ exhausted' = TRUE
            /\ UNCHANGED <<emptySlotPos, new>>
  /\ UNCHANGED <<memory, pageVars, currentVirtualAddress, tcbBadgeCounter, threads, notification>>

Mint ==
  /\ pc = "mint"
  /\ \/ Usable(new.endpoint) /\ pc' = "share" /\ UNCHANGED <<pageVars, new>>
     \/ Fail
  /\ UNCHANGED <<poolVars, currentVirtualAddress, tcbBadgeCounter, threads, notification>>

(* The thread is wrapped in a shared_ptr, and RootServer::createThread     *)
(* adds it to its table; both allocate.                                    *)
AddThread ==
  /\ pc = "share"
  /\ \/ /\ threads' = threads \cup {new}
        /\ new' = NoThread
        /\ pc' = "idle"
        /\ UNCHANGED exhausted
     \/ NullFromNew /\ UNCHANGED <<threads, new>>
  /\ UNCHANGED <<emptySlotPos, memory, pageVars, currentVirtualAddress, tcbBadgeCounter, notification>>

Next ==
  \/ InitPageTable \/ ReservePage \/ NewTablePanics \/ Reserved \/ CreateNotification \/ LateInit
  \/ AllocTcb \/ NewThread \/ SetSpace \/ MapThreadPage \/ SetTLSBase \/ SetIPCBuffer
  \/ SetPriority \/ EndpointSlot \/ Mint \/ AddThread

Spec == Init /\ [][Next]_vars

-----------------------------------------------------------------------------
Page == 0..(ReservedPages + 3 * Creations)
Cap == 0..SlotEnd
ThreadRecord(th) ==
  /\ th \in [badge : 0..Creations, tcb : Cap, pages : Seq(Page), caps : Seq(Cap), endpoint : Cap]
  /\ Len(th.pages) = Len(th.caps) /\ Len(th.pages) <= 3

TypeOK ==
  /\ emptySlotPos \in 0..(SlotEnd + 1)
  /\ memory \in 0..Memory
  /\ exhausted \in BOOLEAN
  /\ mapped \subseteq DOMAIN given /\ DOMAIN given \subseteq Cap
  /\ \A c \in DOMAIN given : given[c] \in Page
  /\ mappedPages \in 0..(ReservedPages + 3 * Creations)
  /\ currentVirtualAddress \in 1..(1 + ReservedPages + 3 * Creations)
  /\ tcbBadgeCounter \in 1..(Creations + 1)
  /\ notification \in Cap
  /\ ThreadRecord(new) /\ \A th \in threads : ThreadRecord(th)
  /\ pc \in {"pdpt", "pd", "pt", "reserve", "notification", "api", "com1", "irq",
             "idle", "new", "share", "setspace", "pages", "ipcbuffer", "priority", "endpoint",
             "mint", "newtable", "panic", "fault"}

(* The count `vm` prints is the number of frames mapPage gave out and      *)
(* unmapPage did not take back, after every combination of successes,      *)
(* failures and rollbacks: never less than the kernel has mapped, more by  *)
(* the pages it refused to map.                                            *)
PagesCounted ==
  /\ mappedPages = Cardinality(DOMAIN given)
  /\ Cardinality(mapped) <= mappedPages

PagesOf(th) == {th.pages[i] : i \in 1..Len(th.pages)}
CapsOf(th) == {th.tcb, th.endpoint} \cup FramesOf(th)

(* Threads share nothing: each has the addresses of three pages behind the *)
(* allocator's pool and the frames mapPage gave out for them, its own      *)
(* capabilities and its own badge; a later failure to create another       *)
(* thread takes none of them away.                                         *)
ThreadsIndependent ==
  /\ \A th \in threads :
       /\ Cardinality(PagesOf(th)) = 3
       /\ \A p \in PagesOf(th) : p > ReservedPages
       /\ \A i \in 1..3 : th.caps[i] \in DOMAIN given /\ given[th.caps[i]] = th.pages[i]
  /\ \A a, b \in threads : a # b =>
       /\ a.badge # b.badge
       /\ PagesOf(a) \cap PagesOf(b) = {}
       /\ CapsOf(a) \cap CapsOf(b) = {}

(* Of a thread's pages, those the kernel mapped stay mapped, whatever      *)
(* fails while another thread is made.                                     *)
ThreadKeepsPages == [][\A th \in threads : FramesOf(th) \cap mapped \subseteq mapped']_vars

(* That mapPage reports success for a page it could not map does no harm   *)
(* to the allocator: reservePages has touched every page of the pool       *)
(* before it is used, and no rollback unmaps one.                          *)
PoolMapped ==
  pc \in {"notification", "api", "com1", "irq", "idle", "new", "setspace", "pages", "ipcbuffer",
          "priority", "endpoint", "mint", "share"} =>
    PoolPages = 1..ReservedPages

(* That the error of createNotification is not looked at does no harm:     *)
(* whatever let it fail lets createEndpoint fail too, and there the server *)
(* stops before there is a second thread to wait for.                      *)
MutexHasNotification == threads # {} => notification # NoCap

(* createThread unmaps what it mapped when it fails: between two calls the *)
(* pages counted are the pool's and the threads', and no frame is mapped   *)
(* that neither the pool nor a thread owns.                                *)
NoPageLeaked ==
  pc = "idle" =>
    /\ mappedPages = ReservedPages + 3 * Cardinality(threads)
    /\ \A c \in mapped : given[c] > ReservedPages => \E th \in threads : c \in FramesOf(th)

(* RootServer::testPt maps 1024 pages one after the other behind the pool  *)
(* and expects each to be there: the root server stops only when slots or  *)
(* memory run out.                                                         *)
StopsOnlyWhenExhausted == pc = "panic" => exhausted
=============================================================================
