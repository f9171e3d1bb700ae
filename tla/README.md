# Verification of the standalone seL4 root server

TLA+ models of the root task in `src/userland`, checked with TLC, with proofs
checked by TLAPS. Paths below are relative to `src/userland`.

## 1. The system

One C++ program runs as the first user task of an seL4 kernel (x86_64, one core,
`configs/X64_verified_test.cmake`, classic IPC, not MCS). `main.c` builds a
`RootServer`, calls `earlyInit` and `lateInit`, and then `run`, which creates
threads in the same address space and serves their requests. There are no other
processes yet (`VMSpace` is empty), and nothing is persistent.

| Part | State | Operations | Interacts with |
|---|---|---|---|
| Mutex: `mutex.h`, `bin_sem.h`, `bin_sem_bare.h` | a counter, a notification | lock, unlock | every thread; the kernel's `seL4_Wait` and `seL4_Signal` |
| Allocator: `kmalloc.cpp` | pool of chunks, list of free chunks, total, mutex | `kmalloc`, `kfree`, `krealloc`, `new`, `delete` | all threads directly; the service on behalf of a client |
| API service: `RootServer.cpp`, `Syscall.cpp` | thread table, badge counter, endpoint | `run`, `processSyscall`, `perform::*` | clients by `seL4_Call` and `seL4_Send`; `Thread`; the allocator |
| Threads: `Thread.cpp` | TCB, `_state`, badge, endpoint, priority | `start`, `suspend`, `resume`, `setPriority`, `_threadMain` | kernel TCBs; written by the thread itself and by the server |
| Slots and untypeds: `InitialUntypedPool.cpp` | `emptySlotPos` | `getFreeSlot`, `allocObject` (the release functions are empty) | kernel retype |
| Page table: `PageTable.cpp` | caps of three tables, `_mappedPages` | `init`, `mapPage`, `unmapPage` | the pool of slots |
| Object factory: `ObjectFactory.cpp` | `currentVirtualAddress` | `createThread`, `createEndpoint`, `createNotification` | all of the three above |
| Shell: `Shell.cpp` | line buffer, history, last result | `onChar`, `newCommand` | the API, strings, vectors |
| Containers: `lib/vector.hpp`, `lib/basic_string.hpp` | a block of the allocator each | `push_back`, copies, `substr` | allocator |
| `printf.c` | the output position, a buffer on the stack per number | `printf`, `sprintf`, `snprintf` | the debug console, callers' buffers |
| C library: `lib/cstring.h`, `cstubs.c` | `errno` | `strtol`, `strdup`, memory functions | shell, strings |
| Runtime start-up | - | - | - |

What is hard, and what it takes for each part to be correct:

- **Mutex.** The counter and the notification are two objects updated one after
  the other, and the notification is binary. Correct: one owner, no decrement lost,
  no signal lost or absorbed, every waiter served, no wrap at `INT_MIN`.
- **Allocator.** List fields lie in memory that clients overwrite, sizes wrap in
  `size_t`, walks cross gaps, all threads share it. Correct: blocks never overlap
  and are large enough, the free list is exactly the free chunks, the total is
  exact, NULL only when nothing fits, every call returns.
- **API service and threads.** Suspend and resume cancel and restart IPC, the state
  of a thread is written by two parties after the kernel call that causes it, the
  server itself waits for a mutex its clients hold. Correct: no caller is left
  without its reply, no request runs twice, a suspended thread stays suspended,
  the server always comes back for the next request.
- **Slots, page table, factory.** Any kernel call of `createThread` may fail after
  others succeeded; slots run out; the page table ends. Correct: a failed creation
  unmaps and uncounts what it mapped, threads share nothing, and the server stops
  only when something is exhausted.
- **Shell, strings and vectors.** A text and its size are computed apart, the
  buffer wraps, each command makes strings that own blocks of the shared allocator,
  and any of these allocations may fail. Correct: a command is the line as edited,
  the history is what was run, each block has one owner.
- **Numbers.** What is printed for one command is typed as the argument of the
  next. Correct: no write beyond a buffer or a count, the text that C promises for
  every combination of flags, no overflow in reading, the same number again.

`PROJECT.json` lists these hazards at their lines with the properties that cover
them.

## 2. The modules

| Module | Models | Built on |
|---|---|---|
| `Mutex` | what the mutex promises (abstract) | |
| `BinSem` | `mutex.h`, `bin_sem.h`, `bin_sem_bare.h`, and the notification | implements `Mutex` |
| `BinSemProofs` | theorems about `BinSem` | `BinSem` |
| `Heap` | what the allocator promises (abstract): an atomic first-fit heap | |
| `KMalloc` | `kmalloc.cpp` | `Mutex`; implements `Heap` |
| `KMallocDualFree` | the allocator with a client that frees twice | `KMalloc` |
| `KMallocProofs` | theorems about `KMalloc` | `KMalloc`, `NatInduction` |
| `Service` | what a thread can expect of a system call (abstract) | |
| `RootServer` | `RootServer::run`, `processSyscall`, `Syscall.cpp`, `Thread.cpp` | `Mutex`; implements `Service` |
| `RootServerProofs` | theorems about `RootServer` | `RootServer` |
| `ObjectFactory` | `InitialUntypedPool`, `PageTable`, `ObjectFactory`, `earlyInit`, `lateInit` | |
| `ObjectFactoryProofs` | theorems about `ObjectFactory` | `ObjectFactory` |
| `Shell` | `Shell.cpp`, and the strings and the vector it uses, with their memory | |
| `ShellProofs` | theorems about `Shell` | `Shell`, `NatInduction` |
| `Strtol` | `strtol` of `lib/cstring.h`, base 10 | |
| `StrtolProofs` | theorems about `Strtol` | `Strtol` |
| `Printf` | `_vsnprintf` of `printf.c`: text, characters, strings, integers | |
| `Numbers` | a number printed and typed again | composes `Printf` and `Strtol` |
| `NumbersProofs` | theorems about `Printf`, and about `Printf` and `Strtol` together | `Numbers`, `StrtolProofs`, `NatInduction` |
| `NatInduction` | lemmas: induction over sets of numbers, sums, recursion | |
| `MC*` | instances for TLC | |

Definitions named `X_Something` are faulty variants of `X`: each is a mistake one
could make in the code, and each property is known to fail under at least one.
They are part of no specification.

### BinSem

A step is one access to shared memory or one kernel call. `Load` and
`CasSucceeds`/`CasFails` are the compare-and-swap loop of
`sync_atomic_decrement_safe`, `WaitConsumes`/`WaitBlocks` the two outcomes of
`seL4_Wait`, `Post` the atomic increment with its test, `SignalWakes`/`SignalPends`
the two outcomes of `seL4_Signal`. The variables are the code's `value` and
`oldval`; `active` and `queue` are the kernel's notification; `pc` is the place of
each thread.

### KMalloc

A chunk is its index in the pool. `next`, `prev`, `count`, `size` are the fields
of the in-band `struct info`; `ClientWrites` replaces those that lie in a client's
data by `Junk`. The first-fit search (`SearchNext`, `SearchFound`, `SearchFails`)
and the seek of `relink` (`SeekNext`, `Splice`) take one step per iteration;
`unlink` and the pointer updates of `relink` happen under the mutex in one step.
`Word` is 2^64: sizes are added modulo `Word`, and `CountsForever` is the case in
which the loop of `chunk_count` does not end (`Spin`). `live` (the allocated
blocks) and `held` (the pointers clients own) record history.

### RootServer

`kernel` is the kernel's state of each thread, `sendq` the endpoint, `replyTo` the
server's reply capability; `code` and `req` are a client's place in its own code
and its message registers; `state` is `Thread::_state`; `pc`, `caller`, `msg` are
the server's. Each branch of `processSyscall` is an action of its own, and what
comes after a kernel call (`_state = ...`) is a further step, since the server can
be preempted between them. Clients also enter the allocator themselves
(`LockHeap`, `UnlockHeap`), with the mutex as `Mutex` promises it. The kernel is
external and modelled from its manual's semantics as the code relies on them:
suspending or resuming a thread cancels its IPC, and a resumed thread executes the
interrupted system call again. `SetPriority` takes its target below the root
task's priority (`low`); such a thread takes steps only while nobody above it is
ready. The answer travels through message register 1 (`answer`, `result`), which
is how the code passes a pointer, and which a request without an answer of its own
leaves as it was; the server's is overwritten when it has to wait for the mutex in
the middle of a request (`ServerGranted`).

`Service` has three phases per thread (idle, called, served) and no endpoint,
server or kernel. `ImplementsService` maps the first two from a client's place and
its kernel state, and says at once that a request is served once, that its answer
is one to that request, and that only a thread that suspends or resumes itself
makes its call again.

### ObjectFactory

One step is one fallible step of `createThread` or of the boot sequence. `given`
says which frame `mapPage` gave out for which page, until `unmapPage` takes it back;
`mapped` is the set of those frames that the kernel has mapped, `_mappedPages` the
code's count. `new` holds the locals of `createThread`, `Fail` what its error paths
do. A failed `assert` ends in `"panic"`. `mapPage` never returns an error: it fails
in an assert, or counts the page and reports success, also when the kernel refused
the mapping (`PageTable.cpp:50` looks at one error only). `MapPage` has both outcomes,
and the error branches behind it in `createThread` are dead and have no action. An
unmapped page of the allocator's pool stops the boot where it is first touched
(`Reserved`, `"fault"`). `notification` is what
`createNotification` left for the allocator's mutex, whose failure `earlyInit` does
not look at; `NullFromNew` is `new Thread` on a full pool.

### Shell

`Type`, `Backspace`, `Enter`, `EnterEmpty` are the branches of `onChar`, each on the
buffer byte by byte: the text of a command ends at a NUL while its size is the
editor's index, and the two must agree after any wrap and any backspace. `Execute`
is a command of the table or of `thread`; `Split` and `SplitAgain` make the strings
`args` and `argStr`, `Ask` evaluates them, `Answered` is the server's reply, `Return`
the destructors. `SkipHistory`, `MakeTemp`, `FirstElements`/`Reserved` and `Assign`
are the end of `newCommand`: the comparison with the last command, the temporary
that `push_back` is given, the vector's memory, the copy into it. When the vector got no
memory the copy is still made, by `strdup`, before it is stored through NULL
(`AssignNowhere`). `typed` records history: the line as a user has edited it.

A string is its characters, the size it was told and its block; `live` is the set
of allocated blocks. Every action that allocates takes `p` from `Allocated`: the
lowest free block, or `NULL`, which may come at any time since the pool is shared.
A string without memory keeps its size, so its first reader reads through NULL:
the thread then stops (`"fault"`), as nobody handles faults. `"hung"` is the growth of
the full vector, which meets the `krealloc` of `KMalloc`.

### Strtol

A step is one iteration of a loop of `strtol`. `exact` records the number read so
far without the limits of a `long`; `Fits` is the test made before the
multiplication, with C's division. `strtol` looks at the character before `pos` at
the end, even where `pos` is the start: both values that byte can have lead to the
same result, and `Stop` says so.

### Printf and Numbers

A step is one directive of the format; for an integer, one step per digit
(`NextDigit`), one for `_ntoa_format` (`FormatNumber`) and one for `_out_rev`
(`OutNumber`), with `buf` the array on the stack. `WithZeros`, `WithPrefix` and
`SignText` are the parts of `_ntoa_format`, each of which may meet the end of `buf`.
The three sinks are `_out_buffer`, `_out_char` and `_out_null`. The reference
(`CText`) says what ISO C prints in terms of digits, precision, prefix and width,
and shares with the model only the decoding of a directive and the field. A
precision may be absent (`NoPrec`), or a negative `.*` (`NegPrec`), which C takes as
absent and the code as 0 (`Precision`).
`Deviates` lists the directives for which this printf prints something else (see
section 4); `FormatsAsC` is claimed for all others.

`Numbers` is a call of printf, the conversion of any string, or both in sequence:
`TypeBack` types a printed number as it stands on the screen, blanks and
padding included, which is how an address reported by `kmalloc` becomes the
argument of `kfree`, and the badge of a list of threads (hexadecimal) the argument of
`thread suspend`.

## 3. The runs

| Run | Instance | Shows |
|---|---|---|
| `semaphore` | 4 threads, `INT_MIN` = -2, fair | mutual exclusion, exact counter, no lost or absorbed wake-up; the fourth caller meets `INT_MIN`; every waiter gets the lock; refinement of `Mutex`, with fairness |
| `allocator` | 2 threads, 4 chunks of 2 bytes, `size_t` modulo 16 | the six invariants of the allocator with `krealloc` and an endless size, and refinement of `Heap` |
| `allocator_live` | 2 threads, 3 chunks, fair | every `kmalloc`, `kfree` returns |
| `realloc_deadlock` | violation | `krealloc` of a live block never returns |
| `dual_free_total` | violation | a second free lowers the total again |
| `root_server` | 2 clients, 10 requests | no forgotten call, the sender is in the table, suspension holds, refinement of `Service`: served once, answered with its own answer |
| `root_server_live` | 2 clients that suspend, resume and lower each other, fair | a thread left alone is answered; the server returns to its endpoint unless a stopped thread has the mutex |
| `object_factory` | 5 creations, 24 usable slots, 0 to 22 objects, any mapping refused | the count is of the frames given out and not taken back, no frame stays mapped without an owner, threads share nothing and keep their mapped pages, the pool is mapped when it is used, the mutex has its notification before any thread |
| `page_tables` | violation | the first page beyond the page table stops the server |
| `shell` | buffer of 4, 2 characters, 3 history entries, 7 blocks | a command is the line as edited; the history is exact; every block has one owner, whatever fails, but for one copy before a fault |
| `shell_priority` | violation | `thread prio` without a priority asks for priority 0 |
| `numbers` | 36,000 calls of printf, buffer of 6; 9 characters, length up to 5, `LONG_MAX` = 127 | printf stays within its buffers and prints what C says; strtol does not overflow, saturates exactly, leaves `*endPtr` behind the number; a printed number is read again |

**Bounds.** Four threads at `INT_MIN` = -2 give holder, two waiters and a caller
that must give up; a semaphore thread's state depends on the others only through
the counter and the notification, and the proofs remove the bound. Four chunks are
the least in which a search meets a gap, restarts, and still finds a block of two
chunks, and in which a block is freed between two others; the sizes are chosen so
that a block takes two or three chunks (one in the smaller runs), none (14), one
because of wrap-around (15), or that `chunk_count` never ends (13). The run
`allocator` does not check deadlock, because such a call and `krealloc` of a live
block stop everything; `allocator_live` leaves both out and does check it. Two clients and the server cover a caller, its target and the
party in between; the badge `None` stands for one no thread has. `KFree`, `List` and
`StopAndDelete` are not among the requests of the runs: `KFree` takes the path of
`KMalloc`, the other two that of `MMap`; the proofs are for any set of requests. The slots end
inside a creation, memory ends at each possible place (it is chosen initially), and
the page table ends in the fourth thread, so every combination of the three is met.
A line buffer of four holds lines of up to two characters and wraps at the third,
so text of an abandoned line lies behind every index; three history entries let a
command come back after another one before the vector is full, and seven blocks are
one less than the shell can use at a time, so the pool also runs out by itself. Five
characters are a sign, three digits that reach -128 or 127 or pass them, and a
digit or another character behind; spaces and signs come in every order. For
printf an `int` has 6 bits and the buffer 6 characters, as 32 and 32 in the code, so
that a binary `int` just fits and a `long` (8 bits) does not; widths lie below, at
and above the length of a number, and beyond the buffer; all 32 sets of flags meet
all of them. Counts of `snprintf` go from 0 past the length of the text. The
parameters of the proofs leave these sizes open.

**Fairness.** The kernel is built for one core, and `createThread` gives each
thread `seL4_MaxPrio`, the priority of the root task: threads of one priority run
round robin, so a runnable thread keeps taking steps (weak fairness of `Progress`,
`Critical`, `ClientStep`, `ServerStep`). That a waiter of the mutex is granted it
(strong fairness of `LockGranted`, `HeapGranted`, `ServerGranted`) is not assumed of
the code but shown of it: it is `WaitersServed` and the fairness part of
`ImplementsMutex`. Critical sections end, and nobody is obliged to call anything.
A thread whose priority was lowered is not among them: it may wait for ever, since
the threads above it may always have something to do, and neither is a suspended
one. Both facts are in the properties. `ServerReturns` has the exception
`HeapBlocked` (the mutex is with a thread that was suspended or lowered), and
`EveryCallReturns` is about a thread that is from some time on not `Disturbed`:
stopped, kept from the mutex in this way, or taken out of the endpoint's queue by
a Resume time and again. That nobody does these things for ever is not a promise of
the code.

## 4. What the code does otherwise than it says

- `krealloc` of a live block locks the mutex it already holds (`kmalloc.cpp:120`,
  `135`, `148`); `vector::push_back` does this at the eleventh element.
- A dual free is meant to be ignored (`kmalloc.cpp:103`), but the total has been
  lowered before (`98`), and the comparison can no longer be true at that point.
- The first page beyond the first page table panics (`PageTable.cpp:34-39`): what
  is passed as the new table's capability is an `Expected` converted to `bool`.
- `thread prio <badge>` without a priority is meant to be refused (`Shell.cpp:70`),
  but the test is for a pointer that `strtol` leaves null only for an empty text,
  that is, when the badge is missing as well.

Seen while modelling, without a run that claims otherwise: `getFreeSlot` gives out
the slot `empty.end`, which does not belong to the empty region; `strtol` reads
the byte in front of a string that does not start with a number; a thread that asks
for its own resumption executes that call for ever; a thread suspended, or lowered,
inside the allocator blocks all others; the server reports badges in hexadecimal
and the shell reads them in decimal; `thread del N` drops the first digit of `N`,
and `thread suspend` without a badge reads behind its string; a history entry whose
copy found no memory keeps its size, and the next command of that length, or
`history`, stops the shell; when the history's vector gets no memory the copy for it
is made all the same and lost (`CopyLost`); a page whose mapping the kernel refuses is
counted by `vm` as mapped, and `createThread` makes a thread with it, which faults
when it uses it; `vector::erase` does not compile when it is used.

printf prints something else than ISO C in these cases, found by comparing all
combinations (`Deviates`): a number, with its zeros, longer than the 32 characters
of the buffer is cut; `-` drops the zeros of a precision (also the single 0 of
`%-.1d`); `#` removes digits where
the number is as wide as its field (`%#4x` of 0x1234 prints `0x12`) and, for x, where
zero padding leaves one place for the prefix; a zero-padded `%#b` is one place too
wide; `%#o` with a precision has a zero too many, and prints nothing for 0 with
precision 0; a negative `.*` is taken for the precision 0 (`printf.c:641`), so that
`%.*s` and `%.*d` of 0 print nothing and `%0*.*d` pads with blanks, where C takes it as
omitted. No call in the tree uses `#` or a precision.

## 5. What is proved

Every safety property of the passing runs is a theorem: it holds for every value of
the constants, not only for the instances of section 3. The hypotheses are the named
assumptions of the modules, which TLC
evaluates on every run: that the names of nobody (`NoOwner`, `None`, `NUL`) name
nobody, that sizes are natural numbers, positive where the code divides by them
or has an array of that size, that a `long` has as many bits below zero as above,
and that no integer printf takes is wider than it. Few of the invariants of the runs are inductive as they
stand. Each module of proofs defines its `IInv`, has one lemma per action, and
derives the theorems from `Spec => []IInv`.

**`BinSemProofs`** (any finite set of threads, any negative `IntMin`):
`TypeCorrect`, `MutualExclusionHolds`, `CountExactHolds`, `NoLostWakeupHolds`,
`NoSignalAbsorbedHolds`, and `MutexRefinement` (`Spec => M!Spec`, the safety part of
`ImplementsMutex`). The argument sees the right to enter as a token: a thread
carries it while it holds the lock and until it has signalled, then the notification
carries it. `IInv` says that there is at most one (`OneToken`), that there is one
exactly while someone contends (`TokenWhenTaken`), that the counter counts the
contenders (`CountExact`), that the kernel's queue is the set of blocked threads
without duplicates (`QueueExact`), and that no exchange is tried from `IntMin`
(`NoUnderflow`). Counting rests on the cardinality of a set changed by one element
(`CountJoins`, `CountLeaves`).

**`KMallocProofs`** (any set of threads, pool, chunk size, `Word` that is a multiple
of it, and sizes): `TypeCorrect`, `BlocksDisjointHolds`, `BlockCoversRequestHolds`,
`FreeListExactHolds`, `TotalExactHolds`, `NullOnlyIfNoFitHolds`, and
`HeapRefinement` (`Spec => ImplementsHeap`). The list is described by a relation
between a set of chunks and two fields (`Links`); `UnlinkLinks` and `RelinkLinks`
say, apart from any state, what taking a run out and putting one back does to it.
`IInv` holds in every state, not only with the mutex free, because a block counts as
live until it is linked again. Its other parts: who is between lock and unlock owns
the mutex (`LockHeld`); every pointer is known to one client or one call (`Claims`),
without which a client could free what another got; in the search the chunks from
`top` to `curr` are free and nothing that starts below `top` is long enough
(`Searching`), which makes a failed search mean that nothing fits; in the seek, `curr`
is on the list and below the block (`Seeking`). `StepOfOne` reduces a step to the
thread that takes it. The total is ahead of the list during a seek: `TotalInv` says
that it is the sum over the live blocks whose place nobody is looking for. That a
sum changes by one summand is an induction over the addresses (`AddsChanged`), and
that sizes may wrap before or after they are added is `WrapsOnce`.

**`RootServerProofs`** (any set of threads and of requests): `TypeCorrect`,
`NoOrphanedCallHolds`, `PausedIsSuspendedHolds`, the action property
`SuspendedStaysPutHolds`, and `ServiceRefinement` (`Spec => ImplementsService`). `IInv`
ties the three places a call can be in: the endpoint's queue holds exactly the
threads the kernel has blocked on it, each once (`EndpointExact`); who awaits an
answer is the holder of the one reply capability and the server has that thread's
message in hand (`ReplyDue`); who is blocked has filled in a request
(`CallsFilled`) and was started, so that the sender of a request is in the table when
`run` looks it up (`Unstarted`; in the code an assert, here part of `TypeOK`). `ServerKnows` says what the server is in the middle of, and that
the answer it is about to give is one to the operation it has read. The refinement
follows action by action: a step that moves no thread between the phases of
`Service` is a stutter (`SamePhases`), one that moves a thread moves only that one
(`OnePhase`).

**`ObjectFactoryProofs`** (any boot information, amount of memory, page table size and
number of creations): `TypeCorrect`, `PagesCountedHolds`, `ThreadsIndependentHolds`,
`NoPageLeakedHolds`, `PoolMappedHolds`, the action property `ThreadKeepsPagesHolds`, and
`MutexHasNotificationHolds`. Threads are apart because slots and
addresses only grow: `SlotsFresh` and `Owns` put everything a thread has below the
next slot, badge and address, so whatever comes next is new. `PagesAccounted` counts
the frames given out as those of the pool, three for each finished thread, and what
the creation in progress has so far; `FramesOwned` says that there are no others. A
rollback unmaps frames of the thread that failed only, which are apart from all
others, so it takes nothing from the pool (`PoolMapped`) or from a thread
(`ThreadKeepsPages`). That all these frames are mapped holds for the pool only, since
`reservePages` writes to every page of it. `MutexHasNotificationHolds` needs that a failed
allocation stays failed (`CanAlloc`): a boot without a notification cannot go on to
make an endpoint either.

**`ShellProofs`** (any characters, line buffer of at least two, history and pool):
`TypeCorrect`, `LineIsTypedHolds`, `HistoryExactHolds`, `BlocksOwnedHolds`. `Editing`
says that the bytes below the index are the line as edited, whatever an abandoned
line has left above it. `Stages` says which of the strings exist at each point of
`onChar` and `newCommand`, and `NewCommand` that the comparison with the last
command still holds when the copy is made. Ownership is proved once for any sequence
of pointers: an object gets a block nobody has, loses its block, or a pointer is
appended (`Put`, `Drop`, `Extend`). The one block without an owner is the copy that
`AssignNowhere` makes, and nothing happens after it.

**`StrtolProofs`** (strings of any length, every `LongMax` of at least 10):
`TypeCorrect`, `SaturationHolds`, `EndHolds`. `IInv` adds that the number has the sign
that was read (`Direction`) and that nothing is read before the sign (`SignFirst`):
saturation is stable only because further digits move the exact number further
away. The heart is a pair of lemmas, `FitsPositive` and `FitsNegative`, which say that
the test by division holds exactly when the product is in range. For `EndHolds`,
`Scanned` says what lies behind `pos`: spaces, then one sign of each kind, then
digits; `NumberOnlyAt` says that no other place of the string can begin a number.

**`NumbersProofs`** (any calls, any array on the stack, any width of the integers):
`PrintfTypeCorrect`, `WritesWithinCountHolds`, `FormatsAsCHolds`, `RoundTripHolds`, and
`ReadsExactly`, which carries the theorems about `strtol` over to what printf has left
on the console. There are four invariants, each relative to the ones before.

- `PrintfInv`: the loop over digits is only entered with room for one, and the
  directive at hand is an integer while a number is converted. What `_ntoa_format` and
  `_out_rev` put together are lemmas about texts of any length (`WithZerosIs`,
  `WithPrefixIs`, `FieldIs`); that the console never gets a NUL is an induction over
  the text (`VisibleIs`).
- `ConvertingInv`: the digits in `buf`, last one first, are those of the magnitude
  divided by the powers of the base, and what is left in `value` is the next quotient.
  The loop ends with all digits, or with a full array and a directive that `Deviates`;
  both need `TooManyDigits`, which relates the size of a number to its length.
- `ProgressInv`: what the console or the buffer has is what ISO C prints for the
  directives done (`FormatsAsCHolds` is this, at the end of the format). The step is a
  comparison of two texts: printf adds zeros, prefix and sign behind reversed digits
  (`WithZerosForm`, and the like for `WithPrefix` and `SignText`), C puts them in front
  (`CNumberForm`). Both come down to counting zeros, by cases over the flags; each case
  in which the counts differ must be one that `Deviates` names.
- `ReadBackInv`: the string that was typed is blanks, a sign if the number has one, and
  its digits (`PrintedNumeral`), and the number `strtol` has read is the magnitude's
  quotient by a power of 10, the one that belongs to `pos`. At the end the power is 1
  and `exact` is the argument, so `RoundTripHolds` is `SaturationHolds` of it. That no
  argument lies below the smallest `long` (`ArgumentRange`) is where the widths come in.

The attempt to prove `FormatsAsC` failed once for a good reason: `Deviates` had left
out `-` with precision 1 for a zero, where C prints a 0 and printf nothing. The run did
not use precision 1 then, and does now. A negative precision counts as 0 in the code's
half of the proof (`PrecisionIs`) and as none in the other half; `Deviates` excludes what
this makes different, and nothing else is.

The provers have no induction rule that can be used, since those of the library take
a predicate as a parameter. `NatInduction` derives one for sets of numbers from the
existence of a least element (`SmallestOf`, `SetInduction`). From it come sums over an
initial part of the numbers (they exist, are unique, and change with a summand), and
recursion: for a function that gives the next value from the index and the last value
there is one that obeys it (`UnfoldsExists`), so that the powers, the digits of a
number, and the texts that `Printf` defines by recursive functions are what their
defining equations say.

**Only model-checked.** All liveness (`WaitersServed`, `CallsReturn`,
`EveryCallReturns`, `ServerReturns`, the fairness part of `ImplementsMutex`): fairness
and `ENABLED` are outside the provers' reach. That the four runs that expect a
violation find one is an execution of the model, not a theorem.

## 6. What is not modelled

- Of the containers, what nothing uses: `vector(count)`, `erase`, `clear`. Of
  `cstubs.c` and `lib/cstring.h`, the memory functions and character classes: loops
  over bytes without state, of which `strdup`, `strlen` and the zeroing of the line
  appear in `Shell`. Other bases of `strtol`, which nothing in the tree asks for.
- Of `printf.c`, floating point and `%p`, which nothing prints, and a format that
  ends within a directive (it reads on behind its end). Threads print without a
  lock; how their characters mix is not modelled.
- What the server does for a shell command: the shell's requests are those of
  `RootServer`'s clients, and `Shell` itself waits for an answer. Which badge or
  address a command names, and the byte that `touch` writes wherever the user says.
- Fault messages to `run` (threads have no fault endpoint), and requests whose
  decoding fails (the senders fix the lengths).
- Names and register contents; the contents of the messages beyond operation,
  target and answer.
- `Expected` and `Optional` (values without behaviour; the conversion to `bool` that
  matters is in `ObjectFactory`), `VMSpace` (empty), start-up assembly, C++ stubs,
  build files, disk image. Thread-local storage and `errno`: what they are depends on
  a tool chain and a libsel4 that are not in the tree. Two things to look at there:
  `createThread` places a thread's TLS base at the end of its stack page, and on
  x86_64 thread-local variables lie below that base; and `__errno_location`, a
  function for `errno`'s macro, is defined as an `int` (`cstubs.c:5`).
- An allocation before `setMemoryPool`, and a mutex refused at `INT_MIN` (2^31
  waiters), after which `kmalloc` would run unlocked.

## 7. Plan

The model is as wide as the code allows, and its safety is proved. What could be added:

1. `strtol` of other bases, and through it the part of `RoundTrip` that is missing:
   the server reports badges in hexadecimal, the shell reads decimal, and for a base
   the two agreed on, the proof of `ReadBackInv` would be the same one.
2. Thread-local storage and `errno`, when the tool chain and libsel4 are in the tree.
3. A repair of `krealloc` and of the dual free, in the model first: `KMalloc` and its
   proofs state what has to stay true.
