# A TLA+ verification project for MemAlloc

MemAlloc is a C++ memory allocator: per-thread pools of fixed-size blocks and a
per-thread arena, refilled from a shared heap of 64 KiB chunks, optionally
linked as the program's global `operator new` and `operator delete`. This
directory holds TLA+ models of its parts, TLC configurations that check them on
small instances, and proofs checked by TLAPS.

Paths below are relative to the repository (`include/...`, `src/...`).

## 1. The system

| Part | Where | State | Operations |
|---|---|---|---|
| Block pool | `include/block_pool.hpp` | `slab_`, `head_` of an intrusive free list (a free block's own first word is the link), `external_slabs_` | `allocate`, `deallocate`, `deallocate_containing`, `contains`, `add_external_slab`, `free_count`, `total_blocks` |
| Arena | `include/arena.hpp` | `base_`, `used_`, `requested_`, `allocated_` | `allocate`, `reset`, `contains`, `internal_fragmentation` |
| Size classes | `include/size_class.hpp`, `include/frag_detect.hpp` | none | `size_class_index`, `block_for` |
| Single-thread front-end | `include/single_thread_alloc.hpp` | seven pools, one arena, the chunk source, statistics | `allocate`, `allocate_aligned`, `deallocate`, `deallocate_containing`, `classify`, `occupancy` |
| Thread front-end | `include/thread_pool_alloc.hpp`, `src/thread_state.cpp` | one object per thread; the flags `g_allocator_active` and `g_allocator_gone` | `instance`, constructor, destructor, `allocate`, `deallocate` |
| Operators | `src/new_delete.cpp` | `g_ready`, the list `g_malloc_recs`, a per-thread stash of over-aligned pointers | `do_new`, `do_delete`, `do_aligned_new`, `init_allocator` |
| Central heap | `include/central_heap.hpp` | `chunks_` under `mutex_` | `acquire_chunk`, `header_for`, destructor |
| Statistics registry | `include/stats.hpp` | `Stats` of each thread, unlocked; `live`, `live_allocators`, `retired` under a mutex | `record_alloc`, `record_free`, `register_stats`, `retire_stats`, `global_stats`, `for_each_live` |
| Event ring | `include/viz_hook.hpp` | `buf_`, `head_`, `count_` under a mutex; a global switch | `push`, `snapshot`, `snapshot_tail`, `count`, `ring` |
| Visualiser | `viz/main.cpp` | the flag `stop`, what each worker holds, `feed` and `last_count` | `worker_loop`, `draw_event_feed`, `draw_global_stats`, `draw_per_thread_pools`, shutdown |
| Other programs | `bench/`, `src/frag_report.cpp`, `tests/` | - | they use the above |

### How the parts meet

`operator new` goes to `ThreadPoolAlloc::instance().allocate`, which looks for a
block in the pool of the size class, or bumps the arena for a request above
1024 bytes. An empty pool calls the chunk source: `CentralHeap::acquire_chunk`
makes a 64 KiB chunk and the pool links the blocks of its body in front of its
free list. `operator delete` has no size: it asks `classify` whether the pointer
is in one of this thread's pools or in its arena, then whether it is one that
the malloc fallback made, and otherwise leaves it alone. The constructor and
the destructor of a thread's allocator register and retire its statistics.
The visualiser looks on from a thread of its own: `global_stats` adds up the
counters of every thread, `for_each_live` gives it each live allocator, whose
free lists it walks, and `snapshot_tail` copies the end of the event ring. The
registry's mutex keeps an allocator alive meanwhile; nothing keeps its owner
from going on.

The hard part is that the allocator is written with the library it replaces.
`chunks_`, `external_slabs_` and the registry's vectors grow with `operator new`
and release their old buffer with `operator delete`, that is through the very
functions they are called from, some of them under a mutex. Three things keep
this from recursing: `AllocatorGuard` sets a thread's active flag and `do_new`
then uses malloc; `g_allocator_gone` stays set once the thread's object is being
destroyed; and `g_ready` is false before `init_allocator`. What malloc made
in this way has to be recognised by `do_delete` later, on any thread: that is
the list `g_malloc_recs`.

### What is hard about it, and what makes each part correct

* **Block pool.** The links live in memory that callers overwrite. The list must
  stay intact whatever they write, and no block may be lost, duplicated, or both
  free and handed out.
* **Operators over threads.** Threads construct, refill, exit, record fallback
  pointers and delete in any order. Nothing in use may be freed, nothing freed
  twice or handed out twice. Only a delete on a foreign thread may leak a block;
  what malloc made in the allocator's place leaks only if its record was lost.
  Every operation must end.
* **Call stacks.** No thread may lock a mutex it holds, enter the allocator from
  itself, or come back to an object that is being destroyed.
* **Onlookers.** Counters are read while their owner stores them in any order, and a
  free list is walked between any two stores of its owner. What is shown must still
  be near the truth, the walk must stay in the pool and end, and nobody may
  look at an allocator that is gone.
* **Event ring and feed.** Readers take the mutex twice, allocating in between; pushes
  come between the two. The order must hold around the end of the array, a
  feed that is kept must be current, and shutdown must end every worker.
* **Front-end.** Regions of several classes, the arena and chunk headers lie side by
  side: `classify` must tell them apart to the byte.
* **Arena and layout.** Alignment, the last byte, requests of 0, 1024 and 1025;
  chunks hold fewer blocks than slabs for the large classes.

`PROJECT.json` lists each of these hazards at its line with the properties that
would catch it, and those no property covers yet with the reason.

## 2. The modules

| Module | Models | Kind |
|---|---|---|
| `FreeStack` | what a pool promises: a stack of free blocks beside the set of blocks handed out | abstract specification |
| `BlockPool` | the pool with its links in the blocks' own memory | refines `FreeStack` |
| `PoolWalk` | `occupancy()` of a pool whose owner goes on | composes `BlockPool` with a reader |
| `BlockPool_proofs` | theorems of `BlockPool` and `PoolWalk` | proofs |
| `NewDelete` | operators, thread front-ends, central heap, registry: who owns which memory, over interleaved threads | system |
| `NewDelete_proofs` | theorems of `NewDelete` | proofs |
| `Reentry` | the same parts: who calls whom with which flag and mutex | system |
| `Reentry_proofs` | theorems of `Reentry` | proofs |
| `RunningTotals` | what a reader of totals that nobody locks can rely on | abstract specification |
| `Statistics` | counters, registry and their readers | refines `RunningTotals` |
| `Statistics_proofs` | theorems of `Statistics` | proofs |
| `EventRing` | the ring and its two-pass readers | component |
| `Visualiser` | workers, event feed and shutdown | composes `EventRing` with its program |
| `Visualiser_proofs` | theorems of `EventRing` and `Visualiser` | proofs |
| `Arena` | the bump allocator in modular arithmetic | component |
| `Layout` | size classes, chunk layout | pure functions |
| `Layout_proofs` | theorems of `Layout` | proofs |
| `FrontEnd` | all pools and the arena of one thread, at addresses | composes `Arena` and `Layout` |
| `FrontEnd_proofs` | theorems of `FrontEnd` and its `Arena` | proofs |
| `Recursion` | what a loop and a sum, as recursive functions, compute | lemmas |
| `MC_*` | sets and definitions for TLC | instances |

A definition called "Mutated form" is what a plausible slip in the code would
make of the definition below it. No specification uses one: each is there to
show that a property of section 3 fails when the code has that slip.

### BlockPool

`head` is `head_`, `mem[b]` is the first word of block `b`, `slabs[r]` is how many
blocks of region `r` are linked (the pool's own slab from the start,
`external_slabs_` afterwards). `live` and `chain` are history: what callers hold
and the free list in order. `Allocate` reads the next head out of the block, as
the code does; `PushFree` is the two stores shared by `deallocate` and
`deallocate_containing`, of which `LinkFreed` is the first; `AddExternalSlab` runs the
linking loop. A pool has one owner, so here each action is a whole call; what
another thread sees between two stores of a call is in `PoolWalk`.
`ClientWrite` is the caller: it stores a pointer or anything else in a block it
holds. `DeallocateContaining` takes a pointer with an offset into its block, as
`delete[]` gives one past the array cookie.

### PoolWalk

`walk` is a call of `free_count()` by another thread: `WalkBegin` loads `head_`, each
`Hop` counts a block and loads its word, `WalkEnd` reads `total_blocks()`. The owner's
calls are taken apart into the stores that the walk can come between:

* `StoreLink` and `Push` are `deallocate` and `deallocate_containing`: the block's word
  gets the link (`freeing` is the block), then `head_` the block;
* `LinkSlab` and `RecordSlab` are `add_external_slab`: `head_ = base`
  (`block_pool.hpp:159`), then `external_slabs_.push_back` (`:160`). In between, the blocks are
  on the list (`Managed`) and `total_blocks()` does not count them: it counts
  `recorded` (`Counted`), and `Unrecorded` is how many it misses. The links inside the new slab
  are stored before `head_` points to it, so no walk sees them half made;
* `Pop` is `allocate`, which has one store.

Each step does what the action of `BlockPool` does to the list at the store that
makes it visible, so a walked pool is a pool of `BlockPool` (`WalkIsPool`, section 5).
Loads and stores are those of aligned words, which do not tear, and are taken to
happen in the order of the program. `external_slabs_` is read in one step: its
reallocation under a reader is left out, as it frees memory that the reader is in and
nothing can be said of it.
`writes` says whether the program's holders store into their blocks. A walk in a
program where they do follows whatever they wrote: of it nothing is stated. The
workers of the visualiser, the one program that walks, do not write.

### NewDelete

A region is the memory of one malloc; `heap` says what each is allocated for.
Per thread there are `slab`, `arena`, `ext` (external slabs), `free` (the free
list as a set), and a program counter `pc` with a `frame` for the operation in
progress. Shared are `ready`, the two mutexes, `chunks`, the vectors' buffers
`buf`, the registry `reg`, and the fallback list `recs`. `leaked` and `lost` are history:
what deletes left alone, and the addresses that a store of the list dropped from it.

* `Construct`, `LockRegistry`, `Exit`, `Destroy`, `DropExt` are the life of a
  thread's allocator, its registration and retirement, and the destruction of
  its members.
* `NewBlock`, `NewLarge`, `Exhausted`, `AcquireChunk`, `AddExternalSlab` are the
  paths of `operator new`; `NewFallback` and `FallbackStore` the malloc path
  before `init_allocator` and after the thread's allocator is gone.
* `NewAligned` and `AlignedReturn` are the over-aligned `operator new` before
  `init_allocator`: the memory is not recorded, its payload goes into the
  thread's stash, whose own `push_back` is the path above; `Unstash` is what
  `do_delete` tries first.
* `PushInPlace`, `Grow`, `GrowStore`, `GrowDrop` are `push_back`: in place, or a
  new buffer from the fallback, recorded by a load (`Grow`) and a store
  (`GrowStore`) that are two steps, then a `do_delete` of the old buffer.
* `Delete` and `DoDelete` are `do_delete` with its classification in the order of
  the code; `FreeChunks` and `DropShared` the static destructors.

Steps are as large as what a mutex or a thread's own memory makes atomic; a
thread holds a mutex from the lock to the end of the `push_back`.

Abstractions. One pool per thread stands for the seven: which one a size goes
to is in `Layout`. The free list is a set: its order is in `BlockPool`. The
registry's parallel vectors `live` and `live_allocators` are one vector here
(both are in `Reentry`). A region's address that malloc returns again is the
base of the new region, never an address in its middle. Memory does not run
out. After `init_allocator` an over-aligned request is one to the arena, as a
large one is. The statistics counters are in `Statistics`. Clients delete an
object once, a thread's blocks are given back before it exits, over-aligned
objects of the time before `init_allocator` are given back before `main`'s
thread destroys its stash, and `main` joins its threads. `do_aligned_new` also takes the
path of the stash on a thread whose allocator is gone (`new_delete.cpp:169-172`). Left
out: by then the stash, a `thread_local` of the same thread, can be destroyed
itself. So only `Main` ever has anything in its own, and `InStash` says so.
`program` is fixed at the start and says what the program and its malloc do:
`recycle` whether a freed address is returned again, `cross` whether objects are
deleted on any thread, `asks` which forms are used before `init_allocator`.
This is the build in which a
`thread_local` counts as initialised when its constructor starts.

### Reentry

`stack[t]` is the calls thread `t` is in, each with the point it has reached and
what its `AllocatorGuard` saved; `active`, `tls`, `ready`, `mutex` and `ring` are
the flags, the thread's object, the mutexes and the function-local static of
`viz::ring()`. There is one action per function: `New`, `Delete`, `Instance`,
`Allocate`, `Deallocate`, `Acquire`, `Register`, `Retire`, `Push`, `Ring`. A pool has a
block or has not and a vector has room or has not: both are choices. `build`
is fixed at the start and says which program this is:

* `guardFirst`: whether a `thread_local` is marked initialised before its
  constructor runs, so that `instance()` called from inside the constructor
  returns the object under construction, or after it (GCC, Clang), so that the
  constructor runs again;
* `override`: whether `new_delete.cpp` is linked;
* `viz`: whether events are recorded.

The branch of `do_delete` on a dying object is not a case of its own: whenever
that holds, `g_allocator_gone` is already set and is tested first.

### Statistics

`stats[a]` is the `Stats` of the allocator at address `a`, an address that a later
thread's allocator can have again. A call of `record_alloc` or `record_free` leaves
the set of fields it has yet to store in `pending[a]`, and `Store` takes them in any
order: the fields are plain, so the compiler may emit them so. `Load` is one field of
`add` in `global_stats`. `visit` is the reader that holds the registry's mutex, with the
object it is at: a pointer it has read stays what it was when the vector
changes. The refinement to `RunningTotals` maps its `now` to everything stored so far
and its `answer` to the sum when it is returned.

### EventRing, Visualiser


`EventRing`: `push` and each pass of a reader is one step under the mutex; events
are numbers in the order of their push, 0 a slot never written. `pass[r]` is what a
reader carries from its first pass to its second. Thread ids, timestamps and the
switch are left out.

`Visualiser` adds the workers, each at a point of `worker_loop`, the flag, and the
window's thread at a point of its frame. `FeedBegin` and `FeedCopy` are the two passes of
`snapshot_tail`. Which size a batch asks for and when a burst comes are choices; a
burst pushes one event more when it needs a chunk. `program` "any" is the ring
without the visualiser, with a reader that takes any kind of snapshot.

### Arena, Layout, FrontEnd

`Arena`: `++` and `--` are `size_t` arithmetic modulo `Modulus`; `AlignUp` is the
masking expression. `objects` is history.

`FrontEnd` is `SingleThreadAllocator` with the arena of `Arena`, the sizes of `Layout` and a
set of free blocks per class. All addresses are numbers, so that `Classify` is the
comparison the code makes. `caller` "program" is an `Arena` used on its own, the only
user of `reset`.

`Layout`: the only state is the request looked at. It checks functions, over
every request and with the constants of the code.

## 3. What TLC checks

| Run | Instance | Distinct states | Shows |
|---|---|---|---|
| `block_pool` | slabs of 2 blocks, one chunk, an interior offset; a walk during up to 6 moves of the owner | 429 thousand | the list stays linked under every write of the holders; blocks are free or live; `FreeStack` is implemented; a walk that races with each of its owner's stores stays in the pool, ends, and is off by no more than the owner's moves and the slab linked but not yet recorded |
| `override` | 2 threads, in five programs: deletes by the owner with addresses reused, and deletes on any thread with no address reused, each beside fallback, over-aligned or large objects | 3.4 million | nothing in use is freed, no wrong or double free, nothing handed out twice; a delete leaves alone only another thread's block or over-aligned object, or fallback memory whose record was lost; the registry holds live allocators only |
| `override_live` | 2 threads, 2 chunks, fairness | 452 thousand | every operation begun comes to an end; while malloc has memory one of them can go on, and none starts over |
| `reentry` | 2 threads, 2 refills, five builds, fairness | 57 thousand | no deadlock, no re-entry, flags and mutexes restored, nothing reaches a destroyed object, every call returns |
| `event_ring` | 3 slots, 12 pushes, a reader, 2 workers of 2 batches, fairness | 197 thousand | latest events in order; `snapshot_tail` under any pushes; `snapshot` when none comes; a kept feed is current until the ring is full; closing the window ends the program |
| `arena` | 10 bytes, 5 objects, alignments 1, 4, 8; two classes, two chunks | 307 thousand | aligned, inside, disjoint, over all pools, the arena and the chunk headers; `classify` exact for every address; counters exact |
| `layout` | the code's constants, requests 0 to 2100 | 2.1 thousand | smallest class that fits; blocks stay in their chunk and find its header |
| `statistics` | 2 addresses, 3 threads, 2 recorded calls | 2.4 million | the two vectors stay parallel and exact; readers only touch live allocators; every field returned is at worst slightly stale |
| `reentry_itanium` | the override where the guard is set last | violated | see section 4 |
| `override_records` | two threads record at once | violated | see section 4 |
| `override_stale` | reused address and a foreign delete | violated | see section 4 |
| `feed_frozen` | a ring that has filled | violated | see section 4 |

### Bounds, and why they are enough

* `block_pool`: two blocks have a first, a last and a next one, and one chunk
  beside the own slab gives a list that crosses regions in every order. `MaxMoves` 6
  lets the owner empty the pool, link the chunk and put blocks back during one
  walk, so that a block is counted twice or missed. What happens for other sizes
  is proved (section 5).
* `NewDelete`: two threads, because every race here is between a load and a store
  or around one mutex; with `MaxChunks` 0 three threads were tried and add
  nothing. `MaxRegion` is 14 and never runs out, as at most 13 are used when no
  address comes back. The programs of `override` are those that the comments
  promise to be safe; one that reuses addresses and deletes on any thread is
  `override_stale`. Beside its blocks a program asks for a fallback object,
  an over-aligned one or a large one per thread, not for several of these: a large
  object only moves the bump pointer of its own thread's arena. `SlabBlocks` and
  `ChunkBlocks` of 1 make a pool run empty, be refilled, and hold blocks of
  both origins; `ArenaBlocks` of 1 makes an arena fill up. `override_live` gives up
  the arena and fallbacks for a second chunk, so that both threads refill at
  once and a vector that has a buffer grows again.
* `Reentry`: `MaxChunks` 2 lets both threads refill, at once or one twice. A stack
  is bounded by the program: no other bound is needed for it.
* `EventRing`, `Visualiser`: 12 pushes wrap a ring of 3 four times and are all that two workers
  can make in two batches; `MaxCounts` has 0, less than the capacity, the capacity,
  and more. Readers share nothing but the ring, so one is enough. `HoldMax` 1 makes a
  worker hold, exceed the bound and drain.
* `Statistics`: `MaxThreads` 3 at two addresses has two threads alive and one that
  comes back at a used address; `MaxRecords` 2 has two owners in the middle of their
  stores, or one that allocates and frees. The two addresses are interchangeable,
  and the properties do not name one: the run uses that symmetry.
* `FrontEnd`: a chunk of 8 bytes behind a header of 2 holds two blocks
  of the small class and one of the large, so that a class's chunk holds fewer
  blocks than its slab; two chunks go to either class.
* `Arena`: requests run from 0 to one byte more than the capacity. They stay clear
  of the sizes near `SIZE_MAX` for which `used_ + padding + size` wraps: with
  those, `ObjectsApart` does not hold, as the sum is not checked for overflow
  (`arena.hpp:50`). The assumption `SumsDoNotWrap` says so, for the runs and the
  proofs alike.

### Fairness

`override_live` and `reentry` assume weak fairness of each thread's steps inside an
operation (`Work`, `Step`): an operating system runs a thread that can run. No
call of a client is fair: a program need not delete, exit or allocate. A mutex
may be taken by others in between, but the acquisitions are finite in number
(a thread registers once, retires once, and refills at most `MaxChunks` times), so
weak fairness is enough and no claim is made about the fairness of
`std::mutex`. In `Reentry` an allocator is likewise registered and retired once.
`block_pool` assumes weak fairness of a walk's steps: its thread runs; the owner need do
nothing and may do all that `MaxMoves` allows. `event_ring` assumes it of the
window's thread and of each worker, whose sleeps end; nobody need close the
window.

Deadlock is not checked where the model may stop: a program that has joined
its threads and run its static destructors, one without the override whose
threads have all exited, and `Layout` after its last request are at rest. Where a thread might wait for ever in
the middle of a call, the liveness properties say that it does not. `statistics` stops
at its bounds.

## 4. Where the code and its comments disagree

1. **`reentry_itanium`** (`new_delete.cpp:230`). `do_delete` does not look at the
   active flag before it calls `instance()`. When the registry's vector grows in
   the second thread's constructor, its old buffer goes to `operator delete`
   under the registry's mutex. GCC and Clang do not yet mark the `thread_local`
   as initialised, so `instance()` constructs again, and `register_stats` locks the
   mutex that this thread holds. `stats.hpp:80-84` says that growth there "takes
   the malloc fallback instead of recursing into the allocator". Built with g++,
   `test_threaded`, `test_new_override` and `frag_report` hang in this way.
2. **`override_records`** (`new_delete.cpp:78`). `record_malloc_ptr` loads the list
   and stores it later without a compare-exchange. Two threads at once lose a
   record, although `new_delete.cpp:62-65` calls the list "insert-only". A pointer
   whose record is lost is never freed, on whatever thread it is deleted:
   `LeaksAccountedFor` says that fallback memory leaks in this way and in no other.
3. **`override_stale`** (`new_delete.cpp:244`). A record outlives its pointer. When malloc
   returns the address again, for another thread's slab, a delete of that slab's first
   block on the wrong thread takes it for a fallback pointer and frees the slab.
   `new_delete.cpp:64-65` says "stale membership is harmless".
   `override` shows that it is as long as blocks are deleted by their owners, and
   that a foreign delete is as long as no address comes back.
4. **`feed_frozen`** (`viz/main.cpp:239`). `draw_event_feed` takes a new tail when the ring's count
   has changed. After 65536 events the ring is full and its count no longer changes
   (`viz_hook.hpp:48`), so the feed stands still, although `viz/main.cpp:233-234` calls it
   "the most recent events from the ring". `FeedCurrentUntilFull` says that this is
   the only way it can be out of date, and is proved.

Others were met and have no run of their own.

* The second pass of `snapshot()` starts at the slot that the first one found
  (`viz_hook.hpp:71`). A push in between on a full ring has put the newest event
  there, so the copy is not "oldest first" (`viz_hook.hpp:53`).
  `QuietSnapshotIsExact` says when it is; `snapshot_tail` computes its start afresh.
* `used = cap - free_count` can be negative, that is wrap, although
  `single_thread_alloc.hpp:148`, `block_pool.hpp:232-234` and `viz/main.cpp:196` say that it is
  never negative. There are two ways. A block popped and pushed again during a
  walk is counted twice: a walk is at the first of two free blocks; the owner pops both; the walk
  goes on to the second by the old link; the owner gives the first back, then the second, whose
  word now leads to the first; the walk counts the first again: 3 of 2. And with no pop
  at all: a walk between `head_ = base` (`block_pool.hpp:159`) and `push_back` (`:160`) of
  `add_external_slab` counts the blocks of the new slab, and `total_blocks()` does not yet.
  `UsedErrorBounded` states what holds instead: how far below zero, and how far off
  at all, `used` can be.
* The fields of one `global_stats()` come from different moments: a reader between
  the stores of `record_alloc` sees `requested` above `allocated`, and
  `internal_fragmentation()` of that wraps. `stats.hpp:145` says "never torn", which
  holds of each field only (`SlightlyStale`).
* `do_delete` passes the class for both sizes of `record_free` (`new_delete.cpp:256`), so
  frees through the operators count no waste.
* The wrap of `Arena` is described above.
* With the override linked *and* recording on, `deallocate()` makes no guard
  (`thread_pool_alloc.hpp:80`), so the `operator new` in the first `ring()`
  enters the allocator and calls `ring()` again inside the initialisation of its
  static. No target of `CMakeLists.txt` is built so, and `SoundBuilds` leaves it
  out.

## 5. What is proved

TLAPS checks these for every value of the constants that satisfies the named
assumptions of the modules. Most only give the constants their types and keep
markers such as `NULL` apart from what they mark (`PoolAssumption`,
`WordAssumption`, `WalkAssumption`, `StatisticsAssumption`, `RingAssumption`,
`VisualiserAssumption`, `NewDeleteAssumption`, `VectorAssumption`,
`ReentryAssumption`, `ArenaAssumption`, `FrontEndAssumption`). Five say more:

* `LayoutAssumption` (and `ClassesAssumption`, which repeats it for `FrontEnd`): the
  classes ascend to `MAX_SMALL`, a chunk holds its header and one block of any
  class, and chunks lie at multiples of their size;
* `ClassesDouble`: a class is at most twice the one before it. Only
  `WasteAlwaysBelowHalf` uses it;
* `SumsDoNotWrap`: `used_ + padding + size` fits a word (section 3, bounds);
* `MemoryAssumption`: what malloc returns for the slabs, the arena and the chunks
  does not overlap and does not cross the end of the address space.

TLC evaluates all of them on the instances of section 3.

**`BlockPool_proofs`.** `TypeCorrect`, `FreeListAlwaysLinked`, `FreeXorLive` and
`Refinement`: a pool of any slab size with any set of chunks keeps its list
linked, keeps every block free or live, and implements `FreeStack`. The
invariant is `IInv`, the conjunction of `TypeOK`, `FreeListLinked` and
`FreeOrLive`. None of the three is inductive alone. That a pop reads a pointer
and not a caller's data needs `FreeListLinked`; that a caller's write leaves
the list linked needs that a live block is not on it (`FreeOrLive`); and that a
newly linked slab is disjoint from the list needs that every block of the list
belongs to a linked slab. There is one step per action, on lemmas about the
linking loop and about sequences without repetition.

Of the walk, `WalkIsPool`: a walked pool is a pool of `BlockPool`, so that all that is proved
there holds here. `WalkTypeCorrect`, `WalkAlwaysInPool` and `UsedErrorAlwaysBounded` for any
slab size, set of chunks and number of moves. That the walk stays in the pool
needs only that every word of the pool points into it (`Closed`); where the pool is
`Counted` and, in the middle of `add_external_slab`, the slab not yet recorded. How far its
count is off needs more, as it can stray along the stale link of a block handed
out since. The invariant `WInv` says that two levels exist, functions that give
every free block its distance to the end of the list. In an upper level every
link leads to something smaller, so it bounds what a walk still counts; in a
lower level every link leads down by one at most, so a walk counts at least
that much. A pop keeps both. When the link of a block given back is stored, that
block is above the whole list in the upper already, and in the lower it is moved to
one above the list. The store of `head_`, and the linking of a slab, then put their
blocks at the top of both.

**`Statistics_proofs`.** For any number of addresses, threads and calls.
`RegistryAlwaysExact` and `VisitedAlwaysAlive` rest on `RegInv`, which adds to both the
shape of `visit`. A thread retires only when nobody visits, because both hold the
mutex; the proof that `erase` at one index takes out exactly one allocator is the lemma
about removing from a sequence without repetition.

`TypeCorrect` has one thing to show that is not a matter of types: `live_` never
falls below zero. `TypeInv` says why (`HeldFits`): whatever finite choice of blocks a thread
holds, their classes together fit into its `live_`.

`AlwaysSlightlyStale` is the refinement of `RunningTotals`. `SumInv` has the two facts it
rests on. `Tallied`: what has been stored so far is in the `Stats` of the live
and of the retired allocators, each once, field by field, the peak as a maximum and
the others as sums; a retirement moves one from the first to the second in one
step. `SumInBounds`, while a `global_stats` is under way: its total is no more
than what is now in the fields it has loaded, and together with what is in those it
has not loaded and in the retired it is no less than what was asked for. A store falls
into one part or the other and breaks neither; a load moves an allocator from
one to the other; and when the last one is loaded the two say that the answer lies
between the total at the call and the one at the return. That `global_stats`
adds the retired by a fold is `FoldJoins`.

**`Visualiser_proofs`.** Of the ring, `TypeCorrect`, `HoldsLatest`, `TailAlwaysLatest` and
`QuietSnapshotAlwaysExact` for every capacity. `RingHoldsLatest` alone is not
inductive, as it does not say where `head_` is relative to the count:
`HeadFollows` says that before the ring has filled `head_` is right behind the last event.
`PassSound` says what a reader knows of the present when it holds what its
first pass found. The modular arithmetic is isolated in lemmas about adding one
and about slots less than a capacity apart.

Of the program, `ViewerUsesRing`: every step of the program is a step of `EventRing` or leaves it alone.
`FeedAlwaysCurrentUntilFull` for any capacity, number of workers and length of the feed.
`FeedInv` adds to the property what the window's thread knows between its look at
the count and its copy: it has seen at most what there is, and its first pass
found at least that many events, or as many as the feed has lines.

**`NewDelete_proofs`.** `TypeCorrect` and `RegistryStaysAlive` for any number of
threads, regions, blocks and chunks and every program; `InUseStaysAllocated`,
`NeverMisfrees`, `NeverHandedOutTwice` and `NothingElseLeaks` for every program that
is a `SafeProgram`, one that does not both get freed addresses back and delete
blocks on threads that do not own them. The hypothesis is needed: `override_stale`
is the other case. None of the properties is inductive: whether the old buffer of a
`push_back` is still allocated when `GrowDrop` frees it depends on everything else
that could have been given its address since `Grow`. `IInv` has three parts. `TypeOK`;
`Control`, which says for each point a thread can be at what its allocator, its
frame and the mutexes then are; and `Memory`, which says what each region is
allocated for (`Tagged`), that each fallback allocation has exactly one use
(`Uses`: an object, a vector's buffer, one that will replace it, an over-aligned
object before or after it is stashed), where the blocks of each pool are (`HeldOK`,
`HeldOnce`, `Accounted`), and that, where no address comes back, the recorded list
contains only what is or was fallback memory (`RecordsOK`). The first two
parts hold of all programs, `Memory` of safe ones; each has one lemma per action.

`NeverGetsStuck` and `OperationsAlwaysAdvance` are as much of `OperationsEnd` as can be
proved, for any number of threads and every program. `NeverStuck`: while malloc has memory and an operation is under
way, some thread meets the condition of its next step (`CanStep`), whoever waits for a
mutex. `NearerToItsEnd`: each step of an operation leaves it fewer steps to its end
(`StepsLeft`, at most nine), and no step of another thread changes how many. The first
rests on two invariants beside `Control`. `Locks`: who holds a mutex is inside the
`push_back` it is for, and nothing in there waits. `Supplied`: the block that a refill
links is still there when the call retries, so the retry does not refill again.
That a thread which meets `CanStep` is also run, and gets a mutex in the end that
others keep taking, is fairness and stays with TLC.

**`Reentry_proofs`.** `TypeCorrect` for every build; `NeverDeadlocks`, `NeverSelfDeadlocks`,
`NestedNewsFallBack`, `NeverReentered`, `NothingIsLeftBehind` and `GoneStaysAlone` for
every `SoundBuild`, any number of threads and refills, and stacks of any height.
A build with the override is sound if the `thread_local`'s guard is set first and
no events are recorded: `reentry_itanium` shows what happens otherwise. `Nesting`
has two halves for each thread: `StackOK`, which calls can be inside which and
where a guard must lie below, and `ThreadOK`, that the flags, mutexes and the ring
are what the stack says. Neither is inductive alone. The steps of the ten
functions change the top of a stack in three ways (a call moves on, makes a
call, returns), and what each way preserves is proved once. `NoDeadlock` follows
from the order in which things are held: nothing that may run under the
registry's mutex or while the ring is made waits, and under `CentralHeap`'s mutex
only the ring is waited for. That a thread which waits for nobody also returns is
`CallsReturn`.

**`Layout_proofs`.** `SmallestFitsAlways` and `ChunkAlwaysHoldsItsBlocks` for every list
of classes, chunk size and request. `WasteAlwaysBelowHalf`, that rounding up loses less
than half of a block, follows from the first and from `ClassesDouble`; TLC checks
these two on the constants of the code, and the waste not once more.

**`FrontEnd_proofs`.** `ObjectsStayApart` and `FragmentationAlwaysPadding` of the arena,
and `TypeCorrect`, `BlocksStayApart`, `ClassifyAlwaysExact` and `LiveBytesAlwaysExact` of the
whole front-end, for any classes, regions, alignments and requests. `FeInv` is the
conjunction of `ArenaInv`, `Pools` and `Counted`. `BlocksApart` says only that
no byte belongs to two things: that `deallocate_containing` keeps this needs that the
block it computes from an interior pointer is the holder's own, so `Pools` says that
a pool's free and held blocks are exactly the blocks of its regions, that two
regions of any pools are apart, and that no two holders have one block. That
`live_` does not go below zero needs that it is a sum over what is held
(`Counted`). The arithmetic (alignment, the division in `BlockAt`, a chunk's
blocks) is in lemmas of its own.

**`Recursion`.** The loop of `size_class_index`, the sums of `MapThenSumSet` and the
totals of statistics, sums or maxima, are recursive functions, which TLA+ defines by a `CHOOSE`: one has to show
that such a function exists and what its values are. The library's induction
theorems cannot be instantiated with the installed provers, so these inductions
are carried out by hand, on the least element of a set of counterexamples, which
`WellFoundedInduction` provides.

## 6. What is only model-checked, and what is not modelled

Model-checked only: all liveness (`OperationsEnd`, `CallsReturn`, `WalkEnds`,
`ShutdownEnds`: temporal reasoning with fairness and `ENABLED` is beyond the prover
used). The four violations of section 4 are TLC's.

Not modelled: malloc or a vector's growth failing; the reallocation of
`external_slabs_` under a walk; timestamps and thread ids of events; objects that
outlive the thread they were allocated on; a deallocation that breaks the rules
of the direct API; counters that reach the width of a word. What the visualiser
draws, and the rate and plots it computes from the totals, are left out. The
programs under `bench/` and `src/frag_report.cpp`, the tests and the build keep no
state of the allocator.

## 7. Plan

Done, in this order: `BlockPool` and its refinement, `NewDelete`, `Reentry`,
`EventRing`, `Arena`, `Layout`, and the proofs of `BlockPool` and `EventRing`; then
`PoolWalk`, `Statistics` and `Visualiser` with their proofs, the over-aligned operators in
`NewDelete`, and `FrontEnd`; then the proofs of `NewDelete`, `Reentry`, `Layout`, `Arena` and
`FrontEnd`.

What would come next:

1. Failure: malloc returning null and `push_back` throwing between two steps of
   `add_external_slab`, `acquire_chunk` and the registration.
2. An abstract specification of ownership (objects, who may free them, what
   leaks), implemented by `NewDelete`.
3. Objects that outlive the thread that allocated them, and timestamps of events.

Theorems to prove: the refinement of the ownership specification, and the invariants
above with the failures of point 1 in the model.
