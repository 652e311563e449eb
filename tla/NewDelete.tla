------------------------------ MODULE NewDelete ------------------------------
(***************************************************************************)
(* The global operator new and delete (src/new_delete.cpp) over the        *)
(* per-thread allocators (ThreadPoolAlloc, thread_pool_alloc.hpp), the     *)
(* shared CentralHeap (central_heap.hpp), the registry of live allocators  *)
(* (StatsRegistry, stats.hpp) and the list of malloc fallback pointers.    *)
(*                                                                         *)
(* A region is the memory one malloc returns, named by its address; an     *)
(* address can come back after it is freed only if Recycle.  A pointer is  *)
(* <<region, index>>.  malloc returns <<r, 0>>; a pool's slab is the       *)
(* blocks 0 .. SlabBlocks-1 of its region, the body of a chunk starts one  *)
(* unit in, after the header.  Each thread has one pool: which of the      *)
(* seven a size goes to, and the order of a free list, play no part here.  *)
(* Registration pushes to two vectors of the same length in turn; the one   *)
(* of live allocators stands for both.                                      *)
(*                                                                         *)
(* The allocator's own vectors (live and retired of the registry, chunks_, *)
(* external_slabs_ of each pool) grow through the very operators modelled, *)
(* with the thread's active flag set: the new buffer comes from malloc and *)
(* is recorded, the old one goes through do_delete.  That nesting is what  *)
(* makes threads meet: recording is a load and a later store of            *)
(* g_malloc_recs that no lock protects.                                    *)
(*                                                                         *)
(* This is the build in which a thread_local counts as initialised as soon *)
(* as its constructor starts; module Reentry has the other one.            *)
(***************************************************************************)
EXTENDS Naturals, FiniteSets

CONSTANTS Threads,       \* threads of the program
          Main,          \* the one that runs main()
          MaxRegion,     \* bound: addresses malloc can return
          SlabBlocks,    \* blocks of a pool's own slab
          ChunkBlocks,   \* blocks carved from a chunk
          ArenaBlocks,   \* large objects an arena has room for
          MaxChunks,     \* bound: chunks acquired
          Fallbacks,     \* bound: fallback objects the clients ask for
          Programs,      \* what the program may be: see Recycle, CrossDelete and Asks
          NULL

ASSUME NewDeleteAssumption ==
  /\ Main \in Threads
  /\ MaxRegion \in Nat /\ SlabBlocks \in Nat \ {0} /\ ChunkBlocks \in Nat \ {0}
  /\ ArenaBlocks \in Nat /\ MaxChunks \in Nat /\ Fallbacks \in Nat
  /\ Programs \subseteq [recycle : BOOLEAN, cross : BOOLEAN, asks : SUBSET {"plain", "aligned", "large"}]
  /\ NULL \notin Nat \cup Threads

Region  == 1 .. MaxRegion
Pointer == Region \X Nat
Vector  == {"live", "retired", "chunks", "stash"} \X {NULL} \cup {"ext"} \X Threads
Shared(name) == <<name, NULL>>     \* a vector of the registry, CentralHeap or Main
Ext(t)       == <<"ext", t>>       \* external_slabs_ of t's pool
Client       == <<"client", NULL>> \* for a fallback new that a client asked for

ASSUME VectorAssumption == NULL \notin Vector \cup {Client}

VARIABLES
  program, \* which of Programs this is
  ready,   \* g_ready
  tls,     \* per thread: "none", "building", "live" or "gone" (allocator_gone)
  pc,      \* per thread: "idle", or the step it is at inside an operation
  frame,   \* per thread: the push_back or fallback new it is in
  mutex,   \* who holds the registry's mutex and CentralHeap's
  slab, arena,  \* per thread: the regions its allocator malloc'ed (NULL: none)
  used,    \* per thread: large objects cut from the arena so far
  ext,     \* per thread: chunks in external_slabs_
  free,    \* per thread: blocks on the free list
  fetched, \* per thread: the chunk acquire_chunk made, until it is linked
  chunks,  \* chunks_ of CentralHeap
  buf,     \* buffer of each vector (NULL: never grown)
  reg,     \* threads whose allocator is in live_allocators
  recs,    \* addresses on the list g_malloc_recs
  lost,    \* history: addresses a store of g_malloc_recs dropped from it
  stash,   \* payloads in Main's g_aligned_scratch
  heap,    \* what each region is allocated for, and by which thread
  asked,   \* fallback objects the clients have asked for
  held,    \* objects the clients hold
  leaked,  \* history: what a delete left alone, and who called it
  misfree  \* history: std::free was given memory that is not what it is taken for

allocVars  == <<slab, arena, used, ext, free, fetched>>
sharedVars == <<program, ready, mutex, chunks, buf, reg>>
clientVars == <<asked, held, stash, leaked, misfree>>
vars == <<tls, pc, frame, recs, lost, heap, allocVars, sharedVars, clientVars>>

Fresh == <<"fresh", NULL>>    \* never allocated
Freed == <<"freed", NULL>>

Recycle     == program.recycle  \* malloc may return an address that was freed before
CrossDelete == program.cross    \* blocks are deleted on threads other than the owner
Asks(what)  == what \in program.asks    \* what the clients ask for besides blocks

Kinds  == {"pool", "arena", "malloc", "aligned"}
Object == [ptr : Pointer, by : Threads, kind : Kinds]
At(p, t, k) == [ptr |-> p, by |-> t, kind |-> k]

NoFrame == [vec |-> NULL, old |-> NULL, new |-> NULL, next |-> {}]
FrameOf(v) == [NoFrame EXCEPT !.vec = v, !.old = IF v \in Vector THEN buf[v] ELSE NULL]
Inside(v) == {t \in Threads : frame[t].vec = v}

(* Addresses malloc may return when the heap is h: the next one never used, *)
(* or one that was freed.                                                   *)
Mallocable(h) ==
  {r \in Region : \/ h[r] = Fresh /\ \A s \in 1 .. r - 1 : h[s] # Fresh
                  \/ Recycle /\ h[r] = Freed}

SlabOf(r)  == {<<r, i>> : i \in 0 .. SlabBlocks - 1}
BodyOf(r)  == {<<r, i>> : i \in 1 .. ChunkBlocks}
ArenaOf(t) == {<<arena[t], i>> : i \in 0 .. used[t] - 1}

(* contains() of t's pool, over its slab and its external slabs. *)
PoolOf(t) == (IF slab[t] = NULL THEN {} ELSE SlabOf(slab[t]))
               \cup UNION {BodyOf(r) : r \in ext[t]}

(* Other threads run between init_allocator and the end of main, which joins *)
(* them; Main goes on into the static destructors.                          *)
Running(t) == t = Main \/ (ready /\ tls[Main] = "live")
AtRest(t)  == Running(t) /\ pc[t] = "idle"

Init == /\ program \in Programs
        /\ ready = FALSE
        /\ tls = [t \in Threads |-> "none"]
        /\ pc = [t \in Threads |-> "idle"]
        /\ frame = [t \in Threads |-> NoFrame]
        /\ mutex = [m \in {"registry", "central"} |-> NULL]
        /\ slab = [t \in Threads |-> NULL]
        /\ arena = [t \in Threads |-> NULL]
        /\ used = [t \in Threads |-> 0]
        /\ ext = [t \in Threads |-> {}]
        /\ free = [t \in Threads |-> {}]
        /\ fetched = [t \in Threads |-> NULL]
        /\ chunks = {}
        /\ buf = [v \in Vector |-> NULL]
        /\ reg = {}
        /\ recs = {}
        /\ lost = {}
        /\ stash = {}
        /\ heap = [r \in Region |-> Fresh]
        /\ asked = 0
        /\ held = {}
        /\ leaked = {}
        /\ misfree = FALSE
------------------------------------------------------------------------------
(* do_new's malloc fallback, and record_malloc_ptr up to its load of        *)
(* g_malloc_recs: the new record will point to what the list holds now.     *)
FallbackBegin(t, f) ==
  \E r \in Mallocable(heap) :
    /\ heap' = [heap EXCEPT ![r] = <<"fallback", t>>]
    /\ frame' = [frame EXCEPT ![t] = [f EXCEPT !.new = r, !.next = recs]]
    /\ pc' = [pc EXCEPT ![t] = "store"]

(* Mutated form: the new record is not what is stored. *)
PublishUnlinked(t) == /\ recs' = frame[t].next
                      /\ lost' = lost \cup (recs \ recs')

(* The store of g_malloc_recs: the list is now this record and what it      *)
(* points to, whatever was stored since the load; those others are lost.    *)
Publish(t) == /\ recs' = frame[t].next \cup {frame[t].new}
              /\ lost' = lost \cup (recs \ recs')

(* do_delete(o.ptr) on thread t.  The origin decides: for a payload in t's   *)
(* stash the memory it lies in is freed, a block of t's own pool goes back  *)
(* to it, the arena ignores its objects, a recorded pointer goes to         *)
(* std::free, and anything else is left alone.                              *)
Classifies(t) == ready /\ tls[t] # "gone"

(* Mutated form: the external slabs are not asked. *)
InPoolOwnSlabOnly(t, p) == Classifies(t) /\ slab[t] # NULL /\ p \in SlabOf(slab[t])

InPool(t, p)  == Classifies(t) /\ p \in PoolOf(t)
InArena(t, p) == Classifies(t) /\ p \in ArenaOf(t)

(* Mutated form: what nobody else claims must be malloc's. *)
RecordedUnasked(p) == TRUE

Recorded(p)   == p[2] = 0 /\ p[1] \in recs

(* The stash is thread_local, and only Main has put anything in its own: see  *)
(* NewAligned for the threads whose allocator is gone.                       *)
InStash(t, p) == t = Main /\ p \in stash

(* ... safe_free of the memory, and the entry is erased. *)
Unstash(t, o) == /\ InStash(t, o.ptr)
                 /\ heap' = [heap EXCEPT ![o.ptr[1]] = Freed]
                 /\ misfree' = (misfree \/ heap[o.ptr[1]] # <<"fallback", t>>)
                 /\ stash' = stash \ {o.ptr}
                 /\ UNCHANGED <<free, leaked>>

Unowned(t, p) == ~InStash(t, p) /\ ~InPool(t, p) /\ ~InArena(t, p)

DoDelete(t, o) ==
  \/ Unstash(t, o)
  \/ /\ ~InStash(t, o.ptr) /\ InPool(t, o.ptr)
     /\ free' = [free EXCEPT ![t] = @ \cup {o.ptr}]
     /\ UNCHANGED <<heap, stash, leaked, misfree>>
  \/ /\ ~InStash(t, o.ptr) /\ InArena(t, o.ptr)
     /\ UNCHANGED <<free, heap, stash, leaked, misfree>>
  \/ /\ Unowned(t, o.ptr) /\ Recorded(o.ptr)
     /\ heap' = [heap EXCEPT ![o.ptr[1]] = Freed]
     /\ misfree' = (misfree \/ heap[o.ptr[1]][1] # "fallback")
     /\ UNCHANGED <<free, stash, leaked>>
  \/ /\ Unowned(t, o.ptr) /\ ~Recorded(o.ptr)
     /\ leaked' = leaked \cup {[obj |-> o, deleter |-> t]}
     /\ UNCHANGED <<free, heap, stash, misfree>>

Buffer(r, t) == At(<<r, 0>>, t, "malloc")
------------------------------------------------------------------------------
(* push_back of the allocator's vectors.  The thread holds the mutex that   *)
(* guards a shared one from before "push" until the push_back is done.      *)

(* What each operation does once its push_back has returned. *)
Registered(t) == /\ reg' = reg \cup {t}
                 /\ tls' = [tls EXCEPT ![t] = "live"]
                 /\ mutex' = [mutex EXCEPT !["registry"] = NULL]
                 /\ pc' = [pc EXCEPT ![t] = "idle"]
                 /\ UNCHANGED <<chunks, ext, fetched>>

(* Mutated form: the allocator stays registered. *)
RetiredStillRegistered(t) == /\ mutex' = [mutex EXCEPT !["registry"] = NULL]
                             /\ pc' = [pc EXCEPT ![t] = "destroy"]
                             /\ UNCHANGED <<tls, reg, chunks, ext, fetched>>

(* Mutated form: the mutex stays locked. *)
RetiredStillLocked(t) == /\ reg' = reg \ {t}
                         /\ pc' = [pc EXCEPT ![t] = "destroy"]
                         /\ UNCHANGED <<mutex, tls, chunks, ext, fetched>>

Retired(t) == /\ reg' = reg \ {t}
              /\ mutex' = [mutex EXCEPT !["registry"] = NULL]
              /\ pc' = [pc EXCEPT ![t] = "destroy"]
              /\ UNCHANGED <<tls, chunks, ext, fetched>>

Acquired(t) == /\ chunks' = chunks \cup {fetched[t]}
               /\ mutex' = [mutex EXCEPT !["central"] = NULL]
               /\ pc' = [pc EXCEPT ![t] = "link"]
               /\ UNCHANGED <<tls, reg, ext, fetched>>

Linked(t) == /\ ext' = [ext EXCEPT ![t] = @ \cup {fetched[t]}]
             /\ fetched' = [fetched EXCEPT ![t] = NULL]
             /\ pc' = [pc EXCEPT ![t] = "retry"]
             /\ UNCHANGED <<tls, reg, chunks, mutex>>

Stashed(t) == /\ pc' = [pc EXCEPT ![t] = "stashed"]
              /\ UNCHANGED <<tls, reg, chunks, mutex, ext, fetched>>

Pushed(t) == \/ frame[t].vec = Shared("live") /\ Registered(t)
             \/ frame[t].vec = Shared("retired") /\ Retired(t)
             \/ frame[t].vec = Shared("chunks") /\ Acquired(t)
             \/ frame[t].vec = Ext(t) /\ Linked(t)
             \/ frame[t].vec = Shared("stash") /\ Stashed(t)

(* There was room: how much a vector grows by is the library's affair. *)
PushInPlace(t) == /\ pc[t] = "push" /\ frame[t].old # NULL
                  /\ Pushed(t)
                  /\ frame' = [frame EXCEPT ![t] = NoFrame]
                  /\ UNCHANGED <<program, ready, slab, arena, used, free, buf, recs, lost, heap, clientVars>>

(* There was not: the new buffer, its record, and then the old buffer. *)
Grow(t) == /\ pc[t] = "push"
           /\ FallbackBegin(t, frame[t])
           /\ UNCHANGED <<tls, recs, lost, allocVars, sharedVars, clientVars>>

GrowStore(t) == /\ pc[t] = "store" /\ frame[t].vec # Client
                /\ Publish(t)
                /\ pc' = [pc EXCEPT ![t] = "drop"]
                /\ UNCHANGED <<tls, frame, heap, allocVars, sharedVars, clientVars>>

GrowDrop(t) == /\ pc[t] = "drop"
               /\ buf' = [buf EXCEPT ![frame[t].vec] = frame[t].new]
               /\ IF frame[t].old = NULL
                  THEN UNCHANGED <<free, heap, stash, leaked, misfree>>
                  ELSE DoDelete(t, Buffer(frame[t].old, t))
               /\ Pushed(t)
               /\ frame' = [frame EXCEPT ![t] = NoFrame]
               /\ UNCHANGED <<program, ready, slab, arena, used, recs, lost, asked, held>>
------------------------------------------------------------------------------
(* ThreadPoolAlloc::instance() on a thread that has none yet: init_allocator *)
(* on Main, the first allocation or delete elsewhere.  Pools and arena come  *)
(* straight from malloc; then register_stats.                               *)
Construct(t) ==
  /\ AtRest(t) /\ tls[t] = "none"
  /\ \E s \in Mallocable(heap) :
       LET h == [heap EXCEPT ![s] = <<"slab", t>>]
       IN \E a \in Mallocable(h) :
            /\ heap' = [h EXCEPT ![a] = <<"arena", t>>]
            /\ slab' = [slab EXCEPT ![t] = s]
            /\ arena' = [arena EXCEPT ![t] = a]
            /\ free' = [free EXCEPT ![t] = SlabOf(s)]
  /\ tls' = [tls EXCEPT ![t] = "building"]
  /\ pc' = [pc EXCEPT ![t] = "register"]
  /\ UNCHANGED <<frame, recs, lost, used, ext, fetched, sharedVars, clientVars>>

(* lock_guard of register_stats and of retire_stats. *)
LockRegistry(t) ==
  /\ pc[t] \in {"register", "retire"} /\ mutex["registry"] = NULL
  /\ mutex' = [mutex EXCEPT !["registry"] = t]
  /\ frame' = [frame EXCEPT ![t] =
                 FrameOf(Shared(IF pc[t] = "register" THEN "live" ELSE "retired"))]
  /\ pc' = [pc EXCEPT ![t] = "push"]
  /\ UNCHANGED <<tls, recs, lost, heap, allocVars, program, ready, chunks, buf, reg, clientVars>>

(* The end of init_allocator. *)
SetReady == /\ tls[Main] = "live" /\ pc[Main] = "idle" /\ ~ready
            /\ ready' = TRUE
            /\ UNCHANGED <<program, tls, pc, frame, recs, lost, heap, allocVars, mutex, chunks, buf, reg, clientVars>>

Served(t) == Running(t) /\ ready /\ tls[t] = "live"

(* Mutated form: the retry after a refill leaves the block on the list. *)
NewBlockUnpopped(t) == /\ Served(t) /\ pc[t] \in {"idle", "retry"}
                       /\ \E b \in free[t] :
                            /\ free' = IF pc[t] = "retry" THEN free ELSE [free EXCEPT ![t] = @ \ {b}]
                            /\ held' = held \cup {At(b, t, "pool")}
                       /\ pc' = [pc EXCEPT ![t] = "idle"]
                       /\ UNCHANGED <<tls, frame, recs, lost, heap, slab, arena, used, ext, fetched,
                                      sharedVars, asked, stash, leaked, misfree>>

(* operator new, small: pop a block of the thread's pool; after a refill the *)
(* retry of the same request.                                               *)
NewBlock(t) == /\ Served(t) /\ pc[t] \in {"idle", "retry"}
               /\ \E b \in free[t] :
                    /\ free' = [free EXCEPT ![t] = @ \ {b}]
                    /\ held' = held \cup {At(b, t, "pool")}
               /\ pc' = [pc EXCEPT ![t] = "idle"]
               /\ UNCHANGED <<tls, frame, recs, lost, heap, slab, arena, used, ext, fetched,
                              sharedVars, asked, stash, leaked, misfree>>

(* Mutated form: the arena's capacity is not compared. *)
NewLargeUnbounded(t) == /\ Served(t) /\ pc[t] = "idle" /\ Asks("large")
                        /\ used' = [used EXCEPT ![t] = @ + 1]
                        /\ held' = held \cup {At(<<arena[t], used[t]>>, t, "arena")}
                        /\ UNCHANGED <<tls, pc, frame, recs, lost, heap, slab, arena, ext, free, fetched,
                                       sharedVars, asked, stash, leaked, misfree>>

(* operator new, large: bump the arena. *)
NewLarge(t) == /\ Served(t) /\ pc[t] = "idle" /\ Asks("large") /\ used[t] < ArenaBlocks
               /\ used' = [used EXCEPT ![t] = @ + 1]
               /\ held' = held \cup {At(<<arena[t], used[t]>>, t, "arena")}
               /\ UNCHANGED <<tls, pc, frame, recs, lost, heap, slab, arena, ext, free, fetched,
                              sharedVars, asked, stash, leaked, misfree>>

(* operator new on an empty pool: the chunk source is called. *)
Fetching == {t \in Threads : pc[t] = "refill"} \cup Inside(Shared("chunks"))

Exhausted(t) == /\ Served(t) /\ pc[t] = "idle" /\ free[t] = {}
                /\ Cardinality(chunks) + Cardinality(Fetching) < MaxChunks
                /\ pc' = [pc EXCEPT ![t] = "refill"]
                /\ UNCHANGED <<tls, frame, recs, lost, heap, allocVars, sharedVars, clientVars>>

(* acquire_chunk, under CentralHeap's mutex, makes the chunk and records it  *)
(* in chunks_.                                                              *)
AcquireChunk(t) ==
  /\ pc[t] = "refill" /\ mutex["central"] = NULL
  /\ mutex' = [mutex EXCEPT !["central"] = t]
  /\ \E r \in Mallocable(heap) : /\ heap' = [heap EXCEPT ![r] = <<"chunk", t>>]
                                 /\ fetched' = [fetched EXCEPT ![t] = r]
  /\ frame' = [frame EXCEPT ![t] = FrameOf(Shared("chunks"))]
  /\ pc' = [pc EXCEPT ![t] = "push"]
  /\ UNCHANGED <<tls, recs, lost, slab, arena, used, ext, free, program, ready, chunks, buf, reg, clientVars>>

(* add_external_slab: the blocks join the free list before the region joins *)
(* external_slabs_.                                                         *)
AddExternalSlab(t) ==
  /\ pc[t] = "link"
  /\ free' = [free EXCEPT ![t] = @ \cup BodyOf(fetched[t])]
  /\ frame' = [frame EXCEPT ![t] = FrameOf(Ext(t))]
  /\ pc' = [pc EXCEPT ![t] = "push"]
  /\ UNCHANGED <<tls, recs, lost, heap, slab, arena, used, ext, fetched, sharedVars, clientVars>>

(* operator new before g_ready or after the thread's allocator is gone. *)
NewFallback(t) == /\ AtRest(t) /\ (~ready \/ tls[t] = "gone")
                  /\ Asks("plain") /\ asked < Fallbacks
                  /\ asked' = asked + 1
                  /\ FallbackBegin(t, FrameOf(Client))
                  /\ UNCHANGED <<tls, recs, lost, allocVars, sharedVars, held, stash, leaked, misfree>>

FallbackStore(t) == /\ pc[t] = "store" /\ frame[t].vec = Client
                    /\ Publish(t)
                    /\ held' = held \cup {At(<<frame[t].new, 0>>, t, "malloc")}
                    /\ frame' = [frame EXCEPT ![t] = NoFrame]
                    /\ pc' = [pc EXCEPT ![t] = "idle"]
                    /\ UNCHANGED <<tls, heap, allocVars, sharedVars, asked, stash, leaked, misfree>>

(* Over-aligned operator new before g_ready: the memory is not recorded, the *)
(* payload cut from it goes to the stash, whose push_back allocates through *)
(* operator new again.  malloc may happen to return aligned memory.  The code *)
(* goes the same way when the thread's allocator is gone: g_aligned_scratch, a *)
(* thread_local too, can be destroyed by then, and a program that asks for     *)
(* over-aligned memory that late is left out.                               *)
NewAligned(t) == /\ AtRest(t) /\ ~ready
                 /\ Asks("aligned") /\ asked < Fallbacks
                 /\ asked' = asked + 1
                 /\ \E r \in Mallocable(heap) : /\ heap' = [heap EXCEPT ![r] = <<"fallback", t>>]
                                                /\ fetched' = [fetched EXCEPT ![t] = r]
                 /\ frame' = [frame EXCEPT ![t] = FrameOf(Shared("stash"))]
                 /\ pc' = [pc EXCEPT ![t] = "push"]
                 /\ UNCHANGED <<tls, recs, lost, slab, arena, used, ext, free, sharedVars,
                                held, stash, leaked, misfree>>

AlignedReturn(t) == /\ pc[t] = "stashed"
                    /\ \E offset \in {0, 1} :
                         LET payload == <<fetched[t], offset>>
                         IN /\ stash' = stash \cup {payload}
                            /\ held' = held \cup {At(payload, t, "aligned")}
                    /\ fetched' = [fetched EXCEPT ![t] = NULL]
                    /\ pc' = [pc EXCEPT ![t] = "idle"]
                    /\ UNCHANGED <<tls, frame, recs, lost, heap, slab, arena, used, ext, free, sharedVars,
                                   asked, leaked, misfree>>

(* operator delete.  A fallback allocation may be deleted by any thread, a  *)
(* block by its owner; with CrossDelete the clients do not keep to that.    *)
Delete(t, o) == /\ AtRest(t) /\ (~ready \/ tls[t] # "none")
                /\ o \in held /\ (o.by = t \/ o.kind = "malloc" \/ CrossDelete)
                /\ held' = held \ {o}
                /\ DoDelete(t, o)
                /\ UNCHANGED <<tls, pc, frame, recs, lost, slab, arena, used, ext, fetched, sharedVars, asked>>

(* ~ThreadPoolAlloc at thread exit: gone from here on, then retire_stats.   *)
(* The thread's clients have given back what its allocator handed out, as   *)
(* its memory goes with it.                                                 *)
Exit(t) == /\ AtRest(t) /\ tls[t] = "live" /\ ready
           /\ \A o \in held : o.by = t => o.kind = "malloc"
           /\ t = Main => \A u \in Threads \ {Main} : tls[u] \in {"none", "gone"} /\ pc[u] = "idle"
           /\ tls' = [tls EXCEPT ![t] = "gone"]
           /\ pc' = [pc EXCEPT ![t] = "retire"]
           /\ UNCHANGED <<frame, recs, lost, heap, allocVars, sharedVars, clientVars>>

(* Mutated form: the pool frees the chunks it was lent, as it does its slab. *)
DestroyWithChunks(t) ==
  /\ pc[t] = "destroy"
  /\ heap' = [r \in Region |-> IF r \in {slab[t], arena[t]} \cup ext[t] THEN Freed ELSE heap[r]]
  /\ slab' = [slab EXCEPT ![t] = NULL]
  /\ arena' = [arena EXCEPT ![t] = NULL]
  /\ used' = [used EXCEPT ![t] = 0]
  /\ free' = [free EXCEPT ![t] = {}]
  /\ ext' = [ext EXCEPT ![t] = {}]
  /\ pc' = [pc EXCEPT ![t] = IF buf[Ext(t)] = NULL THEN "idle" ELSE "dropext"]
  /\ UNCHANGED <<tls, frame, recs, lost, fetched, sharedVars, asked, held, stash, leaked, misfree>>

(* ~SingleThreadAllocator: the arena and the pool's slab are freed, chunks   *)
(* are not.                                                                 *)
Destroy(t) == /\ pc[t] = "destroy"
              /\ heap' = [heap EXCEPT ![slab[t]] = Freed, ![arena[t]] = Freed]
              /\ misfree' = (misfree \/ heap[slab[t]] # <<"slab", t>> \/ heap[arena[t]] # <<"arena", t>>)
              /\ slab' = [slab EXCEPT ![t] = NULL]
              /\ arena' = [arena EXCEPT ![t] = NULL]
              /\ used' = [used EXCEPT ![t] = 0]
              /\ free' = [free EXCEPT ![t] = {}]
              /\ ext' = [ext EXCEPT ![t] = {}]
              /\ pc' = [pc EXCEPT ![t] = IF buf[Ext(t)] = NULL THEN "idle" ELSE "dropext"]
              /\ UNCHANGED <<tls, frame, recs, lost, fetched, sharedVars, asked, held, stash, leaked>>

(* ... and the buffer of external_slabs_. *)
DropExt(t) == /\ pc[t] = "dropext"
              /\ DoDelete(t, Buffer(buf[Ext(t)], t))
              /\ buf' = [buf EXCEPT ![Ext(t)] = NULL]
              /\ pc' = [pc EXCEPT ![t] = "idle"]
              /\ UNCHANGED <<tls, frame, recs, lost, slab, arena, used, ext, fetched,
                             program, ready, mutex, chunks, reg, asked, held>>

(* Static destructors, on Main after its allocator and its stash (which was  *)
(* there first): ~CentralHeap frees every chunk, ...                        *)
Statics == tls[Main] = "gone" /\ pc[Main] = "idle"

FreeChunks == /\ Statics /\ chunks # {} /\ buf[Shared("stash")] = NULL
              /\ heap' = [r \in Region |-> IF r \in chunks THEN Freed ELSE heap[r]]
              /\ misfree' = (misfree \/ \E r \in chunks : heap[r][1] # "chunk")
              /\ chunks' = {}
              /\ UNCHANGED <<tls, pc, frame, recs, lost, allocVars, program, ready, mutex, buf, reg, asked, held, stash, leaked>>

(* ... and the vectors of CentralHeap and StatsRegistry give up their         *)
(* buffers, as the stash did at the end of its thread.                      *)
DropShared(v) == /\ Statics /\ buf[v] # NULL
                 /\ v # Shared("stash") => buf[Shared("stash")] = NULL
                 /\ v = Shared("chunks") => chunks = {}
                 /\ DoDelete(Main, Buffer(buf[v], Main))
                 /\ buf' = [buf EXCEPT ![v] = NULL]
                 /\ UNCHANGED <<tls, pc, frame, recs, lost, slab, arena, used, ext, fetched,
                                program, ready, mutex, chunks, reg, asked, held>>
------------------------------------------------------------------------------
(* Steps of an operation already under way: the thread takes them whenever  *)
(* it is scheduled.                                                         *)
Work(t) == \/ LockRegistry(t) \/ AcquireChunk(t) \/ PushInPlace(t) \/ Grow(t) \/ GrowStore(t) \/ GrowDrop(t)
           \/ AddExternalSlab(t) \/ FallbackStore(t) \/ AlignedReturn(t) \/ Destroy(t) \/ DropExt(t)
           \/ pc[t] = "retry" /\ NewBlock(t)

(* Operations the program chooses to start. *)
Call(t) == \/ Construct(t) \/ NewBlock(t) \/ NewLarge(t) \/ Exhausted(t) \/ NewFallback(t) \/ NewAligned(t)
           \/ (\E o \in held : Delete(t, o))
           \/ Exit(t)

Next == \/ \E t \in Threads : Work(t) \/ Call(t)
        \/ SetReady
        \/ FreeChunks
        \/ \E name \in {"stash", "live", "retired", "chunks"} : DropShared(Shared(name))

Spec == Init /\ [][Next]_vars
FairSpec == Spec /\ \A t \in Threads : WF_vars(Work(t))
------------------------------------------------------------------------------
Tag == {Fresh, Freed} \cup {"slab", "arena", "chunk", "fallback"} \X Threads

FrameType == [vec : Vector \cup {Client, NULL}, old : Region \cup {NULL},
              new : Region \cup {NULL}, next : SUBSET Region]

(* Every variable has its type. *)
TypeOK ==
  /\ program \in Programs
  /\ ready \in BOOLEAN
  /\ tls \in [Threads -> {"none", "building", "live", "gone"}]
  /\ pc \in [Threads -> {"idle", "register", "retire", "refill", "push", "store",
                          "drop", "link", "retry", "stashed", "destroy", "dropext"}]
  /\ frame \in [Threads -> FrameType]
  /\ mutex \in [{"registry", "central"} -> Threads \cup {NULL}]
  /\ slab \in [Threads -> Region \cup {NULL}]
  /\ arena \in [Threads -> Region \cup {NULL}]
  /\ used \in [Threads -> 0 .. ArenaBlocks]
  /\ ext \in [Threads -> SUBSET Region]
  /\ free \in [Threads -> SUBSET Pointer]
  /\ fetched \in [Threads -> Region \cup {NULL}]
  /\ chunks \subseteq Region
  /\ buf \in [Vector -> Region \cup {NULL}]
  /\ reg \subseteq Threads
  /\ recs \subseteq Region
  /\ lost \subseteq Region
  /\ stash \subseteq Pointer
  /\ heap \in [Region -> Tag]
  /\ asked \in 0 .. Fallbacks
  /\ held \subseteq Object
  /\ leaked \subseteq [obj : Object, deleter : Threads]
  /\ misfree \in BOOLEAN

(* Whatever is in use is still allocated, and for that use: no delete, no    *)
(* exit and no growth on any thread has pulled memory from under a pool, an  *)
(* arena, CentralHeap's chunks, a vector's buffer, a client's object or a   *)
(* payload the stash still has.                                             *)
InUseIsAllocated ==
  /\ \A t \in Threads : slab[t] # NULL => /\ heap[slab[t]] = <<"slab", t>>
                                         /\ heap[arena[t]] = <<"arena", t>>
  /\ \A r \in chunks : heap[r][1] = "chunk"
  /\ \A v \in Vector : buf[v] # NULL => heap[buf[v]][1] = "fallback"
  /\ \A p \in stash : heap[p[1]] = <<"fallback", Main>>
  /\ \A o \in held : heap[o.ptr[1]] \in
       CASE o.kind = "pool" -> {<<"slab", o.by>>, <<"chunk", o.by>>}
         [] o.kind = "arena" -> {<<"arena", o.by>>}
         [] o.kind \in {"malloc", "aligned"} -> {<<"fallback", o.by>>}

(* std::free is only ever given memory of the kind its caller takes it for,  *)
(* and never twice.                                                         *)
NoMisfree == ~misfree

(* No memory is handed out twice: two objects are never at one address, and  *)
(* a block the clients hold is on nobody's free list, nor any on two lists.  *)
HandedOutOnce ==
  /\ \A o1, o2 \in held : o1.ptr = o2.ptr => o1 = o2
  /\ \A t \in Threads, o \in held : o.ptr \notin free[t]
  /\ \A t, u \in Threads : t # u => free[t] \cap free[u] = {}

(* What is lost is accounted for.  Between operations every block of a        *)
(* thread's pool is free, held, or was deleted on a thread that does not own *)
(* it.  A delete leaves a block or an over-aligned object alone only on a    *)
(* thread that did not allocate it; a fallback object or the old buffer of a *)
(* vector only if a concurrent store of g_malloc_recs dropped its record,    *)
(* and then on whatever thread.                                             *)
BlocksOf(S, t) == {o.ptr : o \in {o \in S : o.kind = "pool" /\ o.by = t}}
LeakedObjects  == {l.obj : l \in leaked}
LeaksAccountedFor ==
  /\ \A t \in Threads : tls[t] = "live" /\ pc[t] = "idle" =>
       PoolOf(t) = free[t] \cup BlocksOf(held, t) \cup BlocksOf(LeakedObjects, t)
  /\ \A l \in leaked : IF l.obj.kind = "malloc" THEN l.obj.ptr[1] \in lost ELSE l.deleter # l.obj.by

(* for_each_live() visits a thread's allocator from its first use until its   *)
(* exit, and never one whose members have been destroyed.                    *)
RegistryIsAlive ==
  /\ \A t \in reg : slab[t] # NULL
  /\ \A t \in Threads : tls[t] = "live" => t \in reg

(* Every operation that has begun ends: no thread waits forever for a mutex.  *)
OperationsEnd == \A t \in Threads : pc[t] # "idle" ~> pc[t] = "idle"

(* What an operation under way needs for its next step: at most a mutex that  *)
(* is free, and memory where it calls malloc.                               *)
Pushable(t) == {Shared("live"), Shared("retired"), Shared("chunks"), Shared("stash"), Ext(t)}
CanStep(t) ==
  \/ pc[t] \in {"register", "retire"} /\ mutex["registry"] = NULL
  \/ pc[t] = "refill" /\ mutex["central"] = NULL /\ Mallocable(heap) # {}
  \/ pc[t] = "push" /\ frame[t].vec \in Pushable(t) /\ (frame[t].old # NULL \/ Mallocable(heap) # {})
  \/ pc[t] = "drop" /\ frame[t].vec \in Pushable(t)
  \/ pc[t] = "retry" /\ Served(t) /\ free[t] # {}
  \/ pc[t] \in {"store", "link", "stashed", "destroy", "dropext"}

(* The mutexes, the nested allocations and the retry after a refill never     *)
(* leave all operations under way waiting for each other: while malloc has   *)
(* memory, one of them can go on.                                           *)
NeverStuck ==
  Mallocable(heap) # {} /\ (\E t \in Threads : pc[t] # "idle") => \E t \in Threads : CanStep(t)

(* The steps an operation of t still has before it at each point, and those   *)
(* it has after a push_back to v.                                           *)
StepsAfter(t, v) ==
  CASE v = Shared("chunks") -> 5 [] v = Shared("retired") -> 2
    [] v \in {Shared("stash"), Ext(t)} -> 1 [] OTHER -> 0
StepsFrom(t, point, v) ==
  CASE point = "refill" -> 9 [] point = "retire" -> 6 [] point = "link" -> 5 [] point = "register" -> 4
    [] point = "push" -> StepsAfter(t, v) + 3
    [] point = "store" -> StepsAfter(t, v) + 2
    [] point = "drop" -> StepsAfter(t, v) + 1
    [] point = "destroy" -> 2 [] point \in {"retry", "stashed", "dropext"} -> 1 [] OTHER -> 0
StepsLeft(t) == StepsFrom(t, pc[t], frame[t].vec)

(* No operation under way starts over or goes round in a circle: each step of *)
(* its thread brings it nearer to its end, and no step of another thread puts *)
(* it back.                                                                 *)
NearerToItsEnd ==
  \A t \in Threads : pc[t] # "idle" =>
     IF Work(t) THEN StepsLeft(t)' < StepsLeft(t) ELSE StepsLeft(t)' = StepsLeft(t)

(* What OperationsEnd rests on, whatever the scheduler does: an operation that *)
(* goes on comes nearer to its end, and after each step some operation can    *)
(* go on.  (None is under way at the start.)                                *)
OperationsAdvance == [][NearerToItsEnd /\ NeverStuck']_vars

(* new_delete.cpp says of g_malloc_recs: insert-only, entries are never       *)
(* removed.                                                                 *)
RecordsInsertOnly == [][recs \subseteq recs']_recs
==============================================================================
