------------------------------- MODULE Reentry -------------------------------
(***************************************************************************)
(* Who calls whom, on one thread's stack: the allocator uses std::vector    *)
(* and new, whose memory comes from the operators that the allocator        *)
(* implements.  What keeps that from recursing or from locking a mutex      *)
(* twice is detail::g_allocator_active (AllocatorGuard, central_heap.hpp),  *)
(* the sticky flag g_allocator_gone and, in do_delete, nothing but the      *)
(* state of the function-local `thread_local ThreadPoolAlloc t'.            *)
(*                                                                          *)
(* stack[t] is the calls thread t is in, innermost last.  A frame has the   *)
(* function, the point it is at, and what its AllocatorGuard has saved      *)
(* (NoGuard before it makes one).  Data is left out: a pool has a block or  *)
(* it has not, a vector has room or it has not.                             *)
(***************************************************************************)
EXTENDS Naturals, Sequences, FiniteSets, SequencesExt

CONSTANTS Threads, Main,
          Builds,      \* the programs considered
          MaxChunks,   \* bound: refills
          Nobody, NoGuard

ASSUME ReentryAssumption ==
  /\ Main \in Threads /\ Nobody \notin Threads /\ {"none", "made"} \cap Threads = {}
  /\ Builds \subseteq [guardFirst : BOOLEAN, override : BOOLEAN, viz : BOOLEAN]
  /\ MaxChunks \in Nat
  /\ NoGuard \notin BOOLEAN

VARIABLES
  build,    \* the program that runs
  stack,    \* calls in progress, per thread
  active,   \* g_allocator_active, per thread
  tls,      \* per thread's ThreadPoolAlloc: "none", "building", "live" or "gone"
  ready,    \* g_ready
  mutex,    \* holder of the registry's and of CentralHeap's mutex
  ring,     \* the static in viz::ring(): who initialises it, or "none", "made"
  grown,    \* vectors that have a buffer to release when they grow
  acquired  \* refills from CentralHeap begun

vars == <<build, stack, active, tls, ready, mutex, ring, grown, acquired>>

GuardFirst == build.guardFirst  \* a thread_local is marked initialised before its
                                \* constructor runs (MSVC), not after (GCC, Clang)
Override   == build.override    \* new_delete.cpp is linked
Viz        == build.viz         \* viz::set_enabled(true): events are recorded

Functions == {"new", "delete", "instance", "register", "retire", "push",
              "allocate", "deallocate", "acquire", "ring"}

Enter(fn, v) == [fn |-> fn, pt |-> "start", vec |-> v, saved |-> NoGuard]
Vec(name)   == <<name, Nobody>>    \* a vector of the registry or of CentralHeap
ExtSlabs(t) == <<"external_slabs", t>>
NoVec       == Vec("none")

Idle(t)       == stack[t] = <<>>
Top(t)        == Last(stack[t])
At(t, fn, pt) == ~Idle(t) /\ Top(t).fn = fn /\ Top(t).pt = pt

(* Ways on from a point: to another point of the same function, into a call *)
(* that comes back to point pt, or back to the caller, undoing the guard.   *)
Frame(t, f)           == stack' = [stack EXCEPT ![t] = Append(Front(@), f)]
Go(t, pt)             == Frame(t, [Top(t) EXCEPT !.pt = pt])

(* Mutated form: the guard is made, but the flag is not set. *)
GoUnmarked(t, pt)     == /\ Frame(t, [Top(t) EXCEPT !.pt = pt, !.saved = active[t]])
                         /\ active' = active

GoGuarded(t, pt)      == /\ Frame(t, [Top(t) EXCEPT !.pt = pt, !.saved = active[t]])
                         /\ active' = [active EXCEPT ![t] = TRUE]
Calls(t, pt, fn, v)   == stack' = [stack EXCEPT ![t] =
                           Front(@) \o <<[Top(t) EXCEPT !.pt = pt], Enter(fn, v)>>]

(* Mutated forms: a guard is undone where none was made, so that what goes    *)
(* into the flag is nothing a guard saved; the flag is never put back.      *)
ReturnsUnsaved(t)     == /\ stack' = [stack EXCEPT ![t] = Front(@)]
                         /\ active' = [active EXCEPT ![t] = Top(t).saved]
ReturnsActive(t)      == /\ stack' = [stack EXCEPT ![t] = Front(@)]
                         /\ active' = active

Returns(t)            == /\ stack' = [stack EXCEPT ![t] = Front(@)]
                         /\ active' = [active EXCEPT ![t] =
                              IF Top(t).saved = NoGuard THEN @ ELSE Top(t).saved]


(* lock_guard of a mutex m: its two ends. *)
Locks(t, m) == mutex[m] = Nobody /\ mutex' = [mutex EXCEPT ![m] = t]

(* Mutated form: the mutex stays locked. *)
UnlocksNothing(t, m) == mutex' = mutex

Unlocks(t, m) == mutex' = [mutex EXCEPT ![m] = Nobody]

Others == <<tls, ready, mutex, ring, grown, acquired>>

Init == /\ build \in Builds
        /\ stack = [t \in Threads |-> <<>>]
        /\ active = [t \in Threads |-> FALSE]
        /\ tls = [t \in Threads |-> "none"]
        /\ ready = FALSE
        /\ mutex = [m \in {"registry", "central"} |-> Nobody]
        /\ ring = "none"
        /\ grown = {}
        /\ acquired = 0
------------------------------------------------------------------------------
(* operator new: do_new.  The fallback is malloc and record_malloc_ptr,      *)
(* which call nothing of ours.                                              *)

(* Mutated form: the active flag is not asked. *)
IgnoresActive(t) == ~ready \/ tls[t] = "gone"

UsesFallback(t) == ~ready \/ active[t] \/ tls[t] = "gone"

New(t) ==
  \/ /\ At(t, "new", "start") /\ (UsesFallback(t) \/ ~Override)
     /\ Returns(t) /\ UNCHANGED Others
  \/ /\ At(t, "new", "start") /\ ~UsesFallback(t) /\ Override
     /\ GoGuarded(t, "guarded") /\ UNCHANGED Others
  \/ /\ At(t, "new", "guarded")
     /\ Calls(t, "instance", "instance", NoVec) /\ UNCHANGED <<active, Others>>
  \/ /\ At(t, "new", "instance")
     /\ Calls(t, "done", "allocate", NoVec) /\ UNCHANGED <<active, Others>>
  \/ /\ At(t, "new", "done")
     /\ Returns(t) /\ UNCHANGED Others

(* operator delete: do_delete.  It does not ask for the active flag.  A     *)
(* pointer classified as one of this thread's blocks goes on to             *)
(* deallocate_containing; every other pointer ends in malloc's free, or is  *)
(* left alone.  What the allocator's vectors release is of the other kind.  *)

(* Mutated form: a thread whose allocator is gone is not told apart. *)
FreesIfNotReady(t) == ~ready \/ ~Override

FreesOnly(t) == ~ready \/ tls[t] = "gone" \/ ~Override

Delete(t) ==
  \/ /\ At(t, "delete", "start") /\ FreesOnly(t)
     /\ Returns(t) /\ UNCHANGED Others
  \/ /\ At(t, "delete", "start") /\ ~FreesOnly(t)
     /\ GoGuarded(t, "guarded") /\ UNCHANGED Others
  \/ /\ At(t, "delete", "guarded")
     /\ Calls(t, "instance", "instance", NoVec) /\ UNCHANGED <<active, Others>>
  \/ /\ At(t, "delete", "instance") /\ Len(stack[t]) = 1
     /\ Calls(t, "done", "deallocate", NoVec) /\ UNCHANGED <<active, Others>>
  \/ /\ At(t, "delete", "instance")
     /\ Go(t, "done") /\ UNCHANGED <<active, Others>>
  \/ /\ At(t, "delete", "done")
     /\ Returns(t) /\ UNCHANGED Others

(* ThreadPoolAlloc::instance() and the constructor it runs on first use.    *)
(* Its flag stays set when the object is destroyed.                         *)
Constructed(t) == tls[t] \in {"live", "gone"} \/ (tls[t] = "building" /\ GuardFirst)

Instance(t) ==
  \/ /\ At(t, "instance", "start")
     /\ GoGuarded(t, "guarded") /\ UNCHANGED Others
  \/ /\ At(t, "instance", "guarded") /\ ~Constructed(t)
     /\ Calls(t, "built", "register", NoVec)
     /\ tls' = [tls EXCEPT ![t] = "building"]
     /\ UNCHANGED <<active, ready, mutex, ring, grown, acquired>>
  \/ /\ At(t, "instance", "built")
     /\ Go(t, "guarded")
     /\ tls' = [tls EXCEPT ![t] = "live"]
     /\ UNCHANGED <<active, ready, mutex, ring, grown, acquired>>
  \/ /\ At(t, "instance", "guarded") /\ Constructed(t)
     /\ Returns(t) /\ UNCHANGED Others

(* ThreadPoolAlloc::allocate over SingleThreadAllocator::allocate.  The pool *)
(* (or arena) serves the request, or a chunk is fetched and linked first.   *)
Allocate(t) ==
  \/ /\ At(t, "allocate", "start")
     /\ GoGuarded(t, "pool") /\ UNCHANGED Others
  \/ /\ At(t, "allocate", "pool")
     /\ Go(t, "record") /\ UNCHANGED <<active, Others>>
  \/ /\ At(t, "allocate", "pool") /\ acquired < MaxChunks
     /\ acquired' = acquired + 1
     /\ Calls(t, "link", "acquire", NoVec) /\ UNCHANGED <<active, tls, ready, mutex, ring, grown>>
  \/ /\ At(t, "allocate", "link")
     /\ Calls(t, "record", "push", ExtSlabs(t)) /\ UNCHANGED <<active, Others>>
  \/ /\ At(t, "allocate", "record") /\ Viz
     /\ Calls(t, "done", "ring", NoVec) /\ UNCHANGED <<active, Others>>
  \/ /\ At(t, "allocate", IF Viz THEN "done" ELSE "record")
     /\ Returns(t) /\ UNCHANGED Others

(* deallocate and deallocate_containing make no guard. *)
Deallocate(t) ==
  \/ /\ At(t, "deallocate", "start") /\ Viz
     /\ Calls(t, "done", "ring", NoVec) /\ UNCHANGED <<active, Others>>
  \/ /\ At(t, "deallocate", IF Viz THEN "done" ELSE "start")
     /\ Returns(t) /\ UNCHANGED Others

(* CentralHeap::acquire_chunk: everything from the guard on is under mutex_. *)
Acquire(t) ==
  \/ /\ At(t, "acquire", "start")
     /\ GoGuarded(t, "lock") /\ UNCHANGED Others
  \/ /\ At(t, "acquire", "lock") /\ Locks(t, "central")
     /\ Calls(t, "event", "push", Vec("chunks")) /\ UNCHANGED <<active, tls, ready, ring, grown, acquired>>
  \/ /\ At(t, "acquire", "event") /\ Viz
     /\ Calls(t, "unlock", "ring", NoVec) /\ UNCHANGED <<active, Others>>
  \/ /\ At(t, "acquire", IF Viz THEN "unlock" ELSE "event")
     /\ Unlocks(t, "central")
     /\ Returns(t) /\ UNCHANGED <<tls, ready, ring, grown, acquired>>

(* detail::register_stats. *)
Register(t) ==
  \/ /\ At(t, "register", "start") /\ Locks(t, "registry")
     /\ Calls(t, "allocators", "push", Vec("live"))
     /\ UNCHANGED <<active, tls, ready, ring, grown, acquired>>
  \/ /\ At(t, "register", "allocators")
     /\ Calls(t, "unlock", "push", Vec("live_allocators")) /\ UNCHANGED <<active, Others>>
  \/ /\ At(t, "register", "unlock")
     /\ Unlocks(t, "registry")
     /\ Returns(t) /\ UNCHANGED <<tls, ready, ring, grown, acquired>>

(* ~ThreadPoolAlloc with retire_stats, then the members: the buffer of       *)
(* external_slabs_ is deleted once the destructor's guard is undone.        *)
Retire(t) ==
  \/ /\ At(t, "retire", "start")
     /\ tls' = [tls EXCEPT ![t] = "gone"]
     /\ GoGuarded(t, "lock") /\ UNCHANGED <<ready, mutex, ring, grown, acquired>>
  \/ /\ At(t, "retire", "lock") /\ Locks(t, "registry")
     /\ Calls(t, "unlock", "push", Vec("retired"))
     /\ UNCHANGED <<active, tls, ready, ring, grown, acquired>>
  \/ /\ At(t, "retire", "unlock")
     /\ Unlocks(t, "registry")
     /\ Frame(t, [Top(t) EXCEPT !.pt = "members", !.saved = NoGuard])
     /\ active' = [active EXCEPT ![t] = Top(t).saved]
     /\ UNCHANGED <<tls, ready, ring, grown, acquired>>
  \/ /\ At(t, "retire", "members") /\ ExtSlabs(t) \in grown
     /\ Calls(t, "done", "delete", NoVec)
     /\ grown' = grown \ {ExtSlabs(t)}
     /\ UNCHANGED <<active, tls, ready, mutex, ring, acquired>>
  \/ /\ \/ At(t, "retire", "done")
        \/ At(t, "retire", "members") /\ ExtSlabs(t) \notin grown
     /\ Returns(t) /\ UNCHANGED Others

(* push_back: in place, or into a buffer from operator new, whereupon the    *)
(* old one is given to operator delete.                                     *)
Push(t) ==
  \/ /\ At(t, "push", "start") /\ Top(t).vec \in grown
     /\ Returns(t) /\ UNCHANGED Others
  \/ /\ At(t, "push", "start")
     /\ Calls(t, "grown", "new", NoVec) /\ UNCHANGED <<active, Others>>
  \/ /\ At(t, "push", "grown") /\ Top(t).vec \in grown
     /\ Calls(t, "done", "delete", NoVec) /\ UNCHANGED <<active, Others>>
  \/ /\ At(t, "push", "grown") /\ Top(t).vec \notin grown
     /\ grown' = grown \cup {Top(t).vec}
     /\ Returns(t) /\ UNCHANGED <<tls, ready, mutex, ring, acquired>>
  \/ /\ At(t, "push", "done")
     /\ Returns(t) /\ UNCHANGED Others

(* viz::ring(): the first call makes the EventRing with new, inside the      *)
(* initialisation of a static, which other threads wait for.                *)
Ring(t) ==
  \/ /\ At(t, "ring", "start") /\ ring = "made"
     /\ Returns(t) /\ UNCHANGED Others
  \/ /\ At(t, "ring", "start") /\ ring = "none"
     /\ ring' = t
     /\ Calls(t, "built", "new", NoVec)
     /\ UNCHANGED <<active, tls, ready, mutex, grown, acquired>>
  \/ /\ At(t, "ring", "built")
     /\ ring' = "made"
     /\ Returns(t) /\ UNCHANGED <<tls, ready, mutex, grown, acquired>>
------------------------------------------------------------------------------
(* What the program calls.  With the override, threads start after          *)
(* init_allocator(); the object of ThreadPoolAlloc::instance() is used only *)
(* while it exists, operator new and delete also later.                     *)
Entries(t) ==
  (IF Override THEN {"new", "delete"} ELSE {})
    \cup (IF tls[t] # "gone" THEN {"instance"} ELSE {})
    \cup (IF tls[t] = "live" THEN {"allocate", "deallocate", "retire"} ELSE {})
    \cup (IF Viz /\ tls[t] # "gone" THEN {"ring"} ELSE {})

Call(t) == /\ Idle(t) /\ (t = Main \/ ready \/ ~Override)
           /\ \E fn \in Entries(t) : stack' = [stack EXCEPT ![t] = <<Enter(fn, NoVec)>>]
           /\ UNCHANGED <<build, active, Others>>

SetReady == /\ Override /\ Idle(Main) /\ tls[Main] = "live" /\ ~ready
            /\ ready' = TRUE
            /\ UNCHANGED <<build, stack, active, tls, mutex, ring, grown, acquired>>

Step(t) == /\ UNCHANGED build
           /\ \/ New(t) \/ Delete(t) \/ Instance(t) \/ Allocate(t) \/ Deallocate(t)
              \/ Acquire(t) \/ Register(t) \/ Retire(t) \/ Push(t) \/ Ring(t)

Next == SetReady \/ \E t \in Threads : Step(t) \/ Call(t)

Spec     == Init /\ [][Next]_vars
FairSpec == Spec /\ \A t \in Threads : WF_vars(Step(t))
------------------------------------------------------------------------------
Vectors == {"live", "live_allocators", "retired", "chunks"} \X {Nobody}
             \cup {"external_slabs"} \X Threads
Points  == {"start", "guarded", "instance", "built", "pool", "link", "record", "lock",
            "event", "allocators", "unlock", "members", "grown", "done"}

FrameType == [fn : Functions, pt : Points, vec : Vectors \cup {NoVec}, saved : BOOLEAN \cup {NoGuard}]

(* Every variable has its type. *)
TypeOK ==
  /\ build \in Builds
  /\ stack \in [Threads -> Seq(FrameType)]
  /\ active \in [Threads -> BOOLEAN]
  /\ tls \in [Threads -> {"none", "building", "live", "gone"}]
  /\ ready \in BOOLEAN
  /\ mutex \in [{"registry", "central"} -> Threads \cup {Nobody}]
  /\ ring \in Threads \cup {"none", "made"}
  /\ grown \subseteq Vectors
  /\ acquired \in 0 .. MaxChunks

Frames(t, fn) == Cardinality({i \in 1 .. Len(stack[t]) : stack[t][i].fn = fn})

(* No thread is about to lock a std::mutex that it holds itself, or to wait   *)
(* for the initialisation of a static that it is in.                         *)
NoSelfDeadlock ==
  \A t \in Threads :
    /\ mutex["registry"] = t => ~At(t, "register", "start") /\ ~At(t, "retire", "lock")
    /\ mutex["central"] = t => ~At(t, "acquire", "lock")
    /\ ring = t => ~At(t, "ring", "start")

(* Whom a thread waits for: the holder of the mutex it is about to lock, or   *)
(* the maker of the static that it is about to use.                         *)
WaitsFor(t) ==
  Threads \cap
    (  (IF At(t, "register", "start") \/ At(t, "retire", "lock") THEN {mutex["registry"]} ELSE {})
       \cup (IF At(t, "acquire", "lock") THEN {mutex["central"]} ELSE {})
       \cup (IF At(t, "ring", "start") THEN {ring} ELSE {})  )

(* No threads wait for each other in a circle, nor one for itself: whom a      *)
(* thread waits for waits for nobody, or for one who does.  (CentralHeap's     *)
(* mutex is held while the ring is made, and nothing else inside another.)    *)
NoDeadlock ==
  \A t \in Threads : \A u \in WaitsFor(t) : \A v \in WaitsFor(u) : WaitsFor(v) = {}

(* An operator new that the allocator itself causes, whichever of its entry  *)
(* points the thread came in by, takes the malloc fallback (central_heap.hpp *)
(* on g_allocator_active).                                                  *)
NestedNewFallsBack ==
  \A t \in Threads : At(t, "new", "start") /\ Len(stack[t]) > 1 /\ Override =>
    stack[t][1].fn = "ring" \/ UsesFallback(t)

(* The allocator is never entered again from within itself, however deep the *)
(* vectors, the statics and the operators nest: only the operators nest, and *)
(* instance() to give the delete of an outgrown buffer the object it has.    *)
NotReentered ==
  \A t \in Threads : \A fn \in Functions \ {"new", "delete", "instance"} : Frames(t, fn) <= 1

(* A call that has returned leaves neither flag nor mutex behind. *)
NothingLeftBehind ==
  \A t \in Threads : Idle(t) => /\ ~active[t]
                                /\ \A m \in DOMAIN mutex : mutex[m] # t
                                /\ ring # t

(* Once ~ThreadPoolAlloc has begun, nothing on that thread reaches the       *)
(* object again: not the release of its own vectors, not the operators.      *)
GoneIsLeftAlone ==
  \A t \in Threads : tls[t] = "gone" =>
    \A fn \in {"instance", "allocate", "deallocate", "acquire", "register"} : Frames(t, fn) = 0

(* Every call returns. *)
CallsReturn == \A t \in Threads : ~Idle(t) ~> Idle(t)
==============================================================================
