-------------------------- MODULE NewDelete_proofs --------------------------
(***************************************************************************)
(* Proofs about the override (module NewDelete), for any number of threads,  *)
(* regions, blocks and chunks.                                              *)
(*                                                                         *)
(* The safety properties are not inductive: that a buffer is still          *)
(* allocated when it is dropped depends on who else could have been given   *)
(* its address while a push_back was under way.  The inductive invariant    *)
(* IInv has three parts.  TypeOK; Control, which says where a thread can be  *)
(* from the state of its allocator, and what it then has in hand (frame,    *)
(* mutex, fetched chunk); and Memory, which says what each region is        *)
(* allocated for (Tagged), that each fallback allocation has a single use   *)
(* (Uses), where the clients' objects and the blocks of each pool are       *)
(* (HeldOK, HeldOnce, Accounted), and what the list of recorded pointers    *)
(* can contain (RecordsOK).                                                 *)
(*                                                                         *)
(* Memory holds of every program that does not both delete blocks on        *)
(* threads that do not own them and run on a malloc that returns addresses  *)
(* again (SafeProgram): with both, a record that outlived its memory makes  *)
(* such a delete free what another use has since been given.  TypeOK and    *)
(* Control hold of all.                                                     *)
(*                                                                         *)
(* Each part is shown action by action: XStep is about TypeOK and Control,  *)
(* XMemory about Memory.                                                    *)
(*                                                                         *)
(* That the operations advance (the last section) needs two facts more,      *)
(* Locks and Supplied, of all programs: who holds a mutex is inside the        *)
(* push_back it is for, and a refill leaves a block for the retry after it.    *)
(***************************************************************************)
EXTENDS NewDelete, FiniteSetTheorems, TLAPS

Growing        == {"push", "store", "drop"}    \* steps inside a push_back or a fallback new

(* What thread t is in the middle of. *)
Registering(t) == pc[t] = "register" \/ frame[t].vec = Shared("live")
Retiring(t)    == pc[t] = "retire" \/ frame[t].vec = Shared("retired")
Refilling(t)   == pc[t] \in {"refill", "link", "retry"} \/ frame[t].vec \in {Shared("chunks"), Ext(t)}
Stashing(t)    == pc[t] = "stashed" \/ frame[t].vec = Shared("stash")

(* A thread inside a push_back has a frame, which knows the buffer there is.  *)
FrameOK(t) ==
  /\ pc[t] \notin Growing => frame[t] = NoFrame
  /\ pc[t] \in Growing => frame[t].vec \in Pushable(t) \cup {Client}
  /\ frame[t].vec = Client => pc[t] = "store"
  /\ frame[t].vec \in Vector => frame[t].old = buf[frame[t].vec]
  /\ frame[t].new # NULL <=> pc[t] \in {"store", "drop"}

(* Which operations a thread can be in, from its allocator's state, and which *)
(* mutex it then holds.                                                     *)
PhaseOK(t) ==
  /\ tls[t] = "building" <=> Registering(t)
  /\ Retiring(t) \/ pc[t] \in {"destroy", "dropext"} => tls[t] = "gone"
  /\ Refilling(t) => tls[t] = "live" /\ ready
  /\ Stashing(t) => t = Main /\ ~ready
  /\ frame[t].vec \in {Shared("live"), Shared("retired")} => mutex["registry"] = t
  /\ frame[t].vec = Shared("chunks") => mutex["central"] = t
  /\ t \in reg <=> tls[t] = "live" \/ Retiring(t)

(* Which members the allocator of a thread has. *)
MembersOK(t) ==
  /\ slab[t] # NULL <=> tls[t] \in {"building", "live"} \/ Retiring(t) \/ pc[t] = "destroy"
  /\ arena[t] = NULL <=> slab[t] = NULL
  /\ slab[t] = NULL => used[t] = 0 /\ ext[t] = {} /\ free[t] = {}
  /\ fetched[t] # NULL <=>
       frame[t].vec \in {Shared("chunks"), Ext(t)} \/ Stashing(t) \/ pc[t] = "link"
  /\ pc[t] = "dropext" => buf[Ext(t)] # NULL

(* Main's allocator is the first to come and the last to go. *)
Lifetimes ==
  /\ ~ready => \A u \in Threads \ {Main} : tls[u] = "none" /\ pc[u] = "idle"
  /\ ready => tls[Main] \in {"live", "gone"}
  /\ tls[Main] = "gone" =>
       ready /\ \A u \in Threads \ {Main} : tls[u] \in {"none", "gone"} /\ pc[u] = "idle"

Control == Lifetimes /\ \A t \in Threads : FrameOK(t) /\ PhaseOK(t) /\ MembersOK(t)
------------------------------------------------------------------------------
LEMMA VectorFacts ==
  /\ \A a \in {"live", "retired", "chunks", "stash"} : Shared(a) \in Vector
  /\ \A a, b : Shared(a) = Shared(b) => a = b
  /\ \A t \in Threads : Ext(t) \in Vector
  /\ \A t, u : Ext(t) = Ext(u) => t = u
  /\ \A t, a : a # "ext" => Ext(t) # Shared(a)
  /\ Client \notin Vector /\ Client # NULL /\ NULL \notin Vector
  /\ \A v \in Vector : (\E a \in {"live", "retired", "chunks", "stash"} : v = Shared(a))
                         \/ (\E t \in Threads : v = Ext(t))
<1>1. \A a \in {"live", "retired", "chunks", "stash"} : Shared(a) \in Vector
  BY DEF Vector, Shared
<1>2. \A a, b : Shared(a) = Shared(b) => a = b
  BY DEF Shared
<1>3. \A t \in Threads : Ext(t) \in Vector
  BY DEF Vector, Ext
<1>4. \A t, u : Ext(t) = Ext(u) => t = u
  BY DEF Ext
<1>5. \A t, a : a # "ext" => Ext(t) # Shared(a)
  BY DEF Ext, Shared
<1>6. Client \notin Vector /\ Client # NULL /\ NULL \notin Vector
  <2>1. Client \notin Vector
    BY DEF Vector, Client
  <2> QED BY <2>1, VectorAssumption
<1>7. \A v \in Vector : (\E a \in {"live", "retired", "chunks", "stash"} : v = Shared(a))
                         \/ (\E t \in Threads : v = Ext(t))
  BY DEF Vector, Shared, Ext
<1> QED BY <1>1, <1>2, <1>3, <1>4, <1>5, <1>6, <1>7

(* A step of thread t: the others are where they were, and no mutex that they *)
(* hold and no buffer that they are about to replace has changed.           *)
Local(t) ==
  /\ ready' = ready
  /\ \A u \in Threads \ {t} :
       /\ pc'[u] = pc[u] /\ frame'[u] = frame[u] /\ tls'[u] = tls[u]
       /\ slab'[u] = slab[u] /\ arena'[u] = arena[u] /\ used'[u] = used[u] /\ ext'[u] = ext[u]
       /\ free'[u] = free[u] /\ fetched'[u] = fetched[u]
       /\ u \in reg' <=> u \in reg
       /\ frame[u].vec \in Vector => buf'[frame[u].vec] = buf[frame[u].vec]
       /\ buf'[Ext(u)] = buf[Ext(u)]
  /\ \A m \in {"registry", "central"} : mutex[m] \in {NULL, t} \/ mutex'[m] = mutex[m]

LEMMA OthersControl ==
  ASSUME Control, NEW t \in Threads, Local(t), FrameOK(t)', PhaseOK(t)', MembersOK(t)', Lifetimes'
  PROVE  Control'
<1> SUFFICES ASSUME NEW u \in Threads \ {t}
             PROVE  FrameOK(u)' /\ PhaseOK(u)' /\ MembersOK(u)'
  BY DEF Control
<1>1. FrameOK(u)'
  BY DEF Control, FrameOK, Local
<1>2. PhaseOK(u)'
  BY NewDeleteAssumption DEF Control, PhaseOK, Registering, Retiring, Refilling, Stashing, Local
<1>3. MembersOK(u)'
  BY DEF Control, MembersOK, Retiring, Stashing, Local
<1> QED BY <1>1, <1>2, <1>3

LEMMA LifetimesKept ==
  ASSUME Control, NEW t \in Threads, Local(t), Running(t) \/ pc[t] # "idle",
         tls'[t] = tls[t] \/ (tls[t] \in {"none", "building"} /\ tls'[t] # "gone")
  PROVE  Lifetimes'
BY NewDeleteAssumption DEF Control, Lifetimes, Local, Running

LEMMA FrameOfType ==
  ASSUME TypeOK, NEW v \in Vector \cup {Client}
  PROVE  /\ FrameOf(v) \in FrameType
         /\ FrameOf(v).vec = v /\ FrameOf(v).new = NULL /\ FrameOf(v).next = {}
         /\ v \in Vector => FrameOf(v).old = buf[v]
BY VectorFacts DEF FrameOf, NoFrame, TypeOK, FrameType

LEMMA NoFrameFacts ==
  /\ NoFrame \in FrameType
  /\ NoFrame.vec = NULL /\ NoFrame.new = NULL /\ NoFrame.next = {}
BY DEF NoFrame, FrameType

LEMMA MallocableFacts ==
  ASSUME NEW h, NEW r \in Mallocable(h)
  PROVE  r \in Region /\ (h[r] = Fresh \/ (Recycle /\ h[r] = Freed))
BY DEF Mallocable

LEMMA TagFacts ==
  /\ Fresh \in Tag /\ Freed \in Tag
  /\ \A t \in Threads, k \in {"slab", "arena", "chunk", "fallback"} : <<k, t>> \in Tag
BY DEF Tag

LEMMA LockRegistryStep ==
  ASSUME TypeOK, Control, NEW t \in Threads, LockRegistry(t)
  PROVE  TypeOK' /\ Control'
<1> DEFINE v == Shared(IF pc[t] = "register" THEN "live" ELSE "retired")
<1>1. v \in Vector
  BY VectorFacts
<1>2. TypeOK'
  BY <1>1, FrameOfType DEF LockRegistry, TypeOK, allocVars, clientVars
<1>3. Local(t)
  BY DEF LockRegistry, TypeOK, Local, allocVars, clientVars
<1>4. /\ FrameOf(v).vec = v /\ FrameOf(v).new = NULL /\ FrameOf(v).old = buf[v]
      /\ frame'[t] = FrameOf(v) /\ pc'[t] = "push" /\ mutex'["registry"] = t
      /\ buf' = buf /\ tls' = tls /\ reg' = reg /\ ready' = ready
      /\ UNCHANGED <<slab, arena, used, ext, free, fetched>>
      /\ pc[t] \in {"register", "retire"} /\ frame[t] = NoFrame
  BY <1>1, FrameOfType DEF LockRegistry, TypeOK, allocVars, Control, FrameOK, Growing
<1>5. FrameOK(t)' /\ PhaseOK(t)' /\ MembersOK(t)'
  BY <1>1, <1>4, VectorFacts, NoFrameFacts
  DEF Control, FrameOK, PhaseOK, MembersOK, Growing, Pushable, Registering, Retiring, Refilling, Stashing
<1> QED BY <1>2, <1>3, <1>4, <1>5, LifetimesKept, OthersControl

LEMMA AcquireChunkStep ==
  ASSUME TypeOK, Control, NEW t \in Threads, AcquireChunk(t)
  PROVE  TypeOK' /\ Control'
<1> DEFINE v == Shared("chunks")
<1>1. v \in Vector
  BY VectorFacts
<1>2. PICK r \in Mallocable(heap) : /\ heap' = [heap EXCEPT ![r] = <<"chunk", t>>]
                                    /\ fetched' = [fetched EXCEPT ![t] = r]
  BY DEF AcquireChunk
<1>3. r \in Region /\ r # NULL
  BY MallocableFacts, NewDeleteAssumption DEF Region
<1>4. TypeOK'
  BY <1>1, <1>2, <1>3, FrameOfType, TagFacts DEF AcquireChunk, TypeOK, clientVars
<1>5. Local(t)
  BY <1>2 DEF AcquireChunk, TypeOK, Local, clientVars
<1>6. /\ FrameOf(v).vec = v /\ FrameOf(v).new = NULL /\ FrameOf(v).old = buf[v]
      /\ frame'[t] = FrameOf(v) /\ pc'[t] = "push" /\ mutex'["central"] = t
      /\ fetched'[t] = r
      /\ buf' = buf /\ tls' = tls /\ reg' = reg /\ ready' = ready
      /\ UNCHANGED <<slab, arena, used, ext, free>>
      /\ pc[t] = "refill" /\ frame[t] = NoFrame
  BY <1>1, <1>2, FrameOfType DEF AcquireChunk, TypeOK, Control, FrameOK, Growing
<1>7. FrameOK(t)' /\ PhaseOK(t)' /\ MembersOK(t)'
  BY <1>1, <1>3, <1>6, VectorFacts, NoFrameFacts
  DEF Control, FrameOK, PhaseOK, MembersOK, Growing, Pushable, Registering, Retiring, Refilling, Stashing
<1> QED BY <1>4, <1>5, <1>6, <1>7, LifetimesKept, OthersControl

LEMMA AddExternalSlabStep ==
  ASSUME TypeOK, Control, NEW t \in Threads, AddExternalSlab(t)
  PROVE  TypeOK' /\ Control'
<1> DEFINE v == Ext(t)
<1>1. v \in Vector
  BY VectorFacts
<1>2. pc[t] = "link" /\ frame[t] = NoFrame /\ fetched[t] # NULL /\ fetched[t] \in Region
  BY DEF AddExternalSlab, Control, FrameOK, MembersOK, Growing, TypeOK
<1>3. BodyOf(fetched[t]) \subseteq Pointer
  BY <1>2, NewDeleteAssumption DEF BodyOf, Pointer
<1>4. TypeOK'
  BY <1>1, <1>3, FrameOfType DEF AddExternalSlab, TypeOK, sharedVars, clientVars
<1>5. Local(t)
  BY DEF AddExternalSlab, TypeOK, Local, sharedVars, clientVars
<1>6. /\ FrameOf(v).vec = v /\ FrameOf(v).new = NULL /\ FrameOf(v).old = buf[v]
      /\ frame'[t] = FrameOf(v) /\ pc'[t] = "push"
      /\ buf' = buf /\ tls' = tls /\ reg' = reg /\ ready' = ready /\ mutex' = mutex
      /\ UNCHANGED <<slab, arena, used, ext, fetched>>
  BY <1>1, <1>2, FrameOfType DEF AddExternalSlab, TypeOK, sharedVars
<1>7. FrameOK(t)' /\ PhaseOK(t)' /\ MembersOK(t)'
  BY <1>1, <1>2, <1>6, VectorFacts, NoFrameFacts
  DEF Control, FrameOK, PhaseOK, MembersOK, Growing, Pushable, Registering, Retiring, Refilling, Stashing
<1> QED BY <1>2, <1>4, <1>5, <1>6, <1>7, LifetimesKept, OthersControl

LEMMA ConstructStep ==
  ASSUME TypeOK, Control, NEW t \in Threads, Construct(t)
  PROVE  TypeOK' /\ Control'
<1>0. PICK s \in Mallocable(heap) :
        \E a \in Mallocable([heap EXCEPT ![s] = <<"slab", t>>]) :
          /\ heap' = [[heap EXCEPT ![s] = <<"slab", t>>] EXCEPT ![a] = <<"arena", t>>]
          /\ slab' = [slab EXCEPT ![t] = s]
          /\ arena' = [arena EXCEPT ![t] = a]
          /\ free' = [free EXCEPT ![t] = SlabOf(s)]
  BY DEF Construct
<1>1. PICK a \in Mallocable([heap EXCEPT ![s] = <<"slab", t>>]) :
        /\ heap' = [[heap EXCEPT ![s] = <<"slab", t>>] EXCEPT ![a] = <<"arena", t>>]
        /\ slab' = [slab EXCEPT ![t] = s]
        /\ arena' = [arena EXCEPT ![t] = a]
        /\ free' = [free EXCEPT ![t] = SlabOf(s)]
  BY <1>0
<1>2. s \in Region /\ a \in Region /\ s # NULL /\ a # NULL
  BY MallocableFacts, NewDeleteAssumption DEF Region
<1>3. SlabOf(s) \subseteq Pointer
  BY <1>2, NewDeleteAssumption DEF SlabOf, Pointer
<1>4. TypeOK'
  BY <1>1, <1>2, <1>3, TagFacts DEF Construct, TypeOK, sharedVars, clientVars
<1>5. Local(t)
  BY <1>1 DEF Construct, TypeOK, Local, sharedVars, clientVars
<1>6. /\ frame' = frame /\ frame[t] = NoFrame /\ pc'[t] = "register" /\ pc[t] = "idle"
      /\ tls'[t] = "building" /\ tls[t] = "none"
      /\ slab'[t] = s /\ arena'[t] = a
      /\ buf' = buf /\ reg' = reg /\ ready' = ready /\ mutex' = mutex
      /\ UNCHANGED <<used, ext, fetched>> /\ Running(t)
  BY <1>1 DEF Construct, TypeOK, sharedVars, AtRest, Control, FrameOK, Growing
<1>7. FrameOK(t)' /\ PhaseOK(t)' /\ MembersOK(t)'
  BY <1>2, <1>6, VectorFacts, NoFrameFacts
  DEF Control, FrameOK, PhaseOK, MembersOK, Growing, Pushable, Registering, Retiring, Refilling, Stashing
<1> QED BY <1>4, <1>5, <1>6, <1>7, LifetimesKept, OthersControl

LEMMA SetReadyStep ==
  ASSUME TypeOK, Control, SetReady
  PROVE  TypeOK' /\ Control'
<1>1. TypeOK'
  BY DEF SetReady, TypeOK, allocVars, clientVars
<1>2. Lifetimes'
  BY DEF SetReady, Control, Lifetimes, allocVars, clientVars
<1>3. /\ ready' /\ tls[Main] = "live" /\ pc[Main] = "idle"
      /\ UNCHANGED <<tls, pc, frame, mutex, slab, arena, used, ext, free, fetched, buf, reg>>
      /\ ~ready /\ Main \in Threads /\ frame[Main] = NoFrame
  BY NewDeleteAssumption DEF SetReady, allocVars, Control, FrameOK, Growing
<1>4. ASSUME NEW t \in Threads PROVE FrameOK(t)' /\ PhaseOK(t)' /\ MembersOK(t)'
  <2>1. FrameOK(t)' /\ MembersOK(t)'
    BY <1>3 DEF Control, FrameOK, MembersOK, Retiring, Stashing
  <2>2. ~Stashing(t)
    BY <1>3, VectorFacts, NoFrameFacts DEF Control, PhaseOK, Stashing
  <2>3. PhaseOK(t)'
    BY <1>3, <2>2 DEF Control, PhaseOK, Registering, Retiring, Refilling, Stashing
  <2> QED BY <2>1, <2>3
<1> QED BY <1>1, <1>2, <1>4 DEF Control

LEMMA NewBlockStep ==
  ASSUME TypeOK, Control, NEW t \in Threads, NewBlock(t)
  PROVE  TypeOK' /\ Control'
<1>1. PICK b \in free[t] : /\ free' = [free EXCEPT ![t] = @ \ {b}]
                           /\ held' = held \cup {At(b, t, "pool")}
  BY DEF NewBlock
<1>2. At(b, t, "pool") \in Object
  BY DEF TypeOK, At, Object, Kinds
<1>3. TypeOK'
  BY <1>1, <1>2 DEF NewBlock, TypeOK, sharedVars
<1>4. Local(t)
  BY <1>1 DEF NewBlock, TypeOK, Local, sharedVars
<1>5. /\ frame' = frame /\ frame[t] = NoFrame /\ pc'[t] = "idle" /\ pc[t] \in {"idle", "retry"}
      /\ tls' = tls /\ tls[t] = "live" /\ Running(t)
      /\ buf' = buf /\ reg' = reg /\ ready' = ready /\ mutex' = mutex
      /\ UNCHANGED <<slab, arena, used, ext, fetched>>
  BY <1>1 DEF NewBlock, TypeOK, sharedVars, Served, Control, FrameOK, Growing
<1>6. FrameOK(t)' /\ PhaseOK(t)' /\ MembersOK(t)'
  BY <1>1, <1>5, VectorFacts, NoFrameFacts
  DEF Control, FrameOK, PhaseOK, MembersOK, Growing, Pushable, Registering, Retiring, Refilling, Stashing
<1> QED BY <1>3, <1>4, <1>5, <1>6, LifetimesKept, OthersControl

LEMMA NewLargeStep ==
  ASSUME TypeOK, Control, NEW t \in Threads, NewLarge(t)
  PROVE  TypeOK' /\ Control'
<1> DEFINE o == At(<<arena[t], used[t]>>, t, "arena")
<1>1. /\ frame' = frame /\ frame[t] = NoFrame /\ pc' = pc /\ pc[t] = "idle"
      /\ tls' = tls /\ tls[t] = "live" /\ Running(t)
      /\ buf' = buf /\ reg' = reg /\ ready' = ready /\ mutex' = mutex
      /\ UNCHANGED <<slab, arena, free, ext, fetched>>
      /\ used' = [used EXCEPT ![t] = @ + 1] /\ used[t] < ArenaBlocks
      /\ held' = held \cup {o}
  BY DEF NewLarge, sharedVars, Served, Control, FrameOK, Growing
<1>2. arena[t] \in Region /\ used[t] \in Nat /\ slab[t] # NULL
  BY <1>1 DEF Control, MembersOK, TypeOK
<1>3. o \in Object
  BY <1>2 DEF At, Object, Kinds, Pointer
<1>4. used' \in [Threads -> 0 .. ArenaBlocks]
  BY <1>1, NewDeleteAssumption DEF TypeOK
<1>5. TypeOK'
  BY <1>1, <1>3, <1>4 DEF NewLarge, TypeOK, sharedVars
<1>6. Local(t)
  BY <1>1 DEF TypeOK, Local
<1>7. FrameOK(t)' /\ PhaseOK(t)' /\ MembersOK(t)'
  BY <1>1, <1>2 DEF Control, FrameOK, PhaseOK, MembersOK, Registering, Retiring, Refilling, Stashing
<1> QED BY <1>1, <1>5, <1>6, <1>7, LifetimesKept, OthersControl

LEMMA ExhaustedStep ==
  ASSUME TypeOK, Control, NEW t \in Threads, Exhausted(t)
  PROVE  TypeOK' /\ Control'
<1>1. /\ frame' = frame /\ frame[t] = NoFrame /\ pc' = [pc EXCEPT ![t] = "refill"] /\ pc[t] = "idle"
      /\ tls' = tls /\ tls[t] = "live" /\ Running(t) /\ ready
      /\ buf' = buf /\ reg' = reg /\ ready' = ready /\ mutex' = mutex
      /\ UNCHANGED <<slab, arena, used, free, ext, fetched>>
  BY DEF Exhausted, allocVars, sharedVars, Served, Control, FrameOK, Growing
<1>2. TypeOK'
  BY <1>1 DEF Exhausted, TypeOK, allocVars, sharedVars, clientVars
<1>3. Local(t)
  BY <1>1 DEF TypeOK, Local
<1>4. FrameOK(t)' /\ PhaseOK(t)' /\ MembersOK(t)'
  BY <1>1, VectorFacts, NoFrameFacts
  DEF TypeOK, Control, FrameOK, PhaseOK, MembersOK, Growing, Pushable, Registering, Retiring, Refilling, Stashing
<1> QED BY <1>1, <1>2, <1>3, <1>4, LifetimesKept, OthersControl

LEMMA NewFallbackStep ==
  ASSUME TypeOK, Control, NEW t \in Threads, NewFallback(t)
  PROVE  TypeOK' /\ Control'
<1> DEFINE f == FrameOf(Client)
<1>1. PICK r \in Mallocable(heap) :
        /\ heap' = [heap EXCEPT ![r] = <<"fallback", t>>]
        /\ frame' = [frame EXCEPT ![t] = [f EXCEPT !.new = r, !.next = recs]]
        /\ pc' = [pc EXCEPT ![t] = "store"]
  BY DEF NewFallback, FallbackBegin
<1> DEFINE g == [f EXCEPT !.new = r, !.next = recs]
<1>2. r \in Region /\ r # NULL
  BY MallocableFacts, NewDeleteAssumption DEF Region
<1>3. /\ g \in FrameType
      /\ g.vec = Client /\ g.new = r
  <2>1. /\ f \in FrameType
        /\ f.vec = Client
    BY FrameOfType
  <2>2. recs \in SUBSET Region
    BY DEF TypeOK
  <2> HIDE DEF f
  <2> QED BY <1>2, <2>1, <2>2 DEF FrameType
<1>4. /\ frame' = [frame EXCEPT ![t] = g]
      /\ asked' = asked + 1 /\ asked < Fallbacks /\ pc[t] = "idle" /\ Running(t)
      /\ UNCHANGED <<tls, recs, lost, allocVars, sharedVars, held, stash, leaked, misfree>>
  BY <1>1 DEF NewFallback, AtRest
<1> HIDE DEF g
<1>5. TypeOK'
  <2>1. asked' \in 0 .. Fallbacks
    BY <1>4, NewDeleteAssumption DEF TypeOK
  <2>2. heap' \in [Region -> Tag]
    BY <1>1, <1>2, TagFacts DEF TypeOK
  <2>3. frame' \in [Threads -> FrameType]
    BY <1>3, <1>4 DEF TypeOK
  <2> QED BY <1>1, <1>4, <2>1, <2>2, <2>3 DEF TypeOK, allocVars, sharedVars
<1>6. Local(t)
  BY <1>1, <1>4 DEF TypeOK, Local, allocVars, sharedVars
<1>7. /\ frame'[t] = g /\ pc'[t] = "store" /\ frame[t] = NoFrame
      /\ UNCHANGED <<buf, tls, ready, mutex, reg, slab, arena, used, free, ext, fetched>>
  BY <1>1, <1>4 DEF allocVars, sharedVars, TypeOK, Control, FrameOK, Growing
<1>8. Client \notin Pushable(t)
  BY VectorFacts DEF Pushable
<1>9. FrameOK(t)' /\ PhaseOK(t)' /\ MembersOK(t)'
  BY <1>2, <1>3, <1>4, <1>7, <1>8, VectorFacts, NoFrameFacts
  DEF Control, FrameOK, PhaseOK, MembersOK, Growing, Pushable, Registering, Retiring, Refilling, Stashing
<1> QED BY <1>4, <1>5, <1>6, <1>7, <1>9, LifetimesKept, OthersControl

LEMMA GrowStep ==
  ASSUME TypeOK, Control, NEW t \in Threads, Grow(t)
  PROVE  TypeOK' /\ Control'
<1> DEFINE f == frame[t]
<1>1. PICK r \in Mallocable(heap) :
        /\ heap' = [heap EXCEPT ![r] = <<"fallback", t>>]
        /\ frame' = [frame EXCEPT ![t] = [f EXCEPT !.new = r, !.next = recs]]
        /\ pc' = [pc EXCEPT ![t] = "store"]
  BY DEF Grow, FallbackBegin
<1> DEFINE g == [f EXCEPT !.new = r, !.next = recs]
<1>2. r \in Region /\ r # NULL
  BY MallocableFacts, NewDeleteAssumption DEF Region
<1>3. /\ g \in FrameType
      /\ g.vec = f.vec /\ g.new = r /\ g.old = f.old
  <2>1. f \in FrameType
    BY DEF TypeOK
  <2>2. recs \in SUBSET Region
    BY DEF TypeOK
  <2> HIDE DEF f
  <2> QED BY <1>2, <2>1, <2>2 DEF FrameType
<1>4. /\ frame' = [frame EXCEPT ![t] = g] /\ pc[t] = "push"
      /\ UNCHANGED <<tls, recs, lost, allocVars, sharedVars, clientVars>>
  BY <1>1 DEF Grow
<1> HIDE DEF g
<1>5. TypeOK'
  <2>1. heap' \in [Region -> Tag]
    BY <1>1, <1>2, TagFacts DEF TypeOK
  <2>2. frame' \in [Threads -> FrameType]
    BY <1>3, <1>4 DEF TypeOK
  <2> QED BY <1>1, <1>4, <2>1, <2>2 DEF TypeOK, allocVars, sharedVars, clientVars
<1>6. Local(t)
  BY <1>1, <1>4 DEF TypeOK, Local, allocVars, sharedVars
<1>7. /\ frame'[t] = g /\ pc'[t] = "store"
      /\ UNCHANGED <<buf, tls, ready, mutex, reg, slab, arena, used, free, ext, fetched>>
  BY <1>1, <1>4 DEF allocVars, sharedVars, TypeOK
<1>8. FrameOK(t)' /\ PhaseOK(t)' /\ MembersOK(t)'
  BY <1>2, <1>3, <1>4, <1>7, VectorFacts, NoFrameFacts
  DEF Control, FrameOK, PhaseOK, MembersOK, Growing, Pushable, Registering, Retiring, Refilling, Stashing
<1> QED BY <1>4, <1>5, <1>6, <1>7, <1>8, LifetimesKept, OthersControl

LEMMA GrowStoreStep ==
  ASSUME TypeOK, Control, NEW t \in Threads, GrowStore(t)
  PROVE  TypeOK' /\ Control'
<1>1. /\ pc[t] = "store" /\ frame[t].vec # Client /\ pc' = [pc EXCEPT ![t] = "drop"]
      /\ UNCHANGED <<buf, tls, frame, ready, mutex, reg, slab, arena, used, free, ext, fetched>>
      /\ frame[t].new \in Region
      /\ recs' = frame[t].next \cup {frame[t].new} /\ recs' \subseteq Region /\ lost' \subseteq Region
  BY DEF GrowStore, Publish, allocVars, sharedVars, TypeOK, Control, FrameOK, FrameType
<1>2. TypeOK'
  BY <1>1 DEF GrowStore, TypeOK, allocVars, sharedVars, clientVars
<1>3. Local(t)
  BY <1>1 DEF TypeOK, Local
<1>4. FrameOK(t)' /\ PhaseOK(t)' /\ MembersOK(t)'
  BY <1>1, VectorFacts
  DEF TypeOK, Control, FrameOK, PhaseOK, MembersOK, Growing, Pushable, Registering, Retiring, Refilling, Stashing
<1> QED BY <1>1, <1>2, <1>3, <1>4, LifetimesKept, OthersControl

LEMMA FallbackStoreStep ==
  ASSUME TypeOK, Control, NEW t \in Threads, FallbackStore(t)
  PROVE  TypeOK' /\ Control'
<1> DEFINE o == At(<<frame[t].new, 0>>, t, "malloc")
<1>1. /\ pc[t] = "store" /\ frame[t].vec = Client /\ pc' = [pc EXCEPT ![t] = "idle"]
      /\ frame' = [frame EXCEPT ![t] = NoFrame]
      /\ UNCHANGED <<buf, tls, ready, mutex, reg, slab, arena, used, free, ext, fetched>>
      /\ frame[t].new \in Region
      /\ recs' = frame[t].next \cup {frame[t].new} /\ recs' \subseteq Region /\ lost' \subseteq Region
      /\ held' = held \cup {o}
  BY DEF FallbackStore, Publish, allocVars, sharedVars, TypeOK, Control, FrameOK, FrameType
<1>2. o \in Object
  BY <1>1 DEF At, Object, Kinds, Pointer
<1>3. TypeOK'
  BY <1>1, <1>2, NoFrameFacts DEF FallbackStore, TypeOK, allocVars, sharedVars
<1>4. Local(t)
  BY <1>1 DEF TypeOK, Local
<1>5. frame'[t] = NoFrame /\ pc'[t] = "idle"
  BY <1>1 DEF TypeOK
<1>6. frame[t].vec \notin Pushable(t)
  BY <1>1, VectorFacts DEF Pushable
<1>7. FrameOK(t)' /\ PhaseOK(t)' /\ MembersOK(t)'
  BY <1>1, <1>5, <1>6, VectorFacts, NoFrameFacts
  DEF Control, FrameOK, PhaseOK, MembersOK, Growing, Pushable, Registering, Retiring, Refilling, Stashing
<1> QED BY <1>1, <1>3, <1>4, <1>7, LifetimesKept, OthersControl

LEMMA NewAlignedStep ==
  ASSUME TypeOK, Control, NEW t \in Threads, NewAligned(t)
  PROVE  TypeOK' /\ Control'
<1> DEFINE v == Shared("stash")
<1>1. v \in Vector
  BY VectorFacts
<1>2. PICK r \in Mallocable(heap) : /\ heap' = [heap EXCEPT ![r] = <<"fallback", t>>]
                                    /\ fetched' = [fetched EXCEPT ![t] = r]
  BY DEF NewAligned
<1>3. r \in Region /\ r # NULL
  BY MallocableFacts, NewDeleteAssumption DEF Region
<1>4. /\ FrameOf(v).vec = v /\ FrameOf(v).new = NULL /\ FrameOf(v).old = buf[v]
      /\ frame' = [frame EXCEPT ![t] = FrameOf(v)] /\ pc' = [pc EXCEPT ![t] = "push"]
      /\ UNCHANGED <<buf, tls, ready, mutex, reg, slab, arena, used, free, ext>>
      /\ pc[t] = "idle" /\ frame[t] = NoFrame /\ ~ready /\ Running(t) /\ t = Main
      /\ asked' = asked + 1 /\ asked < Fallbacks
  BY <1>1, FrameOfType DEF NewAligned, sharedVars, Control, FrameOK, Growing, AtRest, Running
<1>5. asked' \in 0 .. Fallbacks
  BY <1>4, NewDeleteAssumption DEF TypeOK
<1>6. TypeOK'
  <2>1. heap' \in [Region -> Tag]
    BY <1>2, <1>3, TagFacts DEF TypeOK
  <2>2. frame' \in [Threads -> FrameType]
    BY <1>1, <1>4, FrameOfType DEF TypeOK
  <2> QED BY <1>2, <1>3, <1>4, <1>5, <2>1, <2>2 DEF NewAligned, TypeOK, sharedVars
<1>7. Local(t)
  BY <1>2, <1>4 DEF TypeOK, Local
<1>8. frame'[t] = FrameOf(v) /\ pc'[t] = "push" /\ fetched'[t] = r
  BY <1>2, <1>4 DEF TypeOK
<1>9. FrameOK(t)' /\ PhaseOK(t)' /\ MembersOK(t)'
  BY <1>1, <1>3, <1>4, <1>8, VectorFacts, NoFrameFacts
  DEF Control, FrameOK, PhaseOK, MembersOK, Growing, Pushable, Registering, Retiring, Refilling, Stashing
<1> QED BY <1>4, <1>6, <1>7, <1>9, LifetimesKept, OthersControl

LEMMA AlignedReturnStep ==
  ASSUME TypeOK, Control, NEW t \in Threads, AlignedReturn(t)
  PROVE  TypeOK' /\ Control'
<1>1. /\ pc[t] = "stashed" /\ pc' = [pc EXCEPT ![t] = "idle"]
      /\ fetched' = [fetched EXCEPT ![t] = NULL]
      /\ UNCHANGED <<frame, buf, tls, ready, mutex, reg, slab, arena, used, free, ext>>
      /\ frame[t] = NoFrame /\ fetched[t] \in Region
  BY DEF AlignedReturn, sharedVars, Control, FrameOK, Growing, MembersOK, Stashing, TypeOK
<1>2. PICK offset \in {0, 1} : /\ stash' = stash \cup {<<fetched[t], offset>>}
                               /\ held' = held \cup {At(<<fetched[t], offset>>, t, "aligned")}
  BY DEF AlignedReturn
<1>3. <<fetched[t], offset>> \in Pointer /\ At(<<fetched[t], offset>>, t, "aligned") \in Object
  BY <1>1 DEF At, Object, Kinds, Pointer
<1>4. TypeOK'
  BY <1>1, <1>2, <1>3 DEF AlignedReturn, TypeOK, sharedVars
<1>5. Local(t)
  BY <1>1 DEF TypeOK, Local
<1>6. pc'[t] = "idle" /\ fetched'[t] = NULL
  BY <1>1 DEF TypeOK
<1>7. FrameOK(t)' /\ PhaseOK(t)' /\ MembersOK(t)'
  BY <1>1, <1>6, VectorFacts, NoFrameFacts
  DEF Control, FrameOK, PhaseOK, MembersOK, Growing, Pushable, Registering, Retiring, Refilling, Stashing
<1> QED BY <1>1, <1>4, <1>5, <1>7, LifetimesKept, OthersControl

LEMMA ExitStep ==
  ASSUME TypeOK, Control, NEW t \in Threads, Exit(t)
  PROVE  TypeOK' /\ Control'
<1>1. /\ pc[t] = "idle" /\ Running(t) /\ tls[t] = "live" /\ ready
      /\ tls' = [tls EXCEPT ![t] = "gone"] /\ pc' = [pc EXCEPT ![t] = "retire"]
      /\ UNCHANGED <<frame, buf, fetched, ready, mutex, reg, slab, arena, used, free, ext>>
      /\ t = Main => \A u \in Threads \ {Main} : tls[u] \in {"none", "gone"} /\ pc[u] = "idle"
      /\ frame[t] = NoFrame
  BY DEF Exit, AtRest, allocVars, sharedVars, Control, FrameOK, Growing
<1>2. TypeOK'
  BY <1>1 DEF Exit, TypeOK, allocVars, sharedVars, clientVars
<1>3. Local(t)
  BY <1>1 DEF TypeOK, Local
<1>4. tls'[t] = "gone" /\ pc'[t] = "retire"
  BY <1>1 DEF TypeOK
<1>5. FrameOK(t)' /\ PhaseOK(t)' /\ MembersOK(t)'
  BY <1>1, <1>4, VectorFacts, NoFrameFacts
  DEF Control, FrameOK, PhaseOK, MembersOK, Growing, Pushable, Registering, Retiring, Refilling, Stashing
<1>6. Lifetimes'
  BY <1>1, <1>3, <1>4 DEF Control, Lifetimes, Local, Running
<1> QED BY <1>2, <1>3, <1>5, <1>6, OthersControl

LEMMA DestroyStep ==
  ASSUME TypeOK, Control, NEW t \in Threads, Destroy(t)
  PROVE  TypeOK' /\ Control'
<1>1. /\ pc[t] = "destroy"
      /\ pc' = [pc EXCEPT ![t] = IF buf[Ext(t)] = NULL THEN "idle" ELSE "dropext"]
      /\ slab' = [slab EXCEPT ![t] = NULL] /\ arena' = [arena EXCEPT ![t] = NULL]
      /\ used' = [used EXCEPT ![t] = 0] /\ free' = [free EXCEPT ![t] = {}]
      /\ ext' = [ext EXCEPT ![t] = {}]
      /\ UNCHANGED <<tls, frame, buf, fetched, ready, mutex, reg>>
      /\ frame[t] = NoFrame /\ slab[t] \in Region /\ arena[t] \in Region
      /\ heap' = [heap EXCEPT ![slab[t]] = Freed, ![arena[t]] = Freed]
  BY DEF Destroy, sharedVars, Control, FrameOK, Growing, MembersOK, TypeOK
<1>2. misfree' \in BOOLEAN
  BY DEF Destroy
<1>3. TypeOK'
  <2>1. heap' \in [Region -> Tag]
    BY <1>1, TagFacts DEF TypeOK
  <2>2. used' \in [Threads -> 0 .. ArenaBlocks]
    BY <1>1, NewDeleteAssumption DEF TypeOK
  <2> QED BY <1>1, <1>2, <2>1, <2>2 DEF Destroy, TypeOK, sharedVars
<1>4. Local(t)
  BY <1>1 DEF TypeOK, Local
<1>5. /\ pc'[t] \in {"idle", "dropext"}
      /\ slab'[t] = NULL /\ arena'[t] = NULL /\ used'[t] = 0 /\ free'[t] = {} /\ ext'[t] = {}
  BY <1>1 DEF TypeOK
<1>6. FrameOK(t)' /\ PhaseOK(t)' /\ MembersOK(t)'
  BY <1>1, <1>5, VectorFacts, NoFrameFacts
  DEF Control, FrameOK, PhaseOK, MembersOK, Growing, Pushable, Registering, Retiring, Refilling, Stashing
<1> QED BY <1>1, <1>3, <1>4, <1>6, LifetimesKept, OthersControl

(* What do_delete may do to the free lists, the heap and the stash, whatever  *)
(* it is given.                                                             *)
LEMMA DeleteEffects ==
  ASSUME TypeOK, Control, NEW t \in Threads, NEW o \in Object, DoDelete(t, o)
  PROVE  /\ free' \in [Threads -> SUBSET Pointer]
         /\ \A u \in Threads \ {t} : free'[u] = free[u]
         /\ slab[t] = NULL => free'[t] = {}
         /\ heap' \in [Region -> Tag]
         /\ stash' \subseteq Pointer
         /\ leaked' \subseteq [obj : Object, deleter : Threads]
         /\ misfree' \in BOOLEAN
<1>1. o.ptr \in Pointer /\ o.ptr[1] \in Region
  BY DEF Object, Pointer
<1>2. slab[t] = NULL => PoolOf(t) = {} /\ free[t] = {}
  BY DEF Control, MembersOK, PoolOf
<1>3. free' = free \/ (o.ptr \in PoolOf(t) /\ free' = [free EXCEPT ![t] = @ \cup {o.ptr}])
  BY DEF DoDelete, Unstash, InPool
<1>4. /\ free' \in [Threads -> SUBSET Pointer]
      /\ \A u \in Threads \ {t} : free'[u] = free[u]
      /\ slab[t] = NULL => free'[t] = {}
  BY <1>1, <1>2, <1>3 DEF TypeOK
<1>5. heap' = heap \/ heap' = [heap EXCEPT ![o.ptr[1]] = Freed]
  BY DEF DoDelete, Unstash
<1>6. heap' \in [Region -> Tag]
  BY <1>1, <1>5, TagFacts DEF TypeOK
<1>7. stash' \subseteq Pointer
  BY DEF DoDelete, Unstash, TypeOK
<1>8. leaked' \subseteq [obj : Object, deleter : Threads]
  <2>1. leaked' = leaked \/ leaked' = leaked \cup {[obj |-> o, deleter |-> t]}
    BY DEF DoDelete, Unstash
  <2> QED BY <2>1 DEF TypeOK
<1>9. misfree' \in BOOLEAN
  BY DEF DoDelete, Unstash, TypeOK
<1> QED BY <1>4, <1>6, <1>7, <1>8, <1>9

(* The end of a push_back: the vector's buffer may be a new one.             *)
LEMMA PushedStep ==
  ASSUME TypeOK, Control, NEW t \in Threads, pc[t] \in {"push", "drop"}, Pushed(t),
         frame' = [frame EXCEPT ![t] = NoFrame], UNCHANGED <<ready, slab, arena, used>>,
         \A u \in Threads \ {t} : free'[u] = free[u],
         slab[t] = NULL => free'[t] = {},
         \A v \in Vector \ {frame[t].vec} : buf'[v] = buf[v]
  PROVE  /\ Control'
         /\ tls' \in [Threads -> {"none", "building", "live", "gone"}]
         /\ pc' \in [Threads -> {"idle", "register", "retire", "refill", "push", "store",
                          "drop", "link", "retry", "stashed", "destroy", "dropext"}]
         /\ frame' \in [Threads -> FrameType]
         /\ mutex' \in [{"registry", "central"} -> Threads \cup {NULL}]
         /\ ext' \in [Threads -> SUBSET Region]
         /\ fetched' \in [Threads -> Region \cup {NULL}]
         /\ chunks' \subseteq Region
         /\ reg' \subseteq Threads
<1> DEFINE v == frame[t].vec
<1>0. frame' \in [Threads -> FrameType] /\ frame'[t] = NoFrame /\ \A u \in Threads \ {t} : frame'[u] = frame[u]
  BY NoFrameFacts DEF TypeOK
<1>1. v \in Pushable(t) /\ v \in Vector
  BY VectorFacts DEF Control, FrameOK, Growing, Pushable
<1>2. ASSUME NEW u \in Threads \ {t}, frame[u].vec \in Vector PROVE frame[u].vec # v
  <2>1. frame[u].vec \in Pushable(u)
    BY <1>2, VectorFacts, NoFrameFacts DEF Control, FrameOK
  <2>2. /\ frame[u].vec \in {Shared("live"), Shared("retired")} => mutex["registry"] = u
        /\ frame[u].vec = Shared("chunks") => mutex["central"] = u
        /\ frame[u].vec = Shared("stash") => u = Main
        /\ v \in {Shared("live"), Shared("retired")} => mutex["registry"] = t
        /\ v = Shared("chunks") => mutex["central"] = t
        /\ v = Shared("stash") => t = Main
    BY DEF Control, PhaseOK, Stashing
  <2> QED BY <1>1, <2>1, <2>2, VectorFacts DEF Pushable
<1>3. \A u \in Threads \ {t} : /\ frame[u].vec \in Vector => buf'[frame[u].vec] = buf[frame[u].vec]
                               /\ buf'[Ext(u)] = buf[Ext(u)]
  BY <1>1, <1>2, VectorFacts DEF Pushable
<1>4. mutex["registry"] = t \/ v \notin {Shared("live"), Shared("retired")}
  BY DEF Control, PhaseOK
<1>5. mutex["central"] = t \/ v # Shared("chunks")
  BY DEF Control, PhaseOK
<1>6. fetched[t] \in Region \/ v \notin {Shared("chunks"), Ext(t)}
  BY DEF Control, MembersOK, TypeOK
<1> HIDE DEF v
<1>7. CASE v = Shared("live") /\ Registered(t)
  <2>1. /\ reg' = reg \cup {t} /\ tls' = [tls EXCEPT ![t] = "live"]
        /\ mutex' = [mutex EXCEPT !["registry"] = NULL] /\ pc' = [pc EXCEPT ![t] = "idle"]
        /\ UNCHANGED <<chunks, ext, fetched>>
    BY <1>7 DEF Registered
  <2>2. pc'[t] = "idle" /\ tls'[t] = "live" /\ t \in reg'
    BY <2>1 DEF TypeOK
  <2>3. Local(t)
    BY <1>0, <1>3, <1>4, <1>7, <2>1 DEF Local, TypeOK
  <2>4. tls[t] = "building" /\ slab[t] # NULL /\ fetched[t] = NULL /\ pc[t] # "idle"
    BY <1>7, VectorFacts DEF Control, PhaseOK, MembersOK, Registering, Stashing, v
  <2>5. FrameOK(t)' /\ PhaseOK(t)' /\ MembersOK(t)'
    BY <1>0, <1>1, <1>7, <2>1, <2>2, <2>4, VectorFacts, NoFrameFacts
    DEF Control, FrameOK, PhaseOK, MembersOK, Growing, Registering, Retiring, Refilling, Stashing
  <2>6. Lifetimes'
    BY <2>3, <2>2, <2>4, LifetimesKept
  <2> QED BY <1>0, <2>1, <2>3, <2>5, <2>6, OthersControl DEF TypeOK
<1>8. CASE v = Shared("retired") /\ Retired(t)
  <2>1. /\ reg' = reg \ {t} /\ tls' = tls
        /\ mutex' = [mutex EXCEPT !["registry"] = NULL] /\ pc' = [pc EXCEPT ![t] = "destroy"]
        /\ UNCHANGED <<chunks, ext, fetched>>
    BY <1>8 DEF Retired
  <2>2. pc'[t] = "destroy" /\ tls'[t] = tls[t] /\ t \notin reg'
    BY <2>1 DEF TypeOK
  <2>3. Local(t)
    BY <1>0, <1>3, <1>4, <1>8, <2>1 DEF Local, TypeOK
  <2>4. tls[t] = "gone" /\ slab[t] # NULL /\ fetched[t] = NULL /\ pc[t] # "idle"
    BY <1>8, VectorFacts DEF Control, PhaseOK, MembersOK, Retiring, Stashing, v
  <2>5. FrameOK(t)' /\ PhaseOK(t)' /\ MembersOK(t)'
    BY <1>0, <1>1, <1>8, <2>1, <2>2, <2>4, VectorFacts, NoFrameFacts
    DEF Control, FrameOK, PhaseOK, MembersOK, Growing, Registering, Retiring, Refilling, Stashing
  <2>6. Lifetimes'
    BY <2>3, <2>2, <2>4, LifetimesKept
  <2> QED BY <1>0, <2>1, <2>3, <2>5, <2>6, OthersControl DEF TypeOK
<1>9. CASE v = Shared("chunks") /\ Acquired(t)
  <2>1. /\ chunks' = chunks \cup {fetched[t]} /\ tls' = tls /\ reg' = reg
        /\ mutex' = [mutex EXCEPT !["central"] = NULL] /\ pc' = [pc EXCEPT ![t] = "link"]
        /\ UNCHANGED <<ext, fetched>>
    BY <1>9 DEF Acquired
  <2>2. pc'[t] = "link" /\ tls'[t] = tls[t]
    BY <2>1 DEF TypeOK
  <2>3. Local(t)
    BY <1>0, <1>3, <1>5, <1>9, <2>1 DEF Local, TypeOK
  <2>4. tls[t] = "live" /\ ready /\ slab[t] # NULL /\ fetched[t] # NULL /\ pc[t] # "idle"
    BY <1>9, VectorFacts DEF Control, PhaseOK, MembersOK, Refilling, Stashing, v
  <2>5. FrameOK(t)' /\ PhaseOK(t)' /\ MembersOK(t)'
    BY <1>0, <1>1, <1>9, <2>1, <2>2, <2>4, VectorFacts, NoFrameFacts
    DEF Control, FrameOK, PhaseOK, MembersOK, Growing, Registering, Retiring, Refilling, Stashing
  <2>6. Lifetimes'
    BY <2>3, <2>2, <2>4, LifetimesKept
  <2> QED BY <1>0, <1>6, <1>9, <2>1, <2>3, <2>5, <2>6, OthersControl DEF TypeOK
<1>10. CASE v = Ext(t) /\ Linked(t)
  <2>1. /\ ext' = [ext EXCEPT ![t] = @ \cup {fetched[t]}] /\ tls' = tls /\ reg' = reg
        /\ mutex' = mutex /\ pc' = [pc EXCEPT ![t] = "retry"]
        /\ fetched' = [fetched EXCEPT ![t] = NULL] /\ chunks' = chunks
    BY <1>10 DEF Linked
  <2>2. pc'[t] = "retry" /\ tls'[t] = tls[t] /\ fetched'[t] = NULL
    BY <2>1 DEF TypeOK
  <2>3. Local(t)
    BY <1>0, <1>3, <1>10, <2>1 DEF Local, TypeOK
  <2>4. tls[t] = "live" /\ ready /\ slab[t] # NULL /\ pc[t] # "idle"
    BY <1>10, VectorFacts DEF Control, PhaseOK, MembersOK, Refilling, Stashing, v
  <2>5. FrameOK(t)' /\ PhaseOK(t)' /\ MembersOK(t)'
    BY <1>0, <1>1, <1>10, <2>1, <2>2, <2>4, VectorFacts, NoFrameFacts
    DEF Control, FrameOK, PhaseOK, MembersOK, Growing, Registering, Retiring, Refilling, Stashing
  <2>6. Lifetimes'
    BY <2>3, <2>2, <2>4, LifetimesKept
  <2> QED BY <1>0, <1>6, <1>10, <2>1, <2>3, <2>5, <2>6, OthersControl DEF TypeOK
<1>11. CASE v = Shared("stash") /\ Stashed(t)
  <2>1. /\ UNCHANGED <<tls, reg, chunks, mutex, ext, fetched>> /\ pc' = [pc EXCEPT ![t] = "stashed"]
    BY <1>11 DEF Stashed
  <2>2. pc'[t] = "stashed" /\ tls'[t] = tls[t]
    BY <2>1 DEF TypeOK
  <2>3. Local(t)
    BY <1>0, <1>3, <1>11, <2>1 DEF Local, TypeOK
  <2>4. t = Main /\ ~ready /\ fetched[t] # NULL /\ pc[t] # "idle"
    BY <1>11, VectorFacts DEF Control, PhaseOK, MembersOK, Stashing, v
  <2>5. FrameOK(t)' /\ PhaseOK(t)' /\ MembersOK(t)'
    BY <1>0, <1>1, <1>11, <2>1, <2>2, <2>4, VectorFacts, NoFrameFacts
    DEF Control, FrameOK, PhaseOK, MembersOK, Growing, Registering, Retiring, Refilling, Stashing, v
  <2>6. Lifetimes'
    BY <2>3, <2>2, <2>4, LifetimesKept
  <2> QED BY <1>0, <2>1, <2>3, <2>5, <2>6, OthersControl DEF TypeOK
<1> QED BY <1>7, <1>8, <1>9, <1>10, <1>11 DEF Pushed, v

LEMMA PushInPlaceStep ==
  ASSUME TypeOK, Control, NEW t \in Threads, PushInPlace(t)
  PROVE  TypeOK' /\ Control'
<1>1. /\ pc[t] = "push" /\ Pushed(t) /\ frame' = [frame EXCEPT ![t] = NoFrame]
      /\ UNCHANGED <<program, ready, slab, arena, used, free, buf, recs, lost, heap, asked, held, stash,
                     leaked, misfree>>
      /\ slab[t] = NULL => free[t] = {}
  BY DEF PushInPlace, clientVars, Control, MembersOK
<1> QED BY <1>1, PushedStep DEF TypeOK

LEMMA BufferIsObject ==
  ASSUME NEW r \in Region, NEW t \in Threads
  PROVE  Buffer(r, t) \in Object
BY DEF Buffer, At, Object, Pointer, Kinds

LEMMA GrowDropStep ==
  ASSUME TypeOK, Control, NEW t \in Threads, GrowDrop(t)
  PROVE  TypeOK' /\ Control'
<1>1. /\ pc[t] = "drop" /\ Pushed(t) /\ frame' = [frame EXCEPT ![t] = NoFrame]
      /\ buf' = [buf EXCEPT ![frame[t].vec] = frame[t].new]
      /\ UNCHANGED <<program, ready, slab, arena, used, recs, lost, asked, held>>
      /\ frame[t].new \in Region
  BY DEF GrowDrop, TypeOK, FrameType, Control, FrameOK
<1>2. /\ free' \in [Threads -> SUBSET Pointer]
      /\ \A u \in Threads \ {t} : free'[u] = free[u]
      /\ slab[t] = NULL => free'[t] = {}
      /\ heap' \in [Region -> Tag]
      /\ stash' \subseteq Pointer
      /\ leaked' \subseteq [obj : Object, deleter : Threads]
      /\ misfree' \in BOOLEAN
  <2>1. CASE frame[t].old = NULL
    BY <2>1 DEF GrowDrop, TypeOK, Control, MembersOK
  <2>2. CASE frame[t].old # NULL
    <3>1. frame[t].old \in Region
      BY <2>2 DEF TypeOK, FrameType
    <3>2. DoDelete(t, Buffer(frame[t].old, t))
      BY <2>2 DEF GrowDrop
    <3> QED BY <3>1, <3>2, BufferIsObject, DeleteEffects
  <2> QED BY <2>1, <2>2
<1>3. /\ buf' \in [Vector -> Region \cup {NULL}]
      /\ \A v \in Vector \ {frame[t].vec} : buf'[v] = buf[v]
  BY <1>1 DEF TypeOK
<1> QED BY <1>1, <1>2, <1>3, PushedStep DEF TypeOK

LEMMA DropExtStep ==
  ASSUME TypeOK, Control, NEW t \in Threads, DropExt(t)
  PROVE  TypeOK' /\ Control'
<1>1. /\ pc[t] = "dropext" /\ pc' = [pc EXCEPT ![t] = "idle"] /\ frame[t] = NoFrame
      /\ DoDelete(t, Buffer(buf[Ext(t)], t))
      /\ buf' = [buf EXCEPT ![Ext(t)] = NULL]
      /\ UNCHANGED <<tls, frame, recs, lost, slab, arena, used, ext, fetched,
                     program, ready, mutex, chunks, reg, asked, held>>
      /\ tls[t] = "gone"
  BY DEF DropExt, Control, FrameOK, Growing, PhaseOK
<1>2. buf[Ext(t)] \in Region
  BY VectorFacts DEF DropExt, TypeOK, Control, MembersOK
<1>3. /\ free' \in [Threads -> SUBSET Pointer]
      /\ \A u \in Threads \ {t} : free'[u] = free[u]
      /\ slab[t] = NULL => free'[t] = {}
      /\ heap' \in [Region -> Tag]
      /\ stash' \subseteq Pointer
      /\ leaked' \subseteq [obj : Object, deleter : Threads]
      /\ misfree' \in BOOLEAN
  BY <1>1, <1>2, BufferIsObject, DeleteEffects
<1>4. TypeOK'
  BY <1>1, <1>3 DEF TypeOK
<1>5. \A v \in Vector \ {Ext(t)} : buf'[v] = buf[v]
  BY <1>1 DEF TypeOK
<1>6. ASSUME NEW u \in Threads \ {t}, frame[u].vec \in Vector PROVE frame[u].vec # Ext(t)
  BY <1>6, VectorFacts, NoFrameFacts DEF Control, FrameOK, Pushable
<1>7. Local(t)
  BY <1>1, <1>3, <1>5, <1>6, VectorFacts DEF TypeOK, Local
<1>8. pc'[t] = "idle"
  BY <1>1 DEF TypeOK
<1>9. FrameOK(t)' /\ PhaseOK(t)' /\ MembersOK(t)'
  BY <1>1, <1>3, <1>8, VectorFacts, NoFrameFacts
  DEF Control, FrameOK, PhaseOK, MembersOK, Growing, Pushable, Registering, Retiring, Refilling, Stashing
<1> QED BY <1>1, <1>4, <1>7, <1>9, LifetimesKept, OthersControl

LEMMA DeleteStep ==
  ASSUME TypeOK, Control, NEW t \in Threads, NEW o \in held, Delete(t, o)
  PROVE  TypeOK' /\ Control'
<1>1. /\ pc[t] = "idle" /\ frame[t] = NoFrame /\ Running(t)
      /\ DoDelete(t, o) /\ held' = held \ {o}
      /\ UNCHANGED <<tls, pc, frame, recs, lost, slab, arena, used, ext, fetched,
                     program, ready, mutex, chunks, buf, reg, asked>>
  BY DEF Delete, AtRest, sharedVars, Control, FrameOK, Growing
<1>2. o \in Object
  BY DEF TypeOK
<1>3. /\ free' \in [Threads -> SUBSET Pointer]
      /\ \A u \in Threads \ {t} : free'[u] = free[u]
      /\ slab[t] = NULL => free'[t] = {}
      /\ heap' \in [Region -> Tag]
      /\ stash' \subseteq Pointer
      /\ leaked' \subseteq [obj : Object, deleter : Threads]
      /\ misfree' \in BOOLEAN
  BY <1>1, <1>2, DeleteEffects
<1>4. TypeOK'
  BY <1>1, <1>3 DEF TypeOK
<1>5. Local(t)
  BY <1>1, <1>3 DEF Local
<1>6. FrameOK(t)' /\ PhaseOK(t)' /\ MembersOK(t)'
  BY <1>1, <1>3 DEF Control, FrameOK, PhaseOK, MembersOK, Registering, Retiring, Refilling, Stashing
<1> QED BY <1>1, <1>4, <1>5, <1>6, LifetimesKept, OthersControl

(* In the static destructors nobody is in the middle of anything, and no     *)
(* allocator has members any more.                                          *)
LEMMA StaticsFacts ==
  ASSUME TypeOK, Control, Statics
  PROVE  /\ ready /\ \A t \in Threads : /\ pc[t] = "idle" /\ frame[t] = NoFrame /\ frame[t].vec = NULL
                                        /\ tls[t] \in {"none", "gone"}
                                        /\ slab[t] = NULL /\ ext[t] = {} /\ free[t] = {}
                                        /\ fetched[t] = NULL
<1>1. ready /\ \A t \in Threads : pc[t] = "idle" /\ tls[t] \in {"none", "gone"}
  BY DEF Statics, Control, Lifetimes
<1>2. \A t \in Threads : frame[t] = NoFrame /\ frame[t].vec = NULL
  BY <1>1, NoFrameFacts DEF Control, FrameOK, Growing
<1>3. \A t \in Threads : slab[t] = NULL /\ ext[t] = {} /\ free[t] = {} /\ fetched[t] = NULL
  BY <1>1, <1>2, VectorFacts DEF Control, MembersOK, Retiring, Stashing
<1> QED BY <1>1, <1>2, <1>3

LEMMA FreeChunksStep ==
  ASSUME TypeOK, Control, FreeChunks
  PROVE  TypeOK' /\ Control'
<1>1. /\ Statics
      /\ heap' = [r \in Region |-> IF r \in chunks THEN Freed ELSE heap[r]]
      /\ misfree' = (misfree \/ \E r \in chunks : heap[r][1] # "chunk")
      /\ chunks' = {}
      /\ UNCHANGED <<tls, pc, frame, recs, lost, slab, arena, used, ext, free, fetched, program, ready, mutex,
                     buf, reg, asked, held, stash, leaked>>
  BY DEF FreeChunks, allocVars
<1>2. heap' \in [Region -> Tag] /\ misfree' \in BOOLEAN
  BY <1>1, TagFacts DEF TypeOK
<1>3. TypeOK'
  BY <1>1, <1>2 DEF TypeOK
<1>4. Control'
  BY <1>1 DEF Control, Lifetimes, FrameOK, PhaseOK, MembersOK, Registering, Retiring, Refilling, Stashing
<1> QED BY <1>3, <1>4

LEMMA DropSharedStep ==
  ASSUME TypeOK, Control, NEW a \in {"stash", "live", "retired", "chunks"}, DropShared(Shared(a))
  PROVE  TypeOK' /\ Control'
<1> DEFINE v == Shared(a)
<1>1. /\ Statics /\ buf[v] # NULL
      /\ DoDelete(Main, Buffer(buf[v], Main))
      /\ buf' = [buf EXCEPT ![v] = NULL]
      /\ UNCHANGED <<tls, pc, frame, recs, lost, slab, arena, used, ext, fetched,
                     program, ready, mutex, chunks, reg, asked, held>>
  BY DEF DropShared
<1>2. v \in Vector /\ buf[v] \in Region /\ Main \in Threads
  BY <1>1, VectorFacts, NewDeleteAssumption DEF TypeOK
<1>3. /\ free' \in [Threads -> SUBSET Pointer]
      /\ \A u \in Threads \ {Main} : free'[u] = free[u]
      /\ slab[Main] = NULL => free'[Main] = {}
      /\ heap' \in [Region -> Tag]
      /\ stash' \subseteq Pointer
      /\ leaked' \subseteq [obj : Object, deleter : Threads]
      /\ misfree' \in BOOLEAN
  BY <1>1, <1>2, BufferIsObject, DeleteEffects
<1>4. TypeOK'
  BY <1>1, <1>3 DEF TypeOK
<1>5. \A t \in Threads : free'[t] = {} /\ frame[t].vec \notin Vector /\ pc[t] = "idle"
  BY <1>1, <1>3, StaticsFacts, VectorFacts
<1>6. Control'
  BY <1>1, <1>5 DEF Control, Lifetimes, FrameOK, PhaseOK, MembersOK, Registering, Retiring, Refilling, Stashing
<1> QED BY <1>4, <1>6

LEMMA InitControl == Init => TypeOK /\ Control
<1> SUFFICES ASSUME Init PROVE TypeOK /\ Control
  OBVIOUS
<1>1. TypeOK
  <2>1. 0 \in 0 .. ArenaBlocks /\ 0 \in 0 .. Fallbacks
    BY NewDeleteAssumption
  <2>2. frame \in [Threads -> FrameType] /\ heap \in [Region -> Tag]
    BY NoFrameFacts, TagFacts DEF Init
  <2> QED BY <2>1, <2>2 DEF Init, TypeOK
<1>2. Control
  BY NewDeleteAssumption, NoFrameFacts, VectorFacts
  DEF Init, Control, Lifetimes, FrameOK, PhaseOK, MembersOK, Growing, Registering, Retiring, Refilling, Stashing
<1> QED BY <1>1, <1>2

LEMMA IdleControl ==
  ASSUME TypeOK, Control, UNCHANGED vars
  PROVE  TypeOK' /\ Control'
<1>1. TypeOK'
  BY DEF TypeOK, vars, allocVars, sharedVars, clientVars
<1>2. Control'
  BY DEF vars, allocVars, sharedVars, clientVars, Control, Lifetimes, FrameOK, PhaseOK, MembersOK,
         Registering, Retiring, Refilling, Stashing
<1> QED BY <1>1, <1>2

(* The steps there are, each once.                                          *)
LEMMA StepCases ==
  ASSUME Next
  PROVE  \/ \E t \in Threads :
              \/ LockRegistry(t) \/ AcquireChunk(t) \/ PushInPlace(t) \/ Grow(t) \/ GrowStore(t) \/ GrowDrop(t)
              \/ AddExternalSlab(t) \/ FallbackStore(t) \/ AlignedReturn(t) \/ Destroy(t) \/ DropExt(t)
              \/ Construct(t) \/ NewBlock(t) \/ NewLarge(t) \/ Exhausted(t) \/ NewFallback(t) \/ NewAligned(t)
              \/ (\E o \in held : Delete(t, o))
              \/ Exit(t)
         \/ SetReady
         \/ FreeChunks
         \/ \E name \in {"stash", "live", "retired", "chunks"} : DropShared(Shared(name))
BY DEF Next, Work, Call

LEMMA NextControl ==
  ASSUME TypeOK, Control, [Next]_vars
  PROVE  TypeOK' /\ Control'
BY StepCases, IdleControl, LockRegistryStep, AcquireChunkStep, PushInPlaceStep, GrowStep, GrowStoreStep,
   GrowDropStep, AddExternalSlabStep, FallbackStoreStep, AlignedReturnStep, DestroyStep, DropExtStep,
   ConstructStep, NewBlockStep, NewLargeStep, ExhaustedStep, NewFallbackStep, NewAlignedStep, DeleteStep,
   ExitStep, SetReadyStep, FreeChunksStep, DropSharedStep

------------------------------------------------------------------------------
(* The memory.  An address that comes back while its record is still listed  *)
(* can be freed by a delete on a foreign thread: program by program, what    *)
(* follows supposes that at most one of the two can happen.                 *)
SafeProgram == ~(Recycle /\ CrossDelete)

(* What each allocator and CentralHeap have is allocated for it.             *)
Tagged ==
  /\ \A t \in Threads : slab[t] # NULL => heap[slab[t]] = <<"slab", t>> /\ heap[arena[t]] = <<"arena", t>>
  /\ \A t \in Threads : \A r \in ext[t] : heap[r] = <<"chunk", t>> /\ r \in chunks
  /\ \A r \in chunks : \E u \in Threads : heap[r] = <<"chunk", u>>
  /\ \A t \in Threads : fetched[t] # NULL /\ ~Stashing(t) =>
       heap[fetched[t]] = <<"chunk", t>> /\ fetched[t] \notin ext[t]
  /\ \A t \in Threads : pc[t] = "link" \/ frame[t].vec = Ext(t) => fetched[t] \in chunks

(* The one use each fallback allocation is put to: the buffer of a vector,   *)
(* the one that will replace it, an over-aligned object before and after its *)
(* payload is stashed, or an object of the clients.                         *)
BufUse(v)   == <<"buf", v>>
NewUse(t)   == <<"new", t>>
RawUse      == <<"raw", NULL>>
StashUse(p) == <<"stash", p>>
ObjUse      == <<"obj", NULL>>

Uses(use) ==
  /\ \A v \in Vector : buf[v] # NULL =>
       (\E u \in Threads : heap[buf[v]] = <<"fallback", u>>) /\ use[buf[v]] = BufUse(v)
  /\ \A t \in Threads : frame[t].new # NULL =>
       heap[frame[t].new] = <<"fallback", t>> /\ use[frame[t].new] = NewUse(t)
  /\ Stashing(Main) => heap[fetched[Main]] = <<"fallback", Main>> /\ use[fetched[Main]] = RawUse
  /\ \A p \in stash : heap[p[1]] = <<"fallback", Main>> /\ use[p[1]] = StashUse(p)
  /\ \A o \in held : o.kind = "malloc" =>
       o.ptr[2] = 0 /\ heap[o.ptr[1]] = <<"fallback", o.by>> /\ use[o.ptr[1]] = ObjUse

(* Where the clients' objects lie.                                           *)
HeldOK ==
  \A o \in held :
    /\ o.kind \in {"pool", "arena"} => tls[o.by] = "live" /\ ready
    /\ o.kind = "pool" => o.ptr \in PoolOf(o.by) /\ o.ptr \notin free[o.by]
    /\ o.kind = "arena" => o.ptr \in ArenaOf(o.by)
    /\ o.kind = "aligned" => o.by = Main /\ o.ptr \in stash
HeldOnce == \A o1, o2 \in held : o1.ptr = o2.ptr => o1 = o2

(* Where the blocks of a pool are.  Those of a chunk are on the free list a   *)
(* step before the chunk is among the external slabs.                       *)
Pending(t)    == IF frame[t].vec = Ext(t) THEN BodyOf(fetched[t]) ELSE {}
Blocks(t)     == PoolOf(t) \cup Pending(t)
HasLeaked(o)  == \E l \in leaked : l.obj = o
Accounted ==
  /\ \A t \in Threads : free[t] \subseteq Blocks(t)
  /\ \A t \in Threads : tls[t] \in {"building", "live"} =>
       \A p \in Blocks(t) : p \in free[t] \/ At(p, t, "pool") \in held \/ HasLeaked(At(p, t, "pool"))
  /\ \A l \in leaked : l.obj.kind = "pool" =>
       /\ tls[l.obj.by] \in {"live", "gone"}
       /\ tls[l.obj.by] = "live" => l.obj.ptr \in PoolOf(l.obj.by)
  /\ \A l \in leaked : l.obj.kind # "malloc" => l.deleter # l.obj.by

(* No address on the list, or about to be put there, is of anything but a    *)
(* fallback that was recorded, now or before it was freed.                  *)
KnownRec(r) == r \in recs \/ \E t \in Threads : r \in frame[t].next
RecordsOK ==
  ~Recycle => \A r \in Region : KnownRec(r) =>
    /\ heap[r] = Freed \/ \E u \in Threads : heap[r] = <<"fallback", u>>
    /\ \A p \in stash : p[1] # r
    /\ Stashing(Main) => fetched[Main] # r

Memory == /\ Tagged /\ HeldOK /\ HeldOnce /\ Accounted /\ RecordsOK /\ ~misfree
          /\ \E use : Uses(use)

IInv == TypeOK /\ Control /\ (SafeProgram => Memory)
------------------------------------------------------------------------------
(* What Uses says of each use, and Tagged of each region, one fact at a time. *)
LEMMA UsesBuf ==
  ASSUME NEW use, Uses(use), NEW v \in Vector, buf[v] # NULL
  PROVE  (\E u \in Threads : heap[buf[v]] = <<"fallback", u>>) /\ use[buf[v]] = BufUse(v)
BY DEF Uses

(* The buffer that will replace one is of the thread that grows the vector.  *)
LEMMA UsesNew ==
  ASSUME NEW use, Uses(use), NEW t \in Threads, frame[t].new # NULL
  PROVE  heap[frame[t].new] = <<"fallback", t>> /\ use[frame[t].new] = NewUse(t)
BY DEF Uses

(* An over-aligned object before its payload is stashed is of thread Main.   *)
LEMMA UsesRaw ==
  ASSUME NEW use, Uses(use), Stashing(Main)
  PROVE  heap[fetched[Main]] = <<"fallback", Main>> /\ use[fetched[Main]] = RawUse
BY DEF Uses

(* ... and so it is afterwards.                                              *)
LEMMA UsesStash ==
  ASSUME NEW use, Uses(use), NEW p \in stash
  PROVE  heap[p[1]] = <<"fallback", Main>> /\ use[p[1]] = StashUse(p)
BY DEF Uses

(* An object of malloc is the whole of its allocation.                       *)
LEMMA UsesObj ==
  ASSUME NEW use, Uses(use), NEW o \in held, o.kind = "malloc"
  PROVE  o.ptr[2] = 0 /\ heap[o.ptr[1]] = <<"fallback", o.by>> /\ use[o.ptr[1]] = ObjUse
BY DEF Uses

(* The regions an allocator has are tagged as its own.                       *)
LEMMA TaggedOwn ==
  ASSUME Tagged, NEW t \in Threads
  PROVE  /\ slab[t] # NULL => heap[slab[t]] = <<"slab", t>> /\ heap[arena[t]] = <<"arena", t>>
         /\ \A r \in ext[t] : heap[r] = <<"chunk", t>> /\ r \in chunks
BY DEF Tagged

(* ... every chunk as that of some thread.                                   *)
LEMMA TaggedChunk ==
  ASSUME Tagged, NEW r \in chunks
  PROVE  \E u \in Threads : heap[r] = <<"chunk", u>>
BY DEF Tagged

(* ... and the one a thread has just obtained as a chunk of its own.         *)
LEMMA TaggedFetched ==
  ASSUME Tagged, NEW t \in Threads
  PROVE  /\ fetched[t] # NULL /\ ~Stashing(t) => heap[fetched[t]] = <<"chunk", t>> /\ fetched[t] \notin ext[t]
         /\ pc[t] = "link" \/ frame[t].vec = Ext(t) => fetched[t] \in chunks
BY DEF Tagged

LEMMA TagsDiffer ==
  /\ \A t, u : /\ <<"slab", t>> # <<"arena", u>> /\ <<"slab", t>> # <<"chunk", u>>
               /\ <<"slab", t>> # <<"fallback", u>> /\ <<"arena", t>> # <<"chunk", u>>
               /\ <<"arena", t>> # <<"fallback", u>> /\ <<"chunk", t>> # <<"fallback", u>>
  /\ \A t : /\ <<"slab", t>> \notin {Fresh, Freed} /\ <<"arena", t>> \notin {Fresh, Freed}
            /\ <<"chunk", t>> \notin {Fresh, Freed} /\ <<"fallback", t>> \notin {Fresh, Freed}
  /\ \A k, t, u : <<k, t>> = <<k, u>> => t = u
  /\ Fresh # Freed
BY DEF Fresh, Freed

LEMMA UsesDiffer ==
  /\ \A v, w : BufUse(v) = BufUse(w) => v = w
  /\ \A v, w : NewUse(v) = NewUse(w) => v = w
  /\ \A v, w : StashUse(v) = StashUse(w) => v = w
  /\ \A v, w : /\ BufUse(v) # NewUse(w) /\ BufUse(v) # StashUse(w) /\ NewUse(v) # StashUse(w)
               /\ BufUse(v) \notin {RawUse, ObjUse} /\ NewUse(v) \notin {RawUse, ObjUse}
               /\ StashUse(v) \notin {RawUse, ObjUse}
  /\ RawUse # ObjUse
BY DEF BufUse, NewUse, StashUse, RawUse, ObjUse

LEMMA BlockRegion ==
  /\ \A r, p : p \in SlabOf(r) \/ p \in BodyOf(r) => p[1] = r
  /\ \A t, p : p \in ArenaOf(t) => p[1] = arena[t]
BY DEF SlabOf, BodyOf, ArenaOf

LEMMA PoolMembers ==
  ASSUME NEW t \in Threads, NEW p
  PROVE  p \in PoolOf(t) <=> (slab[t] # NULL /\ p \in SlabOf(slab[t])) \/ \E r \in ext[t] : p \in BodyOf(r)
BY DEF PoolOf

(* The region of a block tells whose pool it is of.                          *)
LEMMA BlockTags ==
  ASSUME Tagged, NEW t \in Threads, NEW p \in PoolOf(t)
  PROVE  heap[p[1]] = <<"slab", t>> \/ heap[p[1]] = <<"chunk", t>>
<1>1. CASE slab[t] # NULL /\ p \in SlabOf(slab[t])
  BY <1>1, BlockRegion DEF Tagged
<1>2. CASE \E r \in ext[t] : p \in BodyOf(r)
  BY <1>2, BlockRegion DEF Tagged
<1> QED BY <1>1, <1>2, PoolMembers

LEMMA FreeTags ==
  ASSUME TypeOK, Control, Tagged, NEW t \in Threads, NEW p \in Blocks(t)
  PROVE  heap[p[1]] = <<"slab", t>> \/ heap[p[1]] = <<"chunk", t>>
<1>1. CASE p \in PoolOf(t)
  BY <1>1, BlockTags
<1>2. CASE p \in Pending(t)
  <2>1. frame[t].vec = Ext(t) /\ p[1] = fetched[t]
    BY <1>2, BlockRegion DEF Pending
  <2>2. fetched[t] # NULL /\ ~Stashing(t)
    BY <2>1, VectorFacts, NoFrameFacts DEF Control, MembersOK, PhaseOK, Stashing, Refilling
  <2> QED BY <2>1, <2>2 DEF Tagged
<1> QED BY <1>1, <1>2 DEF Blocks

(* ... and that of any object what kind of object it is, and whose.          *)
LEMMA HeldTags ==
  ASSUME TypeOK, Control, Memory, NEW o \in held
  PROVE  /\ o.kind = "pool" => heap[o.ptr[1]] = <<"slab", o.by>> \/ heap[o.ptr[1]] = <<"chunk", o.by>>
         /\ o.kind = "arena" => heap[o.ptr[1]] = <<"arena", o.by>>
         /\ o.kind \in {"malloc", "aligned"} => heap[o.ptr[1]] = <<"fallback", o.by>>
         /\ o.kind \in Kinds /\ o.by \in Threads /\ o.ptr \in Pointer /\ o.ptr[1] \in Region
<1>1. o.kind \in Kinds /\ o.by \in Threads /\ o.ptr \in Pointer /\ o.ptr[1] \in Region
  BY DEF TypeOK, Object, Pointer
<1>2. o.kind = "pool" => heap[o.ptr[1]] = <<"slab", o.by>> \/ heap[o.ptr[1]] = <<"chunk", o.by>>
  BY <1>1, BlockTags DEF Memory, HeldOK
<1>3. o.kind = "arena" => heap[o.ptr[1]] = <<"arena", o.by>>
  <2> SUFFICES ASSUME o.kind = "arena" PROVE heap[o.ptr[1]] = <<"arena", o.by>>
    OBVIOUS
  <2>1. tls[o.by] = "live" /\ o.ptr[1] = arena[o.by]
    BY <1>1, BlockRegion DEF Memory, HeldOK
  <2>2. slab[o.by] # NULL
    BY <2>1, <1>1 DEF Control, MembersOK
  <2> QED BY <2>1, <2>2, <1>1 DEF Memory, Tagged
<1>4. PICK use : Uses(use)
  BY DEF Memory
<1>5. o.kind = "malloc" => heap[o.ptr[1]] = <<"fallback", o.by>>
  BY <1>4, UsesObj
<1>6. o.kind = "aligned" => heap[o.ptr[1]] = <<"fallback", o.by>>
  <2>1. o.kind = "aligned" => o.by = Main /\ o.ptr \in stash
    BY DEF Memory, HeldOK
  <2>2. o.ptr \in stash => heap[o.ptr[1]] = <<"fallback", Main>>
    BY <1>4, UsesStash
  <2> QED BY <2>1, <2>2
<1> QED BY <1>1, <1>2, <1>3, <1>5, <1>6

(* What LeaksAccountedFor says of blocks and over-aligned objects.           *)
BlocksAccountedFor ==
  /\ \A t \in Threads : tls[t] = "live" /\ pc[t] = "idle" =>
       PoolOf(t) = free[t] \cup BlocksOf(held, t) \cup BlocksOf(LeakedObjects, t)
  /\ \A l \in leaked : l.obj.kind # "malloc" => l.deleter # l.obj.by

(* What the invariant says of a state, whatever the step that led to it.     *)
LEMMA MemorySafe ==
  ASSUME TypeOK, Control, Memory
  PROVE  InUseIsAllocated /\ NoMisfree /\ HandedOutOnce /\ BlocksAccountedFor
<1>1. InUseIsAllocated
  <2>1. \A t \in Threads : slab[t] # NULL => /\ heap[slab[t]] = <<"slab", t>>
                                             /\ heap[arena[t]] = <<"arena", t>>
    BY DEF Memory, Tagged
  <2>2. \A r \in chunks : heap[r][1] = "chunk"
    BY DEF Memory, Tagged
  <2>3. \A v \in Vector : buf[v] # NULL => heap[buf[v]][1] = "fallback"
    BY DEF Memory, Uses
  <2>4. \A p \in stash : heap[p[1]] = <<"fallback", Main>>
    BY DEF Memory, Uses
  <2>5. \A o \in held : heap[o.ptr[1]] \in
       CASE o.kind = "pool" -> {<<"slab", o.by>>, <<"chunk", o.by>>}
         [] o.kind = "arena" -> {<<"arena", o.by>>}
         [] o.kind \in {"malloc", "aligned"} -> {<<"fallback", o.by>>}
    BY HeldTags DEF Kinds
  <2> QED BY <2>1, <2>2, <2>3, <2>4, <2>5 DEF InUseIsAllocated
<1>2. NoMisfree
  BY DEF Memory, NoMisfree
<1>3. HandedOutOnce
  <2>1. ASSUME NEW t \in Threads, NEW o \in held PROVE o.ptr \notin free[t]
    <3> SUFFICES ASSUME o.ptr \in free[t] PROVE FALSE
      OBVIOUS
    <3>1. heap[o.ptr[1]] = <<"slab", t>> \/ heap[o.ptr[1]] = <<"chunk", t>>
      BY FreeTags DEF Memory, Accounted
    <3>2. o.kind = "pool" /\ o.by = t
      BY <3>1, HeldTags, TagsDiffer DEF Kinds
    <3> QED BY <3>2 DEF Memory, HeldOK
  <2>2. ASSUME NEW t \in Threads, NEW u \in Threads, t # u, NEW p \in free[t], p \in free[u] PROVE FALSE
    <3>1. heap[p[1]] = <<"slab", t>> \/ heap[p[1]] = <<"chunk", t>>
      BY FreeTags DEF Memory, Accounted
    <3>2. heap[p[1]] = <<"slab", u>> \/ heap[p[1]] = <<"chunk", u>>
      BY <2>2, FreeTags DEF Memory, Accounted
    <3> QED BY <2>2, <3>1, <3>2, TagsDiffer
  <2> QED BY <2>1, <2>2 DEF HandedOutOnce, Memory, HeldOnce
<1>4. BlocksAccountedFor
  <2>1. ASSUME NEW t \in Threads, tls[t] = "live", pc[t] = "idle"
        PROVE  PoolOf(t) = free[t] \cup BlocksOf(held, t) \cup BlocksOf(LeakedObjects, t)
    <3>1. frame[t].vec = NULL
      BY <2>1, NoFrameFacts DEF Control, FrameOK, Growing
    <3>2. Blocks(t) = PoolOf(t)
      BY <3>1, VectorFacts DEF Blocks, Pending
    <3>3. ASSUME NEW p \in PoolOf(t)
          PROVE  p \in free[t] \cup BlocksOf(held, t) \cup BlocksOf(LeakedObjects, t)
      <4> DEFINE o == At(p, t, "pool")
      <4>1. o.ptr = p /\ o.kind = "pool" /\ o.by = t
        BY DEF At
      <4>2. p \in free[t] \/ o \in held \/ HasLeaked(o)
        BY <2>1, <3>2 DEF Memory, Accounted
      <4>3. HasLeaked(o) => o \in LeakedObjects
        BY DEF HasLeaked, LeakedObjects
      <4> HIDE DEF o
      <4>4. \A S : o \in S => p \in BlocksOf(S, t)
        BY <4>1 DEF BlocksOf
      <4> QED BY <4>2, <4>3, <4>4
    <3>4. free[t] \subseteq PoolOf(t)
      BY <3>2 DEF Memory, Accounted
    <3>5. BlocksOf(held, t) \subseteq PoolOf(t)
      BY DEF BlocksOf, Memory, HeldOK
    <3>6. BlocksOf(LeakedObjects, t) \subseteq PoolOf(t)
      BY <2>1 DEF BlocksOf, LeakedObjects, Memory, Accounted
    <3> QED BY <3>3, <3>4, <3>5, <3>6
  <2>2. \A l \in leaked : l.obj.kind # "malloc" => l.deleter # l.obj.by
    BY DEF Memory, Accounted
  <2> QED BY <2>1, <2>2 DEF BlocksAccountedFor
<1> QED BY <1>1, <1>2, <1>3, <1>4

LEMMA InitMemory == Init => Memory
<1> SUFFICES ASSUME Init PROVE Memory
  OBVIOUS
<1>1. \A t \in Threads : frame[t].vec = NULL /\ frame[t].new = NULL /\ frame[t].next = {} /\ ~Stashing(t)
  BY NoFrameFacts, VectorFacts DEF Init, Stashing
<1>2. Tagged
  BY <1>1, VectorFacts DEF Init, Tagged
<1>3. \E use : Uses(use)
  BY <1>1, NewDeleteAssumption DEF Init, Uses
<1>4. \A t \in Threads : Blocks(t) = {} /\ free[t] = {}
  BY <1>1, VectorFacts DEF Init, Blocks, Pending, PoolOf
<1>5. Accounted
  BY <1>4 DEF Init, Accounted
<1>6. RecordsOK
  BY <1>1 DEF Init, RecordsOK, KnownRec
<1> QED BY <1>2, <1>3, <1>5, <1>6 DEF Init, Memory, HeldOK, HeldOnce

(* A step that only moves a thread on.                                       *)
LEMMA MemorySilent ==
  ASSUME TypeOK, Control, Memory,
         UNCHANGED <<program, heap, slab, arena, used, ext, free, fetched, chunks, buf, recs,
                     held, stash, leaked, misfree>>,
         ready => ready',
         \A t \in Threads :
           /\ frame'[t].new = frame[t].new /\ frame'[t].next \subseteq frame[t].next
           /\ Stashing(t)' <=> Stashing(t)
           /\ pc'[t] = "link" \/ frame'[t].vec = Ext(t) => pc[t] = "link" \/ frame[t].vec = Ext(t)
           /\ Pending(t)' = Pending(t)
           /\ \/ tls'[t] = tls[t]
              \/ tls[t] = "building" /\ tls'[t] = "live"
              \/ tls[t] = "live" /\ tls'[t] = "gone" /\ \A o \in held : o.by = t => o.kind = "malloc"
  PROVE  Memory'
<1>1. \A t \in Threads : PoolOf(t)' = PoolOf(t) /\ ArenaOf(t)' = ArenaOf(t) /\ Blocks(t)' = Blocks(t)
  BY DEF PoolOf, ArenaOf, Blocks
<1>2. Tagged'
  BY DEF Memory, Tagged
<1>3. (\E use : Uses(use))'
  <2>1. PICK use : Uses(use)
    BY DEF Memory
  <2>2. Uses(use)'
    BY <2>1, NewDeleteAssumption DEF Uses
  <2> QED BY <2>2
<1>4. HeldOK'
  BY <1>1, HeldTags DEF Memory, HeldOK
<1>5. HeldOnce' /\ ~misfree'
  BY DEF Memory, HeldOnce
<1>6. Accounted'
  <2>1. \A l \in leaked : l.obj.by \in Threads
    BY DEF TypeOK, Object
  <2>2. \A o : HasLeaked(o)' <=> HasLeaked(o)
    BY DEF HasLeaked
  <2>3. \A t \in Threads : free'[t] \subseteq Blocks(t)'
    BY <1>1 DEF Memory, Accounted
  <2>4. \A t \in Threads : tls'[t] \in {"building", "live"} =>
       \A p \in Blocks(t)' : p \in free'[t] \/ At(p, t, "pool") \in held' \/ HasLeaked(At(p, t, "pool"))'
    BY <1>1, <2>2 DEF Memory, Accounted
  <2>5. \A l \in leaked' : l.obj.kind = "pool" =>
       /\ tls'[l.obj.by] \in {"live", "gone"}
       /\ tls'[l.obj.by] = "live" => l.obj.ptr \in PoolOf(l.obj.by)'
    BY <1>1, <2>1 DEF Memory, Accounted
  <2>6. \A l \in leaked' : l.obj.kind # "malloc" => l.deleter # l.obj.by
    BY DEF Memory, Accounted
  <2> QED BY <2>3, <2>4, <2>5, <2>6 DEF Accounted
<1>7. RecordsOK'
  <2>1. \A r : KnownRec(r)' => KnownRec(r)
    BY DEF KnownRec
  <2>2. Recycle' = Recycle
    BY DEF Recycle
  <2> QED BY <2>1, <2>2, NewDeleteAssumption DEF Memory, RecordsOK
<1> QED BY <1>2, <1>3, <1>4, <1>5, <1>6, <1>7 DEF Memory

LEMMA LockRegistryMemory ==
  ASSUME TypeOK, Control, Memory, NEW t \in Threads, LockRegistry(t)
  PROVE  Memory'
<1> DEFINE v == Shared(IF pc[t] = "register" THEN "live" ELSE "retired")
<1>1. v \in Vector /\ v \in {Shared("live"), Shared("retired")}
  BY VectorFacts
<1>2. /\ FrameOf(v).vec = v /\ FrameOf(v).new = NULL /\ FrameOf(v).next = {}
      /\ frame' = [frame EXCEPT ![t] = FrameOf(v)] /\ pc' = [pc EXCEPT ![t] = "push"]
      /\ UNCHANGED <<program, ready, tls, heap, slab, arena, used, ext, free, fetched, chunks, buf, recs,
                     held, stash, leaked, misfree>>
      /\ frame[t] = NoFrame /\ pc[t] \in {"register", "retire"}
  BY <1>1, FrameOfType DEF LockRegistry, TypeOK, allocVars, clientVars, Control, FrameOK, Growing
<1> HIDE DEF v
<1>3. ASSUME NEW u \in Threads
      PROVE  /\ frame'[u].new = frame[u].new /\ frame'[u].next \subseteq frame[u].next
             /\ Stashing(u)' <=> Stashing(u)
             /\ pc'[u] = "link" \/ frame'[u].vec = Ext(u) => pc[u] = "link" \/ frame[u].vec = Ext(u)
             /\ Pending(u)' = Pending(u)
  <2>1. CASE u = t
    BY <1>1, <1>2, <2>1, VectorFacts, NoFrameFacts DEF TypeOK, Stashing, Pending
  <2>2. CASE u # t
    BY <1>2, <2>2 DEF TypeOK, Stashing, Pending, BodyOf
  <2> QED BY <2>1, <2>2
<1> QED BY <1>2, <1>3, MemorySilent

LEMMA SetReadyMemory ==
  ASSUME TypeOK, Control, Memory, SetReady
  PROVE  Memory'
<1>1. /\ ready' = TRUE
      /\ UNCHANGED <<program, tls, pc, frame, heap, slab, arena, used, ext, free, fetched, chunks, buf, recs,
                     held, stash, leaked, misfree>>
  BY DEF SetReady, allocVars, clientVars
<1>2. \A t \in Threads : Stashing(t)' = Stashing(t) /\ Pending(t)' = Pending(t)
  BY <1>1 DEF Stashing, Pending
<1> QED BY <1>1, <1>2, MemorySilent

LEMMA IdleMemory ==
  ASSUME TypeOK, Control, Memory, UNCHANGED vars
  PROVE  Memory'
<1>1. UNCHANGED <<ready, program, tls, pc, frame, heap, slab, arena, used, ext, free, fetched, chunks, buf, recs,
                  held, stash, leaked, misfree>>
  BY DEF vars, allocVars, sharedVars, clientVars
<1>2. \A t \in Threads : Stashing(t)' = Stashing(t) /\ Pending(t)' = Pending(t)
  BY <1>1 DEF Stashing, Pending
<1> QED BY <1>1, <1>2, MemorySilent

LEMMA ExhaustedMemory ==
  ASSUME TypeOK, Control, Memory, NEW t \in Threads, Exhausted(t)
  PROVE  Memory'
<1>1. /\ pc[t] = "idle" /\ pc' = [pc EXCEPT ![t] = "refill"]
      /\ UNCHANGED <<ready, program, tls, frame, heap, slab, arena, used, ext, free, fetched, chunks, buf, recs,
                  held, stash, leaked, misfree>>
  BY DEF Exhausted, allocVars, sharedVars, clientVars
<1>2. \A u \in Threads : /\ Stashing(u)' = Stashing(u) /\ Pending(u)' = Pending(u)
                         /\ pc'[u] = "link" => pc[u] = "link"
  BY <1>1 DEF TypeOK, Stashing, Pending
<1> QED BY <1>1, <1>2, MemorySilent

LEMMA ExitMemory ==
  ASSUME TypeOK, Control, Memory, NEW t \in Threads, Exit(t)
  PROVE  Memory'
<1>1. /\ pc[t] = "idle" /\ pc' = [pc EXCEPT ![t] = "retire"]
      /\ tls[t] = "live" /\ tls' = [tls EXCEPT ![t] = "gone"]
      /\ \A o \in held : o.by = t => o.kind = "malloc"
      /\ UNCHANGED <<ready, program, frame, heap, slab, arena, used, ext, free, fetched, chunks, buf, recs,
                  held, stash, leaked, misfree>>
  BY DEF Exit, AtRest, allocVars, sharedVars, clientVars
<1>2. \A u \in Threads : /\ Stashing(u)' = Stashing(u) /\ Pending(u)' = Pending(u)
                         /\ pc'[u] = "link" => pc[u] = "link"
                         /\ u # t => tls'[u] = tls[u]
  BY <1>1 DEF TypeOK, Stashing, Pending
<1>3. tls'[t] = "gone"
  BY <1>1 DEF TypeOK
<1> QED BY <1>1, <1>2, <1>3, MemorySilent

(* A step that takes memory from malloc, or none.                            *)
Grown == /\ heap' \in [Region -> Tag]
         /\ \A x \in Region, k \in {"slab", "arena", "chunk", "fallback"} : \A u :
              heap[x] = <<k, u>> => heap'[x] = <<k, u>>

LEMMA MallocKeeps ==
  ASSUME TypeOK, NEW r \in Mallocable(heap), NEW k \in {"slab", "arena", "chunk", "fallback"}, NEW t \in Threads,
         heap' = [heap EXCEPT ![r] = <<k, t>>]
  PROVE  /\ Grown
         /\ r \in Region /\ r # NULL /\ heap[r] \in {Fresh, Freed} /\ heap'[r] = <<k, t>>
         /\ \A x \in Region \ {r} : heap'[x] = heap[x]
         /\ ~Recycle => heap[r] = Fresh
<1>1. r \in Region /\ r # NULL /\ heap[r] \in {Fresh, Freed} /\ (~Recycle => heap[r] = Fresh)
  BY MallocableFacts, NewDeleteAssumption DEF Region
<1>2. heap'[r] = <<k, t>> /\ \A x \in Region \ {r} : heap'[x] = heap[x]
  BY <1>1 DEF TypeOK
<1>3. heap' \in [Region -> Tag]
  BY <1>1, TagFacts DEF TypeOK
<1>4. \A x \in Region, l \in {"slab", "arena", "chunk", "fallback"} : \A u : heap[x] = <<l, u>> => x # r
  BY <1>1, TagsDiffer
<1> QED BY <1>1, <1>2, <1>3, <1>4 DEF Grown

LEMMA NewBlockMemory ==
  ASSUME TypeOK, Control, Memory, NEW t \in Threads, NewBlock(t)
  PROVE  Memory'
<1>1. PICK b \in free[t] : /\ free' = [free EXCEPT ![t] = @ \ {b}]
                           /\ held' = held \cup {At(b, t, "pool")}
  BY DEF NewBlock
<1> DEFINE n == At(b, t, "pool")
<1>2. /\ pc[t] \in {"idle", "retry"} /\ pc' = [pc EXCEPT ![t] = "idle"] /\ tls[t] = "live" /\ ready
      /\ frame[t] = NoFrame
      /\ UNCHANGED <<tls, frame, recs, heap, slab, arena, used, ext, fetched,
                     program, ready, chunks, buf, stash, leaked, misfree>>
  BY DEF NewBlock, Served, sharedVars, Control, FrameOK, Growing
<1>3. n.ptr = b /\ n.by = t /\ n.kind = "pool"
  BY DEF At
<1>4. /\ \A u \in Threads : free'[u] \subseteq free[u] /\ (u # t => free'[u] = free[u])
      /\ free'[t] = free[t] \ {b}
  BY <1>1 DEF TypeOK
<1>5. \A u \in Threads : /\ Stashing(u)' = Stashing(u) /\ Pending(u)' = Pending(u)
                         /\ PoolOf(u)' = PoolOf(u) /\ ArenaOf(u)' = ArenaOf(u) /\ Blocks(u)' = Blocks(u)
                         /\ pc'[u] = "link" => pc[u] = "link"
  BY <1>2 DEF TypeOK, Stashing, Pending, PoolOf, ArenaOf, Blocks
<1>6. b \in PoolOf(t) /\ \A o \in held : o.ptr # b
  <2>1. Pending(t) = {}
    BY <1>2, NoFrameFacts, VectorFacts DEF Pending
  <2>2. b \in PoolOf(t)
    BY <2>1 DEF Memory, Accounted, Blocks
  <2> QED BY <2>2, MemorySafe DEF HandedOutOnce
<1>7. Tagged'
  BY <1>2, <1>5 DEF Memory, Tagged
<1>8. (\E use : Uses(use))'
  <2>1. PICK use : Uses(use)
    BY DEF Memory
  <2>2. Uses(use)'
    BY <1>1, <1>2, <1>3, <1>5, <2>1, NewDeleteAssumption DEF Uses
  <2> QED BY <2>2
<1>9. HeldOK'
  <2>1. \A o \in held' : o \in held \/ o = n
    BY <1>1
  <2>2. \A o \in held : o.by \in Threads
    BY HeldTags
  <2> HIDE DEF n
  <2> QED BY <1>2, <1>3, <1>4, <1>5, <1>6, <2>1, <2>2 DEF Memory, HeldOK
<1>10. HeldOnce'
  BY <1>1, <1>3, <1>6 DEF Memory, HeldOnce
<1>11. Accounted'
  <2>1. \A o : HasLeaked(o)' <=> HasLeaked(o)
    BY <1>2 DEF HasLeaked
  <2>2. \A l \in leaked : l.obj.by \in Threads
    BY DEF TypeOK, Object
  <2>3. \A u \in Threads : free'[u] \subseteq Blocks(u)'
    BY <1>4, <1>5 DEF Memory, Accounted
  <2>4. \A u \in Threads : tls'[u] \in {"building", "live"} =>
       \A p \in Blocks(u)' : p \in free'[u] \/ At(p, u, "pool") \in held' \/ HasLeaked(At(p, u, "pool"))'
    BY <1>1, <1>2, <1>4, <1>5, <2>1 DEF Memory, Accounted
  <2>5. \A l \in leaked' : l.obj.kind = "pool" =>
       /\ tls'[l.obj.by] \in {"live", "gone"}
       /\ tls'[l.obj.by] = "live" => l.obj.ptr \in PoolOf(l.obj.by)'
    BY <1>2, <1>5, <2>2 DEF Memory, Accounted
  <2>6. \A l \in leaked' : l.obj.kind # "malloc" => l.deleter # l.obj.by
    BY <1>2 DEF Memory, Accounted
  <2> QED BY <2>3, <2>4, <2>5, <2>6 DEF Accounted
<1>12. RecordsOK'
  BY <1>2, <1>5, NewDeleteAssumption DEF Memory, RecordsOK, KnownRec, Recycle
<1> QED BY <1>2, <1>7, <1>8, <1>9, <1>10, <1>11, <1>12 DEF Memory

LEMMA NewLargeMemory ==
  ASSUME TypeOK, Control, Memory, NEW t \in Threads, NewLarge(t)
  PROVE  Memory'
<1> DEFINE n == At(<<arena[t], used[t]>>, t, "arena")
<1>1. /\ tls[t] = "live" /\ ready
      /\ used' = [used EXCEPT ![t] = @ + 1] /\ held' = held \cup {n}
      /\ UNCHANGED <<tls, pc, frame, recs, heap, slab, arena, ext, free, fetched,
                     program, ready, chunks, buf, stash, leaked, misfree>>
  BY DEF NewLarge, Served, sharedVars
<1>2. n.ptr = <<arena[t], used[t]>> /\ n.by = t /\ n.kind = "arena"
  BY DEF At
<1>3. \A u \in Threads : /\ Stashing(u)' = Stashing(u) /\ Pending(u)' = Pending(u)
                         /\ PoolOf(u)' = PoolOf(u) /\ Blocks(u)' = Blocks(u)
  BY <1>1 DEF Stashing, Pending, PoolOf, Blocks
<1>4. n.ptr \in ArenaOf(t)' /\ \A u \in Threads : ArenaOf(u) \subseteq ArenaOf(u)'
  <2>1. used[t] \in Nat /\ used'[t] = used[t] + 1 /\ \A u \in Threads \ {t} : used'[u] = used[u]
    BY <1>1 DEF TypeOK
  <2>2. used[t] \in 0 .. used'[t] - 1 /\ 0 .. used[t] - 1 \subseteq 0 .. used'[t] - 1
    BY <2>1
  <2>3. n.ptr \in ArenaOf(t)'
    BY <1>1, <1>2, <2>2 DEF ArenaOf
  <2>4. ArenaOf(t) \subseteq ArenaOf(t)'
    BY <1>1, <2>2 DEF ArenaOf
  <2>5. \A u \in Threads \ {t} : ArenaOf(u)' = ArenaOf(u)
    BY <1>1, <2>1 DEF ArenaOf
  <2> QED BY <2>3, <2>4, <2>5
<1>5. \A o \in held : o.ptr # n.ptr
  <2> SUFFICES ASSUME NEW o \in held, o.ptr = n.ptr PROVE FALSE
    OBVIOUS
  <2>1. slab[t] # NULL /\ used[t] \in Nat
    BY <1>1 DEF Control, MembersOK, TypeOK
  <2>2. o.ptr[1] = arena[t] /\ heap[o.ptr[1]] = <<"arena", t>>
    BY <1>2, <2>1 DEF Memory, Tagged
  <2>3. o.kind = "arena" /\ o.by = t
    BY <2>2, HeldTags, TagsDiffer DEF Kinds
  <2>4. o.ptr \in ArenaOf(t)
    BY <2>3 DEF Memory, HeldOK
  <2> QED BY <1>2, <2>1, <2>4 DEF ArenaOf
<1>6. Tagged'
  BY <1>1, <1>3 DEF Memory, Tagged
<1>7. (\E use : Uses(use))'
  <2>1. PICK use : Uses(use)
    BY DEF Memory
  <2>2. Uses(use)'
    BY <1>1, <1>2, <1>3, <2>1, NewDeleteAssumption DEF Uses
  <2> QED BY <2>2
<1> HIDE DEF n
<1>8. HeldOK'
  <2>1. \A o \in held : o.by \in Threads
    BY HeldTags
  <2> QED BY <1>1, <1>2, <1>3, <1>4, <2>1 DEF Memory, HeldOK
<1>9. HeldOnce'
  BY <1>1, <1>5 DEF Memory, HeldOnce
<1>10. Accounted'
  <2>1. \A o : HasLeaked(o)' <=> HasLeaked(o)
    BY <1>1 DEF HasLeaked
  <2>2. \A l \in leaked : l.obj.by \in Threads
    BY DEF TypeOK, Object
  <2> QED BY <1>1, <1>3, <2>1, <2>2 DEF Memory, Accounted
<1>11. RecordsOK'
  BY <1>1, <1>3, NewDeleteAssumption DEF Memory, RecordsOK, KnownRec, Recycle
<1> QED BY <1>1, <1>6, <1>7, <1>8, <1>9, <1>10, <1>11 DEF Memory

(* The same allocators, in a heap that has grown.                            *)
LEMMA AllocatorsGrown ==
  ASSUME TypeOK, Control, Tagged, Grown, UNCHANGED <<slab, arena, ext, chunks>>
  PROVE  /\ \A t \in Threads : slab'[t] # NULL =>
              heap'[slab'[t]] = <<"slab", t>> /\ heap'[arena'[t]] = <<"arena", t>>
         /\ \A t \in Threads : \A r \in ext'[t] : heap'[r] = <<"chunk", t>> /\ r \in chunks'
         /\ \A r \in chunks' : \E u \in Threads : heap'[r] = <<"chunk", u>>
<1>1. \A t \in Threads : slab[t] # NULL => slab[t] \in Region /\ arena[t] \in Region
  BY DEF TypeOK, Control, MembersOK
<1>2. chunks \subseteq Region /\ \A t \in Threads : ext[t] \subseteq Region
  BY DEF TypeOK
<1>3. \A x \in Region : \A u : /\ heap[x] = <<"slab", u>> => heap'[x] = <<"slab", u>>
                               /\ heap[x] = <<"arena", u>> => heap'[x] = <<"arena", u>>
                               /\ heap[x] = <<"chunk", u>> => heap'[x] = <<"chunk", u>>
  BY DEF Grown
<1>4. \A t \in Threads : slab'[t] # NULL => heap'[slab'[t]] = <<"slab", t>> /\ heap'[arena'[t]] = <<"arena", t>>
  BY <1>1, <1>3, TaggedOwn
<1>5. ASSUME NEW t \in Threads, NEW r \in ext[t]
      PROVE  heap'[r] = <<"chunk", t>> /\ r \in chunks
  <2>1. heap[r] = <<"chunk", t>> /\ r \in chunks /\ r \in Region
    BY <1>2, <1>5, TaggedOwn
  <2> QED BY <1>3, <2>1
<1>6. ASSUME NEW r \in chunks
      PROVE  \E u \in Threads : heap'[r] = <<"chunk", u>>
  <2>1. PICK u \in Threads : heap[r] = <<"chunk", u>>
    BY TaggedChunk
  <2> QED BY <1>2, <1>3, <2>1
<1> QED BY <1>4, <1>5, <1>6

LEMMA TaggedGrown ==
  ASSUME TypeOK, Control, Tagged, Grown, UNCHANGED <<slab, arena, ext, chunks, fetched>>,
         \A t \in Threads : /\ Stashing(t)' <=> Stashing(t)
                            /\ pc'[t] = "link" \/ frame'[t].vec = Ext(t) => pc[t] = "link" \/ frame[t].vec = Ext(t)
  PROVE  Tagged'
<1>1. \A x \in Region : \A u : heap[x] = <<"chunk", u>> => heap'[x] = <<"chunk", u>>
  BY DEF Grown
<1>2. \A t \in Threads : fetched[t] # NULL => fetched[t] \in Region
  BY DEF TypeOK
<1>3. \A t \in Threads : fetched'[t] # NULL /\ ~Stashing(t)' =>
       heap'[fetched'[t]] = <<"chunk", t>> /\ fetched'[t] \notin ext'[t]
  BY <1>1, <1>2 DEF Tagged
<1>4. \A t \in Threads : pc'[t] = "link" \/ frame'[t].vec = Ext(t) => fetched'[t] \in chunks'
  BY DEF Tagged
<1> QED BY <1>3, <1>4, AllocatorsGrown DEF Tagged

(* The regions that are used as fallback allocations.                        *)
LEMMA UsedRegions ==
  ASSUME TypeOK, Control
  PROVE  /\ \A v \in Vector : buf[v] # NULL => buf[v] \in Region
         /\ \A t \in Threads : frame[t].new # NULL => frame[t].new \in Region
         /\ Stashing(Main) => fetched[Main] \in Region
         /\ \A p \in stash : p[1] \in Region
         /\ \A o \in held : o.ptr[1] \in Region /\ o.by \in Threads
<1>1. \A t \in Threads : frame[t].new # NULL => frame[t].new \in Region
  BY DEF TypeOK, FrameType
<1>2. Stashing(Main) => fetched[Main] \in Region
  BY NewDeleteAssumption DEF TypeOK, Control, MembersOK
<1>3. (\A p \in stash : p[1] \in Region) /\ \A o \in held : o.ptr[1] \in Region /\ o.by \in Threads
  BY DEF TypeOK, Pointer, Object
<1> QED BY <1>1, <1>2, <1>3 DEF TypeOK

(* A heap and a labelling that agree with the old ones wherever a fallback    *)
(* allocation was: the uses there were are still there.                     *)
Agree(use, use2) ==
  \A x \in Region : \A u : heap[x] = <<"fallback", u>> => heap'[x] = <<"fallback", u>> /\ use2[x] = use[x]

Carried(use2) ==
  /\ \A v \in Vector : buf[v] # NULL =>
       (\E u \in Threads : heap'[buf[v]] = <<"fallback", u>>) /\ use2[buf[v]] = BufUse(v)
  /\ \A t \in Threads : frame[t].new # NULL =>
       heap'[frame[t].new] = <<"fallback", t>> /\ use2[frame[t].new] = NewUse(t)
  /\ Stashing(Main) => heap'[fetched[Main]] = <<"fallback", Main>> /\ use2[fetched[Main]] = RawUse
  /\ \A p \in stash : heap'[p[1]] = <<"fallback", Main>> /\ use2[p[1]] = StashUse(p)
  /\ \A o \in held : o.kind = "malloc" =>
       o.ptr[2] = 0 /\ heap'[o.ptr[1]] = <<"fallback", o.by>> /\ use2[o.ptr[1]] = ObjUse

(* The uses there were, in the new heap and the new labelling.               *)
LEMMA UsesCarried ==
  ASSUME TypeOK, Control, NEW use, Uses(use), NEW use2, Agree(use, use2)
  PROVE  Carried(use2)
<1>0. \A x \in Region : \A u : heap[x] = <<"fallback", u>> => heap'[x] = <<"fallback", u>> /\ use2[x] = use[x]
  BY DEF Agree
<1>1. ASSUME NEW v \in Vector, buf[v] # NULL
      PROVE  (\E u \in Threads : heap'[buf[v]] = <<"fallback", u>>) /\ use2[buf[v]] = BufUse(v)
  <2>1. buf[v] \in Region /\ use[buf[v]] = BufUse(v) /\ \E u \in Threads : heap[buf[v]] = <<"fallback", u>>
    BY <1>1, UsedRegions, UsesBuf
  <2>2. PICK u \in Threads : heap[buf[v]] = <<"fallback", u>>
    BY <2>1
  <2>3. heap'[buf[v]] = <<"fallback", u>> /\ use2[buf[v]] = use[buf[v]]
    BY <1>0, <2>1, <2>2
  <2> QED BY <2>1, <2>3
<1>2. ASSUME NEW t \in Threads, frame[t].new # NULL
      PROVE  heap'[frame[t].new] = <<"fallback", t>> /\ use2[frame[t].new] = NewUse(t)
  <2>1. frame[t].new \in Region
    BY <1>2, UsedRegions
  <2>2. heap[frame[t].new] = <<"fallback", t>> /\ use[frame[t].new] = NewUse(t)
    BY <1>2, UsesNew
  <2> QED BY <1>0, <2>1, <2>2
<1>3. ASSUME Stashing(Main)
      PROVE  heap'[fetched[Main]] = <<"fallback", Main>> /\ use2[fetched[Main]] = RawUse
  <2>1. fetched[Main] \in Region
    BY <1>3, UsedRegions
  <2>2. heap[fetched[Main]] = <<"fallback", Main>> /\ use[fetched[Main]] = RawUse
    BY <1>3, UsesRaw
  <2> QED BY <1>0, <2>1, <2>2
<1>4. ASSUME NEW p \in stash
      PROVE  heap'[p[1]] = <<"fallback", Main>> /\ use2[p[1]] = StashUse(p)
  <2>1. p[1] \in Region
    BY UsedRegions
  <2>2. heap[p[1]] = <<"fallback", Main>> /\ use[p[1]] = StashUse(p)
    BY UsesStash
  <2> QED BY <1>0, <2>1, <2>2
<1>5. ASSUME NEW o \in held, o.kind = "malloc"
      PROVE  o.ptr[2] = 0 /\ heap'[o.ptr[1]] = <<"fallback", o.by>> /\ use2[o.ptr[1]] = ObjUse
  <2>1. o.ptr[1] \in Region
    BY UsedRegions
  <2>2. o.ptr[2] = 0 /\ heap[o.ptr[1]] = <<"fallback", o.by>> /\ use[o.ptr[1]] = ObjUse
    BY <1>5, UsesObj
  <2> QED BY <1>0, <2>1, <2>2
<1> QED BY <1>1, <1>2, <1>3, <1>4, <1>5 DEF Carried

(* The objects and blocks there are, in a step that changes none.            *)
LEMMA ObjectsKept ==
  ASSUME TypeOK, Memory, UNCHANGED <<slab, arena, used, ext, free, held, leaked, tls, ready>>,
         stash \subseteq stash',
         \A t \in Threads : Pending(t)' = Pending(t)
  PROVE  HeldOK' /\ HeldOnce' /\ Accounted'
<1>1. \A t \in Threads : PoolOf(t)' = PoolOf(t) /\ ArenaOf(t)' = ArenaOf(t) /\ Blocks(t)' = Blocks(t)
  BY DEF PoolOf, ArenaOf, Blocks
<1>2. (\A o \in held : o.by \in Threads) /\ \A l \in leaked : l.obj.by \in Threads
  BY DEF TypeOK, Object
<1>3. HeldOK' /\ HeldOnce'
  BY <1>1, <1>2 DEF Memory, HeldOK, HeldOnce
<1>4. \A o : HasLeaked(o)' <=> HasLeaked(o)
  BY DEF HasLeaked
<1>5. Accounted'
  BY <1>1, <1>2, <1>4 DEF Memory, Accounted
<1> QED BY <1>3, <1>5

(* malloc in do_new: the region is the new buffer's or the client's.         *)
LEMMA FallbackBeginMemory ==
  ASSUME TypeOK, Control, Memory, NEW t \in Threads, NEW f \in FrameType, FallbackBegin(t, f),
         frame[t].new = NULL, pc[t] \in {"idle", "push"},
         f.vec = frame[t].vec \/ (f.vec = Client /\ frame[t].vec = NULL),
         UNCHANGED <<tls, recs, slab, arena, used, ext, free, fetched, program, ready, chunks, buf,
                     held, stash, leaked, misfree>>
  PROVE  Memory'
<1>1. PICK r \in Mallocable(heap) :
        /\ heap' = [heap EXCEPT ![r] = <<"fallback", t>>]
        /\ frame' = [frame EXCEPT ![t] = [f EXCEPT !.new = r, !.next = recs]]
        /\ pc' = [pc EXCEPT ![t] = "store"]
  BY DEF FallbackBegin
<1>2. /\ Grown /\ r \in Region /\ r # NULL /\ heap[r] \in {Fresh, Freed} /\ heap'[r] = <<"fallback", t>>
      /\ \A x \in Region \ {r} : heap'[x] = heap[x]
      /\ ~Recycle => heap[r] = Fresh
  BY <1>1, MallocKeeps
<1>3. /\ frame'[t].vec = f.vec /\ frame'[t].new = r /\ frame'[t].next = recs /\ pc'[t] = "store"
      /\ \A u \in Threads \ {t} : frame'[u] = frame[u] /\ pc'[u] = pc[u]
  BY <1>1 DEF TypeOK, FrameType
<1>4. ASSUME NEW u \in Threads
      PROVE  /\ Stashing(u)' <=> Stashing(u)
             /\ frame'[u].vec = Ext(u) <=> frame[u].vec = Ext(u)
             /\ Pending(u)' = Pending(u)
             /\ pc'[u] = "link" => pc[u] = "link"
  <2>1. CASE u = t
    BY <1>3, <2>1, VectorFacts DEF Stashing, Pending, BodyOf
  <2>2. CASE u # t
    BY <1>3, <2>2 DEF Stashing, Pending, BodyOf
  <2> QED BY <2>1, <2>2
<1>5. Tagged'
  BY <1>2, <1>4, TaggedGrown DEF Memory
<1>6. HeldOK' /\ HeldOnce' /\ Accounted'
  BY <1>4, ObjectsKept
<1>7. (\E use : Uses(use))'
  <2>1. PICK use : Uses(use)
    BY DEF Memory
  <2> DEFINE use2 == [x \in Region |-> IF x = r THEN NewUse(t) ELSE use[x]]
  <2>2. use2[r] = NewUse(t) /\ \A x \in Region \ {r} : use2[x] = use[x]
    BY <1>2
  <2> HIDE DEF use2
  <2>3. Carried(use2)
    <3>1. Agree(use, use2)
      BY <1>2, <2>2, TagsDiffer DEF Agree
    <3> QED BY <2>1, <3>1, UsesCarried
  <2>4. Stashing(Main)' <=> Stashing(Main)
    BY <1>4, NewDeleteAssumption
  <2>5. \A v \in Vector : buf'[v] # NULL =>
         (\E u \in Threads : heap'[buf'[v]] = <<"fallback", u>>) /\ use2[buf'[v]] = BufUse(v)
    BY <2>3 DEF Carried
  <2>6. \A u \in Threads : frame'[u].new # NULL =>
         heap'[frame'[u].new] = <<"fallback", u>> /\ use2[frame'[u].new] = NewUse(u)
    <3>1. heap'[frame'[t].new] = <<"fallback", t>> /\ use2[frame'[t].new] = NewUse(t)
      BY <1>2, <1>3, <2>2
    <3>2. \A u \in Threads \ {t} : frame[u].new # NULL =>
            heap'[frame[u].new] = <<"fallback", u>> /\ use2[frame[u].new] = NewUse(u)
      BY <2>3 DEF Carried
    <3> QED BY <1>3, <3>1, <3>2
  <2>7. Stashing(Main)' => heap'[fetched'[Main]] = <<"fallback", Main>> /\ use2[fetched'[Main]] = RawUse
    BY <2>3, <2>4 DEF Carried
  <2>8. \A p \in stash' : heap'[p[1]] = <<"fallback", Main>> /\ use2[p[1]] = StashUse(p)
    BY <2>3 DEF Carried
  <2>9. \A o \in held' : o.kind = "malloc" =>
         o.ptr[2] = 0 /\ heap'[o.ptr[1]] = <<"fallback", o.by>> /\ use2[o.ptr[1]] = ObjUse
    BY <2>3 DEF Carried
  <2>10. Uses(use2)'
    BY <2>5, <2>6, <2>7, <2>8, <2>9 DEF Uses
  <2> QED BY <2>10
<1>8. RecordsOK'
  <2>1. \A x \in Region : KnownRec(x)' => KnownRec(x)
    BY <1>3 DEF KnownRec
  <2>2. Recycle' = Recycle
    BY DEF Recycle
  <2>3. Stashing(Main)' <=> Stashing(Main)
    BY <1>4, NewDeleteAssumption
  <2>4. ~Recycle => ~KnownRec(r)
    BY <1>2, TagsDiffer DEF Memory, RecordsOK
  <2> QED BY <1>2, <2>1, <2>2, <2>3, <2>4 DEF Memory, RecordsOK
<1> QED BY <1>5, <1>6, <1>7, <1>8 DEF Memory

LEMMA NewFallbackMemory ==
  ASSUME TypeOK, Control, Memory, NEW t \in Threads, NewFallback(t)
  PROVE  Memory'
<1>1. /\ FrameOf(Client) \in FrameType /\ FrameOf(Client).vec = Client
      /\ FallbackBegin(t, FrameOf(Client)) /\ pc[t] = "idle" /\ frame[t] = NoFrame
      /\ UNCHANGED <<tls, recs, slab, arena, used, ext, free, fetched, program, ready, chunks, buf,
                     held, stash, leaked, misfree>>
  BY FrameOfType DEF NewFallback, AtRest, allocVars, sharedVars, Control, FrameOK, Growing
<1> QED BY <1>1, NoFrameFacts, FallbackBeginMemory

LEMMA GrowMemory ==
  ASSUME TypeOK, Control, Memory, NEW t \in Threads, Grow(t)
  PROVE  Memory'
<1>1. /\ frame[t] \in FrameType /\ FallbackBegin(t, frame[t]) /\ pc[t] = "push" /\ frame[t].new = NULL
      /\ UNCHANGED <<tls, recs, slab, arena, used, ext, free, fetched, program, ready, chunks, buf,
                     held, stash, leaked, misfree>>
  BY DEF Grow, allocVars, sharedVars, clientVars, Control, FrameOK, TypeOK
<1> QED BY <1>1, FallbackBeginMemory

(* record_malloc_ptr's store: the record is of the fallback it was made for. *)
LEMMA PublishedRecords ==
  ASSUME TypeOK, Control, Memory, NEW t \in Threads, frame[t].new # NULL, Publish(t)
  PROVE  ~Recycle => \A r \in Region : r \in recs' =>
           /\ heap[r] = Freed \/ \E u \in Threads : heap[r] = <<"fallback", u>>
           /\ \A p \in stash : p[1] # r
           /\ Stashing(Main) => fetched[Main] # r
<1> SUFFICES ASSUME ~Recycle, NEW r \in Region, r \in recs'
             PROVE  /\ heap[r] = Freed \/ \E u \in Threads : heap[r] = <<"fallback", u>>
                    /\ \A p \in stash : p[1] # r
                    /\ Stashing(Main) => fetched[Main] # r
  OBVIOUS
<1>1. CASE r \in frame[t].next
  BY <1>1 DEF Memory, RecordsOK, KnownRec
<1>2. CASE r = frame[t].new
  <2>1. PICK use : Uses(use)
    BY DEF Memory
  <2>2. heap[r] = <<"fallback", t>> /\ use[r] = NewUse(t)
    BY <1>2, <2>1 DEF Uses
  <2>3. ASSUME NEW p \in stash, p[1] = r PROVE FALSE
    <3>1. use[r] = StashUse(p)
      BY <2>1, <2>3 DEF Uses
    <3> QED BY <2>2, <3>1, UsesDiffer
  <2>4. Stashing(Main) => fetched[Main] # r
    BY <2>1, <2>2, UsesDiffer DEF Uses
  <2> QED BY <2>2, <2>3, <2>4
<1> QED BY <1>1, <1>2 DEF Publish

LEMMA GrowStoreMemory ==
  ASSUME TypeOK, Control, Memory, NEW t \in Threads, GrowStore(t)
  PROVE  Memory'
<1>1. /\ pc[t] = "store" /\ pc' = [pc EXCEPT ![t] = "drop"] /\ frame[t].new # NULL /\ Publish(t)
      /\ UNCHANGED <<tls, frame, heap, slab, arena, used, ext, free, fetched, program, ready, chunks, buf,
                     held, stash, leaked, misfree>>
  BY DEF GrowStore, allocVars, sharedVars, clientVars, Control, FrameOK
<1>2. \A u \in Threads : /\ Stashing(u)' = Stashing(u) /\ Pending(u)' = Pending(u)
                         /\ pc'[u] = "link" => pc[u] = "link"
  BY <1>1 DEF TypeOK, Stashing, Pending
<1>3. Stashing(Main)' = Stashing(Main)
  BY <1>2, NewDeleteAssumption
<1>4. Tagged'
  BY <1>1, <1>2 DEF Memory, Tagged
<1>5. HeldOK' /\ HeldOnce' /\ Accounted'
  BY <1>1, <1>2, ObjectsKept
<1>6. (\E use : Uses(use))'
  BY <1>1, <1>3 DEF Memory, Uses
<1>7. RecordsOK'
  <2>1. \A r : KnownRec(r)' => KnownRec(r) \/ r \in recs'
    BY <1>1 DEF KnownRec
  <2>2. Recycle' = Recycle
    BY <1>1 DEF Recycle
  <2> QED BY <1>1, <1>3, <2>1, <2>2, PublishedRecords DEF Memory, RecordsOK
<1> QED BY <1>1, <1>4, <1>5, <1>6, <1>7 DEF Memory

(* The memory of a fallback that nothing has yet: no object lies there.      *)
LEMMA UnusedByObjects ==
  ASSUME TypeOK, Control, Memory, NEW use, Uses(use), NEW r, NEW u, heap[r] = <<"fallback", u>>,
         use[r] = RawUse \/ \E t \in Threads : use[r] = NewUse(t)
  PROVE  \A o \in held : o.ptr[1] # r
<1> SUFFICES ASSUME NEW o \in held, o.ptr[1] = r PROVE FALSE
  OBVIOUS
<1>1. o.kind \in {"malloc", "aligned"}
  BY HeldTags, TagsDiffer DEF Kinds
<1>2. CASE o.kind = "malloc"
  BY <1>2, UsesDiffer DEF Uses
<1>3. CASE o.kind = "aligned"
  <2>1. use[r] = StashUse(o.ptr)
    BY <1>3 DEF Uses, Memory, HeldOK
  <2> QED BY <2>1, UsesDiffer
<1> QED BY <1>1, <1>2, <1>3

LEMMA FallbackStoreMemory ==
  ASSUME TypeOK, Control, Memory, NEW t \in Threads, FallbackStore(t)
  PROVE  Memory'
<1>0. PICK r : r = frame[t].new
  OBVIOUS
<1> DEFINE n == At(<<r, 0>>, t, "malloc")
<1>1. /\ pc[t] = "store" /\ pc' = [pc EXCEPT ![t] = "idle"] /\ r # NULL /\ Publish(t)
      /\ frame[t].vec = Client /\ frame' = [frame EXCEPT ![t] = NoFrame]
      /\ held' = held \cup {n}
      /\ UNCHANGED <<tls, heap, slab, arena, used, ext, free, fetched, program, ready, chunks, buf,
                     stash, leaked, misfree>>
  BY <1>0 DEF FallbackStore, allocVars, sharedVars, Control, FrameOK
<1>2. n.ptr = <<r, 0>> /\ n.by = t /\ n.kind = "malloc" /\ n.ptr[1] = r /\ n.ptr[2] = 0
  BY DEF At
<1>3. /\ frame'[t] = NoFrame /\ pc'[t] = "idle"
      /\ \A u \in Threads \ {t} : frame'[u] = frame[u] /\ pc'[u] = pc[u]
  BY <1>1 DEF TypeOK
<1>4. ASSUME NEW u \in Threads
      PROVE  /\ Stashing(u)' <=> Stashing(u)
             /\ frame'[u].vec = Ext(u) <=> frame[u].vec = Ext(u)
             /\ Pending(u)' = Pending(u)
             /\ pc'[u] = "link" => pc[u] = "link"
  <2>1. CASE u = t
    BY <1>1, <1>3, <2>1, VectorFacts, NoFrameFacts DEF Stashing, Pending, BodyOf
  <2>2. CASE u # t
    BY <1>1, <1>3, <2>2 DEF Stashing, Pending, BodyOf
  <2> QED BY <2>1, <2>2
<1>5. Stashing(Main)' <=> Stashing(Main)
  BY <1>4, NewDeleteAssumption
<1>6. PICK use : Uses(use)
  BY DEF Memory
<1>7. heap[r] = <<"fallback", t>> /\ use[r] = NewUse(t) /\ r \in Region
  BY <1>0, <1>1, <1>6, UsedRegions, UsesNew
<1>8. \A o \in held : o.ptr[1] # r
  BY <1>6, <1>7, UnusedByObjects
<1>9. Tagged'
  BY <1>1, <1>4 DEF Memory, Tagged
<1> HIDE DEF n
<1>10. HeldOK' /\ HeldOnce' /\ Accounted'
  <2>1. \A u \in Threads : PoolOf(u)' = PoolOf(u) /\ ArenaOf(u)' = ArenaOf(u) /\ Blocks(u)' = Blocks(u)
    BY <1>1, <1>4 DEF PoolOf, ArenaOf, Blocks
  <2>2. (\A o \in held : o.by \in Threads) /\ \A l \in leaked : l.obj.by \in Threads
    BY DEF TypeOK, Object
  <2>3. HeldOK'
    BY <1>1, <1>2, <2>1, <2>2 DEF Memory, HeldOK
  <2>4. HeldOnce'
    BY <1>1, <1>2, <1>8 DEF Memory, HeldOnce
  <2>5. \A o : HasLeaked(o)' <=> HasLeaked(o)
    BY <1>1 DEF HasLeaked
  <2>6. Accounted'
    BY <1>1, <2>1, <2>2, <2>5 DEF Memory, Accounted
  <2> QED BY <2>3, <2>4, <2>6
<1>11. (\E use1 : Uses(use1))'
  <2> DEFINE use2 == [x \in Region |-> IF x = r THEN ObjUse ELSE use[x]]
  <2>1. use2[r] = ObjUse /\ \A x \in Region \ {r} : use2[x] = use[x]
    BY <1>7
  <2> HIDE DEF use2
  <2>2. \A x \in Region : (\E v \in Vector : use[x] = BufUse(v)) \/ use[x] \in {RawUse, ObjUse}
                            \/ (\E p \in stash : use[x] = StashUse(p))
                            \/ (\E u \in Threads \ {t} : use[x] = NewUse(u)) => x # r
    BY <1>7, UsesDiffer
  <2>3. \A v \in Vector : buf'[v] # NULL =>
         (\E u \in Threads : heap'[buf'[v]] = <<"fallback", u>>) /\ use2[buf'[v]] = BufUse(v)
    BY <1>1, <1>6, <2>1, <2>2, UsedRegions, UsesBuf
  <2>4. \A u \in Threads : frame'[u].new # NULL =>
         heap'[frame'[u].new] = <<"fallback", u>> /\ use2[frame'[u].new] = NewUse(u)
    <3>1. frame'[t].new = NULL
      BY <1>3, NoFrameFacts
    <3>2. \A u \in Threads \ {t} : frame[u].new # NULL =>
            heap'[frame[u].new] = <<"fallback", u>> /\ use2[frame[u].new] = NewUse(u)
      BY <1>1, <1>6, <2>1, <2>2, UsedRegions, UsesNew
    <3> QED BY <1>3, <3>1, <3>2
  <2>5. Stashing(Main)' => heap'[fetched'[Main]] = <<"fallback", Main>> /\ use2[fetched'[Main]] = RawUse
    BY <1>1, <1>5, <1>6, <2>1, <2>2, UsedRegions, UsesRaw
  <2>6. \A p \in stash' : heap'[p[1]] = <<"fallback", Main>> /\ use2[p[1]] = StashUse(p)
    BY <1>1, <1>6, <2>1, <2>2, UsedRegions, UsesStash
  <2>7. \A o \in held' : o.kind = "malloc" =>
         o.ptr[2] = 0 /\ heap'[o.ptr[1]] = <<"fallback", o.by>> /\ use2[o.ptr[1]] = ObjUse
    <3>1. \A o \in held : o.kind = "malloc" =>
            o.ptr[2] = 0 /\ heap[o.ptr[1]] = <<"fallback", o.by>> /\ use2[o.ptr[1]] = ObjUse
      <4>1. \A o \in held : o.ptr[1] \in Region \ {r}
        BY <1>8, UsedRegions
      <4> QED BY <1>6, <2>1, <4>1, UsesObj
    <3>2. n.ptr[2] = 0 /\ heap[n.ptr[1]] = <<"fallback", n.by>> /\ use2[n.ptr[1]] = ObjUse
      BY <1>2, <1>7, <2>1
    <3> QED BY <1>1, <3>1, <3>2
  <2>8. Uses(use2)'
    BY <2>3, <2>4, <2>5, <2>6, <2>7 DEF Uses
  <2> QED BY <2>8
<1>12. RecordsOK'
  <2>1. \A x : KnownRec(x)' => KnownRec(x) \/ x \in recs'
    BY <1>3, NoFrameFacts DEF KnownRec
  <2>2. Recycle' = Recycle
    BY <1>1 DEF Recycle
  <2>3. frame[t].new # NULL
    BY <1>0, <1>1
  <2> QED BY <1>1, <1>5, <2>1, <2>2, <2>3, PublishedRecords DEF Memory, RecordsOK
<1> QED BY <1>1, <1>9, <1>10, <1>11, <1>12 DEF Memory

LEMMA NewAlignedMemory ==
  ASSUME TypeOK, Control, Memory, NEW t \in Threads, NewAligned(t)
  PROVE  Memory'
<1> DEFINE v == Shared("stash")
<1>1. PICK r \in Mallocable(heap) : /\ heap' = [heap EXCEPT ![r] = <<"fallback", t>>]
                                    /\ fetched' = [fetched EXCEPT ![t] = r]
  BY DEF NewAligned
<1>2. /\ Grown /\ r \in Region /\ r # NULL /\ heap[r] \in {Fresh, Freed} /\ heap'[r] = <<"fallback", t>>
      /\ \A x \in Region \ {r} : heap'[x] = heap[x]
      /\ ~Recycle => heap[r] = Fresh
  BY <1>1, MallocKeeps
<1>3. /\ FrameOf(v).vec = v /\ FrameOf(v).new = NULL /\ FrameOf(v).next = {}
      /\ frame' = [frame EXCEPT ![t] = FrameOf(v)] /\ pc' = [pc EXCEPT ![t] = "push"]
      /\ UNCHANGED <<tls, recs, slab, arena, used, ext, free, program, ready, chunks, buf,
                     held, stash, leaked, misfree>>
      /\ pc[t] = "idle" /\ frame[t] = NoFrame /\ ~ready /\ t = Main
  BY VectorFacts, FrameOfType DEF NewAligned, sharedVars, Control, FrameOK, Growing, AtRest, Running
<1>4. /\ frame'[t].vec = v /\ frame'[t].new = NULL /\ frame'[t].next = {} /\ pc'[t] = "push" /\ fetched'[t] = r
      /\ \A u \in Threads \ {t} : frame'[u] = frame[u] /\ pc'[u] = pc[u] /\ fetched'[u] = fetched[u]
  BY <1>1, <1>3 DEF TypeOK
<1>5. \A u \in Threads : ~Stashing(u)
  BY <1>3, NoFrameFacts, VectorFacts DEF Control, PhaseOK, Stashing
<1>6. /\ Stashing(t)' /\ ~(frame'[t].vec = Ext(t)) /\ ~(frame[t].vec = Ext(t))
      /\ \A u \in Threads \ {t} : ~Stashing(u)'
  BY <1>3, <1>4, <1>5, VectorFacts, NoFrameFacts DEF Stashing
<1>7. Tagged'
  <2>1. \A u \in Threads : fetched[u] # NULL => fetched[u] \in Region
    BY DEF TypeOK
  <2>2. \A x \in Region : \A u : heap[x] = <<"chunk", u>> => heap'[x] = <<"chunk", u>>
    BY <1>2 DEF Grown
  <2>3. \A u \in Threads \ {t} : fetched[u] # NULL => heap'[fetched[u]] = <<"chunk", u>> /\ fetched[u] \notin ext[u]
    BY <1>5, <2>1, <2>2 DEF Memory, Tagged
  <2>4. \A u \in Threads : fetched'[u] # NULL /\ ~Stashing(u)' =>
          heap'[fetched'[u]] = <<"chunk", u>> /\ fetched'[u] \notin ext'[u]
    BY <1>3, <1>4, <1>6, <2>3
  <2>5. \A u \in Threads : pc'[u] = "link" \/ frame'[u].vec = Ext(u) => fetched'[u] \in chunks'
    BY <1>3, <1>4, <1>6 DEF Memory, Tagged
  <2> QED BY <1>2, <1>3, <2>4, <2>5, AllocatorsGrown DEF Memory, Tagged
<1>8. \A u \in Threads : Pending(u)' = Pending(u)
  <2>1. Pending(t)' = {} /\ Pending(t) = {}
    BY <1>6 DEF Pending
  <2>2. \A u \in Threads \ {t} : Pending(u)' = Pending(u)
    BY <1>4 DEF Pending, BodyOf
  <2> QED BY <2>1, <2>2
<1>9. HeldOK' /\ HeldOnce' /\ Accounted'
  BY <1>3, <1>8, ObjectsKept
<1>10. (\E use : Uses(use))'
  <2>1. PICK use : Uses(use)
    BY DEF Memory
  <2> DEFINE use2 == [x \in Region |-> IF x = r THEN RawUse ELSE use[x]]
  <2>2. use2[r] = RawUse /\ \A x \in Region \ {r} : use2[x] = use[x]
    BY <1>2
  <2> HIDE DEF use2
  <2>3. Carried(use2)
    <3>1. Agree(use, use2)
      BY <1>2, <2>2, TagsDiffer DEF Agree
    <3> QED BY <2>1, <3>1, UsesCarried
  <2>4. \A w \in Vector : buf'[w] # NULL =>
         (\E u \in Threads : heap'[buf'[w]] = <<"fallback", u>>) /\ use2[buf'[w]] = BufUse(w)
    BY <1>3, <2>3 DEF Carried
  <2>5. \A u \in Threads : frame'[u].new # NULL =>
         heap'[frame'[u].new] = <<"fallback", u>> /\ use2[frame'[u].new] = NewUse(u)
    <3>1. \A u \in Threads : frame[u].new # NULL =>
            heap'[frame[u].new] = <<"fallback", u>> /\ use2[frame[u].new] = NewUse(u)
      BY <2>3 DEF Carried
    <3> QED BY <1>4, <3>1
  <2>6. heap'[fetched'[Main]] = <<"fallback", Main>> /\ use2[fetched'[Main]] = RawUse
    BY <1>2, <1>3, <1>4, <2>2
  <2>7. \A p \in stash' : heap'[p[1]] = <<"fallback", Main>> /\ use2[p[1]] = StashUse(p)
    BY <1>3, <2>3 DEF Carried
  <2>8. \A o \in held' : o.kind = "malloc" =>
         o.ptr[2] = 0 /\ heap'[o.ptr[1]] = <<"fallback", o.by>> /\ use2[o.ptr[1]] = ObjUse
    BY <1>3, <2>3 DEF Carried
  <2>9. Uses(use2)'
    BY <2>4, <2>5, <2>6, <2>7, <2>8 DEF Uses
  <2> QED BY <2>9
<1>11. RecordsOK'
  <2>1. \A x \in Region : KnownRec(x)' => KnownRec(x)
    BY <1>3, <1>4 DEF KnownRec
  <2>2. Recycle' = Recycle
    BY <1>3 DEF Recycle
  <2>3. ~Recycle => ~KnownRec(r)
    BY <1>2, TagsDiffer DEF Memory, RecordsOK
  <2> QED BY <1>2, <1>3, <1>4, <2>1, <2>2, <2>3 DEF Memory, RecordsOK
<1> QED BY <1>3, <1>7, <1>9, <1>10, <1>11 DEF Memory

LEMMA AlignedReturnMemory ==
  ASSUME TypeOK, Control, Memory, NEW t \in Threads, AlignedReturn(t)
  PROVE  Memory'
<1>0. PICK r : r = fetched[t]
  OBVIOUS
<1>1. PICK offset \in {0, 1} : /\ stash' = stash \cup {<<r, offset>>}
                               /\ held' = held \cup {At(<<r, offset>>, t, "aligned")}
  BY <1>0 DEF AlignedReturn
<1> DEFINE p == <<r, offset>>
           n == At(p, t, "aligned")
<1>2. n.ptr = p /\ n.by = t /\ n.kind = "aligned" /\ p[1] = r
  BY DEF At
<1>3. /\ pc[t] = "stashed" /\ pc' = [pc EXCEPT ![t] = "idle"] /\ frame[t] = NoFrame
      /\ fetched' = [fetched EXCEPT ![t] = NULL]
      /\ UNCHANGED <<tls, frame, recs, heap, slab, arena, used, ext, free, program, ready, chunks, buf,
                     leaked, misfree>>
      /\ Stashing(t) /\ t = Main
  BY DEF AlignedReturn, sharedVars, Control, FrameOK, Growing, Stashing, PhaseOK
<1>4. pc'[t] = "idle" /\ fetched'[t] = NULL /\ \A u \in Threads \ {t} : pc'[u] = pc[u] /\ fetched'[u] = fetched[u]
  BY <1>3 DEF TypeOK
<1>5. /\ ~Stashing(t)' /\ Pending(t)' = {} /\ Pending(t) = {} /\ frame[t].vec # Ext(t)
      /\ \A u \in Threads \ {t} : (Stashing(u)' <=> Stashing(u)) /\ Pending(u)' = Pending(u)
  <2>1. frame[t].vec # Ext(t) /\ frame[t].vec # Shared("stash")
    BY <1>3, NoFrameFacts, VectorFacts
  <2> QED BY <1>3, <1>4, <2>1 DEF Stashing, Pending, BodyOf
<1>6. PICK use : Uses(use)
  BY DEF Memory
<1>7. heap[r] = <<"fallback", Main>> /\ use[r] = RawUse /\ r \in Region
  BY <1>0, <1>3, <1>6, UsedRegions, UsesRaw
<1>8. \A o \in held : o.ptr[1] # r
  BY <1>6, <1>7, UnusedByObjects
<1>9. Tagged'
  <2>0. Tagged
    BY DEF Memory
  <2>1. ASSUME NEW u \in Threads, fetched'[u] # NULL, ~Stashing(u)'
        PROVE  heap'[fetched'[u]] = <<"chunk", u>> /\ fetched'[u] \notin ext'[u]
    <3>1. u # t
      BY <1>4, <2>1
    <3>2. fetched'[u] = fetched[u] /\ ~Stashing(u)
      BY <1>4, <1>5, <2>1, <3>1
    <3>3. heap[fetched[u]] = <<"chunk", u>> /\ fetched[u] \notin ext[u]
      BY <2>0, <2>1, <3>2, TaggedFetched
    <3> QED BY <1>3, <3>2, <3>3
  <2>2. ASSUME NEW u \in Threads, pc'[u] = "link" \/ frame'[u].vec = Ext(u)
        PROVE  fetched'[u] \in chunks'
    <3>1. u # t
      BY <1>3, <1>4, <1>5, <2>2
    <3>2. fetched[u] \in chunks
      BY <1>3, <1>4, <2>0, <2>2, <3>1, TaggedFetched
    <3> QED BY <1>3, <1>4, <3>1, <3>2
  <2>3. \A u \in Threads : slab'[u] # NULL => heap'[slab'[u]] = <<"slab", u>> /\ heap'[arena'[u]] = <<"arena", u>>
    BY <1>3, <2>0, TaggedOwn
  <2>4. \A u \in Threads : \A x \in ext'[u] : heap'[x] = <<"chunk", u>> /\ x \in chunks'
    BY <1>3, <2>0, TaggedOwn
  <2>5. \A x \in chunks' : \E u \in Threads : heap'[x] = <<"chunk", u>>
    BY <1>3, <2>0, TaggedChunk
  <2> QED BY <2>1, <2>2, <2>3, <2>4, <2>5 DEF Tagged
<1> HIDE DEF n, p
<1>10. HeldOK' /\ HeldOnce' /\ Accounted'
  <2>1. \A u \in Threads : PoolOf(u)' = PoolOf(u) /\ ArenaOf(u)' = ArenaOf(u) /\ Blocks(u)' = Blocks(u)
    BY <1>3, <1>5 DEF PoolOf, ArenaOf, Blocks
  <2>2. (\A o \in held : o.by \in Threads) /\ \A l \in leaked : l.obj.by \in Threads
    BY DEF TypeOK, Object
  <2>3. stash' = stash \cup {p} /\ held' = held \cup {n}
    BY <1>1 DEF n, p
  <2>4. HeldOK'
    BY <1>2, <1>3, <2>1, <2>2, <2>3 DEF Memory, HeldOK
  <2>5. HeldOnce'
    BY <1>2, <1>8, <2>3 DEF Memory, HeldOnce
  <2>6. \A o : HasLeaked(o)' <=> HasLeaked(o)
    BY <1>3 DEF HasLeaked
  <2>7. Accounted'
    BY <1>3, <2>1, <2>2, <2>3, <2>6 DEF Memory, Accounted
  <2> QED BY <2>4, <2>5, <2>7
<1>11. (\E use1 : Uses(use1))'
  <2> DEFINE use2 == [x \in Region |-> IF x = r THEN StashUse(p) ELSE use[x]]
  <2>0. stash' = stash \cup {p} /\ held' = held \cup {n}
    BY <1>1 DEF n, p
  <2>1. use2[r] = StashUse(p) /\ \A x \in Region \ {r} : use2[x] = use[x]
    BY <1>7
  <2> HIDE DEF use2
  <2>2. \A x \in Region : (\E v \in Vector : use[x] = BufUse(v)) \/ use[x] = ObjUse
                            \/ (\E q \in stash : use[x] = StashUse(q))
                            \/ (\E u \in Threads : use[x] = NewUse(u)) => x # r
    BY <1>7, UsesDiffer
  <2>3. \A v \in Vector : buf'[v] # NULL =>
         (\E u \in Threads : heap'[buf'[v]] = <<"fallback", u>>) /\ use2[buf'[v]] = BufUse(v)
    BY <1>3, <1>6, <2>1, <2>2, UsedRegions, UsesBuf
  <2>4. \A u \in Threads : frame'[u].new # NULL =>
         heap'[frame'[u].new] = <<"fallback", u>> /\ use2[frame'[u].new] = NewUse(u)
    BY <1>3, <1>6, <2>1, <2>2, UsedRegions, UsesNew
  <2>5. \A q \in stash' : heap'[q[1]] = <<"fallback", Main>> /\ use2[q[1]] = StashUse(q)
    BY <1>2, <1>3, <1>6, <1>7, <2>0, <2>1, <2>2, UsedRegions, UsesStash
  <2>6. \A o \in held' : o.kind = "malloc" =>
         o.ptr[2] = 0 /\ heap'[o.ptr[1]] = <<"fallback", o.by>> /\ use2[o.ptr[1]] = ObjUse
    BY <1>2, <1>3, <1>6, <1>7, <1>8, <2>0, <2>1, UsedRegions, UsesObj
  <2>7. Uses(use2)'
    BY <1>3, <1>5, <2>3, <2>4, <2>5, <2>6 DEF Uses
  <2> QED BY <2>7
<1>12. RecordsOK'
  <2>1. \A x : KnownRec(x)' <=> KnownRec(x)
    BY <1>3 DEF KnownRec
  <2>2. Recycle' = Recycle
    BY <1>3 DEF Recycle
  <2>3. ~Recycle => ~KnownRec(r)
    BY <1>0, <1>3, <1>7 DEF Memory, RecordsOK
  <2>4. stash' = stash \cup {p}
    BY <1>1 DEF p
  <2> QED BY <1>2, <1>3, <1>5, <2>1, <2>2, <2>3, <2>4 DEF Memory, RecordsOK
<1> QED BY <1>3, <1>9, <1>10, <1>11, <1>12 DEF Memory

(* The fallback allocations, in a heap that has grown.                       *)
LEMMA UsesGrown ==
  ASSUME TypeOK, Control, Memory, Grown, UNCHANGED <<buf, stash, held>>,
         \A t \in Threads : frame'[t].new = frame[t].new,
         Stashing(Main)' <=> Stashing(Main), Stashing(Main) => fetched'[Main] = fetched[Main]
  PROVE  (\E use : Uses(use))'
<1>1. PICK use : Uses(use)
  BY DEF Memory
<1>2. Agree(use, use)
  BY DEF Grown, Agree
<1>3. Carried(use)
  BY <1>1, <1>2, UsesCarried
<1>4. \A v \in Vector : buf'[v] # NULL =>
       (\E u \in Threads : heap'[buf'[v]] = <<"fallback", u>>) /\ use[buf'[v]] = BufUse(v)
  BY <1>3 DEF Carried
<1>5. \A u \in Threads : frame'[u].new # NULL =>
       heap'[frame'[u].new] = <<"fallback", u>> /\ use[frame'[u].new] = NewUse(u)
  BY <1>3 DEF Carried
<1>6. Stashing(Main)' => heap'[fetched'[Main]] = <<"fallback", Main>> /\ use[fetched'[Main]] = RawUse
  BY <1>3 DEF Carried
<1>7. /\ \A p \in stash' : heap'[p[1]] = <<"fallback", Main>> /\ use[p[1]] = StashUse(p)
      /\ \A o \in held' : o.kind = "malloc" =>
            o.ptr[2] = 0 /\ heap'[o.ptr[1]] = <<"fallback", o.by>> /\ use[o.ptr[1]] = ObjUse
  BY <1>3 DEF Carried
<1>8. Uses(use)'
  BY <1>4, <1>5, <1>6, <1>7 DEF Uses
<1> QED BY <1>8

LEMMA AcquireChunkMemory ==
  ASSUME TypeOK, Control, Memory, NEW t \in Threads, AcquireChunk(t)
  PROVE  Memory'
<1> DEFINE v == Shared("chunks")
<1>1. PICK r \in Mallocable(heap) : /\ heap' = [heap EXCEPT ![r] = <<"chunk", t>>]
                                    /\ fetched' = [fetched EXCEPT ![t] = r]
  BY DEF AcquireChunk
<1>2. /\ Grown /\ r \in Region /\ r # NULL /\ heap[r] \in {Fresh, Freed} /\ heap'[r] = <<"chunk", t>>
      /\ \A x \in Region \ {r} : heap'[x] = heap[x]
      /\ ~Recycle => heap[r] = Fresh
  BY <1>1, MallocKeeps
<1>3. /\ FrameOf(v).vec = v /\ FrameOf(v).new = NULL /\ FrameOf(v).next = {}
      /\ frame' = [frame EXCEPT ![t] = FrameOf(v)] /\ pc' = [pc EXCEPT ![t] = "push"]
      /\ UNCHANGED <<tls, recs, slab, arena, used, ext, free, program, ready, chunks, buf,
                     held, stash, leaked, misfree>>
      /\ pc[t] = "refill" /\ frame[t] = NoFrame
  BY VectorFacts, FrameOfType DEF AcquireChunk, clientVars, Control, FrameOK, Growing
<1>4. /\ frame'[t].vec = v /\ frame'[t].new = NULL /\ frame'[t].next = {} /\ pc'[t] = "push" /\ fetched'[t] = r
      /\ \A u \in Threads \ {t} : frame'[u] = frame[u] /\ pc'[u] = pc[u] /\ fetched'[u] = fetched[u]
  BY <1>1, <1>3 DEF TypeOK
<1>5. \A u \in Threads : ~Stashing(u)
  BY <1>3 DEF Control, PhaseOK, Refilling
<1>6. /\ frame'[t].vec # Ext(t) /\ frame[t].vec # Ext(t)
      /\ \A u \in Threads : ~Stashing(u)'
  BY <1>3, <1>4, <1>5, VectorFacts, NoFrameFacts DEF Stashing
<1>7. Tagged'
  <2>1. \A u \in Threads : fetched[u] # NULL => fetched[u] \in Region
    BY DEF TypeOK
  <2>2. \A x \in Region : \A u : heap[x] = <<"chunk", u>> => heap'[x] = <<"chunk", u>>
    BY <1>2 DEF Grown
  <2>3. \A u \in Threads \ {t} : fetched[u] # NULL => heap'[fetched[u]] = <<"chunk", u>> /\ fetched[u] \notin ext[u]
    BY <1>5, <2>1, <2>2 DEF Memory, Tagged
  <2>4. r \notin ext[t]
    BY <1>2, TagsDiffer DEF Memory, Tagged
  <2>5. \A u \in Threads : fetched'[u] # NULL /\ ~Stashing(u)' =>
          heap'[fetched'[u]] = <<"chunk", u>> /\ fetched'[u] \notin ext'[u]
    BY <1>2, <1>3, <1>4, <2>3, <2>4
  <2>6. \A u \in Threads : pc'[u] = "link" \/ frame'[u].vec = Ext(u) => fetched'[u] \in chunks'
    BY <1>3, <1>4, <1>6 DEF Memory, Tagged
  <2> QED BY <1>2, <1>3, <2>5, <2>6, AllocatorsGrown DEF Memory, Tagged
<1>8. \A u \in Threads : Pending(u)' = Pending(u)
  <2>1. Pending(t)' = {} /\ Pending(t) = {}
    BY <1>6 DEF Pending
  <2>2. \A u \in Threads \ {t} : Pending(u)' = Pending(u)
    BY <1>4 DEF Pending, BodyOf
  <2> QED BY <2>1, <2>2
<1>9. HeldOK' /\ HeldOnce' /\ Accounted'
  BY <1>3, <1>8, ObjectsKept
<1>10. (\E use : Uses(use))'
  <2>1. \A u \in Threads : frame'[u].new = frame[u].new
    BY <1>3, <1>4, NoFrameFacts
  <2> QED BY <1>2, <1>3, <1>5, <1>6, <2>1, UsesGrown, NewDeleteAssumption
<1>11. RecordsOK'
  <2>1. \A x \in Region : KnownRec(x)' => KnownRec(x)
    BY <1>3, <1>4 DEF KnownRec
  <2>2. Recycle' = Recycle
    BY <1>3 DEF Recycle
  <2>3. ~Recycle => ~KnownRec(r)
    BY <1>2, TagsDiffer DEF Memory, RecordsOK
  <2>4. ~Stashing(Main)'
    BY <1>6, NewDeleteAssumption
  <2> QED BY <1>2, <1>3, <2>1, <2>2, <2>3, <2>4 DEF Memory, RecordsOK
<1> QED BY <1>3, <1>7, <1>9, <1>10, <1>11 DEF Memory

LEMMA AddExternalSlabMemory ==
  ASSUME TypeOK, Control, Memory, NEW t \in Threads, AddExternalSlab(t)
  PROVE  Memory'
<1> DEFINE v == Ext(t)
<1>1. /\ FrameOf(v).vec = v /\ FrameOf(v).new = NULL /\ FrameOf(v).next = {}
      /\ frame' = [frame EXCEPT ![t] = FrameOf(v)] /\ pc' = [pc EXCEPT ![t] = "push"]
      /\ free' = [free EXCEPT ![t] = @ \cup BodyOf(fetched[t])]
      /\ UNCHANGED <<tls, recs, heap, slab, arena, used, ext, fetched, program, ready, chunks, buf,
                     held, stash, leaked, misfree>>
      /\ pc[t] = "link" /\ frame[t] = NoFrame
  BY VectorFacts, FrameOfType DEF AddExternalSlab, sharedVars, clientVars, Control, FrameOK, Growing
<1>2. /\ frame'[t].vec = v /\ frame'[t].new = NULL /\ frame'[t].next = {} /\ pc'[t] = "push"
      /\ free'[t] = free[t] \cup BodyOf(fetched[t])
      /\ \A u \in Threads \ {t} : frame'[u] = frame[u] /\ pc'[u] = pc[u] /\ free'[u] = free[u]
  BY <1>1 DEF TypeOK
<1>3. \A u \in Threads : ~Stashing(u)
  BY <1>1 DEF Control, PhaseOK, Refilling
<1>4. \A u \in Threads : ~Stashing(u)'
  BY <1>2, <1>3, VectorFacts DEF Stashing
<1>5. fetched[t] # NULL /\ fetched[t] \in Region /\ heap[fetched[t]] = <<"chunk", t>>
      /\ fetched[t] \notin ext[t] /\ fetched[t] \in chunks
  BY <1>1, <1>3 DEF Control, MembersOK, TypeOK, Memory, Tagged
<1>6. Tagged'
  <2>1. \A u \in Threads : pc'[u] = "link" \/ frame'[u].vec = Ext(u) => fetched'[u] \in chunks'
    BY <1>1, <1>2, <1>5 DEF Memory, Tagged
  <2> QED BY <1>1, <1>3, <1>4, <2>1 DEF Memory, Tagged
<1>7. /\ Pending(t)' = BodyOf(fetched[t]) /\ Pending(t) = {}
      /\ \A u \in Threads \ {t} : Pending(u)' = Pending(u)
  <2>1. frame[t].vec # Ext(t)
    BY <1>1, NoFrameFacts, VectorFacts
  <2>2. Pending(t)' = BodyOf(fetched[t])
    BY <1>1, <1>2 DEF Pending, BodyOf
  <2> QED BY <1>1, <1>2, <2>1, <2>2 DEF Pending, BodyOf
<1>8. \A u \in Threads : PoolOf(u)' = PoolOf(u) /\ ArenaOf(u)' = ArenaOf(u)
  BY <1>1 DEF PoolOf, ArenaOf
<1>9. Blocks(t)' = Blocks(t) \cup BodyOf(fetched[t]) /\ \A u \in Threads \ {t} : Blocks(u)' = Blocks(u)
  BY <1>7, <1>8 DEF Blocks
<1>10. \A p \in PoolOf(t) : p \notin BodyOf(fetched[t])
  <2> SUFFICES ASSUME NEW p \in PoolOf(t), p \in BodyOf(fetched[t]) PROVE FALSE
    OBVIOUS
  <2>1. p[1] = fetched[t]
    BY BlockRegion
  <2>2. CASE slab[t] # NULL /\ p \in SlabOf(slab[t])
    <3>1. heap[p[1]] = <<"slab", t>>
      BY <2>2, BlockRegion DEF Memory, Tagged
    <3> QED BY <1>5, <2>1, <3>1, TagsDiffer
  <2>3. CASE \E r \in ext[t] : p \in BodyOf(r)
    BY <1>5, <2>1, <2>3, BlockRegion
  <2> QED BY <2>2, <2>3, PoolMembers
<1>11. HeldOK'
  <2>1. \A o \in held : o.by \in Threads
    BY HeldTags
  <2> QED BY <1>1, <1>2, <1>8, <1>10, <2>1 DEF Memory, HeldOK
<1>12. Accounted'
  <2>1. \A o : HasLeaked(o)' <=> HasLeaked(o)
    BY <1>1 DEF HasLeaked
  <2>2. \A l \in leaked : l.obj.by \in Threads
    BY DEF TypeOK, Object
  <2>3. \A u \in Threads : free'[u] \subseteq Blocks(u)'
    BY <1>2, <1>9 DEF Memory, Accounted
  <2>4. \A u \in Threads : tls'[u] \in {"building", "live"} =>
       \A p \in Blocks(u)' : p \in free'[u] \/ At(p, u, "pool") \in held' \/ HasLeaked(At(p, u, "pool"))'
    BY <1>1, <1>2, <1>9, <2>1 DEF Memory, Accounted
  <2>5. \A l \in leaked' : l.obj.kind = "pool" =>
       /\ tls'[l.obj.by] \in {"live", "gone"}
       /\ tls'[l.obj.by] = "live" => l.obj.ptr \in PoolOf(l.obj.by)'
    BY <1>1, <1>8, <2>2 DEF Memory, Accounted
  <2>6. \A l \in leaked' : l.obj.kind # "malloc" => l.deleter # l.obj.by
    BY <1>1 DEF Memory, Accounted
  <2> QED BY <2>3, <2>4, <2>5, <2>6 DEF Accounted
<1>13. (\E use : Uses(use))'
  <2>1. \A u \in Threads : frame'[u].new = frame[u].new
    BY <1>1, <1>2, NoFrameFacts
  <2>2. Grown
    BY <1>1 DEF Grown, TypeOK
  <2> QED BY <1>1, <1>3, <1>4, <2>1, <2>2, UsesGrown, NewDeleteAssumption
<1>14. RecordsOK'
  <2>1. \A x : KnownRec(x)' => KnownRec(x)
    BY <1>1, <1>2 DEF KnownRec
  <2>2. Recycle' = Recycle
    BY <1>1 DEF Recycle
  <2>3. ~Stashing(Main)'
    BY <1>4, NewDeleteAssumption
  <2> QED BY <1>1, <2>1, <2>2, <2>3 DEF Memory, RecordsOK
<1>15. HeldOnce' /\ ~misfree'
  BY <1>1 DEF Memory, HeldOnce
<1> QED BY <1>6, <1>11, <1>12, <1>13, <1>14, <1>15 DEF Memory

LEMMA ConstructMemory ==
  ASSUME TypeOK, Control, Memory, NEW t \in Threads, Construct(t)
  PROVE  Memory'
<1>0. PICK s \in Mallocable(heap) :
        \E a \in Mallocable([heap EXCEPT ![s] = <<"slab", t>>]) :
          /\ heap' = [[heap EXCEPT ![s] = <<"slab", t>>] EXCEPT ![a] = <<"arena", t>>]
          /\ slab' = [slab EXCEPT ![t] = s]
          /\ arena' = [arena EXCEPT ![t] = a]
          /\ free' = [free EXCEPT ![t] = SlabOf(s)]
  BY DEF Construct
<1>1. PICK a \in Mallocable([heap EXCEPT ![s] = <<"slab", t>>]) :
        /\ heap' = [[heap EXCEPT ![s] = <<"slab", t>>] EXCEPT ![a] = <<"arena", t>>]
        /\ slab' = [slab EXCEPT ![t] = s]
        /\ arena' = [arena EXCEPT ![t] = a]
        /\ free' = [free EXCEPT ![t] = SlabOf(s)]
  BY <1>0
<1>2. /\ s \in Region /\ a \in Region /\ s # NULL /\ a # NULL /\ s # a
      /\ heap[s] \in {Fresh, Freed} /\ heap[a] \in {Fresh, Freed}
      /\ ~Recycle => heap[s] = Fresh /\ heap[a] = Fresh
  <2>1. s \in Region /\ a \in Region /\ s # NULL /\ a # NULL
    BY MallocableFacts, NewDeleteAssumption DEF Region
  <2>2. /\ heap[s] \in {Fresh, Freed} /\ (~Recycle => heap[s] = Fresh)
        /\ [heap EXCEPT ![s] = <<"slab", t>>][a] \in {Fresh, Freed}
        /\ (~Recycle => [heap EXCEPT ![s] = <<"slab", t>>][a] = Fresh)
    BY MallocableFacts
  <2>3. s # a /\ [heap EXCEPT ![s] = <<"slab", t>>][a] = heap[a]
    BY <2>1, <2>2, TagsDiffer DEF TypeOK
  <2> QED BY <2>1, <2>2, <2>3
<1>3. /\ heap'[s] = <<"slab", t>> /\ heap'[a] = <<"arena", t>>
      /\ \A x \in Region \ {s, a} : heap'[x] = heap[x]
  BY <1>1, <1>2 DEF TypeOK
<1>4. Grown
  <2>1. heap' \in [Region -> Tag]
    BY <1>1, <1>2, TagFacts DEF TypeOK
  <2>2. \A x \in Region, k \in {"slab", "arena", "chunk", "fallback"} : \A u : heap[x] = <<k, u>> => x \notin {s, a}
    BY <1>2, TagsDiffer
  <2> QED BY <1>3, <2>1, <2>2 DEF Grown
<1>5. /\ tls[t] = "none" /\ tls' = [tls EXCEPT ![t] = "building"] /\ pc' = [pc EXCEPT ![t] = "register"]
      /\ pc[t] = "idle" /\ frame[t] = NoFrame
      /\ UNCHANGED <<frame, recs, used, ext, fetched, program, ready, chunks, buf, held, stash, leaked, misfree>>
  BY DEF Construct, AtRest, sharedVars, clientVars, Control, FrameOK, Growing
<1>6. /\ slab'[t] = s /\ arena'[t] = a /\ free'[t] = SlabOf(s) /\ tls'[t] = "building" /\ pc'[t] = "register"
      /\ \A u \in Threads \ {t} : /\ slab'[u] = slab[u] /\ arena'[u] = arena[u] /\ free'[u] = free[u]
                                  /\ tls'[u] = tls[u] /\ pc'[u] = pc[u]
  BY <1>1, <1>5 DEF TypeOK
<1>7. \A u \in Threads : /\ Stashing(u)' <=> Stashing(u)
                         /\ Pending(u)' = Pending(u)
                         /\ pc'[u] = "link" => pc[u] = "link"
  BY <1>5, <1>6 DEF Stashing, Pending
<1>8. Stashing(Main)' <=> Stashing(Main)
  BY <1>7, NewDeleteAssumption
<1>9. ext[t] = {} /\ Pending(t) = {}
  BY <1>5, NoFrameFacts, VectorFacts DEF Control, MembersOK, PhaseOK, Retiring, Pending
<1>10. Tagged'
  <2>1. \A x \in Region : \A u : /\ heap[x] = <<"slab", u>> => heap'[x] = <<"slab", u>>
                                 /\ heap[x] = <<"arena", u>> => heap'[x] = <<"arena", u>>
                                 /\ heap[x] = <<"chunk", u>> => heap'[x] = <<"chunk", u>>
    BY <1>4 DEF Grown
  <2>2. /\ \A u \in Threads : slab[u] # NULL => slab[u] \in Region /\ arena[u] \in Region
        /\ \A u \in Threads : fetched[u] # NULL => fetched[u] \in Region
        /\ chunks \subseteq Region /\ \A u \in Threads : ext[u] \subseteq Region
    BY DEF TypeOK, Control, MembersOK
  <2>3. \A u \in Threads \ {t} : slab[u] # NULL => heap'[slab[u]] = <<"slab", u>> /\ heap'[arena[u]] = <<"arena", u>>
    <3>1. Tagged
      BY DEF Memory
    <3>2. \A u \in Threads : slab[u] # NULL => heap[slab[u]] = <<"slab", u>> /\ heap[arena[u]] = <<"arena", u>>
      BY <3>1, TaggedOwn
    <3> QED BY <2>1, <2>2, <3>2
  <2>4. \A u \in Threads : slab'[u] # NULL => heap'[slab'[u]] = <<"slab", u>> /\ heap'[arena'[u]] = <<"arena", u>>
    BY <1>3, <1>6, <2>3
  <2>5. \A u \in Threads : \A x \in ext'[u] : heap'[x] = <<"chunk", u>> /\ x \in chunks'
    BY <1>5, <2>1, <2>2 DEF Memory, Tagged
  <2>6. \A x \in chunks' : \E u \in Threads : heap'[x] = <<"chunk", u>>
    BY <1>5, <2>1, <2>2 DEF Memory, Tagged
  <2>7. ASSUME NEW u \in Threads, fetched'[u] # NULL, ~Stashing(u)'
        PROVE  heap'[fetched'[u]] = <<"chunk", u>> /\ fetched'[u] \notin ext'[u]
    <3>1. fetched[u] # NULL /\ ~Stashing(u) /\ fetched[u] \in Region
      BY <1>5, <1>7, <2>2, <2>7
    <3>2. heap[fetched[u]] = <<"chunk", u>> /\ fetched[u] \notin ext[u]
      BY <3>1 DEF Memory, Tagged
    <3> QED BY <1>5, <2>1, <3>1, <3>2
  <2>8. \A u \in Threads : pc'[u] = "link" \/ frame'[u].vec = Ext(u) => fetched'[u] \in chunks'
    BY <1>5, <1>7 DEF Memory, Tagged
  <2> QED BY <2>4, <2>5, <2>6, <2>7, <2>8 DEF Tagged
<1>11. /\ Blocks(t)' = SlabOf(s)
       /\ \A u \in Threads \ {t} : PoolOf(u)' = PoolOf(u) /\ ArenaOf(u)' = ArenaOf(u) /\ Blocks(u)' = Blocks(u)
  <2>1. PoolOf(t)' = SlabOf(s)
    BY <1>2, <1>5, <1>6, <1>9 DEF PoolOf
  <2> QED BY <1>5, <1>6, <1>7, <1>9, <2>1 DEF Blocks, PoolOf, ArenaOf
<1>12. /\ \A o \in held : o.by \in Threads /\ (o.kind \in {"pool", "arena"} => o.by # t)
       /\ \A l \in leaked : l.obj.by \in Threads /\ (l.obj.kind = "pool" => l.obj.by # t)
  BY <1>5 DEF TypeOK, Object, Memory, HeldOK, Accounted
<1>13. HeldOK' /\ HeldOnce'
  BY <1>5, <1>6, <1>11, <1>12 DEF Memory, HeldOK, HeldOnce
<1>14. Accounted'
  <2>1. \A o : HasLeaked(o)' <=> HasLeaked(o)
    BY <1>5 DEF HasLeaked
  <2>2. \A u \in Threads : free'[u] \subseteq Blocks(u)'
    BY <1>6, <1>11 DEF Memory, Accounted
  <2>3. \A u \in Threads : tls'[u] \in {"building", "live"} =>
       \A p \in Blocks(u)' : p \in free'[u] \/ At(p, u, "pool") \in held' \/ HasLeaked(At(p, u, "pool"))'
    BY <1>5, <1>6, <1>11, <2>1 DEF Memory, Accounted
  <2>4. \A l \in leaked' : l.obj.kind = "pool" =>
       /\ tls'[l.obj.by] \in {"live", "gone"}
       /\ tls'[l.obj.by] = "live" => l.obj.ptr \in PoolOf(l.obj.by)'
    BY <1>5, <1>6, <1>11, <1>12 DEF Memory, Accounted
  <2>5. \A l \in leaked' : l.obj.kind # "malloc" => l.deleter # l.obj.by
    BY <1>5 DEF Memory, Accounted
  <2> QED BY <2>2, <2>3, <2>4, <2>5 DEF Accounted
<1>15. (\E use : Uses(use))'
  BY <1>4, <1>5, <1>8, UsesGrown
<1>16. RecordsOK'
  <2>1. \A x : KnownRec(x)' <=> KnownRec(x)
    BY <1>5 DEF KnownRec
  <2>2. Recycle' = Recycle
    BY <1>5 DEF Recycle
  <2>3. ~Recycle => ~KnownRec(s) /\ ~KnownRec(a)
    BY <1>2, TagsDiffer DEF Memory, RecordsOK
  <2> QED BY <1>3, <1>5, <1>8, <2>1, <2>2, <2>3 DEF Memory, RecordsOK
<1> QED BY <1>5, <1>10, <1>13, <1>14, <1>15, <1>16 DEF Memory

(* A step that gives back the memory in S and no other.                      *)
Shrunk(S) == \A x \in Region : heap'[x] = heap[x] \/ (x \in S /\ heap'[x] = Freed)
NewLeaks  == leaked \subseteq leaked' /\ \A l \in leaked' : l \in leaked \/ l.obj.kind = "malloc"

LEMMA ShrunkKeeps ==
  ASSUME NEW S, Shrunk(S), \A x \in S : \E u \in Threads : heap[x] = <<"fallback", u>>
  PROVE  /\ \A x \in Region : \A u : /\ heap[x] = <<"slab", u>> => heap'[x] = <<"slab", u>>
                                     /\ heap[x] = <<"arena", u>> => heap'[x] = <<"arena", u>>
                                     /\ heap[x] = <<"chunk", u>> => heap'[x] = <<"chunk", u>>
                                     /\ heap[x] = <<"fallback", u>> /\ x \notin S => heap'[x] = <<"fallback", u>>
         /\ \A x \in Region : heap'[x] = heap[x] \/ heap'[x] = Freed
BY TagsDiffer DEF Shrunk

(* do_delete of a vector's buffer, on whatever thread: it goes to std::free,  *)
(* or its record was lost and it is left alone.                             *)
LEMMA BufferDelete ==
  ASSUME TypeOK, Control, Memory, NEW t \in Threads, NEW v \in Vector, buf[v] # NULL,
         DoDelete(t, Buffer(buf[v], t))
  PROVE  UNCHANGED <<free, stash, misfree>> /\ Shrunk({buf[v]}) /\ NewLeaks
<1> DEFINE b == Buffer(buf[v], t)
<1>1. b.ptr = <<buf[v], 0>> /\ b.kind = "malloc" /\ b.ptr[1] = buf[v] /\ buf[v] \in Region
  BY DEF Buffer, At, TypeOK
<1>2. PICK use : Uses(use)
  BY DEF Memory
<1>3. PICK u \in Threads : heap[buf[v]] = <<"fallback", u>> /\ use[buf[v]] = BufUse(v)
  BY <1>2 DEF Uses
<1> HIDE DEF b
<1>4. b.ptr \notin stash
  <2> SUFFICES ASSUME b.ptr \in stash PROVE FALSE
    OBVIOUS
  <2>1. use[buf[v]] = StashUse(b.ptr)
    BY <1>1, <1>2 DEF Uses
  <2> QED BY <1>3, <2>1, UsesDiffer
<1>5. b.ptr \notin PoolOf(t)
  BY <1>1, <1>3, BlockTags, TagsDiffer DEF Memory
<1>7. \/ UNCHANGED <<free, heap, stash, leaked, misfree>>
      \/ /\ heap' = [heap EXCEPT ![buf[v]] = Freed]
         /\ misfree' = (misfree \/ heap[buf[v]][1] # "fallback")
         /\ UNCHANGED <<free, stash, leaked>>
      \/ /\ leaked' = leaked \cup {[obj |-> b, deleter |-> t]}
         /\ UNCHANGED <<free, heap, stash, misfree>>
  <2>1. DoDelete(t, b)
    BY DEF b
  <2> QED BY <1>1, <1>4, <1>5, <2>1 DEF DoDelete, Unstash, InStash, InPool
<1>8. misfree \in BOOLEAN /\ heap[buf[v]][1] = "fallback" /\ ~misfree
  BY <1>3 DEF TypeOK, Memory
<1>9. CASE UNCHANGED <<free, heap, stash, leaked, misfree>>
  BY <1>9 DEF Shrunk, NewLeaks
<1>10. CASE /\ heap' = [heap EXCEPT ![buf[v]] = Freed]
            /\ misfree' = (misfree \/ heap[buf[v]][1] # "fallback")
            /\ UNCHANGED <<free, stash, leaked>>
  <2>1. misfree' = misfree
    BY <1>8, <1>10
  <2>2. Shrunk({buf[v]})
    BY <1>1, <1>10 DEF Shrunk, TypeOK
  <2> QED BY <1>10, <2>1, <2>2 DEF NewLeaks
<1>11. CASE /\ leaked' = leaked \cup {[obj |-> b, deleter |-> t]}
            /\ UNCHANGED <<free, heap, stash, misfree>>
  BY <1>1, <1>11 DEF Shrunk, NewLeaks
<1> QED BY <1>7, <1>9, <1>10, <1>11

(* The objects and blocks there are, where they are: blocks of a chunk may   *)
(* have become the pool's.                                                  *)
LEMMA ObjectsMoved ==
  ASSUME TypeOK, Memory, UNCHANGED <<arena, used, free, held, stash, ready>>, NewLeaks,
         \A t \in Threads : /\ PoolOf(t) \subseteq PoolOf(t)' /\ Blocks(t)' = Blocks(t)
                            /\ tls'[t] = tls[t] \/ (tls[t] = "building" /\ tls'[t] = "live")
  PROVE  HeldOK' /\ HeldOnce' /\ Accounted'
<1>1. \A t \in Threads : ArenaOf(t)' = ArenaOf(t)
  BY DEF ArenaOf
<1>2. (\A o \in held : o.by \in Threads) /\ \A l \in leaked : l.obj.by \in Threads
  BY DEF TypeOK, Object
<1>3. HeldOK' /\ HeldOnce'
  <2>1. ASSUME NEW o \in held
        PROVE  /\ o.kind \in {"pool", "arena"} => tls'[o.by] = "live" /\ ready'
               /\ o.kind = "pool" => o.ptr \in PoolOf(o.by)' /\ o.ptr \notin free'[o.by]
               /\ o.kind = "arena" => o.ptr \in ArenaOf(o.by)'
               /\ o.kind = "aligned" => o.by = Main /\ o.ptr \in stash'
    BY <1>1, <1>2 DEF Memory, HeldOK
  <2> QED BY <2>1 DEF Memory, HeldOK, HeldOnce
<1>4. \A o : HasLeaked(o) => HasLeaked(o)'
  BY DEF HasLeaked, NewLeaks
<1>5. Accounted'
  <2>1. \A u \in Threads : free'[u] \subseteq Blocks(u)'
    BY DEF Memory, Accounted
  <2>2. ASSUME NEW u \in Threads, tls'[u] \in {"building", "live"}, NEW p \in Blocks(u)'
        PROVE  p \in free'[u] \/ At(p, u, "pool") \in held' \/ HasLeaked(At(p, u, "pool"))'
    BY <1>4, <2>2 DEF Memory, Accounted
  <2>3. ASSUME NEW l \in leaked', l.obj.kind = "pool"
        PROVE  /\ tls'[l.obj.by] \in {"live", "gone"}
               /\ tls'[l.obj.by] = "live" => l.obj.ptr \in PoolOf(l.obj.by)'
    BY <1>2, <2>3 DEF Memory, Accounted, NewLeaks
  <2>4. \A l \in leaked' : l.obj.kind # "malloc" => l.deleter # l.obj.by
    BY DEF Memory, Accounted, NewLeaks
  <2> QED BY <2>1, <2>2, <2>3, <2>4 DEF Accounted
<1> QED BY <1>3, <1>5

LEMMA RecordsShrunk ==
  ASSUME TypeOK, Memory, \A x \in Region : heap'[x] = heap[x] \/ heap'[x] = Freed,
         UNCHANGED program, stash' \subseteq stash, Stashing(Main)' => Stashing(Main) /\ fetched'[Main] = fetched[Main],
         \A x \in Region : KnownRec(x)' => KnownRec(x)
  PROVE  RecordsOK'
<1>1. Recycle' = Recycle
  BY DEF Recycle
<1> QED BY <1>1 DEF Memory, RecordsOK

(* The end of a push_back, with the old buffer gone or without a new one.    *)
LEMMA PushedMemory ==
  ASSUME TypeOK, Control, Memory, NEW t \in Threads, pc[t] \in {"push", "drop"}, Pushed(t),
         frame' = [frame EXCEPT ![t] = NoFrame],
         UNCHANGED <<program, ready, slab, arena, used, free, recs, held, stash, misfree>>,
         NewLeaks, NEW S, Shrunk(S), S \subseteq {buf[frame[t].vec]} \ {NULL},
         \/ buf' = buf /\ S = {}
         \/ frame[t].new # NULL /\ buf' = [buf EXCEPT ![frame[t].vec] = frame[t].new]
  PROVE  Memory'
<1>0. PICK v : v = frame[t].vec
  OBVIOUS
<1>1. PICK n : n = frame[t].new
  OBVIOUS
<1>2. PICK use : Uses(use)
  BY DEF Memory
<1>3. v \in Pushable(t) /\ v \in Vector
  BY <1>0, VectorFacts DEF Control, FrameOK, Growing, Pushable
<1>4. \A x \in S : x \in Region /\ use[x] = BufUse(v) /\ \E u \in Threads : heap[x] = <<"fallback", u>>
  <2>1. \A x \in S : x = buf[v] /\ buf[v] # NULL
    BY <1>0
  <2>2. buf[v] # NULL => buf[v] \in Region
    BY <1>3, UsedRegions
  <2>3. buf[v] # NULL => use[buf[v]] = BufUse(v) /\ \E u \in Threads : heap[buf[v]] = <<"fallback", u>>
    BY <1>2, <1>3, UsesBuf
  <2> QED BY <2>1, <2>2, <2>3
<1>5. /\ \A x \in Region : \A u : /\ heap[x] = <<"slab", u>> => heap'[x] = <<"slab", u>>
                                  /\ heap[x] = <<"arena", u>> => heap'[x] = <<"arena", u>>
                                  /\ heap[x] = <<"chunk", u>> => heap'[x] = <<"chunk", u>>
                                  /\ heap[x] = <<"fallback", u>> /\ x \notin S => heap'[x] = <<"fallback", u>>
      /\ \A x \in Region : heap'[x] = heap[x] \/ heap'[x] = Freed
  BY <1>4, ShrunkKeeps
<1>6. frame'[t] = NoFrame /\ \A u \in Threads \ {t} : frame'[u] = frame[u]
  BY DEF TypeOK
<1>7. NoFrame.vec = NULL /\ NoFrame.new = NULL /\ NoFrame.next = {}
  BY NoFrameFacts
(* What the push_back was for. *)
<1>8. /\ \A u \in Threads \ {t} : pc'[u] = pc[u] /\ tls'[u] = tls[u] /\ fetched'[u] = fetched[u] /\ ext'[u] = ext[u]
      /\ \/ v = Shared("live") /\ tls'[t] = "live" /\ pc'[t] = "idle" /\ UNCHANGED <<chunks, ext, fetched>>
         \/ v = Shared("retired") /\ tls' = tls /\ pc'[t] = "destroy" /\ UNCHANGED <<chunks, ext, fetched>>
         \/ v = Shared("chunks") /\ tls' = tls /\ pc'[t] = "link" /\ chunks' = chunks \cup {fetched[t]}
              /\ UNCHANGED <<ext, fetched>>
         \/ v = Ext(t) /\ tls' = tls /\ pc'[t] = "retry" /\ chunks' = chunks
              /\ ext'[t] = ext[t] \cup {fetched[t]} /\ fetched'[t] = NULL
         \/ v = Shared("stash") /\ tls' = tls /\ pc'[t] = "stashed" /\ UNCHANGED <<chunks, ext, fetched>>
  BY <1>0 DEF Pushed, Registered, Retired, Acquired, Linked, Stashed, TypeOK
<1>9. /\ v = Shared("live") => tls[t] = "building"
      /\ v = Shared("stash") => Stashing(t)
      /\ v # Shared("stash") => ~Stashing(t)
      /\ v \in {Shared("chunks"), Ext(t)} => fetched[t] \in Region /\ fetched[t] # NULL
      /\ v = Ext(t) => slab[t] # NULL
  BY <1>0, VectorFacts DEF Control, PhaseOK, MembersOK, Registering, Refilling, Stashing, TypeOK
<1>10. /\ Stashing(t)' <=> Stashing(t)
       /\ \A u \in Threads \ {t} : Stashing(u)' <=> Stashing(u)
       /\ frame'[t].vec = NULL /\ NULL # Ext(t)
  <2>1. frame'[t].vec = NULL /\ NULL # Ext(t) /\ NULL # Shared("stash")
    BY <1>6, <1>7, VectorFacts
  <2>2. Stashing(t)' <=> pc'[t] = "stashed"
    BY <2>1 DEF Stashing
  <2>3. pc'[t] = "stashed" <=> v = Shared("stash")
    BY <1>8, VectorFacts
  <2> QED BY <1>6, <1>8, <1>9, <2>1, <2>2, <2>3 DEF Stashing
<1>11. Tagged'
  <2>1. /\ \A u \in Threads : slab[u] # NULL => slab[u] \in Region /\ arena[u] \in Region
        /\ \A u \in Threads : fetched[u] # NULL => fetched[u] \in Region
        /\ chunks \subseteq Region /\ \A u \in Threads : ext[u] \subseteq Region
    BY DEF TypeOK, Control, MembersOK
  <2>2. ASSUME NEW u \in Threads, slab'[u] # NULL
        PROVE  heap'[slab'[u]] = <<"slab", u>> /\ heap'[arena'[u]] = <<"arena", u>>
    <3>1. slab[u] \in Region /\ arena[u] \in Region /\ heap[slab[u]] = <<"slab", u>> /\ heap[arena[u]] = <<"arena", u>>
      BY <2>1, <2>2 DEF Memory, Tagged
    <3> QED BY <1>5, <3>1
  <2>3. v \in {Shared("chunks"), Ext(t)} => heap[fetched[t]] = <<"chunk", t>> /\ fetched[t] \notin ext[t]
    BY <1>9, VectorFacts DEF Memory, Tagged
  <2>4. v = Ext(t) => fetched[t] \in chunks
    BY <1>0 DEF Memory, Tagged
  <2>5. ASSUME NEW x \in chunks' PROVE \E u \in Threads : heap'[x] = <<"chunk", u>>
    <3>1. CASE x \in chunks
      BY <1>5, <2>1, <3>1 DEF Memory, Tagged
    <3>2. CASE x \notin chunks
      <4>1. x = fetched[t] /\ v = Shared("chunks")
        BY <1>8, <2>5, <3>2
      <4> QED BY <1>5, <1>9, <2>3, <4>1
    <3> QED BY <3>1, <3>2
  <2>6. ASSUME NEW u \in Threads, NEW x \in ext'[u] PROVE heap'[x] = <<"chunk", u>> /\ x \in chunks'
    <3>1. CASE x \in ext[u]
      <4>1. heap[x] = <<"chunk", u>> /\ x \in chunks /\ x \in Region
        BY <2>1, <3>1 DEF Memory, Tagged
      <4> QED BY <1>5, <1>8, <4>1
    <3>2. CASE x \notin ext[u]
      <4>1. u = t /\ v = Ext(t) /\ x = fetched[t] /\ chunks' = chunks
        BY <1>8, <2>6, <3>2
      <4> QED BY <1>5, <1>9, <2>3, <2>4, <4>1
    <3> QED BY <3>1, <3>2
  <2>7. ASSUME NEW u \in Threads, fetched'[u] # NULL, ~Stashing(u)'
        PROVE  heap'[fetched'[u]] = <<"chunk", u>> /\ fetched'[u] \notin ext'[u]
    <3>1. fetched'[u] = fetched[u] /\ ext'[u] = ext[u]
      BY <1>8, <2>7
    <3>2. ~Stashing(u)
      BY <1>10, <2>7
    <3>3. fetched[u] \in Region /\ heap[fetched[u]] = <<"chunk", u>> /\ fetched[u] \notin ext[u]
      BY <2>1, <2>7, <3>1, <3>2 DEF Memory, Tagged
    <3> QED BY <1>5, <3>1, <3>3
  <2>8. ASSUME NEW u \in Threads, pc'[u] = "link" \/ frame'[u].vec = Ext(u) PROVE fetched'[u] \in chunks'
    <3>1. CASE u = t
      <4>1. pc'[t] = "link"
        BY <1>10, <2>8, <3>1
      <4> QED BY <1>8, <3>1, <4>1
    <3>2. CASE u # t
      <4>1. fetched[u] \in chunks
        BY <1>6, <1>8, <2>8, <3>2 DEF Memory, Tagged
      <4> QED BY <1>8, <3>2, <4>1
    <3> QED BY <3>1, <3>2
  <2> QED BY <2>2, <2>5, <2>6, <2>7, <2>8 DEF Tagged
<1>12. HeldOK' /\ HeldOnce' /\ Accounted'
  <2>1. \A u \in Threads \ {t} : PoolOf(u)' = PoolOf(u) /\ Pending(u)' = Pending(u)
    <3>1. \A u \in Threads \ {t} : PoolOf(u)' = PoolOf(u)
      BY <1>6, <1>8 DEF PoolOf
    <3>2. \A u \in Threads \ {t} : Pending(u)' = Pending(u)
      BY <1>6, <1>8 DEF Pending
    <3> QED BY <3>1, <3>2
  <2>2. Pending(t)' = {}
    BY <1>10 DEF Pending
  <2>3. PoolOf(t)' = PoolOf(t) \cup Pending(t)
    <3>1. CASE v = Ext(t)
      <4>1. Pending(t) = BodyOf(fetched[t]) /\ ext'[t] = ext[t] \cup {fetched[t]}
        BY <1>0, <1>8, <3>1, VectorFacts DEF Pending
      <4> QED BY <4>1 DEF PoolOf
    <3>2. CASE v # Ext(t)
      BY <1>0, <1>8, <3>2 DEF Pending, PoolOf
    <3> QED BY <3>1, <3>2
  <2>4. \A u \in Threads : PoolOf(u) \subseteq PoolOf(u)' /\ Blocks(u)' = Blocks(u)
    BY <2>1, <2>2, <2>3 DEF Blocks
  <2>5. \A u \in Threads : tls'[u] = tls[u] \/ (tls[u] = "building" /\ tls'[u] = "live")
    BY <1>8, <1>9
  <2> QED BY <2>4, <2>5, ObjectsMoved
<1>13. Stashing(Main)' <=> Stashing(Main)
  BY <1>10, NewDeleteAssumption
<1>14. Stashing(Main) => fetched'[Main] = fetched[Main]
  BY <1>8, <1>9, VectorFacts, NewDeleteAssumption
<1>15. (\E use1 : Uses(use1))'
  <2> DEFINE use2 == [x \in Region |-> IF n # NULL /\ x = n THEN BufUse(v) ELSE use[x]]
  <2>1. n # NULL => n \in Region /\ heap[n] = <<"fallback", t>> /\ use[n] = NewUse(t)
    BY <1>1, <1>2, UsedRegions, UsesNew
  <2>2. (n # NULL => use2[n] = BufUse(v)) /\ \A x \in Region \ {n} : use2[x] = use[x]
    BY <2>1
  <2> HIDE DEF use2
  <2>3. \A x \in Region : \A u : use[x] # BufUse(v) /\ heap[x] = <<"fallback", u>> => heap'[x] = <<"fallback", u>>
    BY <1>4, <1>5
  <2>4. \A x \in Region : use[x] # NewUse(t) => use2[x] = use[x]
    <3>1. NULL \notin Region
      BY NewDeleteAssumption DEF Region
    <3> QED BY <2>1, <2>2, <3>1
  <2>5. n # NULL => heap'[n] = <<"fallback", t>>
    BY <2>1, <2>3, UsesDiffer
  <2>6. ASSUME NEW w \in Vector, buf'[w] # NULL
        PROVE  (\E u \in Threads : heap'[buf'[w]] = <<"fallback", u>>) /\ use2[buf'[w]] = BufUse(w)
    <3>1. CASE w = v /\ buf' # buf
      <4>1. buf'[w] = n /\ n # NULL
        BY <1>0, <1>1, <1>3, <3>1 DEF TypeOK
      <4> QED BY <2>2, <2>5, <3>1, <4>1
    <3>2. CASE w # v \/ buf' = buf
      <4>1. buf'[w] = buf[w] /\ buf[w] \in Region
        BY <1>0, <1>3, <2>6, <3>2 DEF TypeOK
      <4>2. PICK u \in Threads : heap[buf[w]] = <<"fallback", u>> /\ use[buf[w]] = BufUse(w)
        BY <1>2, <2>6, <4>1 DEF Uses
      <4>3. buf[w] \notin S
        <5>1. CASE w # v
          BY <1>4, <4>2, <5>1, UsesDiffer
        <5>2. CASE w = v
          <6>1. S = {}
            BY <1>0, <1>1, <1>2, <1>3, <2>1, <3>2, <4>1, <4>2, <5>2, UsesDiffer DEF TypeOK
          <6> QED BY <6>1
        <5> QED BY <5>1, <5>2
      <4> QED BY <1>5, <2>4, <4>1, <4>2, <4>3, UsesDiffer
    <3> QED BY <3>1, <3>2
  <2>7. ASSUME NEW u \in Threads, frame'[u].new # NULL
        PROVE  heap'[frame'[u].new] = <<"fallback", u>> /\ use2[frame'[u].new] = NewUse(u)
    <3>1. u # t /\ frame'[u].new = frame[u].new /\ frame[u].new \in Region
      BY <1>6, <1>7, <2>7, UsedRegions
    <3>2. heap[frame[u].new] = <<"fallback", u>> /\ use[frame[u].new] = NewUse(u)
      BY <1>2, <2>7, <3>1 DEF Uses
    <3> QED BY <2>3, <2>4, <3>1, <3>2, UsesDiffer
  <2>8. ASSUME Stashing(Main)'
        PROVE  heap'[fetched'[Main]] = <<"fallback", Main>> /\ use2[fetched'[Main]] = RawUse
    <3>1. /\ fetched'[Main] = fetched[Main] /\ fetched[Main] \in Region
          /\ heap[fetched[Main]] = <<"fallback", Main>> /\ use[fetched[Main]] = RawUse
      BY <1>2, <1>13, <1>14, <2>8, UsedRegions, UsesRaw
    <3> QED BY <2>3, <2>4, <3>1, UsesDiffer
  <2>9. ASSUME NEW p \in stash' PROVE heap'[p[1]] = <<"fallback", Main>> /\ use2[p[1]] = StashUse(p)
    <3>1. p[1] \in Region /\ heap[p[1]] = <<"fallback", Main>> /\ use[p[1]] = StashUse(p)
      BY <1>2, <2>9, UsedRegions, UsesStash
    <3> QED BY <2>3, <2>4, <3>1, UsesDiffer
  <2>10. ASSUME NEW o \in held', o.kind = "malloc"
        PROVE  o.ptr[2] = 0 /\ heap'[o.ptr[1]] = <<"fallback", o.by>> /\ use2[o.ptr[1]] = ObjUse
    <3>1. o.ptr[2] = 0 /\ o.ptr[1] \in Region /\ heap[o.ptr[1]] = <<"fallback", o.by>> /\ use[o.ptr[1]] = ObjUse
      BY <1>2, <2>10, UsedRegions, UsesObj
    <3> QED BY <2>3, <2>4, <3>1, UsesDiffer
  <2>11. Uses(use2)'
    BY <2>6, <2>7, <2>8, <2>9, <2>10 DEF Uses
  <2> QED BY <2>11
<1>16. RecordsOK'
  <2>1. \A x : KnownRec(x)' => KnownRec(x)
    BY <1>6, <1>7 DEF KnownRec
  <2> QED BY <1>5, <1>13, <1>14, <2>1, RecordsShrunk
<1> QED BY <1>11, <1>12, <1>15, <1>16 DEF Memory

LEMMA PushInPlaceMemory ==
  ASSUME TypeOK, Control, Memory, NEW t \in Threads, PushInPlace(t)
  PROVE  Memory'
<1>1. /\ pc[t] = "push" /\ Pushed(t) /\ frame' = [frame EXCEPT ![t] = NoFrame]
      /\ UNCHANGED <<program, ready, slab, arena, used, free, recs, held, stash, misfree, buf, heap, leaked>>
  BY DEF PushInPlace, clientVars
<1>2. NewLeaks /\ Shrunk({})
  BY <1>1 DEF NewLeaks, Shrunk
<1> QED BY <1>1, <1>2, PushedMemory

LEMMA GrowDropMemory ==
  ASSUME TypeOK, Control, Memory, NEW t \in Threads, GrowDrop(t)
  PROVE  Memory'
<1>1. /\ pc[t] = "drop" /\ Pushed(t) /\ frame' = [frame EXCEPT ![t] = NoFrame]
      /\ UNCHANGED <<program, ready, slab, arena, used, recs, held>>
      /\ buf' = [buf EXCEPT ![frame[t].vec] = frame[t].new]
  BY DEF GrowDrop
<1>2. frame[t].new # NULL /\ frame[t].vec \in Vector /\ frame[t].old = buf[frame[t].vec]
  BY <1>1, VectorFacts DEF Control, FrameOK, Growing, Pushable
<1>3. CASE frame[t].old = NULL
  <2>1. UNCHANGED <<free, heap, stash, leaked, misfree>>
    BY <1>3 DEF GrowDrop
  <2>2. NewLeaks /\ Shrunk({})
    BY <2>1 DEF NewLeaks, Shrunk
  <2> QED BY <1>1, <1>2, <2>1, <2>2, PushedMemory
<1>4. CASE frame[t].old # NULL
  <2>1. DoDelete(t, Buffer(buf[frame[t].vec], t))
    BY <1>2, <1>4 DEF GrowDrop
  <2>2. UNCHANGED <<free, stash, misfree>> /\ Shrunk({buf[frame[t].vec]}) /\ NewLeaks
    BY <1>2, <1>4, <2>1, BufferDelete
  <2> QED BY <1>1, <1>2, <1>4, <2>2, PushedMemory
<1> QED BY <1>3, <1>4

(* The allocators and the fallback allocations, when what is given back is    *)
(* no longer any of them.                                                   *)
LEMMA TaggedShrunk ==
  ASSUME TypeOK, Control, Tagged, NEW S, Shrunk(S), \A x \in S : \E u \in Threads : heap[x] = <<"fallback", u>>,
         UNCHANGED <<slab, arena, ext, fetched, chunks, frame>>,
         \A u \in Threads : (Stashing(u)' <=> Stashing(u)) /\ (pc'[u] = "link" => pc[u] = "link")
  PROVE  Tagged'
<1>1. \A x \in Region : \A u : /\ heap[x] = <<"slab", u>> => heap'[x] = <<"slab", u>>
                               /\ heap[x] = <<"arena", u>> => heap'[x] = <<"arena", u>>
                               /\ heap[x] = <<"chunk", u>> => heap'[x] = <<"chunk", u>>
  BY ShrunkKeeps
<1>2. /\ \A u \in Threads : slab[u] # NULL => slab[u] \in Region /\ arena[u] \in Region
      /\ \A u \in Threads : fetched[u] # NULL => fetched[u] \in Region
      /\ chunks \subseteq Region /\ \A u \in Threads : ext[u] \subseteq Region
  BY DEF TypeOK, Control, MembersOK
<1>3. ASSUME NEW u \in Threads, slab'[u] # NULL
      PROVE  heap'[slab'[u]] = <<"slab", u>> /\ heap'[arena'[u]] = <<"arena", u>>
  <2>1. slab[u] \in Region /\ arena[u] \in Region /\ heap[slab[u]] = <<"slab", u>> /\ heap[arena[u]] = <<"arena", u>>
    BY <1>2, <1>3 DEF Tagged
  <2> QED BY <1>1, <2>1
<1>4. ASSUME NEW x \in chunks' PROVE \E u \in Threads : heap'[x] = <<"chunk", u>>
  BY <1>1, <1>2, <1>4 DEF Tagged
<1>5. ASSUME NEW u \in Threads, NEW x \in ext'[u] PROVE heap'[x] = <<"chunk", u>> /\ x \in chunks'
  BY <1>1, <1>2, <1>5 DEF Tagged
<1>6. ASSUME NEW u \in Threads, fetched'[u] # NULL, ~Stashing(u)'
      PROVE  heap'[fetched'[u]] = <<"chunk", u>> /\ fetched'[u] \notin ext'[u]
  <2>1. fetched[u] \in Region /\ heap[fetched[u]] = <<"chunk", u>> /\ fetched[u] \notin ext[u]
    BY <1>2, <1>6 DEF Tagged
  <2> QED BY <1>1, <2>1
<1>7. ASSUME NEW u \in Threads, pc'[u] = "link" \/ frame'[u].vec = Ext(u) PROVE fetched'[u] \in chunks'
  BY <1>7 DEF Tagged
<1> QED BY <1>3, <1>4, <1>5, <1>6, <1>7 DEF Tagged

LEMMA UsesShrunk ==
  ASSUME TypeOK, Control, NEW use, Uses(use), NEW S, Shrunk(S),
         \A x \in S : \E u \in Threads : heap[x] = <<"fallback", u>>,
         UNCHANGED <<fetched, frame>>, Stashing(Main)' <=> Stashing(Main),
         \A v \in Vector : buf'[v] # NULL => buf'[v] = buf[v] /\ buf[v] \notin S,
         \A u \in Threads : frame[u].new \notin S, Stashing(Main) => fetched[Main] \notin S,
         stash' \subseteq stash, \A p \in stash' : p[1] \notin S,
         held' \subseteq held, \A o \in held' : o.kind = "malloc" => o.ptr[1] \notin S
  PROVE  Uses(use)'
<1>1. \A x \in Region : \A u : heap[x] = <<"fallback", u>> /\ x \notin S => heap'[x] = <<"fallback", u>>
  BY ShrunkKeeps
<1>2. ASSUME NEW w \in Vector, buf'[w] # NULL
      PROVE  (\E u \in Threads : heap'[buf'[w]] = <<"fallback", u>>) /\ use[buf'[w]] = BufUse(w)
  <2>1. buf'[w] = buf[w] /\ buf[w] \in Region /\ buf[w] \notin S
    BY <1>2, UsedRegions
  <2>2. PICK u \in Threads : heap[buf[w]] = <<"fallback", u>> /\ use[buf[w]] = BufUse(w)
    BY <1>2, <2>1 DEF Uses
  <2> QED BY <1>1, <2>1, <2>2
<1>3. ASSUME NEW u \in Threads, frame'[u].new # NULL
      PROVE  heap'[frame'[u].new] = <<"fallback", u>> /\ use[frame'[u].new] = NewUse(u)
  <2>1. frame[u].new \in Region /\ heap[frame[u].new] = <<"fallback", u>> /\ use[frame[u].new] = NewUse(u)
    BY <1>3, UsedRegions, UsesNew
  <2> QED BY <1>1, <2>1
<1>4. ASSUME Stashing(Main)'
      PROVE  heap'[fetched'[Main]] = <<"fallback", Main>> /\ use[fetched'[Main]] = RawUse
  <2>1. fetched[Main] \in Region /\ heap[fetched[Main]] = <<"fallback", Main>> /\ use[fetched[Main]] = RawUse
    BY <1>4, UsedRegions, UsesRaw
  <2> QED BY <1>1, <1>4, <2>1
<1>5. ASSUME NEW p \in stash' PROVE heap'[p[1]] = <<"fallback", Main>> /\ use[p[1]] = StashUse(p)
  <2>1. p[1] \in Region /\ heap[p[1]] = <<"fallback", Main>> /\ use[p[1]] = StashUse(p)
    BY <1>5, UsedRegions, UsesStash
  <2> QED BY <1>1, <1>5, <2>1
<1>6. ASSUME NEW o \in held', o.kind = "malloc"
      PROVE  o.ptr[2] = 0 /\ heap'[o.ptr[1]] = <<"fallback", o.by>> /\ use[o.ptr[1]] = ObjUse
  <2>1. o.ptr[2] = 0 /\ o.ptr[1] \in Region /\ heap[o.ptr[1]] = <<"fallback", o.by>> /\ use[o.ptr[1]] = ObjUse
    BY <1>6, UsedRegions, UsesObj
  <2> QED BY <1>1, <1>6, <2>1
<1> QED BY <1>2, <1>3, <1>4, <1>5, <1>6 DEF Uses

(* A vector that is destroyed.                                               *)
LEMMA BufferGone ==
  ASSUME TypeOK, Control, Memory, NEW t \in Threads, NEW v \in Vector, buf[v] # NULL,
         DoDelete(t, Buffer(buf[v], t)), buf' = [buf EXCEPT ![v] = NULL],
         UNCHANGED <<tls, frame, recs, slab, arena, used, ext, fetched, program, ready, chunks, held>>,
         \A u \in Threads : (Stashing(u)' <=> Stashing(u)) /\ (pc'[u] = "link" => pc[u] = "link")
  PROVE  Memory'
<1>1. PICK use : Uses(use)
  BY DEF Memory
<1>2. PICK S : S = {buf[v]}
  OBVIOUS
<1>3. UNCHANGED <<free, stash, misfree>> /\ Shrunk(S) /\ NewLeaks
  BY <1>2, BufferDelete
<1>4. \A x \in S : x \in Region /\ use[x] = BufUse(v) /\ \E u \in Threads : heap[x] = <<"fallback", u>>
  BY <1>1, <1>2, UsedRegions, UsesBuf
<1>5. Tagged'
  BY <1>3, <1>4, TaggedShrunk DEF Memory
<1>6. HeldOK' /\ HeldOnce' /\ Accounted'
  <2>1. \A u \in Threads : PoolOf(u)' = PoolOf(u) /\ Blocks(u)' = Blocks(u)
    BY DEF PoolOf, Blocks, Pending, BodyOf
  <2> QED BY <1>3, <2>1, ObjectsMoved
<1>7. Uses(use)'
  <2>1. ASSUME NEW w \in Vector, buf'[w] # NULL PROVE buf'[w] = buf[w] /\ buf[w] \notin S
    <3>1. w # v /\ buf'[w] = buf[w]
      BY <2>1 DEF TypeOK
    <3>2. use[buf[w]] = BufUse(w)
      BY <1>1, <2>1, <3>1 DEF Uses
    <3> QED BY <1>4, <3>1, <3>2, UsesDiffer
  <2>2. ASSUME NEW u \in Threads PROVE frame[u].new \notin S
    <3>1. frame[u].new = NULL => frame[u].new \notin S
      BY <1>2
    <3>2. frame[u].new # NULL => use[frame[u].new] = NewUse(u)
      BY <1>1 DEF Uses
    <3> QED BY <1>4, <3>1, <3>2, UsesDiffer
  <2>3. Stashing(Main) => fetched[Main] \notin S
    <3>1. Stashing(Main) => use[fetched[Main]] = RawUse
      BY <1>1 DEF Uses
    <3> QED BY <1>4, <3>1, UsesDiffer
  <2>4. ASSUME NEW p \in stash PROVE p[1] \notin S
    <3>1. use[p[1]] = StashUse(p)
      BY <1>1 DEF Uses
    <3> QED BY <1>4, <3>1, UsesDiffer
  <2>5. ASSUME NEW o \in held, o.kind = "malloc" PROVE o.ptr[1] \notin S
    <3>1. use[o.ptr[1]] = ObjUse
      BY <1>1, <2>5 DEF Uses
    <3> QED BY <1>4, <3>1, UsesDiffer
  <2>6. Stashing(Main)' <=> Stashing(Main)
    BY NewDeleteAssumption
  <2> QED BY <1>1, <1>3, <1>4, <2>1, <2>2, <2>3, <2>4, <2>5, <2>6, UsesShrunk
<1>8. RecordsOK'
  <2>1. \A x : KnownRec(x)' => KnownRec(x)
    BY DEF KnownRec
  <2>2. \A x \in Region : heap'[x] = heap[x] \/ heap'[x] = Freed
    BY <1>3 DEF Shrunk
  <2> QED BY <1>3, <2>1, <2>2, RecordsShrunk, NewDeleteAssumption
<1> QED BY <1>3, <1>5, <1>6, <1>7, <1>8 DEF Memory

LEMMA DropExtMemory ==
  ASSUME TypeOK, Control, Memory, NEW t \in Threads, DropExt(t)
  PROVE  Memory'
<1>1. /\ pc[t] = "dropext" /\ pc' = [pc EXCEPT ![t] = "idle"]
      /\ DoDelete(t, Buffer(buf[Ext(t)], t))
      /\ buf' = [buf EXCEPT ![Ext(t)] = NULL]
      /\ UNCHANGED <<tls, frame, recs, slab, arena, used, ext, fetched, program, ready, chunks, held>>
  BY DEF DropExt
<1>2. Ext(t) \in Vector /\ buf[Ext(t)] # NULL
  BY <1>1, VectorFacts DEF Control, MembersOK
<1>3. \A u \in Threads : (Stashing(u)' <=> Stashing(u)) /\ (pc'[u] = "link" => pc[u] = "link")
  BY <1>1 DEF Stashing, TypeOK
<1> QED BY <1>1, <1>2, <1>3, BufferGone

LEMMA DropSharedMemory ==
  ASSUME TypeOK, Control, Memory, NEW a \in {"stash", "live", "retired", "chunks"}, DropShared(Shared(a))
  PROVE  Memory'
<1> DEFINE v == Shared(a)
<1>1. /\ buf[v] # NULL
      /\ DoDelete(Main, Buffer(buf[v], Main))
      /\ buf' = [buf EXCEPT ![v] = NULL]
      /\ UNCHANGED <<tls, pc, frame, recs, slab, arena, used, ext, fetched, program, ready, chunks, held>>
  BY DEF DropShared
<1>2. v \in Vector /\ Main \in Threads
  BY VectorFacts, NewDeleteAssumption
<1>3. \A u \in Threads : (Stashing(u)' <=> Stashing(u)) /\ (pc'[u] = "link" => pc[u] = "link")
  BY <1>1 DEF Stashing
<1> HIDE DEF v
<1> QED BY <1>1, <1>2, <1>3, BufferGone

(* The origin that do_delete finds is the one the object has.                *)
LEMMA DeleteOrigins ==
  ASSUME TypeOK, Control, Memory, SafeProgram, NEW t \in Threads, NEW o \in held,
         o.by = t \/ o.kind = "malloc" \/ CrossDelete
  PROVE  /\ o.ptr \in stash => o.kind = "aligned"
         /\ InPool(t, o.ptr) => o.kind = "pool" /\ o.by = t
         /\ InArena(t, o.ptr) => o.kind = "arena" /\ o.by = t
         /\ Unowned(t, o.ptr) /\ Recorded(o.ptr) => o.kind = "malloc"
         /\ Unowned(t, o.ptr) /\ o.kind # "malloc" => o.by # t
<1>1. /\ o.kind = "pool" => heap[o.ptr[1]] = <<"slab", o.by>> \/ heap[o.ptr[1]] = <<"chunk", o.by>>
      /\ o.kind = "arena" => heap[o.ptr[1]] = <<"arena", o.by>>
      /\ o.kind \in {"malloc", "aligned"} => heap[o.ptr[1]] = <<"fallback", o.by>>
      /\ o.kind \in {"pool", "arena", "malloc", "aligned"} /\ o.by \in Threads /\ o.ptr[1] \in Region
  BY HeldTags DEF Kinds
<1>2. PICK use : Uses(use)
  BY DEF Memory
<1>3. ASSUME o.ptr \in stash PROVE o.kind = "aligned"
  <2>1. heap[o.ptr[1]] = <<"fallback", Main>> /\ use[o.ptr[1]] = StashUse(o.ptr)
    BY <1>2, <1>3 DEF Uses
  <2>2. o.kind # "malloc"
    BY <1>2, <2>1, UsesDiffer DEF Uses
  <2> QED BY <1>1, <2>1, <2>2, TagsDiffer
<1>4. ASSUME InPool(t, o.ptr) PROVE o.kind = "pool" /\ o.by = t
  <2>1. heap[o.ptr[1]] = <<"slab", t>> \/ heap[o.ptr[1]] = <<"chunk", t>>
    BY <1>4, BlockTags DEF InPool, Memory
  <2> QED BY <1>1, <2>1, TagsDiffer
<1>5. ASSUME InArena(t, o.ptr) PROVE o.kind = "arena" /\ o.by = t
  <2>1. o.ptr \in ArenaOf(t) /\ o.ptr[1] = arena[t]
    BY <1>5, BlockRegion DEF InArena
  <2>2. slab[t] # NULL
    <3> SUFFICES ASSUME slab[t] = NULL PROVE FALSE
      OBVIOUS
    <3>1. used[t] = 0
      BY DEF Control, MembersOK
    <3>2. 0 .. used[t] - 1 = {}
      BY <3>1
    <3> QED BY <2>1, <3>2 DEF ArenaOf
  <2>3. heap[o.ptr[1]] = <<"arena", t>>
    BY <2>1, <2>2 DEF Memory, Tagged
  <2> QED BY <1>1, <2>3, TagsDiffer
<1>6. ASSUME Unowned(t, o.ptr), o.kind # "malloc" PROVE o.by # t
  <2> SUFFICES ASSUME o.by = t PROVE FALSE
    OBVIOUS
  <2>1. o.kind \in {"pool", "arena"} => Classifies(t)
    BY DEF Memory, HeldOK, Classifies
  <2>2. CASE o.kind = "pool"
    BY <1>6, <2>1, <2>2 DEF Memory, HeldOK, Unowned, InPool
  <2>3. CASE o.kind = "arena"
    BY <1>6, <2>1, <2>3 DEF Memory, HeldOK, Unowned, InArena
  <2>4. CASE o.kind = "aligned"
    BY <1>6, <2>4 DEF Memory, HeldOK, Unowned, InStash
  <2> QED BY <1>1, <1>6, <2>2, <2>3, <2>4
<1>7. ASSUME Unowned(t, o.ptr), Recorded(o.ptr), o.kind # "malloc" PROVE FALSE
  <2>1. ~Recycle
    BY <1>6, <1>7 DEF SafeProgram
  <2>2. /\ heap[o.ptr[1]] = Freed \/ \E u \in Threads : heap[o.ptr[1]] = <<"fallback", u>>
        /\ \A p \in stash : p[1] # o.ptr[1]
    BY <1>1, <1>7, <2>1 DEF Memory, RecordsOK, KnownRec, Recorded
  <2>3. o.kind = "aligned"
    BY <1>1, <1>7, <2>2, TagsDiffer
  <2>4. o.ptr \in stash
    BY <2>3 DEF Memory, HeldOK
  <2> QED BY <2>2, <2>4
<1> QED BY <1>3, <1>4, <1>5, <1>6, <1>7

(* The memory of an object that is given back is used for nothing else.      *)
LEMMA FreedUses ==
  ASSUME TypeOK, Control, Memory, NEW use, Uses(use), NEW o \in held, o.kind \in {"malloc", "aligned"},
         NEW S, S = {o.ptr[1]}
  PROVE  /\ \A v \in Vector : buf[v] # NULL => buf[v] \notin S
         /\ \A u \in Threads : frame[u].new \notin S
         /\ Stashing(Main) => fetched[Main] \notin S
         /\ \A p \in stash \ {o.ptr} : p[1] \notin S
         /\ o.kind = "malloc" => o.ptr \notin stash
         /\ \A n \in held \ {o} : n.kind = "malloc" => n.ptr[1] \notin S
<1>1. o.ptr[1] \in Region /\ heap[o.ptr[1]] = <<"fallback", o.by>> /\ o.ptr \in Pointer
  BY HeldTags
<1>2. /\ o.kind = "malloc" => use[o.ptr[1]] = ObjUse /\ o.ptr[2] = 0
      /\ o.kind = "aligned" => use[o.ptr[1]] = StashUse(o.ptr)
  BY DEF Uses, Memory, HeldOK
<1>3. use[o.ptr[1]] = ObjUse \/ use[o.ptr[1]] = StashUse(o.ptr)
  BY <1>2
<1>4. ASSUME NEW v \in Vector, buf[v] # NULL PROVE buf[v] \notin S
  <2>1. use[buf[v]] = BufUse(v)
    BY <1>4 DEF Uses
  <2> QED BY <1>3, <2>1, UsesDiffer
<1>5. ASSUME NEW u \in Threads PROVE frame[u].new \notin S
  <2>1. frame[u].new = NULL => frame[u].new \notin S
    BY <1>1, NewDeleteAssumption DEF Region
  <2>2. frame[u].new # NULL => use[frame[u].new] = NewUse(u)
    BY DEF Uses
  <2> QED BY <1>3, <2>1, <2>2, UsesDiffer
<1>6. Stashing(Main) => fetched[Main] \notin S
  <2>1. Stashing(Main) => use[fetched[Main]] = RawUse
    BY DEF Uses
  <2> QED BY <1>3, <2>1, UsesDiffer
<1>7. ASSUME NEW p \in stash, p[1] \in S PROVE p = o.ptr /\ o.kind = "aligned"
  <2>1. use[o.ptr[1]] = StashUse(p)
    BY <1>7 DEF Uses
  <2>2. o.kind # "malloc"
    BY <1>2, <2>1, UsesDiffer
  <2> QED BY <1>2, <2>1, <2>2, UsesDiffer
<1>8. ASSUME NEW n \in held, n.kind = "malloc", n.ptr[1] \in S PROVE n = o
  <2>1. n.ptr[2] = 0 /\ use[o.ptr[1]] = ObjUse
    BY <1>8 DEF Uses
  <2>2. o.kind = "malloc"
    BY <1>2, <2>1, UsesDiffer
  <2>3. n.ptr \in Pointer /\ n.ptr[1] = o.ptr[1] /\ n.ptr[2] = o.ptr[2]
    BY <1>2, <1>8, <2>1, <2>2, HeldTags
  <2>4. n.ptr = o.ptr
    BY <1>1, <2>3 DEF Pointer
  <2> QED BY <2>4 DEF Memory, HeldOnce
<1>9. o.kind = "malloc" => o.ptr \notin stash
  BY <1>2, UsesDiffer DEF Uses
<1> QED BY <1>4, <1>5, <1>6, <1>7, <1>8, <1>9

LEMMA DeleteMemory ==
  ASSUME TypeOK, Control, Memory, SafeProgram, NEW t \in Threads, NEW o \in held, Delete(t, o)
  PROVE  Memory'
<1>1. /\ o.by = t \/ o.kind = "malloc" \/ CrossDelete
      /\ held' = held \ {o} /\ DoDelete(t, o)
      /\ UNCHANGED <<tls, pc, frame, recs, slab, arena, used, ext, fetched, program, ready, chunks, buf>>
  BY DEF Delete, sharedVars
<1>2. PICK use : Uses(use)
  BY DEF Memory
<1>3. /\ o.kind = "aligned" \/ o.kind = "malloc" => heap[o.ptr[1]] = <<"fallback", o.by>>
      /\ o.by \in Threads /\ o.kind \in Kinds /\ o.ptr[1] \in Region /\ o.ptr \in Pointer
      /\ o = At(o.ptr, o.by, o.kind)
  BY HeldTags DEF At, TypeOK, Object
<1>4. /\ \A u \in Threads : /\ PoolOf(u)' = PoolOf(u) /\ ArenaOf(u)' = ArenaOf(u) /\ Blocks(u)' = Blocks(u)
                            /\ (Stashing(u)' <=> Stashing(u)) /\ (pc'[u] = "link" => pc[u] = "link")
      /\ Stashing(Main)' <=> Stashing(Main)
      /\ \A x : KnownRec(x)' <=> KnownRec(x)
      /\ Recycle' = Recycle
  BY <1>1 DEF PoolOf, ArenaOf, Blocks, Pending, BodyOf, Stashing, KnownRec, Recycle
<1>5. HeldOnce'
  BY <1>1 DEF Memory, HeldOnce
<1>6. \A n \in held' : n \in held /\ n.ptr # o.ptr /\ n.by \in Threads
  BY <1>1, HeldTags DEF Memory, HeldOnce
<1>7. \A l \in leaked : l.obj.by \in Threads
  BY DEF TypeOK, Object
(* std::free of the object's memory. *)
<1>8. ASSUME o.kind \in {"malloc", "aligned"}, heap' = [heap EXCEPT ![o.ptr[1]] = Freed],
             UNCHANGED <<free, leaked>>, ~misfree', stash' = stash \ {o.ptr},
             o.kind = "malloc" => stash' = stash
      PROVE  Memory'
  <2>1. PICK S : S = {o.ptr[1]}
    OBVIOUS
  <2>2. Shrunk(S) /\ \A x \in S : \E u \in Threads : heap[x] = <<"fallback", u>>
    BY <1>3, <1>8, <2>1 DEF Shrunk, TypeOK
  <2>3. Tagged'
    BY <1>1, <1>4, <2>2, TaggedShrunk DEF Memory
  <2>4. /\ \A v \in Vector : buf[v] # NULL => buf[v] \notin S
        /\ \A u \in Threads : frame[u].new \notin S
        /\ Stashing(Main) => fetched[Main] \notin S
        /\ \A p \in stash' : p[1] \notin S
        /\ \A n \in held' : n.kind = "malloc" => n.ptr[1] \notin S
    BY <1>1, <1>2, <1>8, <2>1, FreedUses
  <2>5. Uses(use)'
    BY <1>1, <1>2, <1>4, <1>8, <2>2, <2>4, UsesShrunk
  <2>6. HeldOK'
    BY <1>1, <1>4, <1>6, <1>8 DEF Memory, HeldOK
  <2>7. Accounted'
    <3>1. \A x : HasLeaked(x)' <=> HasLeaked(x)
      BY <1>8 DEF HasLeaked
    <3>2. \A p, u : At(p, u, "pool") # o
      BY <1>8 DEF At
    <3>3. ASSUME NEW u \in Threads, tls'[u] \in {"building", "live"}, NEW p \in Blocks(u)'
          PROVE  p \in free'[u] \/ At(p, u, "pool") \in held' \/ HasLeaked(At(p, u, "pool"))'
      BY <1>1, <1>4, <1>8, <3>1, <3>2, <3>3 DEF Memory, Accounted
    <3> QED BY <1>1, <1>4, <1>7, <1>8, <3>3 DEF Memory, Accounted
  <2>8. RecordsOK'
    <3>1. \A x \in Region : heap'[x] = heap[x] \/ heap'[x] = Freed
      BY <2>2 DEF Shrunk
    <3> QED BY <1>1, <1>4, <1>8, <3>1, RecordsShrunk
  <2> QED BY <1>5, <1>8, <2>3, <2>5, <2>6, <2>7, <2>8 DEF Memory
(* The memory stays what it was. *)
<1>9. ASSUME UNCHANGED <<heap, stash, misfree>>, HeldOK', Accounted' PROVE Memory'
  <2>1. Tagged'
    BY <1>1, <1>4, <1>9 DEF Memory, Tagged
  <2>2. Uses(use)'
    BY <1>1, <1>2, <1>4, <1>9 DEF Uses
  <2>3. RecordsOK'
    BY <1>1, <1>4, <1>9 DEF Memory, RecordsOK
  <2> QED BY <1>5, <1>9, <2>1, <2>2, <2>3 DEF Memory
<1>10. /\ o.ptr \in stash => o.kind = "aligned"
       /\ InPool(t, o.ptr) => o.kind = "pool" /\ o.by = t
       /\ InArena(t, o.ptr) => o.kind = "arena" /\ o.by = t
       /\ Unowned(t, o.ptr) /\ Recorded(o.ptr) => o.kind = "malloc"
       /\ Unowned(t, o.ptr) /\ o.kind # "malloc" => o.by # t
  BY <1>1, DeleteOrigins
<1>11. CASE Unstash(t, o)
  <2>1. /\ t = Main /\ o.ptr \in stash /\ heap' = [heap EXCEPT ![o.ptr[1]] = Freed]
        /\ misfree' = (misfree \/ heap[o.ptr[1]] # <<"fallback", t>>)
        /\ stash' = stash \ {o.ptr} /\ UNCHANGED <<free, leaked>>
    BY <1>11 DEF Unstash, InStash
  <2>2. heap[o.ptr[1]] = <<"fallback", t>> /\ ~misfree
    BY <1>2, <2>1 DEF Memory, Uses
  <2>3. o.kind = "aligned" /\ ~misfree'
    BY <1>10, <2>1, <2>2
  <2> QED BY <1>8, <2>1, <2>3
<1>12. CASE /\ InPool(t, o.ptr) /\ free' = [free EXCEPT ![t] = @ \cup {o.ptr}]
            /\ UNCHANGED <<heap, stash, leaked, misfree>>
  <2>1. free'[t] = free[t] \cup {o.ptr} /\ \A u \in Threads \ {t} : free'[u] = free[u]
    BY <1>12 DEF TypeOK
  <2>2. o.ptr \in Blocks(t)
    BY <1>12 DEF InPool, Blocks
  <2>3. HeldOK'
    BY <1>1, <1>4, <1>6, <1>12, <2>1 DEF Memory, HeldOK
  <2>4. Accounted'
    <3>1. \A x : HasLeaked(x)' <=> HasLeaked(x)
      BY <1>12 DEF HasLeaked
    <3>2. \A p, u : At(p, u, "pool") = o => p = o.ptr /\ u = t
      BY <1>10, <1>12 DEF At
    <3>3. ASSUME NEW u \in Threads, tls'[u] \in {"building", "live"}, NEW p \in Blocks(u)'
          PROVE  p \in free'[u] \/ At(p, u, "pool") \in held' \/ HasLeaked(At(p, u, "pool"))'
      <4>1. p \in free[u] \/ At(p, u, "pool") \in held \/ HasLeaked(At(p, u, "pool"))
        BY <1>1, <1>4, <3>3 DEF Memory, Accounted
      <4> QED BY <1>1, <2>1, <3>1, <3>2, <4>1
    <3>4. \A u \in Threads : free'[u] \subseteq Blocks(u)'
      BY <1>4, <2>1, <2>2 DEF Memory, Accounted
    <3> QED BY <1>1, <1>4, <1>7, <1>12, <3>3, <3>4 DEF Memory, Accounted
  <2> QED BY <1>9, <1>12, <2>3, <2>4
<1>13. CASE InArena(t, o.ptr) /\ UNCHANGED <<free, heap, stash, leaked, misfree>>
  <2>1. HeldOK'
    BY <1>1, <1>4, <1>6, <1>13 DEF Memory, HeldOK
  <2>2. Accounted'
    <3>1. \A x : HasLeaked(x)' <=> HasLeaked(x)
      BY <1>13 DEF HasLeaked
    <3>2. \A p, u : At(p, u, "pool") # o
      BY <1>10, <1>13 DEF At
    <3>3. ASSUME NEW u \in Threads, tls'[u] \in {"building", "live"}, NEW p \in Blocks(u)'
          PROVE  p \in free'[u] \/ At(p, u, "pool") \in held' \/ HasLeaked(At(p, u, "pool"))'
      BY <1>1, <1>4, <1>13, <3>1, <3>2, <3>3 DEF Memory, Accounted
    <3> QED BY <1>1, <1>4, <1>7, <1>13, <3>3 DEF Memory, Accounted
  <2> QED BY <1>9, <1>13, <2>1, <2>2
<1>14. CASE /\ Unowned(t, o.ptr) /\ Recorded(o.ptr)
            /\ heap' = [heap EXCEPT ![o.ptr[1]] = Freed]
            /\ misfree' = (misfree \/ heap[o.ptr[1]][1] # "fallback")
            /\ UNCHANGED <<free, stash, leaked>>
  <2>1. o.kind = "malloc"
    BY <1>10, <1>14
  <2>2. heap[o.ptr[1]][1] = "fallback" /\ ~misfree
    BY <1>3, <2>1 DEF Memory
  <2>3. o.ptr \notin stash
    BY <1>10, <2>1
  <2>4. ~misfree'
    BY <1>14, <2>2
  <2> QED BY <1>8, <1>14, <2>1, <2>3, <2>4
<1>15. CASE /\ Unowned(t, o.ptr) /\ leaked' = leaked \cup {[obj |-> o, deleter |-> t]}
            /\ UNCHANGED <<free, heap, stash, misfree>>
  <2>1. HeldOK'
    BY <1>1, <1>4, <1>6, <1>15 DEF Memory, HeldOK
  <2>2. Accounted'
    <3>1. (\A x : HasLeaked(x) => HasLeaked(x)') /\ HasLeaked(o)'
      <4>1. [obj |-> o, deleter |-> t] \in leaked' /\ [obj |-> o, deleter |-> t].obj = o
        BY <1>15
      <4>2. HasLeaked(o)'
        BY <4>1 DEF HasLeaked
      <4>3. leaked \subseteq leaked'
        BY <1>15
      <4> QED BY <4>2, <4>3 DEF HasLeaked
    <3>2. ASSUME NEW u \in Threads, tls'[u] \in {"building", "live"}, NEW p \in Blocks(u)'
          PROVE  p \in free'[u] \/ At(p, u, "pool") \in held' \/ HasLeaked(At(p, u, "pool"))'
      <4>1. p \in free[u] \/ At(p, u, "pool") \in held \/ HasLeaked(At(p, u, "pool"))
        BY <1>1, <1>4, <3>2 DEF Memory, Accounted
      <4> QED BY <1>1, <1>15, <3>1, <4>1
    <3>3. \A l \in leaked' : l \in leaked \/ (l.obj = o /\ l.deleter = t)
      BY <1>15
    <3>4. ASSUME NEW l \in leaked', l.obj.kind = "pool"
          PROVE  /\ tls'[l.obj.by] \in {"live", "gone"}
                 /\ tls'[l.obj.by] = "live" => l.obj.ptr \in PoolOf(l.obj.by)'
      <4>1. CASE l \in leaked
        BY <1>1, <1>4, <1>7, <3>4, <4>1 DEF Memory, Accounted
      <4>2. CASE l.obj = o
        BY <1>1, <1>3, <1>4, <3>4, <4>2 DEF Memory, HeldOK
      <4> QED BY <3>3, <4>1, <4>2
    <3>5. ASSUME NEW l \in leaked', l.obj.kind # "malloc" PROVE l.deleter # l.obj.by
      <4>1. CASE l \in leaked
        BY <3>5, <4>1 DEF Memory, Accounted
      <4>2. CASE l.obj = o /\ l.deleter = t
        BY <1>10, <1>15, <3>5, <4>2
      <4> QED BY <3>3, <4>1, <4>2
    <3>6. \A u \in Threads : free'[u] \subseteq Blocks(u)'
      BY <1>4, <1>15 DEF Memory, Accounted
    <3> QED BY <3>2, <3>4, <3>5, <3>6 DEF Accounted
  <2> QED BY <1>9, <1>15, <2>1, <2>2
<1> QED BY <1>1, <1>11, <1>12, <1>13, <1>14, <1>15 DEF DoDelete

(* Memory that is no fallback allocation is given back.                       *)
LEMMA UsesKept ==
  ASSUME TypeOK, Control, NEW use, Uses(use),
         \A x \in Region : \A u : heap[x] = <<"fallback", u>> => heap'[x] = <<"fallback", u>>,
         UNCHANGED <<buf, frame, fetched, stash, held>>, Stashing(Main)' <=> Stashing(Main)
  PROVE  Uses(use)'
<1>1. ASSUME NEW v \in Vector, buf'[v] # NULL
      PROVE  (\E u \in Threads : heap'[buf'[v]] = <<"fallback", u>>) /\ use[buf'[v]] = BufUse(v)
  BY <1>1, UsedRegions, UsesBuf
<1>2. ASSUME NEW u \in Threads, frame'[u].new # NULL
      PROVE  heap'[frame'[u].new] = <<"fallback", u>> /\ use[frame'[u].new] = NewUse(u)
  <2>1. frame[u].new \in Region /\ heap[frame[u].new] = <<"fallback", u>> /\ use[frame[u].new] = NewUse(u)
    BY <1>2, UsedRegions, UsesNew
  <2> QED BY <2>1
<1>3. Stashing(Main)' => heap'[fetched'[Main]] = <<"fallback", Main>> /\ use[fetched'[Main]] = RawUse
  BY UsedRegions, UsesRaw
<1>4. ASSUME NEW p \in stash' PROVE heap'[p[1]] = <<"fallback", Main>> /\ use[p[1]] = StashUse(p)
  <2>1. p[1] \in Region /\ heap[p[1]] = <<"fallback", Main>> /\ use[p[1]] = StashUse(p)
    BY <1>4, UsedRegions, UsesStash
  <2> QED BY <2>1
<1>5. ASSUME NEW o \in held', o.kind = "malloc"
      PROVE  o.ptr[2] = 0 /\ heap'[o.ptr[1]] = <<"fallback", o.by>> /\ use[o.ptr[1]] = ObjUse
  <2>1. o.ptr[1] \in Region /\ o.ptr[2] = 0 /\ heap[o.ptr[1]] = <<"fallback", o.by>> /\ use[o.ptr[1]] = ObjUse
    BY <1>5, UsedRegions, UsesObj
  <2> QED BY <2>1
<1> QED BY <1>1, <1>2, <1>3, <1>4, <1>5 DEF Uses

(* ~SingleThreadAllocator: the slab and the arena are nobody's any more.      *)
LEMMA DestroyMemory ==
  ASSUME TypeOK, Control, Memory, NEW t \in Threads, Destroy(t)
  PROVE  Memory'
<1>1. /\ pc[t] = "destroy" /\ tls[t] = "gone" /\ frame[t].vec = NULL
      /\ slab[t] \in Region /\ arena[t] \in Region
      /\ heap[slab[t]] = <<"slab", t>> /\ heap[arena[t]] = <<"arena", t>>
  <2>1. pc[t] = "destroy"
    BY DEF Destroy
  <2>2. frame[t].vec = NULL
    BY <2>1, NoFrameFacts DEF Control, FrameOK, Growing
  <2>3. tls[t] = "gone"
    BY <2>1 DEF Control, PhaseOK
  <2>4. slab[t] # NULL /\ slab[t] \in Region /\ arena[t] \in Region
    BY <2>1, <2>3 DEF Control, PhaseOK, MembersOK, TypeOK
  <2>5. heap[slab[t]] = <<"slab", t>> /\ heap[arena[t]] = <<"arena", t>>
    BY <2>4, TaggedOwn DEF Memory
  <2> QED BY <2>1, <2>2, <2>3, <2>4, <2>5
<1>2. /\ heap' = [heap EXCEPT ![slab[t]] = Freed, ![arena[t]] = Freed]
      /\ slab' = [slab EXCEPT ![t] = NULL] /\ arena' = [arena EXCEPT ![t] = NULL]
      /\ used' = [used EXCEPT ![t] = 0] /\ free' = [free EXCEPT ![t] = {}] /\ ext' = [ext EXCEPT ![t] = {}]
      /\ pc' = [pc EXCEPT ![t] = IF buf[Ext(t)] = NULL THEN "idle" ELSE "dropext"]
      /\ UNCHANGED <<program, ready, tls, frame, recs, fetched, chunks, buf, held, stash, leaked>>
  BY DEF Destroy, sharedVars
<1>3. ~misfree'
  BY <1>1 DEF Destroy, Memory
<1>4. /\ \A x \in Region : heap[x] # <<"slab", t>> /\ heap[x] # <<"arena", t>> => heap'[x] = heap[x]
      /\ \A x \in Region : heap'[x] = heap[x] \/ heap'[x] = Freed
  BY <1>1, <1>2 DEF TypeOK
<1>5. /\ slab'[t] = NULL /\ free'[t] = {} /\ ext'[t] = {}
      /\ \A u \in Threads \ {t} : /\ slab'[u] = slab[u] /\ arena'[u] = arena[u] /\ used'[u] = used[u]
                                  /\ free'[u] = free[u] /\ ext'[u] = ext[u]
  BY <1>2 DEF TypeOK
<1>6. \A u \in Threads : /\ Stashing(u)' <=> Stashing(u)
                         /\ pc'[u] = "link" => pc[u] = "link"
                         /\ Pending(u)' = Pending(u)
  BY <1>1, <1>2 DEF TypeOK, Stashing, Pending, BodyOf
<1>7. \A u \in Threads \ {t} : /\ PoolOf(u)' = PoolOf(u) /\ ArenaOf(u)' = ArenaOf(u)
                               /\ Blocks(u)' = Blocks(u)
  BY <1>5, <1>6 DEF PoolOf, ArenaOf, Blocks, SlabOf, BodyOf
<1>8. Tagged'
  <2>1. ASSUME NEW u \in Threads, slab'[u] # NULL
        PROVE  heap'[slab'[u]] = <<"slab", u>> /\ heap'[arena'[u]] = <<"arena", u>>
    <3>1. u # t /\ slab'[u] = slab[u] /\ arena'[u] = arena[u]
      BY <1>5, <2>1
    <3>2. slab[u] \in Region /\ arena[u] \in Region /\ heap[slab[u]] = <<"slab", u>> /\ heap[arena[u]] = <<"arena", u>>
      BY <2>1, <3>1 DEF TypeOK, Control, MembersOK, Memory, Tagged
    <3> QED BY <1>4, <3>1, <3>2, TagsDiffer
  <2>2. \A x \in Region : \A u : heap[x] = <<"chunk", u>> => heap'[x] = <<"chunk", u>>
    BY <1>4, TagsDiffer
  <2>3. \A u \in Threads : ext'[u] \subseteq ext[u] /\ ext[u] \subseteq Region
    BY <1>5 DEF TypeOK
  <2>4. ASSUME NEW u \in Threads, NEW r \in ext'[u] PROVE heap'[r] = <<"chunk", u>> /\ r \in chunks'
    <3>1. r \in Region /\ heap[r] = <<"chunk", u>> /\ r \in chunks
      BY <2>3 DEF Memory, Tagged
    <3> QED BY <1>2, <2>2, <3>1
  <2>5. \A r \in chunks' : \E u \in Threads : heap'[r] = <<"chunk", u>>
    BY <1>2, <2>2 DEF TypeOK, Memory, Tagged
  <2>6. ASSUME NEW u \in Threads, fetched'[u] # NULL, ~Stashing(u)'
        PROVE  heap'[fetched'[u]] = <<"chunk", u>> /\ fetched'[u] \notin ext'[u]
    <3>1. fetched'[u] = fetched[u] /\ fetched[u] \in Region
      BY <1>2, <2>6 DEF TypeOK
    <3>2. heap[fetched[u]] = <<"chunk", u>> /\ fetched[u] \notin ext[u]
      BY <1>6, <2>6, <3>1 DEF Memory, Tagged
    <3> QED BY <2>2, <2>3, <3>1, <3>2
  <2>7. \A u \in Threads : pc'[u] = "link" \/ frame'[u].vec = Ext(u) => fetched'[u] \in chunks'
    BY <1>2, <1>6 DEF Memory, Tagged
  <2> QED BY <2>1, <2>4, <2>5, <2>6, <2>7 DEF Tagged
<1>9. (\E use : Uses(use))'
  <2>1. PICK use : Uses(use)
    BY DEF Memory
  <2>2. \A x \in Region : \A u : heap[x] = <<"fallback", u>> => heap'[x] = <<"fallback", u>>
    BY <1>4, TagsDiffer
  <2>3. Stashing(Main)' <=> Stashing(Main)
    BY <1>6, NewDeleteAssumption
  <2>4. Uses(use)'
    BY <1>2, <2>1, <2>2, <2>3, UsesKept
  <2> QED BY <2>4
<1>10. HeldOK'
  <2>1. \A o \in held : o.by \in Threads /\ (o.kind \in {"pool", "arena"} => o.by # t)
    BY <1>1, HeldTags DEF Memory, HeldOK
  <2> QED BY <1>2, <1>5, <1>7, <2>1 DEF Memory, HeldOK
<1>11. Accounted'
  <2>1. \A o : HasLeaked(o)' <=> HasLeaked(o)
    BY <1>2 DEF HasLeaked
  <2>2. \A u \in Threads : free'[u] \subseteq Blocks(u)'
    BY <1>5, <1>7 DEF Memory, Accounted
  <2>3. ASSUME NEW u \in Threads, tls'[u] \in {"building", "live"}, NEW p \in Blocks(u)'
        PROVE  p \in free'[u] \/ At(p, u, "pool") \in held' \/ HasLeaked(At(p, u, "pool"))'
    <3>1. u # t
      BY <1>1, <1>2, <2>3
    <3> QED BY <1>2, <1>5, <1>7, <2>1, <2>3, <3>1 DEF Memory, Accounted
  <2>4. \A l \in leaked : l.obj.by \in Threads
    BY DEF TypeOK, Object
  <2>5. ASSUME NEW l \in leaked', l.obj.kind = "pool"
        PROVE  /\ tls'[l.obj.by] \in {"live", "gone"}
               /\ tls'[l.obj.by] = "live" => l.obj.ptr \in PoolOf(l.obj.by)'
    BY <1>1, <1>2, <1>7, <2>4, <2>5 DEF Memory, Accounted
  <2>6. \A l \in leaked' : l.obj.kind # "malloc" => l.deleter # l.obj.by
    BY <1>2 DEF Memory, Accounted
  <2> QED BY <2>2, <2>3, <2>5, <2>6 DEF Accounted
<1>12. RecordsOK'
  <2>1. \A x : KnownRec(x)' => KnownRec(x)
    BY <1>2 DEF KnownRec
  <2>2. Stashing(Main)' => Stashing(Main)
    BY <1>6, NewDeleteAssumption
  <2> QED BY <1>2, <1>4, <2>1, <2>2, RecordsShrunk
<1>13. HeldOnce'
  BY <1>2 DEF Memory, HeldOnce
<1> QED BY <1>3, <1>8, <1>9, <1>10, <1>11, <1>12, <1>13 DEF Memory

(* ~CentralHeap: chunks that no allocator has any more.                       *)
LEMMA FreeChunksMemory ==
  ASSUME TypeOK, Control, Memory, FreeChunks
  PROVE  Memory'
<1>1. /\ Statics
      /\ heap' = [r \in Region |-> IF r \in chunks THEN Freed ELSE heap[r]]
      /\ misfree' = (misfree \/ \E r \in chunks : heap[r][1] # "chunk")
      /\ chunks' = {}
      /\ UNCHANGED <<tls, pc, frame, recs, slab, arena, used, ext, free, fetched, program, ready,
                     buf, held, stash, leaked>>
  BY DEF FreeChunks, allocVars
<1>2. \A t \in Threads : /\ pc[t] = "idle" /\ frame[t] = NoFrame /\ frame[t].vec = NULL
                         /\ tls[t] \in {"none", "gone"} /\ slab[t] = NULL /\ ext[t] = {} /\ free[t] = {}
                         /\ fetched[t] = NULL
  BY <1>1, StaticsFacts
<1>3. \A x \in Region : heap'[x] = heap[x] \/ (heap'[x] = Freed /\ \E u \in Threads : heap[x] = <<"chunk", u>>)
  BY <1>1 DEF Memory, Tagged
<1>4. ~misfree'
  <2>1. \A r \in chunks : heap[r][1] = "chunk"
    BY DEF Memory, Tagged
  <2> QED BY <1>1, <2>1 DEF Memory
<1>5. \A u \in Threads : /\ Stashing(u)' <=> Stashing(u)
                         /\ PoolOf(u)' = PoolOf(u) /\ ArenaOf(u)' = ArenaOf(u)
  BY <1>1 DEF Stashing, PoolOf, ArenaOf
<1>6. Tagged'
  BY <1>1, <1>2, VectorFacts DEF Tagged
<1>7. (\E use : Uses(use))'
  <2>1. PICK use : Uses(use)
    BY DEF Memory
  <2>2. \A x \in Region : \A u : heap[x] = <<"fallback", u>> => heap'[x] = <<"fallback", u>>
    BY <1>3, TagsDiffer
  <2>3. Stashing(Main)' <=> Stashing(Main)
    BY <1>5, NewDeleteAssumption
  <2>4. Uses(use)'
    BY <1>1, <2>1, <2>2, <2>3, UsesKept
  <2> QED BY <2>4
<1>8. HeldOK'
  BY <1>1, <1>5, HeldTags DEF Memory, HeldOK
<1>9. Accounted'
  <2>1. \A l \in leaked : l.obj.by \in Threads
    BY DEF TypeOK, Object
  <2> QED BY <1>1, <1>2, <1>5, <2>1 DEF Memory, Accounted
<1>10. RecordsOK'
  <2>1. \A x : KnownRec(x)' => KnownRec(x)
    BY <1>1 DEF KnownRec
  <2>2. (Stashing(Main)' => Stashing(Main)) /\ \A x \in Region : heap'[x] = heap[x] \/ heap'[x] = Freed
    BY <1>3, <1>5, NewDeleteAssumption
  <2> QED BY <1>1, <2>1, <2>2, RecordsShrunk
<1>11. HeldOnce'
  BY <1>1 DEF Memory, HeldOnce
<1> QED BY <1>4, <1>6, <1>7, <1>8, <1>9, <1>10, <1>11 DEF Memory

LEMMA NextMemory ==
  ASSUME TypeOK, Control, Memory, SafeProgram, [Next]_vars
  PROVE  Memory'
BY StepCases, IdleMemory, LockRegistryMemory, AcquireChunkMemory, PushInPlaceMemory, GrowMemory, GrowStoreMemory,
   GrowDropMemory, AddExternalSlabMemory, FallbackStoreMemory, AlignedReturnMemory, DestroyMemory, DropExtMemory,
   ConstructMemory, NewBlockMemory, NewLargeMemory, ExhaustedMemory, NewFallbackMemory, NewAlignedMemory,
   DeleteMemory, ExitMemory, SetReadyMemory, FreeChunksMemory, DropSharedMemory
------------------------------------------------------------------------------
LEMMA InductiveInit == Init => IInv
BY InitControl, InitMemory DEF IInv

(* No step changes what the program is allowed to do.                        *)
LEMMA ProgramKept ==
  ASSUME [Next]_vars
  PROVE  program' = program
<1>1. ASSUME NEW t \in Threads, LockRegistry(t) \/ AcquireChunk(t) \/ PushInPlace(t)
      PROVE  program' = program
  BY <1>1 DEF LockRegistry, AcquireChunk, PushInPlace, sharedVars
<1>2. ASSUME NEW t \in Threads, Grow(t) \/ GrowStore(t) \/ GrowDrop(t)
      PROVE  program' = program
  BY <1>2 DEF Grow, GrowStore, GrowDrop, sharedVars
<1>3. ASSUME NEW t \in Threads, AddExternalSlab(t) \/ FallbackStore(t) \/ AlignedReturn(t)
      PROVE  program' = program
  BY <1>3 DEF AddExternalSlab, FallbackStore, AlignedReturn, sharedVars
<1>4. ASSUME NEW t \in Threads, Destroy(t) \/ DropExt(t) \/ Construct(t)
      PROVE  program' = program
  BY <1>4 DEF Destroy, DropExt, Construct, sharedVars
<1>5. ASSUME NEW t \in Threads, NewBlock(t) \/ NewLarge(t)
      PROVE  program' = program
  BY <1>5 DEF NewBlock, NewLarge, sharedVars
<1>6. ASSUME NEW t \in Threads, Exhausted(t) \/ NewFallback(t) \/ NewAligned(t)
      PROVE  program' = program
  BY <1>6 DEF Exhausted, NewFallback, NewAligned, sharedVars
<1>7. ASSUME NEW t \in Threads, Exit(t) \/ \E o \in held : Delete(t, o)
      PROVE  program' = program
  BY <1>7 DEF Exit, Delete, sharedVars
<1>8. ASSUME SetReady \/ FreeChunks
      PROVE  program' = program
  BY <1>8 DEF SetReady, FreeChunks
<1>9. ASSUME NEW name \in {"stash", "live", "retired", "chunks"}, DropShared(Shared(name))
      PROVE  program' = program
  BY <1>9 DEF DropShared
<1>10. UNCHANGED vars => program' = program
  BY DEF vars, sharedVars
<1> QED BY StepCases, <1>1, <1>2, <1>3, <1>4, <1>5, <1>6, <1>7, <1>8, <1>9, <1>10

LEMMA InductiveStep == IInv /\ [Next]_vars => IInv'
<1> SUFFICES ASSUME IInv, [Next]_vars PROVE IInv'
  OBVIOUS
<1>1. TypeOK' /\ Control'
  BY NextControl DEF IInv
<1>2. SafeProgram' => SafeProgram
  BY ProgramKept DEF SafeProgram, Recycle, CrossDelete
<1>3. SafeProgram => Memory'
  BY NextMemory DEF IInv
<1> QED BY <1>1, <1>2, <1>3 DEF IInv

LEMMA Inductive == Spec => []IInv
BY InductiveInit, InductiveStep, PTL DEF Spec

(* Every variable of the override keeps its type, for any number of threads  *)
(* and of regions.                                                          *)
THEOREM TypeCorrect == Spec => []TypeOK
<1>1. IInv => TypeOK
  BY DEF IInv
<1> QED BY <1>1, Inductive, PTL

(* for_each_live() finds in the registry every allocator that is live, and    *)
(* none whose pools and arena are gone.                                     *)
THEOREM RegistryStaysAlive == Spec => []RegistryIsAlive
<1>1. IInv => RegistryIsAlive
  BY DEF IInv, TypeOK, Control, PhaseOK, MembersOK, RegistryIsAlive
<1> QED BY <1>1, Inductive, PTL

(* No delete, exit or growth of a vector, on any thread and in any order,     *)
(* frees memory from under a pool, an arena, a chunk, a vector's buffer, a   *)
(* stashed payload or an object that a client still has.                     *)
THEOREM InUseStaysAllocated == Spec => [](SafeProgram => InUseIsAllocated)
<1>1. IInv => (SafeProgram => InUseIsAllocated)
  BY MemorySafe DEF IInv
<1> QED BY <1>1, Inductive, PTL

(* do_delete, the destructors and the stash give std::free only what malloc   *)
(* returned for that purpose, and each of it once.                           *)
THEOREM NeverMisfrees == Spec => [](SafeProgram => NoMisfree)
<1>1. IInv => (SafeProgram => NoMisfree)
  BY MemorySafe DEF IInv
<1> QED BY <1>1, Inductive, PTL

(* do_new never returns memory that is handed out already, whether it comes   *)
(* from a pool, a chunk just linked to it, the arena or malloc.              *)
THEOREM NeverHandedOutTwice == Spec => [](SafeProgram => HandedOutOnce)
<1>1. IInv => (SafeProgram => HandedOutOnce)
  BY MemorySafe DEF IInv
<1> QED BY <1>1, Inductive, PTL

------------------------------------------------------------------------------
(* The records.  What has been recorded, and is not yet deleted, is on the     *)
(* list or was dropped from it: of every program.                            *)
OnceRecorded == recs \cup lost
RecordsAccounted ==
  /\ \A t \in Threads : pc[t] = "drop" => frame[t].new \in OnceRecorded
  /\ \A v \in Vector : buf[v] # NULL => buf[v] \in OnceRecorded
  /\ \A o \in held : o.kind = "malloc" => o.ptr[2] = 0 /\ o.ptr[1] \in OnceRecorded
  /\ \A l \in leaked : l.obj.kind = "malloc" => l.obj.ptr[1] \in lost

(* A store drops records, and remembers that it did. *)
LEMMA PublishRemembers ==
  ASSUME NEW t \in Threads, Publish(t)
  PROVE  OnceRecorded \subseteq OnceRecorded' /\ lost \subseteq lost' /\ frame[t].new \in OnceRecorded'
BY DEF Publish, OnceRecorded

(* A delete leaves alone nothing of malloc's whose record is on the list. *)
LEMMA DeleteAccounted ==
  ASSUME NEW t \in Threads, NEW o, DoDelete(t, o),
         o.kind = "malloc" => o.ptr[2] = 0 /\ o.ptr[1] \in OnceRecorded,
         \A l \in leaked : l.obj.kind = "malloc" => l.obj.ptr[1] \in lost, lost' = lost
  PROVE  \A l \in leaked' : l.obj.kind = "malloc" => l.obj.ptr[1] \in lost'
<1>1. CASE leaked' = leaked
  BY <1>1
<1>2. CASE ~Recorded(o.ptr) /\ leaked' = leaked \cup {[obj |-> o, deleter |-> t]}
  <2>1. o.kind = "malloc" => o.ptr[1] \in lost
    BY <1>2 DEF Recorded, OnceRecorded
  <2>2. \A l \in leaked' : l \in leaked \/ l.obj = o
    BY <1>2
  <2> QED BY <2>1, <2>2
<1> QED BY <1>1, <1>2 DEF DoDelete, Unstash

LEMMA BufferParts ==
  ASSUME NEW r, NEW t
  PROVE  Buffer(r, t).kind = "malloc" /\ Buffer(r, t).ptr[1] = r /\ Buffer(r, t).ptr[2] = 0
BY DEF Buffer, At

(* A step that stores no record, gives no vector a buffer, and hands out and   *)
(* leaves alone no memory of malloc's.                                      *)
LEMMA AccountedQuietly ==
  ASSUME TypeOK, RecordsAccounted, UNCHANGED <<recs, lost>>,
         \A t \in Threads : pc'[t] = "drop" => pc[t] = "drop" /\ frame'[t].new = frame[t].new,
         \A v \in Vector : buf'[v] # NULL => buf'[v] = buf[v],
         \A o \in held' : o \in held \/ o.kind # "malloc",
         \A l \in leaked' : l.obj.kind = "malloc" => l.obj.ptr[1] \in lost
  PROVE  RecordsAccounted'
<1>1. OnceRecorded' = OnceRecorded
  BY DEF OnceRecorded
<1>2. \A t \in Threads : pc'[t] = "drop" => frame'[t].new \in OnceRecorded'
  BY <1>1 DEF RecordsAccounted
<1>3. \A v \in Vector : buf'[v] # NULL => buf'[v] \in OnceRecorded'
  BY <1>1 DEF RecordsAccounted
<1>4. \A o \in held' : o.kind = "malloc" => o.ptr[2] = 0 /\ o.ptr[1] \in OnceRecorded'
  BY <1>1 DEF RecordsAccounted
<1> QED BY <1>2, <1>3, <1>4 DEF RecordsAccounted

LEMMA CallAccounted ==
  ASSUME TypeOK, RecordsAccounted, NEW t \in Threads, Call(t)
  PROVE  RecordsAccounted'
<1>0. \A l \in leaked : l.obj.kind = "malloc" => l.obj.ptr[1] \in lost
  BY DEF RecordsAccounted
<1>1. CASE Construct(t) \/ Exhausted(t) \/ Exit(t)
  <2>1. /\ UNCHANGED <<recs, lost, frame, buf, held, leaked>>
        /\ \E q \in {"register", "refill", "retire"} : pc' = [pc EXCEPT ![t] = q]
    BY <1>1 DEF Construct, Exhausted, Exit, sharedVars, clientVars
  <2>2. \A u \in Threads : pc'[u] = "drop" => pc[u] = "drop"
    BY <2>1 DEF TypeOK
  <2> QED BY <1>0, <2>1, <2>2, AccountedQuietly
<1>2. CASE NewBlock(t) \/ NewLarge(t)
  <2>1. UNCHANGED <<recs, lost, frame, buf, leaked>>
    BY <1>2 DEF NewBlock, NewLarge, sharedVars
  <2>2. pc' = [pc EXCEPT ![t] = "idle"] \/ pc' = pc
    BY <1>2 DEF NewBlock, NewLarge
  <2>3. \A u \in Threads : pc'[u] = "drop" => pc[u] = "drop"
    BY <2>2 DEF TypeOK
  <2>4. \A o \in held' : o \in held \/ o.kind # "malloc"
    BY <1>2 DEF NewBlock, NewLarge, At
  <2> QED BY <1>0, <2>1, <2>3, <2>4, AccountedQuietly
<1>3. CASE NewFallback(t) \/ NewAligned(t)
  <2>1. UNCHANGED <<recs, lost, buf, held, leaked>>
    BY <1>3 DEF NewFallback, NewAligned, sharedVars
  <2>2. \E q \in {"store", "push"} : pc' = [pc EXCEPT ![t] = q]
    BY <1>3 DEF NewFallback, NewAligned, FallbackBegin
  <2>3. \E f : frame' = [frame EXCEPT ![t] = f]
    BY <1>3 DEF NewFallback, NewAligned, FallbackBegin
  <2>4. \A u \in Threads : pc'[u] = "drop" => u # t /\ pc[u] = "drop"
    BY <2>2 DEF TypeOK
  <2>5. \A u \in Threads \ {t} : frame'[u] = frame[u]
    BY <2>3 DEF TypeOK
  <2> QED BY <1>0, <2>1, <2>4, <2>5, AccountedQuietly
<1>4. ASSUME NEW o \in held, Delete(t, o)
      PROVE  RecordsAccounted'
  <2>1. /\ UNCHANGED <<recs, lost, pc, frame, buf>> /\ held' = held \ {o} /\ DoDelete(t, o)
    BY <1>4 DEF Delete, sharedVars
  <2>2. o.kind = "malloc" => o.ptr[2] = 0 /\ o.ptr[1] \in OnceRecorded
    BY DEF RecordsAccounted
  <2>3. \A l \in leaked' : l.obj.kind = "malloc" => l.obj.ptr[1] \in lost'
    BY <1>0, <2>1, <2>2, DeleteAccounted
  <2> QED BY <2>1, <2>3, AccountedQuietly
<1> QED BY <1>1, <1>2, <1>3, <1>4 DEF Call

LEMMA WorkAccounted ==
  ASSUME TypeOK, Control, RecordsAccounted, NEW t \in Threads, Work(t)
  PROVE  RecordsAccounted'
<1>0. \A l \in leaked : l.obj.kind = "malloc" => l.obj.ptr[1] \in lost
  BY DEF RecordsAccounted
<1>1. CASE LockRegistry(t) \/ AcquireChunk(t) \/ AddExternalSlab(t)
  <2>1. /\ UNCHANGED <<recs, lost, buf, held, leaked>> /\ pc' = [pc EXCEPT ![t] = "push"]
        /\ \E f : frame' = [frame EXCEPT ![t] = f]
    BY <1>1 DEF LockRegistry, AcquireChunk, AddExternalSlab, sharedVars, clientVars
  <2>2. \A u \in Threads : pc'[u] = "drop" => pc[u] = "drop" /\ frame'[u] = frame[u]
    BY <2>1 DEF TypeOK
  <2> QED BY <1>0, <2>1, <2>2, AccountedQuietly
<1>2. CASE Grow(t)
  <2>1. /\ UNCHANGED <<recs, lost, buf, held, leaked>> /\ pc' = [pc EXCEPT ![t] = "store"]
        /\ \E f : frame' = [frame EXCEPT ![t] = f]
    BY <1>2 DEF Grow, FallbackBegin, sharedVars, clientVars
  <2>2. \A u \in Threads : pc'[u] = "drop" => pc[u] = "drop" /\ frame'[u] = frame[u]
    BY <2>1 DEF TypeOK
  <2> QED BY <1>0, <2>1, <2>2, AccountedQuietly
<1>3. CASE PushInPlace(t)
  <2>1. /\ UNCHANGED <<recs, lost, buf, held, leaked>> /\ Pushed(t) /\ frame' = [frame EXCEPT ![t] = NoFrame]
    BY <1>3 DEF PushInPlace, clientVars
  <2>2. \A u \in Threads : pc'[u] = "drop" => u # t /\ pc[u] = "drop" /\ frame'[u] = frame[u]
    BY <2>1 DEF TypeOK, Pushed, Registered, Retired, Acquired, Linked, Stashed
  <2> QED BY <1>0, <2>1, <2>2, AccountedQuietly
<1>4. CASE GrowStore(t)
  <2>1. /\ Publish(t) /\ pc' = [pc EXCEPT ![t] = "drop"] /\ UNCHANGED <<frame, buf, held, leaked>>
    BY <1>4 DEF GrowStore, sharedVars, clientVars
  <2>2. OnceRecorded \subseteq OnceRecorded' /\ lost \subseteq lost' /\ frame[t].new \in OnceRecorded'
    BY <2>1, PublishRemembers
  <2>3. \A u \in Threads : pc'[u] = "drop" => frame'[u].new \in OnceRecorded'
    BY <2>1, <2>2 DEF RecordsAccounted, TypeOK
  <2> QED BY <2>1, <2>2, <2>3 DEF RecordsAccounted
<1>5. CASE FallbackStore(t)
  <2> DEFINE o == At(<<frame[t].new, 0>>, t, "malloc")
  <2>1. /\ Publish(t) /\ pc' = [pc EXCEPT ![t] = "idle"] /\ frame' = [frame EXCEPT ![t] = NoFrame]
        /\ held' = held \cup {o} /\ UNCHANGED <<buf, leaked>>
    BY <1>5 DEF FallbackStore, sharedVars
  <2>2. OnceRecorded \subseteq OnceRecorded' /\ lost \subseteq lost' /\ frame[t].new \in OnceRecorded'
    BY <2>1, PublishRemembers
  <2>3. \A u \in Threads : pc'[u] = "drop" => frame'[u].new \in OnceRecorded'
    BY <2>1, <2>2 DEF RecordsAccounted, TypeOK
  <2>4. o.ptr[2] = 0 /\ o.ptr[1] = frame[t].new
    BY DEF At
  <2> HIDE DEF o
  <2>5. \A p \in held' : p.kind = "malloc" => p.ptr[2] = 0 /\ p.ptr[1] \in OnceRecorded'
    BY <2>1, <2>2, <2>4 DEF RecordsAccounted
  <2> QED BY <2>1, <2>2, <2>3, <2>5 DEF RecordsAccounted
<1>6. CASE GrowDrop(t)
  <2>1. /\ pc[t] = "drop" /\ Pushed(t) /\ frame' = [frame EXCEPT ![t] = NoFrame]
        /\ buf' = [buf EXCEPT ![frame[t].vec] = frame[t].new]
        /\ UNCHANGED <<recs, lost, held>> /\ OnceRecorded' = OnceRecorded
    BY <1>6 DEF GrowDrop, OnceRecorded
  <2>2. \A u \in Threads : pc'[u] = "drop" => u # t /\ pc[u] = "drop" /\ frame'[u] = frame[u]
    BY <2>1 DEF TypeOK, Pushed, Registered, Retired, Acquired, Linked, Stashed
  <2>3. \A v \in Vector : buf'[v] # NULL => buf'[v] \in OnceRecorded'
    BY <2>1 DEF RecordsAccounted, TypeOK
  <2>4. frame[t].vec \in Vector /\ frame[t].old = buf[frame[t].vec]
    BY <2>1, VectorFacts DEF Pushed, Control, FrameOK
  <2>5. \A l \in leaked' : l.obj.kind = "malloc" => l.obj.ptr[1] \in lost'
    <3>1. CASE frame[t].old = NULL
      BY <1>0, <1>6, <2>1, <3>1 DEF GrowDrop
    <3>2. CASE frame[t].old # NULL
      <4>1. DoDelete(t, Buffer(frame[t].old, t))
        BY <1>6, <3>2 DEF GrowDrop
      <4>2. frame[t].old \in OnceRecorded
        BY <2>4, <3>2 DEF RecordsAccounted
      <4> QED BY <1>0, <2>1, <4>1, <4>2, BufferParts, DeleteAccounted
    <3> QED BY <3>1, <3>2
  <2> QED BY <2>1, <2>2, <2>3, <2>5 DEF RecordsAccounted
<1>7. CASE AlignedReturn(t)
  <2>1. /\ UNCHANGED <<recs, lost, frame, buf, leaked>> /\ pc' = [pc EXCEPT ![t] = "idle"]
        /\ \A o \in held' : o \in held \/ o.kind # "malloc"
    BY <1>7 DEF AlignedReturn, sharedVars, At
  <2>2. \A u \in Threads : pc'[u] = "drop" => pc[u] = "drop"
    BY <2>1 DEF TypeOK
  <2> QED BY <1>0, <2>1, <2>2, AccountedQuietly
<1>8. CASE Destroy(t)
  <2>1. /\ UNCHANGED <<recs, lost, frame, buf, held, leaked>>
        /\ \E q \in {"idle", "dropext"} : pc' = [pc EXCEPT ![t] = q]
    BY <1>8 DEF Destroy, sharedVars
  <2>2. \A u \in Threads : pc'[u] = "drop" => pc[u] = "drop"
    BY <2>1 DEF TypeOK
  <2> QED BY <1>0, <2>1, <2>2, AccountedQuietly
<1>9. CASE DropExt(t)
  <2>1. /\ UNCHANGED <<recs, lost, frame, held>> /\ pc[t] = "dropext" /\ pc' = [pc EXCEPT ![t] = "idle"]
        /\ DoDelete(t, Buffer(buf[Ext(t)], t)) /\ buf' = [buf EXCEPT ![Ext(t)] = NULL]
    BY <1>9 DEF DropExt
  <2>2. \A u \in Threads : pc'[u] = "drop" => pc[u] = "drop"
    BY <2>1 DEF TypeOK
  <2>3. \A v \in Vector : buf'[v] # NULL => buf'[v] = buf[v]
    BY <2>1 DEF TypeOK
  <2>4. buf[Ext(t)] \in OnceRecorded
    BY <2>1, VectorFacts DEF Control, MembersOK, RecordsAccounted
  <2>5. \A l \in leaked' : l.obj.kind = "malloc" => l.obj.ptr[1] \in lost'
    BY <1>0, <2>1, <2>4, BufferParts, DeleteAccounted
  <2> QED BY <2>1, <2>2, <2>3, <2>5, AccountedQuietly
<1>10. CASE NewBlock(t)
  BY <1>10, CallAccounted DEF Call
<1> QED BY <1>1, <1>2, <1>3, <1>4, <1>5, <1>6, <1>7, <1>8, <1>9, <1>10 DEF Work

LEMMA NextAccounted ==
  ASSUME TypeOK, Control, RecordsAccounted, [Next]_vars
  PROVE  RecordsAccounted'
<1>0. \A l \in leaked : l.obj.kind = "malloc" => l.obj.ptr[1] \in lost
  BY DEF RecordsAccounted
<1>1. CASE UNCHANGED vars
  BY <1>1 DEF vars, sharedVars, clientVars, RecordsAccounted, OnceRecorded
<1>2. CASE SetReady \/ FreeChunks
  <2>1. UNCHANGED <<recs, lost, pc, frame, buf, held, leaked>>
    BY <1>2 DEF SetReady, FreeChunks, clientVars
  <2> QED BY <1>0, <2>1, AccountedQuietly
<1>3. ASSUME NEW name \in {"stash", "live", "retired", "chunks"}, DropShared(Shared(name))
      PROVE  RecordsAccounted'
  <2>1. /\ UNCHANGED <<recs, lost, pc, frame, held>> /\ buf[Shared(name)] # NULL
        /\ DoDelete(Main, Buffer(buf[Shared(name)], Main)) /\ buf' = [buf EXCEPT ![Shared(name)] = NULL]
    BY <1>3 DEF DropShared
  <2>2. \A v \in Vector : buf'[v] # NULL => buf'[v] = buf[v]
    BY <2>1 DEF TypeOK
  <2>3. buf[Shared(name)] \in OnceRecorded
    BY <2>1, VectorFacts DEF RecordsAccounted
  <2>4. \A l \in leaked' : l.obj.kind = "malloc" => l.obj.ptr[1] \in lost'
    BY <1>0, <2>1, <2>3, NewDeleteAssumption, BufferParts, DeleteAccounted
  <2> QED BY <2>1, <2>2, <2>4, AccountedQuietly
<1> QED BY <1>1, <1>2, <1>3, WorkAccounted, CallAccounted DEF Next

LEMMA RecordsAlwaysAccounted == Spec => []RecordsAccounted
<1>1. Init => RecordsAccounted
  BY DEF Init, RecordsAccounted
<1>2. IInv /\ RecordsAccounted /\ [Next]_vars => RecordsAccounted'
  BY NextAccounted DEF IInv
<1> QED BY <1>1, <1>2, Inductive, PTL DEF Spec

(* No block is lost between the free list, the clients and the deletes on     *)
(* foreign threads, through refills and retries.  A delete leaves blocks and  *)
(* over-aligned objects alone only on a foreign thread, and memory from the  *)
(* malloc fallback only if a concurrent store dropped its record.           *)
THEOREM NothingElseLeaks == Spec => [](SafeProgram => LeaksAccountedFor)
<1>1. IInv /\ RecordsAccounted => (SafeProgram => LeaksAccountedFor)
  <2> SUFFICES ASSUME IInv, RecordsAccounted, SafeProgram PROVE LeaksAccountedFor
    OBVIOUS
  <2>1. BlocksAccountedFor
    BY MemorySafe DEF IInv
  <2>2. \A l \in leaked : l.obj.kind = "malloc" => l.obj.ptr[1] \in lost
    BY DEF RecordsAccounted
  <2> QED BY <2>1, <2>2 DEF BlocksAccountedFor, LeaksAccountedFor
<1> QED BY <1>1, Inductive, RecordsAlwaysAccounted, PTL

----------------------------------------------------------------------------
(* Progress.  An operation goes from point to point; where it is after a      *)
(* push_back depends on the vector.                                         *)
PointAfter(t, v) ==
  CASE v = Shared("live") -> "idle" [] v = Shared("retired") -> "destroy" [] v = Shared("chunks") -> "link"
    [] v = Ext(t) -> "retry" [] v = Shared("stash") -> "stashed"

Advance(t, p, v, q, w) ==
  \/ p = "register" /\ q = "push" /\ w = Shared("live")
  \/ p = "retire" /\ q = "push" /\ w = Shared("retired")
  \/ p = "refill" /\ q = "push" /\ w = Shared("chunks")
  \/ p = "link" /\ q = "push" /\ w = Ext(t)
  \/ p = "push" /\ q = "store" /\ w = v
  \/ p = "store" /\ q = "drop" /\ w = v
  \/ p = "store" /\ q = "idle" /\ v = Client
  \/ p \in {"push", "drop"} /\ v \in Pushable(t) /\ q = PointAfter(t, v)
  \/ p = "destroy" /\ q \in {"idle", "dropext"}
  \/ p \in {"retry", "stashed", "dropext"} /\ q = "idle"

LEMMA PointsAfter ==
  ASSUME NEW t \in Threads
  PROVE  /\ PointAfter(t, Shared("live")) = "idle" /\ PointAfter(t, Shared("retired")) = "destroy"
         /\ PointAfter(t, Shared("chunks")) = "link" /\ PointAfter(t, Ext(t)) = "retry"
         /\ PointAfter(t, Shared("stash")) = "stashed"
BY VectorFacts DEF PointAfter

LEMMA StepsAfterFacts ==
  ASSUME NEW t \in Threads
  PROVE  /\ StepsAfter(t, Shared("live")) = 0 /\ StepsAfter(t, Shared("retired")) = 2
         /\ StepsAfter(t, Shared("chunks")) = 5 /\ StepsAfter(t, Ext(t)) = 1
         /\ StepsAfter(t, Shared("stash")) = 1 /\ \A v : StepsAfter(t, v) \in Nat
<1>1. /\ StepsAfter(t, Shared("live")) = 0 /\ StepsAfter(t, Shared("retired")) = 2
      /\ StepsAfter(t, Shared("chunks")) = 5
  BY VectorFacts DEF StepsAfter
<1>2. StepsAfter(t, Ext(t)) = 1 /\ StepsAfter(t, Shared("stash")) = 1
  BY VectorFacts DEF StepsAfter
<1>3. \A v : StepsAfter(t, v) \in Nat
  BY DEF StepsAfter
<1> QED BY <1>1, <1>2, <1>3

LEMMA StepsFromFacts ==
  ASSUME NEW t, NEW v
  PROVE  /\ StepsFrom(t, "refill", v) = 9 /\ StepsFrom(t, "retire", v) = 6 /\ StepsFrom(t, "link", v) = 5
         /\ StepsFrom(t, "register", v) = 4 /\ StepsFrom(t, "destroy", v) = 2
         /\ StepsFrom(t, "retry", v) = 1 /\ StepsFrom(t, "stashed", v) = 1 /\ StepsFrom(t, "dropext", v) = 1
         /\ StepsFrom(t, "idle", v) = 0
         /\ StepsFrom(t, "push", v) = StepsAfter(t, v) + 3 /\ StepsFrom(t, "store", v) = StepsAfter(t, v) + 2
         /\ StepsFrom(t, "drop", v) = StepsAfter(t, v) + 1
BY DEF StepsFrom

(* Every advance leaves fewer steps.                                         *)
LEMMA AdvanceShrinks ==
  ASSUME NEW t \in Threads, NEW p, NEW v, NEW q, NEW w, Advance(t, p, v, q, w)
  PROVE  StepsFrom(t, q, w) < StepsFrom(t, p, v)
<1>1. CASE p = "register" /\ q = "push" /\ w = Shared("live")
  BY <1>1, StepsFromFacts, StepsAfterFacts
<1>2. CASE p = "retire" /\ q = "push" /\ w = Shared("retired")
  BY <1>2, StepsFromFacts, StepsAfterFacts
<1>3. CASE p = "refill" /\ q = "push" /\ w = Shared("chunks")
  BY <1>3, StepsFromFacts, StepsAfterFacts
<1>4. CASE p = "link" /\ q = "push" /\ w = Ext(t)
  BY <1>4, StepsFromFacts, StepsAfterFacts
<1>5. CASE p = "push" /\ q = "store" /\ w = v
  BY <1>5, StepsFromFacts, StepsAfterFacts
<1>6. CASE p = "store" /\ q = "drop" /\ w = v
  BY <1>6, StepsFromFacts, StepsAfterFacts
<1>7. CASE p = "store" /\ q = "idle" /\ v = Client
  BY <1>7, StepsFromFacts, StepsAfterFacts
<1>8. CASE p \in {"push", "drop"} /\ v \in Pushable(t) /\ q = PointAfter(t, v)
  <2>1. StepsFrom(t, p, v) \in Nat /\ StepsFrom(t, p, v) >= StepsAfter(t, v) + 1
    BY <1>8, StepsFromFacts, StepsAfterFacts
  <2>2. StepsFrom(t, q, w) = StepsAfter(t, v)
    <3>1. CASE v = Shared("live")
      BY <1>8, <3>1, PointsAfter, StepsAfterFacts, StepsFromFacts
    <3>2. CASE v = Shared("retired")
      BY <1>8, <3>2, PointsAfter, StepsAfterFacts, StepsFromFacts
    <3>3. CASE v = Shared("chunks")
      BY <1>8, <3>3, PointsAfter, StepsAfterFacts, StepsFromFacts
    <3>4. CASE v = Ext(t)
      BY <1>8, <3>4, PointsAfter, StepsAfterFacts, StepsFromFacts
    <3>5. CASE v = Shared("stash")
      BY <1>8, <3>5, PointsAfter, StepsAfterFacts, StepsFromFacts
    <3> QED BY <1>8, <3>1, <3>2, <3>3, <3>4, <3>5 DEF Pushable
  <2>3. StepsAfter(t, v) \in Nat
    BY StepsAfterFacts
  <2> QED BY <2>1, <2>2, <2>3
<1>9. CASE p = "destroy" /\ q \in {"idle", "dropext"}
  BY <1>9, StepsFromFacts
<1>10. CASE p \in {"retry", "stashed", "dropext"} /\ q = "idle"
  BY <1>10, StepsFromFacts
<1> QED BY <1>1, <1>2, <1>3, <1>4, <1>5, <1>6, <1>7, <1>8, <1>9, <1>10 DEF Advance

(* Only t moves, and it advances. *)
Advances(t) == /\ \A u \in Threads \ {t} : pc'[u] = pc[u] /\ frame'[u] = frame[u]
               /\ Advance(t, pc[t], frame[t].vec, pc'[t], frame'[t].vec)

LEMMA PushedAdvances ==
  ASSUME TypeOK, Control, NEW t \in Threads, pc[t] \in {"push", "drop"}, Pushed(t),
         frame' = [frame EXCEPT ![t] = NoFrame]
  PROVE  Advances(t)
<1>1. \A u \in Threads \ {t} : pc'[u] = pc[u] /\ frame'[u] = frame[u]
  BY DEF Pushed, Registered, Retired, Acquired, Linked, Stashed, TypeOK
<1>2. frame[t].vec \in Pushable(t) /\ pc'[t] = PointAfter(t, frame[t].vec)
  BY PointsAfter DEF Pushed, Registered, Retired, Acquired, Linked, Stashed, TypeOK, Pushable
<1> QED BY <1>1, <1>2 DEF Advances, Advance

(* Each step of an operation under way is an advance. *)
LEMMA WorkAdvances ==
  ASSUME TypeOK, Control, NEW t \in Threads, Work(t)
  PROVE  Advances(t)
<1>1. CASE LockRegistry(t)
  <2>1. pc[t] \in {"register", "retire"} /\ pc' = [pc EXCEPT ![t] = "push"]
        /\ frame' = [frame EXCEPT ![t] = FrameOf(Shared(IF pc[t] = "register" THEN "live" ELSE "retired"))]
    BY <1>1 DEF LockRegistry
  <2>2. frame'[t].vec = Shared(IF pc[t] = "register" THEN "live" ELSE "retired")
    BY <2>1 DEF TypeOK, FrameOf, NoFrame
  <2> QED BY <2>1, <2>2 DEF TypeOK, Advances, Advance
<1>2. CASE AcquireChunk(t)
  <2>1. pc[t] = "refill" /\ pc' = [pc EXCEPT ![t] = "push"]
        /\ frame' = [frame EXCEPT ![t] = FrameOf(Shared("chunks"))]
    BY <1>2 DEF AcquireChunk
  <2>2. frame'[t].vec = Shared("chunks")
    BY <2>1 DEF TypeOK, FrameOf, NoFrame
  <2> QED BY <2>1, <2>2 DEF TypeOK, Advances, Advance
<1>3. CASE PushInPlace(t)
  BY <1>3, PushedAdvances DEF PushInPlace
<1>4. CASE Grow(t)
  <2>1. PICK r : frame' = [frame EXCEPT ![t] = [frame[t] EXCEPT !.new = r, !.next = recs]]
    BY <1>4 DEF Grow, FallbackBegin
  <2>2. pc[t] = "push" /\ pc' = [pc EXCEPT ![t] = "store"]
    BY <1>4 DEF Grow, FallbackBegin
  <2>3. frame'[t].vec = frame[t].vec
    BY <2>1 DEF TypeOK, FrameType
  <2> QED BY <2>1, <2>2, <2>3 DEF TypeOK, Advances, Advance
<1>5. CASE GrowStore(t)
  BY <1>5 DEF GrowStore, TypeOK, Advances, Advance
<1>6. CASE GrowDrop(t)
  BY <1>6, PushedAdvances DEF GrowDrop
<1>7. CASE AddExternalSlab(t)
  <2>1. pc[t] = "link" /\ pc' = [pc EXCEPT ![t] = "push"] /\ frame' = [frame EXCEPT ![t] = FrameOf(Ext(t))]
    BY <1>7 DEF AddExternalSlab
  <2>2. frame'[t].vec = Ext(t)
    BY <2>1 DEF TypeOK, FrameOf, NoFrame
  <2> QED BY <2>1, <2>2 DEF TypeOK, Advances, Advance
<1>8. CASE FallbackStore(t)
  BY <1>8 DEF FallbackStore, TypeOK, Advances, Advance
<1>9. CASE AlignedReturn(t)
  BY <1>9 DEF AlignedReturn, TypeOK, Advances, Advance
<1>10. CASE Destroy(t)
  BY <1>10 DEF Destroy, TypeOK, Advances, Advance
<1>11. CASE DropExt(t)
  BY <1>11 DEF DropExt, TypeOK, Advances, Advance
<1>12. CASE pc[t] = "retry" /\ NewBlock(t)
  BY <1>12 DEF NewBlock, TypeOK, Advances, Advance
<1> QED BY <1>1, <1>2, <1>3, <1>4, <1>5, <1>6, <1>7, <1>8, <1>9, <1>10, <1>11, <1>12 DEF Work

(* An operation that a step of its thread begins was not under way, and the    *)
(* steps of the static destructors are of no operation.                      *)
LEMMA OthersStay ==
  ASSUME TypeOK, Control, [Next]_vars, NEW t \in Threads, pc[t] # "idle", ~Work(t)
  PROVE  pc'[t] = pc[t] /\ frame'[t] = frame[t]
<1>1. CASE UNCHANGED vars
  BY <1>1 DEF vars
<1>2. CASE \E u \in Threads : Work(u)
  <2>1. PICK u \in Threads : Work(u)
    BY <1>2
  <2>2. u # t
    BY <2>1
  <2> QED BY <2>1, <2>2, WorkAdvances DEF Advances
<1>3. CASE \E u \in Threads : Call(u)
  <2>1. PICK u \in Threads : Call(u)
    BY <1>3
  <2>2. pc[u] = "idle" \/ (pc[u] = "retry" /\ NewBlock(u))
    <3>1. CASE Construct(u) \/ NewFallback(u) \/ NewAligned(u) \/ Exit(u)
      BY <3>1 DEF Construct, NewFallback, NewAligned, Exit, AtRest
    <3>2. CASE NewBlock(u)
      BY <3>2 DEF NewBlock
    <3>3. CASE NewLarge(u) \/ Exhausted(u)
      BY <3>3 DEF NewLarge, Exhausted
    <3>4. CASE \E o \in held : Delete(u, o)
      BY <3>4 DEF Delete, AtRest
    <3> QED BY <2>1, <3>1, <3>2, <3>3, <3>4 DEF Call
  <2>3. u # t
    BY <2>2 DEF Work
  <2>4. CASE Construct(u) \/ NewBlock(u) \/ NewLarge(u) \/ Exhausted(u)
    BY <2>3, <2>4 DEF Construct, NewBlock, NewLarge, Exhausted, TypeOK
  <2>5. CASE NewFallback(u)
    <3>1. PICK f : frame' = [frame EXCEPT ![u] = f]
      BY <2>5 DEF NewFallback, FallbackBegin
    <3>2. pc' = [pc EXCEPT ![u] = "store"]
      BY <2>5 DEF NewFallback, FallbackBegin
    <3> QED BY <2>3, <3>1, <3>2 DEF TypeOK
  <2>6. CASE NewAligned(u)
    BY <2>3, <2>6 DEF NewAligned, TypeOK
  <2>7. CASE (\E o \in held : Delete(u, o)) \/ Exit(u)
    BY <2>3, <2>7 DEF Delete, Exit, TypeOK
  <2> QED BY <2>1, <2>4, <2>5, <2>6, <2>7 DEF Call
<1>4. CASE SetReady \/ FreeChunks
  BY <1>4 DEF SetReady, FreeChunks
<1>5. CASE \E name \in {"stash", "live", "retired", "chunks"} : DropShared(Shared(name))
  BY <1>5 DEF DropShared
<1> QED BY <1>1, <1>2, <1>3, <1>4, <1>5 DEF Next

LEMMA EachStepNearer ==
  ASSUME TypeOK, Control, [Next]_vars, NEW t \in Threads, pc[t] # "idle"
  PROVE  IF Work(t) THEN StepsLeft(t)' < StepsLeft(t) ELSE StepsLeft(t)' = StepsLeft(t)
<1>1. CASE Work(t)
  <2>1. Advance(t, pc[t], frame[t].vec, pc'[t], frame'[t].vec)
    BY <1>1, WorkAdvances DEF Advances
  <2>2. StepsFrom(t, pc'[t], frame'[t].vec) < StepsFrom(t, pc[t], frame[t].vec)
    BY <2>1, AdvanceShrinks
  <2> QED BY <1>1, <2>2 DEF StepsLeft
<1>2. CASE ~Work(t)
  <2>1. pc'[t] = pc[t] /\ frame'[t] = frame[t]
    BY <1>2, OthersStay
  <2> QED BY <1>2, <2>1 DEF StepsLeft
<1> QED BY <1>1, <1>2

------------------------------------------------------------------------------
(* Who holds a mutex is inside the push_back that it is for, and a thread      *)
(* that links a chunk, or has linked it, has a block to hand out.            *)
Locks == /\ mutex["registry"] # NULL => frame[mutex["registry"]].vec \in {Shared("live"), Shared("retired")}
         /\ mutex["central"] # NULL => frame[mutex["central"]].vec = Shared("chunks")
Supplied == \A t \in Threads : frame[t].vec = Ext(t) \/ pc[t] = "retry" => free[t] # {}

(* A step that locks and unlocks nothing, and leaves every push_back to a      *)
(* guarded vector where it was.                                             *)
Guarding(v) == v \in {Shared("live"), Shared("retired"), Shared("chunks")}
LEMMA LocksKept ==
  ASSUME TypeOK, Locks, mutex' = mutex,
         \A u \in Threads : Guarding(frame[u].vec) => frame'[u].vec = frame[u].vec
  PROVE  Locks'
<1>1. mutex["registry"] \in Threads \cup {NULL} /\ mutex["central"] \in Threads \cup {NULL}
  BY DEF TypeOK
<1>2. mutex["registry"] # NULL => frame'[mutex["registry"]].vec \in {Shared("live"), Shared("retired")}
  BY <1>1 DEF Locks, Guarding
<1>3. mutex["central"] # NULL => frame'[mutex["central"]].vec = Shared("chunks")
  BY <1>1 DEF Locks, Guarding
<1> QED BY <1>2, <1>3 DEF Locks

LEMMA SuppliedKept ==
  ASSUME Supplied, NEW t \in Threads,
         \A u \in Threads \ {t} : pc'[u] = pc[u] /\ frame'[u] = frame[u] /\ free'[u] = free[u],
         frame'[t].vec = Ext(t) \/ pc'[t] = "retry" => free'[t] # {}
  PROVE  Supplied'
BY DEF Supplied

(* What a delete does to the free lists: at most a block more. *)
LEMMA DeleteFrees ==
  ASSUME TypeOK, NEW t \in Threads, NEW o, DoDelete(t, o)
  PROVE  \A u \in Threads : free[u] \subseteq free'[u] /\ (u # t => free'[u] = free[u])
BY DEF DoDelete, Unstash, TypeOK

LEMMA PushedProgress ==
  ASSUME TypeOK, Control, Locks, Supplied, NEW t \in Threads, pc[t] \in {"push", "drop"}, Pushed(t),
         frame' = [frame EXCEPT ![t] = NoFrame],
         \A u \in Threads : free[u] \subseteq free'[u] /\ (u # t => free'[u] = free[u])
  PROVE  Locks' /\ Supplied'
<1>1. frame'[t] = NoFrame /\ \A u \in Threads \ {t} : frame'[u] = frame[u] /\ pc'[u] = pc[u]
  BY PushedAdvances DEF TypeOK, Advances
<1>2. NoFrame.vec = NULL /\ Ext(t) # NULL
  BY VectorFacts DEF NoFrame
<1>3. pc'[t] = "retry" => frame[t].vec = Ext(t)
  BY DEF Pushed, Registered, Retired, Acquired, Linked, Stashed, TypeOK
<1>4. Supplied'
  <2>1. pc'[t] = "retry" => free'[t] # {}
    BY <1>3 DEF Supplied
  <2> QED BY <1>1, <1>2, <2>1, SuppliedKept
<1>5. Locks'
  <2>1. CASE frame[t].vec \in {Shared("live"), Shared("retired")}
    <3>1. mutex' = [mutex EXCEPT !["registry"] = NULL]
      BY <2>1, VectorFacts DEF Pushed, Registered, Retired, Acquired, Linked, Stashed
    <3>2. mutex'["registry"] = NULL /\ mutex'["central"] = mutex["central"]
      BY <3>1 DEF TypeOK
    <3>3. mutex["central"] # NULL => mutex["central"] \in Threads \ {t}
      BY <2>1, VectorFacts DEF TypeOK, Locks
    <3> QED BY <1>1, <3>2, <3>3 DEF Locks
  <2>2. CASE frame[t].vec = Shared("chunks")
    <3>1. mutex' = [mutex EXCEPT !["central"] = NULL]
      BY <2>2, VectorFacts DEF Pushed, Registered, Retired, Acquired, Linked, Stashed
    <3>2. mutex'["central"] = NULL /\ mutex'["registry"] = mutex["registry"]
      BY <3>1 DEF TypeOK
    <3>3. mutex["registry"] # NULL => mutex["registry"] \in Threads \ {t}
      BY <2>2, VectorFacts DEF TypeOK, Locks
    <3> QED BY <1>1, <3>2, <3>3 DEF Locks
  <2>3. CASE frame[t].vec \in {Ext(t), Shared("stash")}
    <3>1. mutex' = mutex /\ ~Guarding(frame[t].vec)
      BY <2>3, VectorFacts DEF Pushed, Registered, Retired, Acquired, Linked, Stashed, Guarding
    <3> QED BY <1>1, <3>1, LocksKept
  <2> QED BY <2>1, <2>2, <2>3 DEF Pushed
<1> QED BY <1>4, <1>5

(* A step of t that is neither at a mutex nor in a push_back to a guarded      *)
(* vector, and leaves the free lists.                                       *)
LEMMA PlainProgress ==
  ASSUME TypeOK, Locks, Supplied, NEW t \in Threads, mutex' = mutex,
         \A u \in Threads \ {t} : pc'[u] = pc[u] /\ frame'[u] = frame[u] /\ free'[u] = free[u],
         frame'[t].vec = frame[t].vec \/ ~Guarding(frame[t].vec),
         frame'[t].vec = Ext(t) \/ pc'[t] = "retry" => free'[t] # {}
  PROVE  Locks' /\ Supplied'
<1>1. \A u \in Threads : Guarding(frame[u].vec) => frame'[u].vec = frame[u].vec
  OBVIOUS
<1> QED BY <1>1, LocksKept, SuppliedKept

LEMMA WorkProgress ==
  ASSUME TypeOK, Control, Locks, Supplied, NEW t \in Threads, Work(t)
  PROVE  Locks' /\ Supplied'
<1>0. \A u \in Threads \ {t} : pc'[u] = pc[u] /\ frame'[u] = frame[u]
  BY WorkAdvances DEF Advances
<1>a. pc[t] \notin Growing => frame[t].vec = NULL /\ ~Guarding(frame[t].vec)
  BY VectorFacts, NoFrameFacts DEF Control, FrameOK, Guarding
<1>b. NoFrame.vec = NULL /\ Ext(t) # NULL
  BY VectorFacts DEF NoFrame
<1>1. CASE LockRegistry(t)
  <2>1. /\ pc[t] \in {"register", "retire"} /\ mutex["registry"] = NULL
        /\ mutex' = [mutex EXCEPT !["registry"] = t] /\ pc' = [pc EXCEPT ![t] = "push"]
        /\ frame' = [frame EXCEPT ![t] = FrameOf(Shared(IF pc[t] = "register" THEN "live" ELSE "retired"))]
        /\ free' = free
    BY <1>1 DEF LockRegistry, allocVars
  <2>2. frame'[t].vec \in {Shared("live"), Shared("retired")} /\ pc'[t] = "push"
    BY <2>1 DEF TypeOK, FrameOf, NoFrame
  <2>3. mutex'["registry"] = t /\ mutex'["central"] = mutex["central"]
    BY <2>1 DEF TypeOK
  <2>4. mutex["central"] # NULL => mutex["central"] \in Threads \ {t}
    BY <1>a, <2>1, VectorFacts DEF TypeOK, Locks, Growing, Guarding
  <2>5. Locks'
    BY <1>0, <2>2, <2>3, <2>4 DEF Locks
  <2>6. Supplied'
    BY <1>0, <2>1, <2>2, VectorFacts, SuppliedKept
  <2> QED BY <2>5, <2>6
<1>2. CASE AcquireChunk(t)
  <2>1. /\ pc[t] = "refill" /\ mutex["central"] = NULL
        /\ mutex' = [mutex EXCEPT !["central"] = t] /\ pc' = [pc EXCEPT ![t] = "push"]
        /\ frame' = [frame EXCEPT ![t] = FrameOf(Shared("chunks"))] /\ free' = free
    BY <1>2 DEF AcquireChunk
  <2>2. frame'[t].vec = Shared("chunks") /\ pc'[t] = "push"
    BY <2>1 DEF TypeOK, FrameOf, NoFrame
  <2>3. mutex'["central"] = t /\ mutex'["registry"] = mutex["registry"]
    BY <2>1 DEF TypeOK
  <2>4. mutex["registry"] # NULL => mutex["registry"] \in Threads \ {t}
    BY <1>a, <2>1, VectorFacts DEF TypeOK, Locks, Growing, Guarding
  <2>5. Locks'
    BY <1>0, <2>2, <2>3, <2>4 DEF Locks
  <2>6. Supplied'
    BY <1>0, <2>1, <2>2, VectorFacts, SuppliedKept
  <2> QED BY <2>5, <2>6
<1>3. CASE PushInPlace(t)
  <2>1. pc[t] = "push" /\ Pushed(t) /\ frame' = [frame EXCEPT ![t] = NoFrame] /\ free' = free
    BY <1>3 DEF PushInPlace
  <2> QED BY <2>1, PushedProgress
<1>4. CASE Grow(t)
  <2>1. PICK r : frame' = [frame EXCEPT ![t] = [frame[t] EXCEPT !.new = r, !.next = recs]]
    BY <1>4 DEF Grow, FallbackBegin
  <2>2. mutex' = mutex /\ free' = free /\ pc'[t] = "store"
    BY <1>4 DEF Grow, FallbackBegin, allocVars, sharedVars, TypeOK
  <2>3. frame'[t].vec = frame[t].vec
    BY <2>1 DEF TypeOK, FrameType
  <2>4. frame'[t].vec = Ext(t) \/ pc'[t] = "retry" => free'[t] # {}
    BY <2>2, <2>3 DEF Supplied
  <2> QED BY <1>0, <2>2, <2>3, <2>4, PlainProgress
<1>5. CASE GrowStore(t)
  <2>1. mutex' = mutex /\ free' = free /\ frame' = frame /\ pc'[t] = "drop"
    BY <1>5 DEF GrowStore, allocVars, sharedVars, TypeOK
  <2>2. frame'[t].vec = Ext(t) \/ pc'[t] = "retry" => free'[t] # {}
    BY <2>1 DEF Supplied
  <2> QED BY <1>0, <2>1, <2>2, PlainProgress
<1>6. CASE GrowDrop(t)
  <2>1. pc[t] = "drop" /\ Pushed(t) /\ frame' = [frame EXCEPT ![t] = NoFrame]
    BY <1>6 DEF GrowDrop
  <2>2. free' = free \/ DoDelete(t, Buffer(frame[t].old, t))
    BY <1>6 DEF GrowDrop
  <2>3. \A u \in Threads : free[u] \subseteq free'[u] /\ (u # t => free'[u] = free[u])
    BY <2>2, DeleteFrees
  <2> QED BY <2>1, <2>3, PushedProgress
<1>7. CASE AddExternalSlab(t)
  <2>1. pc[t] = "link" /\ mutex' = mutex /\ free' = [free EXCEPT ![t] = @ \cup BodyOf(fetched[t])]
    BY <1>7 DEF AddExternalSlab, sharedVars
  <2>2. <<fetched[t], 1>> \in BodyOf(fetched[t])
    BY NewDeleteAssumption DEF BodyOf
  <2>3. free'[t] # {} /\ \A u \in Threads \ {t} : free'[u] = free[u]
    BY <2>1, <2>2 DEF TypeOK
  <2> QED BY <1>0, <1>a, <2>1, <2>3, PlainProgress DEF Growing
<1>8. CASE FallbackStore(t)
  <2>1. /\ frame[t].vec = Client /\ frame' = [frame EXCEPT ![t] = NoFrame] /\ pc' = [pc EXCEPT ![t] = "idle"]
        /\ mutex' = mutex /\ free' = free
    BY <1>8 DEF FallbackStore, allocVars, sharedVars
  <2>2. ~Guarding(frame[t].vec)
    BY <2>1, VectorFacts DEF Guarding
  <2>3. frame'[t] = NoFrame /\ pc'[t] = "idle"
    BY <2>1 DEF TypeOK
  <2> QED BY <1>0, <1>b, <2>1, <2>2, <2>3, PlainProgress
<1>9. CASE AlignedReturn(t) \/ DropExt(t) \/ (pc[t] = "retry" /\ NewBlock(t))
  <2>1. pc[t] \notin Growing /\ mutex' = mutex /\ frame' = frame /\ pc'[t] = "idle"
    BY <1>9 DEF AlignedReturn, DropExt, NewBlock, sharedVars, Growing, TypeOK
  <2>2. \A u \in Threads \ {t} : free'[u] = free[u]
    <3>1. CASE AlignedReturn(t)
      BY <3>1 DEF AlignedReturn
    <3>2. CASE DropExt(t)
      BY <3>2, DeleteFrees DEF DropExt
    <3>3. CASE NewBlock(t)
      BY <3>3 DEF NewBlock, TypeOK
    <3> QED BY <1>9, <3>1, <3>2, <3>3
  <2> QED BY <1>0, <1>a, <1>b, <2>1, <2>2, PlainProgress
<1>10. CASE Destroy(t)
  <2>1. /\ pc[t] = "destroy" /\ mutex' = mutex /\ frame' = frame /\ free' = [free EXCEPT ![t] = {}]
        /\ pc'[t] \in {"idle", "dropext"}
    BY <1>10 DEF Destroy, sharedVars, TypeOK
  <2>2. \A u \in Threads \ {t} : free'[u] = free[u]
    BY <2>1 DEF TypeOK
  <2> QED BY <1>0, <1>a, <1>b, <2>1, <2>2, PlainProgress DEF Growing
<1> QED BY <1>1, <1>2, <1>3, <1>4, <1>5, <1>6, <1>7, <1>8, <1>9, <1>10 DEF Work

LEMMA CallProgress ==
  ASSUME TypeOK, Control, Locks, Supplied, NEW t \in Threads, Call(t), pc[t] = "idle"
  PROVE  Locks' /\ Supplied'
<1>a. frame[t] = NoFrame /\ frame[t].vec = NULL /\ ~Guarding(frame[t].vec)
  BY VectorFacts, NoFrameFacts DEF Control, FrameOK, Guarding, Growing
<1>b. NoFrame.vec = NULL /\ Ext(t) # NULL
  BY VectorFacts DEF NoFrame
<1>1. CASE Construct(t) \/ NewBlock(t) \/ NewLarge(t) \/ Exhausted(t) \/ Exit(t)
  <2>1. /\ mutex' = mutex /\ frame' = frame /\ pc'[t] # "retry"
        /\ \A u \in Threads \ {t} : pc'[u] = pc[u]
    BY <1>1 DEF Construct, NewBlock, NewLarge, Exhausted, Exit, sharedVars, TypeOK
  <2>2. \A u \in Threads \ {t} : free'[u] = free[u]
    BY <1>1 DEF Construct, NewBlock, NewLarge, Exhausted, Exit, allocVars, TypeOK
  <2> QED BY <1>a, <1>b, <2>1, <2>2, PlainProgress
<1>2. CASE NewFallback(t)
  <2>1. PICK r : frame' = [frame EXCEPT ![t] = [FrameOf(Client) EXCEPT !.new = r, !.next = recs]]
    BY <1>2 DEF NewFallback, FallbackBegin
  <2>2. mutex' = mutex /\ free' = free /\ pc' = [pc EXCEPT ![t] = "store"]
    BY <1>2 DEF NewFallback, FallbackBegin, allocVars, sharedVars
  <2>3. frame'[t].vec = Client /\ pc'[t] = "store" /\ \A u \in Threads \ {t} : pc'[u] = pc[u] /\ frame'[u] = frame[u]
    BY <2>1, <2>2 DEF TypeOK, FrameOf, NoFrame
  <2> QED BY <1>a, <2>2, <2>3, VectorFacts, PlainProgress
<1>3. CASE NewAligned(t)
  <2>1. /\ mutex' = mutex /\ free' = free /\ pc' = [pc EXCEPT ![t] = "push"]
        /\ frame' = [frame EXCEPT ![t] = FrameOf(Shared("stash"))]
    BY <1>3 DEF NewAligned, sharedVars
  <2>2. frame'[t].vec = Shared("stash") /\ pc'[t] = "push"
        /\ \A u \in Threads \ {t} : pc'[u] = pc[u] /\ frame'[u] = frame[u]
    BY <2>1 DEF TypeOK, FrameOf, NoFrame
  <2> QED BY <1>a, <2>1, <2>2, VectorFacts, PlainProgress
<1>4. CASE \E o \in held : Delete(t, o)
  <2>1. PICK o \in held : Delete(t, o)
    BY <1>4
  <2>2. mutex' = mutex /\ frame' = frame /\ pc' = pc
    BY <2>1 DEF Delete, sharedVars
  <2>3. \A u \in Threads \ {t} : free'[u] = free[u]
    BY <2>1, DeleteFrees DEF Delete
  <2> QED BY <1>a, <1>b, <2>2, <2>3, PlainProgress
<1> QED BY <1>1, <1>2, <1>3, <1>4 DEF Call

LEMMA NextProgress ==
  ASSUME TypeOK, Control, Locks, Supplied, [Next]_vars
  PROVE  Locks' /\ Supplied'
<1>1. CASE UNCHANGED vars
  BY <1>1 DEF vars, sharedVars, allocVars, Locks, Supplied
<1>2. CASE \E t \in Threads : Work(t)
  BY <1>2, WorkProgress
<1>3. ASSUME NEW t \in Threads, Call(t), ~Work(t)
      PROVE  Locks' /\ Supplied'
  <2>1. pc[t] = "idle"
    <3>1. CASE Construct(t) \/ NewFallback(t) \/ NewAligned(t) \/ Exit(t)
      BY <3>1 DEF Construct, NewFallback, NewAligned, Exit, AtRest
    <3>2. CASE NewBlock(t)
      BY <1>3, <3>2 DEF NewBlock, Work
    <3>3. CASE NewLarge(t) \/ Exhausted(t)
      BY <3>3 DEF NewLarge, Exhausted
    <3>4. CASE \E o \in held : Delete(t, o)
      BY <3>4 DEF Delete, AtRest
    <3> QED BY <1>3, <3>1, <3>2, <3>3, <3>4 DEF Call
  <2> QED BY <1>3, <2>1, CallProgress
<1>4. CASE SetReady \/ FreeChunks
  BY <1>4 DEF SetReady, FreeChunks, allocVars, Locks, Supplied
<1>5. ASSUME NEW name \in {"stash", "live", "retired", "chunks"}, DropShared(Shared(name))
      PROVE  Locks' /\ Supplied'
  <2>1. mutex' = mutex /\ frame' = frame /\ pc' = pc
    BY <1>5 DEF DropShared
  <2>2. \A u \in Threads : free[u] \subseteq free'[u]
    BY <1>5, NewDeleteAssumption, DeleteFrees DEF DropShared
  <2>3. Supplied'
    BY <2>1, <2>2 DEF Supplied
  <2> QED BY <2>1, <2>3, LocksKept
<1> QED BY <1>1, <1>2, <1>3, <1>4, <1>5 DEF Next

LEMMA GoesOn ==
  ASSUME TypeOK, Control, Locks, Supplied
  PROVE  NeverStuck
<1> SUFFICES ASSUME Mallocable(heap) # {}, NEW t \in Threads, pc[t] # "idle"
             PROVE  \E u \in Threads : CanStep(u)
  BY DEF NeverStuck
<1>1. ASSUME NEW u \in Threads, pc[u] \in Growing
      PROVE  CanStep(u)
  <2>1. frame[u].vec \in Pushable(u) \/ pc[u] = "store"
    BY <1>1 DEF Control, FrameOK, Pushable
  <2> QED BY <1>1, <2>1 DEF Growing, CanStep
<1>2. ASSUME NEW u \in Threads, frame[u].vec \in {Shared("live"), Shared("retired"), Shared("chunks")}
      PROVE  CanStep(u)
  <2>1. pc[u] \in Growing
    BY <1>2, VectorFacts, NoFrameFacts DEF Control, FrameOK
  <2> QED BY <1>1, <2>1
<1>3. CASE pc[t] \in {"register", "retire"}
  <2>1. CASE mutex["registry"] = NULL
    BY <1>3, <2>1 DEF CanStep
  <2>2. CASE mutex["registry"] # NULL
    <3>1. mutex["registry"] \in Threads
      BY <2>2 DEF TypeOK
    <3> QED BY <1>2, <2>2, <3>1 DEF Locks
  <2> QED BY <2>1, <2>2
<1>4. CASE pc[t] = "refill"
  <2>1. CASE mutex["central"] = NULL
    BY <1>4, <2>1 DEF CanStep
  <2>2. CASE mutex["central"] # NULL
    <3>1. mutex["central"] \in Threads
      BY <2>2 DEF TypeOK
    <3> QED BY <1>2, <2>2, <3>1 DEF Locks
  <2> QED BY <2>1, <2>2
<1>5. CASE pc[t] = "retry"
  <2>1. tls[t] = "live" /\ ready
    BY <1>5 DEF Control, PhaseOK, Refilling
  <2>2. Running(t)
    BY <1>5, <2>1 DEF Control, Lifetimes, Running
  <2>3. free[t] # {}
    BY <1>5 DEF Supplied
  <2> QED BY <1>5, <2>1, <2>2, <2>3 DEF CanStep, Served
<1>6. CASE pc[t] \in Growing
  BY <1>1, <1>6
<1>7. CASE pc[t] \in {"link", "stashed", "destroy", "dropext"}
  BY <1>7 DEF CanStep
<1> QED BY <1>3, <1>4, <1>5, <1>6, <1>7 DEF TypeOK, Growing

LEMMA ProgressAlways == Spec => [](Locks /\ Supplied)
<1>1. Init => Locks /\ Supplied
  BY VectorFacts DEF Init, Locks, Supplied, NoFrame
<1>2. IInv /\ Locks /\ Supplied /\ [Next]_vars => (Locks /\ Supplied)'
  BY NextProgress DEF IInv
<1> QED BY <1>1, <1>2, Inductive, PTL DEF Spec

(* For any number of threads: as long as malloc has memory, one of the          *)
(* operations under way can go on.                                          *)
THEOREM NeverGetsStuck == Spec => []NeverStuck
<1>1. IInv /\ Locks /\ Supplied => NeverStuck
  BY GoesOn DEF IInv
<1> QED BY <1>1, Inductive, ProgressAlways, PTL

(* For any number of threads: each step of an operation brings it nearer to its *)
(* end, no step of another thread puts it back, and after every step one can  *)
(* go on while malloc has memory.  What the scheduler owes the operations     *)
(* beyond that is the fairness of OperationsEnd.                            *)
THEOREM OperationsAlwaysAdvance == Spec => OperationsAdvance
<1>1. IInv /\ [Next]_vars => [NearerToItsEnd]_vars
  BY EachStepNearer DEF IInv, NearerToItsEnd
<1> QED BY <1>1, Inductive, NeverGetsStuck, PTL DEF Spec, OperationsAdvance
==============================================================================
