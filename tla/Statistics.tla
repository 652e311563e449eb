----------------------------- MODULE Statistics -----------------------------
(***************************************************************************)
(* include/stats.hpp: the Stats of each thread's allocator, which only that *)
(* thread writes, the registry of them, and its two readers on another      *)
(* thread, global_stats and for_each_live.                                  *)
(*                                                                         *)
(* The fields of Stats are plain words: the owner takes no lock to write    *)
(* them, and the compiler may emit the stores of one record_alloc in any    *)
(* order: a call leaves a set of fields yet to be stored.  global_stats     *)
(* loads the fields of one Stats one by one, in the order of the source: as *)
(* the stores come in every order, every order of a store and a load is     *)
(* reached.  The registry's mutex is held by a reader from its first step   *)
(* to its last; registration and retirement hold it for one step.           *)
(*                                                                         *)
(* A Stats object is named by its address: when a thread exits, another     *)
(* that starts later may have its allocator at the same one.                *)
(***************************************************************************)
EXTENDS Naturals, SequencesExt

CONSTANTS Addresses,   \* where the allocators of threads can be
          Blocks,      \* what a pool hands out: <<bytes asked for, size class>>
          Large,       \* what the arena hands out: <<bytes asked for, bytes used>>
          MaxThreads,  \* bound: allocators constructed
          MaxRecords,  \* bound: calls of record_alloc and record_free
          NULL

ASSUME StatisticsAssumption ==
  /\ Blocks \subseteq Nat \X Nat /\ Large \subseteq Nat \X Nat
  /\ \A b \in Blocks \cup Large : b[1] <= b[2]
  /\ MaxThreads \in Nat /\ MaxRecords \in Nat
  /\ NULL \notin Addresses

VARIABLES
  stats,     \* per address: the public fields of the Stats there
  live_,     \* per address: its private field
  pending,   \* per address: the call its thread is in, and the fields it has yet to store
  live, live_allocators, retired,   \* the registry's vectors
  visit,     \* the reader that holds the registry's mutex: its index and the object it is at
  running,   \* history: addresses with an allocator alive
  held,      \* history: blocks each thread can give back
  recorded,  \* history: the totals of everything stored so far
  asked,     \* history: what they were when the global_stats under way began
  threads, records   \* how often the bounded actions were taken

registryVars == <<live, live_allocators, retired, running, threads>>
ownerVars    == <<stats, live_, pending, held, recorded, records>>
readerVars   == <<visit, asked>>
vars == <<registryVars, ownerVars, readerVars>>

LoadOrder == <<"requested", "allocated", "alloc_count", "free_count", "peak_allocated">>
Fields == {LoadOrder[i] : i \in 1 .. 5}
Zero   == [f \in Fields |-> 0]

Idle        == [op |-> "none", n |-> 0, got |-> 0, todo |-> {}]
NotVisiting == [op |-> "none", at |-> 0, obj |-> NULL, field |-> 1, total |-> Zero]
Unlocked    == visit = NotVisiting

Init == /\ stats = [a \in Addresses |-> Zero]
        /\ live_ = [a \in Addresses |-> 0]
        /\ pending = [a \in Addresses |-> Idle]
        /\ held = [a \in Addresses |-> [b \in Blocks |-> 0]]
        /\ live = <<>> /\ live_allocators = <<>> /\ retired = <<>>
        /\ visit = NotVisiting
        /\ running = {}
        /\ recorded = Zero /\ asked = Zero
        /\ threads = 0 /\ records = 0
------------------------------------------------------------------------------
(* ThreadPoolAlloc() with register_stats. *)
Register(a) == /\ a \notin running /\ threads < MaxThreads
               /\ Unlocked
               /\ stats' = [stats EXCEPT ![a] = Zero]
               /\ live_' = [live_ EXCEPT ![a] = 0]
               /\ held' = [held EXCEPT ![a] = [b \in Blocks |-> 0]]
               /\ live' = Append(live, a)
               /\ live_allocators' = Append(live_allocators, a)
               /\ running' = running \cup {a}
               /\ threads' = threads + 1
               /\ UNCHANGED <<retired, pending, recorded, records, readerVars>>

(* Mutated forms: the last allocator of the list goes; no mutex is taken.     *)
RetireLastAllocator(a) ==
  /\ a \in running /\ pending[a] = Idle
  /\ Unlocked
  /\ retired' = Append(retired, stats[a])
  /\ live' = Remove(live, a)
  /\ live_allocators' = Front(live_allocators)
  /\ running' = running \ {a}
  /\ UNCHANGED <<threads, ownerVars, readerVars>>

RetireUnlocked(a) ==
  /\ a \in running /\ pending[a] = Idle
  /\ retired' = Append(retired, stats[a])
  /\ \E i \in 1 .. Len(live) :
       /\ live[i] = a /\ \A j \in 1 .. i - 1 : live[j] # a
       /\ live' = RemoveAt(live, i)
       /\ live_allocators' = RemoveAt(live_allocators, i)
  /\ running' = running \ {a}
  /\ UNCHANGED <<threads, ownerVars, readerVars>>

(* ~ThreadPoolAlloc with retire_stats; the members are destroyed after it.    *)
Retire(a) == /\ a \in running /\ pending[a] = Idle
             /\ Unlocked
             /\ retired' = Append(retired, stats[a])
             /\ \E i \in 1 .. Len(live) :
                  /\ live[i] = a /\ \A j \in 1 .. i - 1 : live[j] # a
                  /\ live' = RemoveAt(live, i)
                  /\ live_allocators' = RemoveAt(live_allocators, i)
             /\ running' = running \ {a}
             /\ UNCHANGED <<threads, ownerVars, readerVars>>
------------------------------------------------------------------------------
(* record_alloc(n, got) and record_free(n, got), up to the first store to a   *)
(* field that others read.                                                  *)
Begin(a, call) == /\ a \in running /\ pending[a] = Idle /\ records < MaxRecords
                  /\ pending' = [pending EXCEPT ![a] = call]
                  /\ records' = records + 1
                  /\ UNCHANGED <<stats, recorded, registryVars, readerVars>>

(* Mutated form: live_ counts what was asked for. *)
RecordAllocAsked(a, b) ==
  /\ Begin(a, [op |-> "alloc", n |-> b[1], got |-> b[2], todo |-> Fields \ {"free_count"}])
  /\ live_' = [live_ EXCEPT ![a] = @ + b[1]]
  /\ held' = [held EXCEPT ![a] = [x \in Blocks |-> IF x = b THEN @[x] + 1 ELSE @[x]]]

RecordAlloc(a, b) ==
  /\ Begin(a, [op |-> "alloc", n |-> b[1], got |-> b[2], todo |-> Fields \ {"free_count"}])
  /\ live_' = [live_ EXCEPT ![a] = @ + b[2]]
  /\ held' = [held EXCEPT ![a] = [x \in Blocks |-> IF x = b THEN @[x] + 1 ELSE @[x]]]

(* n is what deallocate() is told: the size asked for, or, from do_delete,    *)
(* the class.  Frees of large objects are not recorded.                     *)
RecordFree(a, b, n) ==
  /\ held[a][b] > 0
  /\ Begin(a, [op |-> "free", n |-> n, got |-> b[2],
               todo |-> {"requested", "allocated", "free_count"}])
  /\ live_' = [live_ EXCEPT ![a] = @ - b[2]]
  /\ held' = [held EXCEPT ![a][b] = @ - 1]

(* What a call makes of a field that holds v, when live_ is l. *)
Updated(call, f, v, l) == CASE f = "requested"      -> v + call.n
                            [] f = "allocated"      -> v + call.got
                            [] f = "peak_allocated" -> IF l > v THEN l ELSE v
                            [] OTHER                -> v + 1

(* One of its stores. *)
Store(a, f) ==
  /\ f \in pending[a].todo
  /\ stats' = [stats EXCEPT ![a][f] = Updated(pending[a], f, @, live_[a])]
  /\ recorded' = [recorded EXCEPT ![f] = Updated(pending[a], f, @, live_[a])]
  /\ pending' = [pending EXCEPT ![a] = IF @.todo = {f} THEN Idle
                                       ELSE [pending[a] EXCEPT !.todo = @ \ {f}]]
  /\ UNCHANGED <<live_, held, records, registryVars, readerVars>>
------------------------------------------------------------------------------
(* The lambda `add' of global_stats. *)
Plus(s, t) == [f \in Fields |-> IF f = "peak_allocated" THEN Max({s[f], t[f]}) ELSE s[f] + t[f]]

(* What a loop over vector v is at in its i-th round; NULL after the last.   *)
ObjectAt(v, i) == IF i \in DOMAIN v THEN v[i] ELSE NULL

SumBegin == /\ Unlocked
            /\ visit' = [NotVisiting EXCEPT !.op = "sum", !.at = 1, !.obj = ObjectAt(live, 1)]
            /\ asked' = recorded
            /\ UNCHANGED <<registryVars, ownerVars>>

(* global_stats() adds the next field of the Stats it is at. *)
Load == /\ visit.op = "sum" /\ visit.obj # NULL
        /\ LET f    == LoadOrder[visit.field]
               last == visit.field = 5
               at   == IF last THEN visit.at + 1 ELSE visit.at
           IN visit' = [op |-> "sum", at |-> at,
                        obj |-> IF last THEN ObjectAt(live, at) ELSE visit.obj,
                        field |-> (visit.field % 5) + 1,
                        total |-> [visit.total EXCEPT ![f] = Plus(visit.total, stats[visit.obj])[f]]]
        /\ UNCHANGED <<registryVars, ownerVars, asked>>

(* Mutated form: the retired are forgotten. *)
SumLiveOnly == /\ visit.op = "sum" /\ visit.obj = NULL
               /\ visit' = [visit EXCEPT !.op = "return"]
               /\ UNCHANGED <<registryVars, ownerVars, asked>>

(* ... and after the last live one, the retired, which nobody writes.         *)
SumRetired == /\ visit.op = "sum" /\ visit.obj = NULL
              /\ visit' = [visit EXCEPT !.op = "return", !.total = FoldLeft(Plus, @, retired)]
              /\ UNCHANGED <<registryVars, ownerVars, asked>>

(* The total is returned and the mutex given back. *)
SumReturn == /\ visit.op = "return"
             /\ visit' = NotVisiting
             /\ asked' = Zero
             /\ UNCHANGED <<registryVars, ownerVars>>

(* for_each_live(fn): fn is given the live allocators one after the other and *)
(* reads them; it does not call the registry.                               *)
EachBegin == /\ Unlocked
             /\ visit' = [NotVisiting EXCEPT !.op = "each", !.at = 1, !.obj = ObjectAt(live_allocators, 1)]
             /\ UNCHANGED <<registryVars, ownerVars, asked>>

EachNext == /\ visit.op = "each"
            /\ visit' = IF visit.obj = NULL THEN NotVisiting
                        ELSE [visit EXCEPT !.at = @ + 1, !.obj = ObjectAt(live_allocators, visit.at + 1)]
            /\ UNCHANGED <<registryVars, ownerVars, asked>>

Next == \/ \E a \in Addresses : Register(a) \/ Retire(a)
        \/ \E a \in Addresses, b \in Blocks \cup Large : RecordAlloc(a, b)
        \/ \E a \in Addresses, b \in Blocks : \E n \in {b[1], b[2]} : RecordFree(a, b, n)
        \/ \E a \in Addresses, f \in Fields : Store(a, f)
        \/ SumBegin \/ Load \/ SumRetired \/ SumReturn
        \/ EachBegin \/ EachNext

Spec == Init /\ [][Next]_vars
------------------------------------------------------------------------------
(* Every variable has its type. *)
Totals == [Fields -> Nat]
TypeOK ==
  /\ stats \in [Addresses -> Totals]
  /\ live_ \in [Addresses -> Nat]
  /\ pending \in [Addresses -> [op : {"none", "alloc", "free"}, n : Nat, got : Nat, todo : SUBSET Fields]]
  /\ held \in [Addresses -> [Blocks -> Nat]]
  /\ live \in Seq(Addresses) /\ live_allocators \in Seq(Addresses) /\ retired \in Seq(Totals)
  /\ visit \in [op : {"none", "sum", "return", "each"}, at : Nat, obj : Addresses \cup {NULL},
                field : 1 .. 5, total : Totals]
  /\ running \subseteq Addresses
  /\ recorded \in Totals /\ asked \in Totals
  /\ threads \in Nat /\ records \in Nat

(* The two vectors of the registry run in parallel and list every allocator   *)
(* alive exactly once and no other, so that erasing at one index in both      *)
(* takes out what belongs together, also when an address is used again.     *)
RegistryExact ==
  /\ live = live_allocators
  /\ \A i, j \in 1 .. Len(live) : live[i] = live[j] => i = j
  /\ {live[i] : i \in 1 .. Len(live)} = running

(* Whatever global_stats or a callback of for_each_live has its hands on is   *)
(* alive: no thread's allocator goes while a reader is at it.               *)
VisitedIsAlive == visit.obj # NULL => visit.obj \in running

(* global_stats promises totals that are at worst slightly stale: each field  *)
(* lies between its true values at the call and at the return, however the    *)
(* owners' stores and the threads' exits fall between its loads; nothing is   *)
(* counted twice or lost when a thread retires.                             *)
Returned == IF visit.op = "return" THEN visit.total ELSE Zero
Abstract == INSTANCE RunningTotals WITH now <- recorded, answer <- Returned
SlightlyStale == Abstract!Spec
==============================================================================
