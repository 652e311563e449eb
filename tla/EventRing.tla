------------------------------ MODULE EventRing ------------------------------
(***************************************************************************)
(* viz::EventRing of include/viz_hook.hpp: the last kCapacity allocator     *)
(* events.  push() and each pass of the two readers hold mutex_ throughout, *)
(* so each is one step; between the two passes of a reader, which is where  *)
(* its vector is allocated, any number of pushes can come.                 *)
(*                                                                         *)
(* What an event says plays no part: events are numbered as they are        *)
(* pushed, 1, 2, ..., and 0 is a slot never written.                       *)
(***************************************************************************)
EXTENDS Integers, Sequences

CONSTANTS kCapacity,  \* slots of the ring (65536)
          Readers,    \* threads that take snapshots
          MaxCounts,  \* values of max_count given to snapshot_tail
          MaxPushes   \* bound: events pushed

ASSUME RingAssumption ==
  kCapacity \in Nat \ {0} /\ MaxPushes \in Nat /\ MaxCounts \subseteq Nat

VARIABLES buf, head, count,  \* buf_, head_, count_
          pushed,  \* history: events pushed so far, so also the number of the latest
          pass,    \* per reader: what its first pass has found, or NotReading
          out      \* per reader: the vector last returned

vars == <<buf, head, count, pushed, pass, out>>

Slots == 0 .. kCapacity - 1
Least(a, b) == IF a < b THEN a ELSE b

(* The slot of the oldest event, computed in the same way in every pass. *)
Start == IF count < kCapacity THEN 0 ELSE head

Ops        == {"none", "snapshot", "tail"}
NotReading == [op |-> "none", n |-> 0, start |-> 0, seen |-> 0]

Init == /\ buf = [s \in Slots |-> 0]
        /\ head = 0 /\ count = 0 /\ pushed = 0
        /\ pass = [r \in Readers |-> NotReading]
        /\ out = [r \in Readers |-> <<>>]

(* Mutated form: a ring that is full is never overwritten. *)
PushUntilFull == /\ pushed < MaxPushes
                 /\ buf' = IF count < kCapacity THEN [buf EXCEPT ![head] = pushed + 1] ELSE buf
                 /\ head' = (head + 1) % kCapacity
                 /\ count' = IF count < kCapacity THEN count + 1 ELSE count
                 /\ pushed' = pushed + 1
                 /\ UNCHANGED <<pass, out>>

(* Mutated form: every push counts. *)
PushUncapped == /\ pushed < MaxPushes
                /\ buf' = [buf EXCEPT ![head] = pushed + 1]
                /\ head' = (head + 1) % kCapacity
                /\ count' = count + 1
                /\ pushed' = pushed + 1
                /\ UNCHANGED <<pass, out>>

(* push(): overwrites the oldest event when full. *)
Push == /\ pushed < MaxPushes
        /\ buf' = [buf EXCEPT ![head] = pushed + 1]
        /\ head' = (head + 1) % kCapacity
        /\ count' = IF count < kCapacity THEN count + 1 ELSE count
        /\ pushed' = pushed + 1
        /\ UNCHANGED <<pass, out>>

Copy(from, n) == [i \in 1 .. n |-> buf[(from + i - 1) % kCapacity]]

(* snapshot(): first pass.  `seen' is history. *)
SnapshotBegin(r) ==
  /\ pass[r] = NotReading
  /\ pass' = [pass EXCEPT ![r] = [op |-> "snapshot", n |-> count, start |-> Start, seen |-> pushed]]
  /\ UNCHANGED <<buf, head, count, pushed, out>>

(* Mutated form: the ring is read from slot 0. *)
SnapshotFromZero(r) ==
  /\ pass[r].op = "snapshot"
  /\ out' = [out EXCEPT ![r] = Copy(0, Least(pass[r].n, count))]
  /\ pass' = [pass EXCEPT ![r] = NotReading]
  /\ UNCHANGED <<buf, head, count, pushed>>

(* ... second pass: n and start are what the first one found.              *)
SnapshotCopy(r) ==
  /\ pass[r].op = "snapshot"
  /\ out' = [out EXCEPT ![r] = Copy(pass[r].start, Least(pass[r].n, count))]
  /\ pass' = [pass EXCEPT ![r] = NotReading]
  /\ UNCHANGED <<buf, head, count, pushed>>

(* snapshot_tail(max_count): first pass; its start is not used again. *)
TailBegin(r, max) ==
  /\ pass[r] = NotReading
  /\ pass' = [pass EXCEPT ![r] = [op |-> "tail", n |-> Least(count, max), start |-> Start, seen |-> pushed]]
  /\ UNCHANGED <<buf, head, count, pushed, out>>

(* Mutated form: the start of the first pass is used. *)
TailFromStaleStart(r) ==
  /\ pass[r].op = "tail"
  /\ LET take == Least(pass[r].n, count)
     IN out' = [out EXCEPT ![r] = Copy(pass[r].start + count - take, take)]
  /\ pass' = [pass EXCEPT ![r] = NotReading]
  /\ UNCHANGED <<buf, head, count, pushed>>

(* ... second pass: the boundary is computed afresh. *)
TailCopy(r) ==
  /\ pass[r].op = "tail"
  /\ LET take == Least(pass[r].n, count)
     IN out' = [out EXCEPT ![r] = Copy(Start + count - take, take)]
  /\ pass' = [pass EXCEPT ![r] = NotReading]
  /\ UNCHANGED <<buf, head, count, pushed>>

Next == \/ Push
        \/ \E r \in Readers : SnapshotBegin(r) \/ SnapshotCopy(r) \/ TailCopy(r)
        \/ \E r \in Readers, max \in MaxCounts : TailBegin(r, max)

Spec == Init /\ [][Next]_vars
------------------------------------------------------------------------------
(* Every variable has its type. *)
TypeOK == /\ buf \in [Slots -> Nat]
          /\ head \in Slots
          /\ count \in 0 .. kCapacity
          /\ pushed \in Nat
          /\ pass \in [Readers -> [op : Ops, n : 0 .. kCapacity, start : Slots, seen : Nat]]
          /\ out \in [Readers -> Seq(Nat)]

(* From Start on, around the end of the array, the ring holds the latest     *)
(* events in the order of their push; it has lost only what did not fit.     *)
RingHoldsLatest ==
  /\ count = Least(pushed, kCapacity)
  /\ \A i \in 0 .. count - 1 : buf[(Start + i) % kCapacity] = pushed - count + 1 + i

Consecutive(s) == \A i \in 1 .. Len(s) - 1 : s[i + 1] = s[i] + 1

(* snapshot_tail() returns the most recent events of the moment of its copy,  *)
(* oldest first and without a gap, whatever was pushed since its first pass. *)
TailIsLatest ==
  [][\A r \in Readers : TailCopy(r) =>
       /\ Consecutive(out'[r])
       /\ out'[r] # <<>> => out'[r][Len(out'[r])] = pushed
       /\ Len(out'[r]) >= pass[r].n]_vars

(* snapshot() is exact as long as nothing is pushed between its two passes.   *)
QuietSnapshotIsExact ==
  [][\A r \in Readers : SnapshotCopy(r) /\ pass[r].seen = pushed =>
       out'[r] = [i \in 1 .. count |-> pushed - count + i]]_vars
==============================================================================
