-------------------------- MODULE Visualiser_proofs --------------------------
(***************************************************************************)
(* Theorems about EventRing for every capacity, every set of readers and    *)
(* every max_count: the ring always holds the latest events in order, a     *)
(* tail is always the latest ones at the moment of its copy, and a          *)
(* snapshot during which nothing is pushed is exact.                        *)
(*                                                                          *)
(* RingHoldsLatest says where the events are, not where the next one goes:  *)
(* HeadFollows adds that head is behind the last event before the ring has  *)
(* filled, and PassSound what a reader between its passes still knows.      *)
(***************************************************************************)
EXTENDS Visualiser, SequenceTheorems, TLAPS

HeadFollows == count < kCapacity => head = count

PassSound ==
  \A r \in Readers : /\ pass[r].n <= count
                     /\ pass[r].seen <= pushed
                     /\ pass[r].op = "snapshot" /\ pass[r].seen = pushed =>
                          pass[r].n = count /\ pass[r].start = Start

IInv == TypeOK /\ RingHoldsLatest /\ HeadFollows /\ PassSound

(* One trip around the ring is all an index is ever beyond its end. *)
LEMMA Wrap ==
  ASSUME NEW x \in Nat, x < 2 * kCapacity
  PROVE  x % kCapacity = IF x < kCapacity THEN x ELSE x - kCapacity
<1>1. kCapacity \in Nat \ {0}
  BY RingAssumption
<1>2. CASE x < kCapacity
  BY <1>1, <1>2, SMT
<1>3. CASE x >= kCapacity
  BY <1>1, <1>3, SMT
<1> QED BY <1>1, <1>2, <1>3

(* What Copy returns: so many values, each from the slot the index wraps to. *)
LEMMA CopyProperties ==
  ASSUME TypeOK, NEW from \in Nat, NEW n \in 0 .. kCapacity
  PROVE  /\ Copy(from, n) \in Seq(Nat)
         /\ Len(Copy(from, n)) = n
         /\ \A i \in 1 .. n : Copy(from, n)[i] = buf[(from + i - 1) % kCapacity]
<1>1. kCapacity \in Nat \ {0} /\ n \in Nat
  BY RingAssumption
<1>2. ASSUME NEW i \in 1 .. n PROVE buf[(from + i - 1) % kCapacity] \in Nat
  <2>1. (from + i - 1) % kCapacity \in Slots
    BY <1>1, SMT DEF Slots
  <2> QED BY <2>1 DEF TypeOK
<1>3. Copy(from, n) \in [1 .. n -> Nat]
  BY <1>2 DEF Copy
<1>4. Copy(from, n) \in Seq(Nat)
  BY <1>1, <1>3, SeqDef
<1>5. Len(Copy(from, n)) = n
  BY <1>1, <1>3, <1>4, LenProperties
<1> QED BY <1>4, <1>5 DEF Copy

LEMMA StartProperties ==
  ASSUME TypeOK, HeadFollows
  PROVE  /\ Start \in Slots
         /\ count = kCapacity => Start = head
         /\ count < kCapacity => Start = 0 /\ head = count
BY RingAssumption DEF TypeOK, HeadFollows, Start, Slots

LEMMA InitIInv == Init => IInv
<1> SUFFICES ASSUME Init PROVE IInv
  OBVIOUS
<1>1. kCapacity \in Nat \ {0}
  BY RingAssumption
<1>2. TypeOK
  BY <1>1 DEF Init, TypeOK, Slots, NotReading, Ops
<1>3. RingHoldsLatest
  BY <1>1 DEF Init, RingHoldsLatest, Least
<1>4. HeadFollows /\ PassSound
  BY DEF Init, HeadFollows, PassSound, NotReading
<1> QED BY <1>2, <1>3, <1>4 DEF IInv

(* push(): the slot written is the one after the latest event, or the one of *)
(* the oldest when there is no other.                                       *)
LEMMA PushKeepsIInv == IInv /\ Push => IInv'
<1> SUFFICES ASSUME IInv, Push PROVE IInv'
  OBVIOUS
<1> DEFINE next == IF head + 1 < kCapacity THEN head + 1 ELSE 0
<1>1. /\ kCapacity \in Nat \ {0}
      /\ TypeOK /\ RingHoldsLatest /\ HeadFollows /\ PassSound
      /\ head \in 0 .. kCapacity - 1 /\ count \in 0 .. kCapacity /\ pushed \in Nat
      /\ buf \in [0 .. kCapacity - 1 -> Nat]
  BY RingAssumption DEF IInv, TypeOK, Slots
<1>2. head' = next
  <2>1. head + 1 \in Nat /\ head + 1 < 2 * kCapacity
    BY <1>1
  <2>2. (head + 1) % kCapacity = IF head + 1 < kCapacity THEN head + 1 ELSE (head + 1) - kCapacity
    BY <2>1, Wrap
  <2> QED BY <1>1, <2>2 DEF Push
<1>3. /\ buf' = [buf EXCEPT ![head] = pushed + 1]
      /\ count' = IF count < kCapacity THEN count + 1 ELSE count
      /\ pushed' = pushed + 1 /\ pass' = pass /\ out' = out
  BY DEF Push
<1>4. TypeOK'
  <2>1. head' \in Slots /\ count' \in 0 .. kCapacity /\ pushed' \in Nat /\ buf' \in [Slots -> Nat]
    BY <1>1, <1>2, <1>3 DEF Slots
  <2> QED BY <1>1, <1>3, <2>1 DEF TypeOK
<1>5. HeadFollows'
  BY <1>1, <1>2, <1>3 DEF HeadFollows
<1>6. PassSound'
  <2>1. ASSUME NEW r \in Readers
        PROVE  pass[r].n <= count' /\ pass[r].seen <= pushed' /\ pass[r].seen # pushed'
    <3>1. pass[r].n <= count /\ pass[r].seen <= pushed
      BY <1>1 DEF PassSound
    <3>2. pass[r].n \in Nat /\ pass[r].seen \in Nat
      BY <1>1 DEF TypeOK
    <3>3. count \in Nat /\ count' \in Nat /\ count <= count' /\ pushed \in Nat /\ pushed' = pushed + 1
      BY <1>1, <1>3
    <3> QED BY <3>1, <3>2, <3>3
  <2> QED BY <1>3, <2>1 DEF PassSound
<1>7. RingHoldsLatest'
  <2>1. count' = Least(pushed', kCapacity)
    BY <1>1, <1>3 DEF RingHoldsLatest, Least
  <2>2. ASSUME NEW i \in 0 .. count' - 1
        PROVE  buf'[(Start' + i) % kCapacity] = pushed' - count' + 1 + i
    <3>1. CASE count < kCapacity
      <4>1. Start' = 0 /\ Start = 0 /\ head = count /\ count' = count + 1
        BY <1>1, <1>2, <1>3, <3>1 DEF Start, HeadFollows
      <4>2. (Start' + i) % kCapacity = i /\ i \in 0 .. kCapacity - 1
        BY <1>1, <3>1, <4>1, Wrap
      <4>3. CASE i = count
        BY <1>1, <1>3, <4>1, <4>2, <4>3
      <4>4. CASE i < count
        <5>1. (Start + i) % kCapacity = i
          BY <4>1, <4>2
        <5>2. buf[i] = pushed - count + 1 + i
          <6>1. i \in 0 .. count - 1
            BY <1>1, <4>1, <4>4
          <6>2. buf[(Start + i) % kCapacity] = pushed - count + 1 + i
            BY <1>1, <6>1 DEF RingHoldsLatest
          <6> QED BY <5>1, <6>2
        <5> QED BY <1>1, <1>3, <4>1, <4>2, <4>4, <5>2
      <4> QED BY <1>1, <4>1, <4>3, <4>4
    <3>2. CASE count = kCapacity
      <4>1. Start = head /\ Start' = next /\ count' = count
        BY <1>1, <1>2, <1>3, <3>2 DEF Start
      <4> DEFINE slot == IF next + i < kCapacity THEN next + i ELSE next + i - kCapacity
      <4>2. (Start' + i) % kCapacity = slot /\ slot \in 0 .. kCapacity - 1 /\ i \in Nat
        <5>1. next + i \in Nat /\ next + i < 2 * kCapacity /\ i \in Nat
          BY <1>1, <3>2, <4>1
        <5> DEFINE x == next + i
        <5>2. x % kCapacity = IF x < kCapacity THEN x ELSE x - kCapacity
          <6> HIDE DEF x
          <6> QED BY <5>1, Wrap DEF x
        <5> QED BY <1>1, <3>2, <4>1, <5>1, <5>2
      <4>3. CASE i = count - 1
        <5>1. slot = head
          BY <1>1, <3>2, <4>1, <4>3
        <5> QED BY <1>1, <1>3, <4>1, <4>2, <4>3, <5>1
      <4>4. CASE i < count - 1
        <5>1. (Start + (i + 1)) % kCapacity = slot /\ i + 1 \in 0 .. count - 1
          <6>1. head + (i + 1) \in Nat /\ head + (i + 1) < 2 * kCapacity /\ i + 1 \in 0 .. count - 1
            BY <1>1, <3>2, <4>1, <4>2, <4>4
          <6> DEFINE x == head + (i + 1)
          <6>2. slot = IF x < kCapacity THEN x ELSE x - kCapacity
            BY <1>1, <3>2, <4>1, <4>2, <4>4
          <6>3. Start + (i + 1) = x /\ x \in Nat /\ x < 2 * kCapacity
            BY <4>1, <6>1
          <6> HIDE DEF x, slot
          <6>4. x % kCapacity = slot
            BY <6>2, <6>3, Wrap
          <6> QED BY <6>1, <6>3, <6>4
        <5>2. buf[slot] = pushed - count + 1 + (i + 1)
          BY <1>1, <5>1 DEF RingHoldsLatest
        <5>3. slot # head
          BY <1>1, <3>2, <4>1, <4>2, <4>4
        <5> HIDE DEF slot
        <5>4. buf'[slot] = buf[slot] /\ count' = count /\ pushed' = pushed + 1
          BY <1>1, <1>3, <4>1, <4>2, <5>3
        <5>5. pushed - count + 1 + (i + 1) = pushed' - count' + 1 + i
          BY <1>1, <3>2, <4>2, <5>4
        <5> QED BY <4>2, <5>2, <5>4, <5>5
      <4> QED BY <1>1, <3>2, <4>1, <4>2, <4>3, <4>4
    <3> QED BY <1>1, <3>1, <3>2
  <2> QED BY <2>1, <2>2 DEF RingHoldsLatest
<1> QED BY <1>4, <1>5, <1>6, <1>7 DEF IInv

(* A reader's passes leave the ring alone. *)
LEMMA ReadKeepsIInv ==
  ASSUME IInv, UNCHANGED <<buf, head, count, pushed>>, NEW r \in Readers,
         NEW p \in [op : Ops, n : 0 .. kCapacity, start : Slots, seen : Nat],
         p = NotReading \/ (p.n <= count /\ p.start = Start /\ p.seen = pushed),
         p.op = "snapshot" => p.n = count,
         pass' = [pass EXCEPT ![r] = p],
         \/ out' = out
         \/ \E s \in Seq(Nat) : out' = [out EXCEPT ![r] = s]
  PROVE  IInv'
<1>1. RingHoldsLatest' /\ HeadFollows'
  BY DEF IInv, RingHoldsLatest, HeadFollows, Start
<1>2. pass \in [Readers -> [op : Ops, n : 0 .. kCapacity, start : Slots, seen : Nat]]
  BY DEF IInv, TypeOK
<1>3. \A q \in Readers : pass'[q] = IF q = r THEN p ELSE pass[q]
  BY <1>2
<1>4. out' \in [Readers -> Seq(Nat)]
  <2>1. out \in [Readers -> Seq(Nat)]
    BY DEF IInv, TypeOK
  <2>2. ASSUME NEW s \in Seq(Nat), out' = [out EXCEPT ![r] = s] PROVE out' \in [Readers -> Seq(Nat)]
    BY <2>1, <2>2
  <2> QED BY <2>1, <2>2
<1>5. TypeOK'
  BY <1>2, <1>4 DEF IInv, TypeOK
<1>6. PassSound'
  <2> SUFFICES ASSUME NEW q \in Readers
               PROVE  /\ pass'[q].n <= count /\ pass'[q].seen <= pushed
                      /\ pass'[q].op = "snapshot" /\ pass'[q].seen = pushed =>
                           pass'[q].n = count /\ pass'[q].start = Start
    BY DEF PassSound, Start
  <2>1. CASE q = r
    <3>1. count \in Nat /\ pushed \in Nat
      BY DEF IInv, TypeOK
    <3>2. pass'[q] = p
      BY <1>3, <2>1
    <3>3. CASE p = NotReading
      BY <3>1, <3>2, <3>3 DEF NotReading
    <3>4. CASE p.n <= count /\ p.start = Start /\ p.seen = pushed
      BY <3>1, <3>2, <3>4
    <3> QED BY <3>3, <3>4
  <2>2. CASE q # r
    BY <1>3, <2>2 DEF IInv, PassSound
  <2> QED BY <2>1, <2>2
<1> QED BY <1>1, <1>5, <1>6 DEF IInv
LEMMA StepKeepsIInv == IInv /\ [Next]_vars => IInv'
<1> SUFFICES ASSUME IInv, [Next]_vars PROVE IInv'
  OBVIOUS
<1>1. /\ kCapacity \in Nat \ {0}
      /\ TypeOK /\ HeadFollows
      /\ count \in 0 .. kCapacity /\ pushed \in Nat
      /\ NotReading \in [op : Ops, n : 0 .. kCapacity, start : Slots, seen : Nat]
  BY RingAssumption DEF IInv, TypeOK, NotReading, Ops, Slots
<1>2. Start \in Slots
  BY <1>1, StartProperties
<1>3. CASE Push
  BY <1>3, PushKeepsIInv
<1>4. ASSUME NEW r \in Readers, SnapshotBegin(r) PROVE IInv'
  <2>1. [op |-> "snapshot", n |-> count, start |-> Start, seen |-> pushed]
          \in [op : Ops, n : 0 .. kCapacity, start : Slots, seen : Nat]
    BY <1>1, <1>2 DEF Ops
  <2> DEFINE p == [op |-> "snapshot", n |-> count, start |-> Start, seen |-> pushed]
  <2>2. /\ p.n = count /\ p.n <= count /\ p.start = Start /\ p.seen = pushed
        /\ pass' = [pass EXCEPT ![r] = p] /\ UNCHANGED <<buf, head, count, pushed, out>>
    BY <1>1, <1>4 DEF SnapshotBegin
  <2> HIDE DEF p
  <2> QED BY <2>1, <2>2, ReadKeepsIInv DEF p
<1>5. ASSUME NEW r \in Readers, NEW max \in MaxCounts, TailBegin(r, max) PROVE IInv'
  <2>1. Least(count, max) \in 0 .. kCapacity /\ Least(count, max) <= count
    BY <1>1, RingAssumption DEF Least
  <2>2. [op |-> "tail", n |-> Least(count, max), start |-> Start, seen |-> pushed]
          \in [op : Ops, n : 0 .. kCapacity, start : Slots, seen : Nat]
    BY <1>1, <1>2, <2>1 DEF Ops
  <2> QED BY <1>1, <1>5, <2>1, <2>2, ReadKeepsIInv DEF TailBegin
<1>6. ASSUME NEW r \in Readers, SnapshotCopy(r) PROVE IInv'
  <2>1. pass[r].start \in Nat /\ Least(pass[r].n, count) \in 0 .. kCapacity
    BY <1>1 DEF TypeOK, Slots, Least
  <2>2. Copy(pass[r].start, Least(pass[r].n, count)) \in Seq(Nat)
    BY <1>1, <2>1, CopyProperties
  <2> QED BY <1>1, <1>6, <2>2, ReadKeepsIInv DEF SnapshotCopy, NotReading
<1>7. ASSUME NEW r \in Readers, TailCopy(r) PROVE IInv'
  <2> DEFINE take == Least(pass[r].n, count)
  <2>1. take \in 0 .. kCapacity /\ take <= count
    BY <1>1 DEF TypeOK, Least
  <2>2. Start + count - take \in Nat
    BY <1>1, <1>2, <2>1 DEF Slots
  <2>3. Copy(Start + count - take, take) \in Seq(Nat)
    BY <1>1, <2>1, <2>2, CopyProperties
  <2> QED BY <1>1, <1>7, <2>3, ReadKeepsIInv DEF TailCopy, NotReading
<1>8. CASE UNCHANGED vars
  BY <1>8 DEF vars, IInv, TypeOK, RingHoldsLatest, HeadFollows, PassSound, Start
<1> QED BY <1>3, <1>4, <1>5, <1>6, <1>7, <1>8 DEF Next

(* Every reachable state satisfies the inductive invariant. *)
THEOREM IInvAlways == Spec => []IInv
BY InitIInv, StepKeepsIInv, PTL DEF Spec

(* Type correctness. *)
THEOREM TypeCorrect == Spec => []TypeOK
<1>1. IInv => TypeOK
  BY DEF IInv
<1> QED BY <1>1, IInvAlways, PTL

(* The ring always holds the latest events, in order and without a gap.     *)
THEOREM HoldsLatest == Spec => []RingHoldsLatest
<1>1. IInv => RingHoldsLatest
  BY DEF IInv
<1> QED BY <1>1, IInvAlways, PTL

(* The event at index i of a copy that starts k events after the oldest one. *)
LEMMA CopyOfRing ==
  ASSUME IInv, NEW k \in Nat, NEW n \in 0 .. kCapacity, k + n <= count
  PROVE  /\ Len(Copy(Start + k, n)) = n
         /\ \A i \in 1 .. n : Copy(Start + k, n)[i] = pushed - count + k + i
<1>1. /\ kCapacity \in Nat \ {0} /\ TypeOK /\ Start \in Nat /\ n \in Nat
      /\ count \in Nat /\ pushed \in Nat
  <2>1. kCapacity \in Nat \ {0} /\ TypeOK /\ HeadFollows
    BY RingAssumption DEF IInv
  <2>2. Start \in Nat
    BY <2>1, StartProperties DEF Slots
  <2>3. count \in Nat /\ pushed \in Nat
    BY <2>1 DEF TypeOK
  <2> QED BY <2>1, <2>2, <2>3
<1>2. /\ Len(Copy(Start + k, n)) = n
      /\ \A i \in 1 .. n : Copy(Start + k, n)[i] = buf[(Start + k + i - 1) % kCapacity]
  <2> DEFINE from == Start + k
  <2>1. from \in Nat
    BY <1>1
  <2>2. /\ Len(Copy(from, n)) = n
        /\ \A i \in 1 .. n : Copy(from, n)[i] = buf[(from + i - 1) % kCapacity]
    <3> HIDE DEF from
    <3> QED BY <1>1, <2>1, CopyProperties
  <2> QED BY <2>2
<1>3. ASSUME NEW i \in 1 .. n
      PROVE  buf[(Start + k + i - 1) % kCapacity] = pushed - count + k + i
  <2>1. k + i - 1 \in 0 .. count - 1 /\ Start + (k + i - 1) = Start + k + i - 1
    BY <1>1
  <2>2. buf[(Start + (k + i - 1)) % kCapacity] = pushed - count + 1 + (k + i - 1)
    BY <2>1 DEF IInv, RingHoldsLatest
  <2> QED BY <1>1, <2>1, <2>2
<1> QED BY <1>2, <1>3

(* snapshot_tail() returns the latest events of the moment of its copy,     *)
(* however many were pushed since its first pass.                           *)
THEOREM TailAlwaysLatest == Spec => TailIsLatest
<1> DEFINE StillLatest == \A r \in Readers : TailCopy(r) =>
                            /\ Consecutive(out'[r])
                            /\ out'[r] # <<>> => out'[r][Len(out'[r])] = pushed
                            /\ Len(out'[r]) >= pass[r].n
<1>1. IInv /\ [Next]_vars => [StillLatest]_vars
  <2> SUFFICES ASSUME IInv, NEW r \in Readers, TailCopy(r)
               PROVE  /\ Consecutive(out'[r])
                      /\ out'[r] # <<>> => out'[r][Len(out'[r])] = pushed
                      /\ Len(out'[r]) >= pass[r].n
    OBVIOUS
  <2> DEFINE take == Least(pass[r].n, count)
             copy == Copy(Start + (count - take), take)
  <2>1. /\ kCapacity \in Nat \ {0} /\ TypeOK /\ Start \in Nat
        /\ count \in 0 .. kCapacity /\ pushed \in Nat
        /\ pass[r].n \in Nat /\ pass[r].n <= count
    <3>1. kCapacity \in Nat \ {0} /\ TypeOK /\ HeadFollows
      BY RingAssumption DEF IInv
    <3>2. Start \in Nat
      BY <3>1, StartProperties DEF Slots
    <3>3. count \in 0 .. kCapacity /\ pushed \in Nat /\ pass[r].n \in Nat
      BY <3>1 DEF TypeOK
    <3>4. pass[r].n <= count
      BY DEF IInv, PassSound
    <3> QED BY <3>1, <3>2, <3>3, <3>4
  <2>2. take = pass[r].n /\ take \in 0 .. kCapacity /\ count - take \in Nat
    BY <2>1 DEF Least
  <2>3. Start + count - take = Start + (count - take)
    BY <2>1, <2>2
  <2>4. out' = [out EXCEPT ![r] = copy]
    BY <2>3 DEF TailCopy
  <2>5. out'[r] = copy
    BY <2>1, <2>4 DEF TypeOK
  <2>6. /\ Len(copy) = take
        /\ \A i \in 1 .. take : copy[i] = pushed - take + i
    <3>1. /\ Len(copy) = take
          /\ \A i \in 1 .. take : copy[i] = pushed - count + (count - take) + i
      <4> DEFINE k == count - take
      <4>1. k \in Nat /\ k + take <= count
        BY <2>1, <2>2
      <4>2. /\ Len(Copy(Start + k, take)) = take
            /\ \A i \in 1 .. take : Copy(Start + k, take)[i] = pushed - count + k + i
        <5> HIDE DEF take, k
        <5> QED BY <2>2, <4>1, CopyOfRing
      <4> QED BY <4>2
    <3>2. \A i \in 1 .. take : pushed - count + (count - take) + i = pushed - take + i
      BY <2>1, <2>2
    <3> QED BY <3>1, <3>2
  <2> HIDE DEF take, copy
  <2>7. take \in Nat
    BY <2>1, <2>2
  <2>8. Consecutive(copy)
    <3> SUFFICES ASSUME NEW i \in 1 .. Len(copy) - 1 PROVE copy[i + 1] = copy[i] + 1
      BY DEF Consecutive
    <3>1. i \in 1 .. take /\ i + 1 \in 1 .. take
      BY <2>6, <2>7
    <3>2. copy[i] = pushed - take + i /\ copy[i + 1] = pushed - take + (i + 1)
      BY <2>6, <3>1
    <3> QED BY <2>1, <2>7, <3>1, <3>2
  <2>9. copy # <<>> => copy[Len(copy)] = pushed
    <3> SUFFICES ASSUME copy # <<>> PROVE copy[take] = pushed
      BY <2>6
    <3>1. copy \in Seq(Nat)
      <4>1. Start + (count - take) \in Nat
        BY <2>1, <2>2
      <4> QED BY <2>1, <2>2, <4>1, CopyProperties DEF copy
    <3>2. take \in 1 .. take
      BY <2>6, <2>7, <3>1, EmptySeq
    <3>3. copy[take] = pushed - take + take
      BY <2>6, <3>2
    <3> QED BY <2>1, <2>7, <3>3
  <2>10. Len(copy) >= pass[r].n
    BY <2>2, <2>6, <2>7
  <2> QED BY <2>5, <2>8, <2>9, <2>10
<1> QED BY <1>1, IInvAlways, PTL DEF Spec, TailIsLatest

(* snapshot() is exact when nothing is pushed between its two passes.       *)
THEOREM QuietSnapshotAlwaysExact == Spec => QuietSnapshotIsExact
<1> DEFINE Exact == \A r \in Readers : SnapshotCopy(r) /\ pass[r].seen = pushed =>
                      out'[r] = [i \in 1 .. count |-> pushed - count + i]
<1>1. IInv /\ [Next]_vars => [Exact]_vars
  <2> SUFFICES ASSUME IInv, NEW r \in Readers, SnapshotCopy(r), pass[r].seen = pushed
               PROVE  out'[r] = [i \in 1 .. count |-> pushed - count + i]
    OBVIOUS
  <2>1. /\ kCapacity \in Nat \ {0} /\ TypeOK /\ Start \in Nat
        /\ count \in 0 .. kCapacity /\ pushed \in Nat
    BY RingAssumption, StartProperties DEF IInv, TypeOK, Slots
  <2>2. pass[r].n = count /\ pass[r].start = Start
    BY DEF IInv, PassSound, SnapshotCopy
  <2>3. out'[r] = Copy(Start + 0, count)
    BY <2>1, <2>2 DEF SnapshotCopy, TypeOK, Least
  <2>4. \A i \in 1 .. count : Copy(Start + 0, count)[i] = pushed - count + 0 + i
    BY <2>1, CopyOfRing
  <2>5. \A i \in 1 .. count : Copy(Start + 0, count)[i] = pushed - count + i
    BY <2>1, <2>4
  <2>6. Copy(Start + 0, count) = [i \in 1 .. count |-> Copy(Start + 0, count)[i]]
    BY DEF Copy
  <2> QED BY <2>3, <2>5, <2>6
<1> QED BY <1>1, IInvAlways, PTL DEF Spec, QuietSnapshotIsExact

------------------------------------------------------------------------------
(***************************************************************************)
(* Theorems about Visualiser for every capacity, any number of workers and  *)
(* any length of the feed.  The program uses its ring as EventRing says, so *)
(* that everything proved there holds of it, and its event feed is the      *)
(* latest events of the ring as long as this has not filled.                *)
(*                                                                         *)
(* FeedCurrentUntilFull speaks of the frames only.  FeedInv adds what the   *)
(* window's thread knows while it makes a new feed: the count it looked at  *)
(* is not more than there is, and its first pass has found at least as many *)
(* events as it looked at, or enough for the whole feed.                    *)
(***************************************************************************)

FeedInv ==
  program = "viewer" =>
    /\ ring_count \in Nat /\ last_count \in Nat
    /\ window = "frame" => last_count <= count
    /\ window \in {"begin", "copy"} => ring_count <= count
    /\ window = "copy" => /\ pass[Window].n <= FeedLength
                          /\ pass[Window].n = FeedLength \/ pass[Window].n >= ring_count
    /\ FeedCurrentUntilFull

LEMMA Numbers ==
  IInv => /\ kCapacity \in Nat \ {0} /\ count \in Nat /\ count <= kCapacity /\ pushed \in Nat
          /\ FeedLength \in Nat /\ Window \in Readers
          /\ pass[Window].n \in Nat /\ pass[Window].n <= count
BY RingAssumption, VisualiserAssumption DEF IInv, TypeOK, PassSound

(* A worker pushes an event or leaves the ring alone. *)
LEMMA WorkerSteps ==
  ASSUME NEW w \in Workers, Worker(w)
  PROVE  (Push \/ UNCHANGED vars) /\ UNCHANGED uiVars
BY DEF Worker, Top, BurstPush, BurstEnd, Alloc, Free, Drain, ringVars, uiVars

LEMMA ViewerStepIsRingStep == [VisNext]_visVars => [Next]_vars
<1> SUFFICES ASSUME [VisNext]_visVars PROVE [Next]_vars
  OBVIOUS
<1>1. ASSUME NEW w \in Workers, Worker(w) PROVE [Next]_vars
  BY <1>1, WorkerSteps DEF Next
<1>2. CASE Draw \/ Close
  <2>1. Window \in Readers /\ FeedLength \in MaxCounts
    BY VisualiserAssumption
  <2>2. (UNCHANGED vars) \/ TailBegin(Window, FeedLength) \/ TailCopy(Window)
    BY <1>2 DEF Draw, Close, LookAtRing, FeedBegin, FeedCopy, Join, ringVars
  <2> QED BY <2>1, <2>2 DEF Next
<1>3. CASE UNCHANGED visVars
  BY <1>3 DEF visVars, ringVars
<1> QED BY <1>1, <1>2, <1>3 DEF VisNext

(* The second pass of snapshot_tail returns so many events as the first one  *)
(* found, and they are the latest.                                          *)
LEMMA TailCopied ==
  ASSUME IInv, NEW r \in Readers, TailCopy(r)
  PROVE  out'[r] = Latest(pass[r].n)
<1> DEFINE take == pass[r].n
           k    == count - take
<1>1. /\ take \in 0 .. kCapacity /\ k \in Nat /\ k + take <= count /\ take <= count
      /\ count \in Nat /\ pushed \in Nat /\ Start \in Nat
  <2>1. /\ kCapacity \in Nat \ {0} /\ count \in 0 .. kCapacity /\ pushed \in Nat
        /\ pass[r].n \in 0 .. kCapacity /\ Start \in Slots
    BY RingAssumption, StartProperties DEF IInv, TypeOK
  <2>2. pass[r].n <= count
    BY DEF IInv, PassSound
  <2> QED BY <2>1, <2>2 DEF Slots
<1>2. Least(take, count) = take /\ Start + count - take = Start + k
  BY <1>1 DEF Least
<1>3. out' = [out EXCEPT ![r] = Copy(Start + k, take)]
  BY <1>2 DEF TailCopy
<1>4. out'[r] = Copy(Start + k, take)
  BY <1>3 DEF IInv, TypeOK
<1>5. \A i \in 1 .. take : Copy(Start + k, take)[i] = pushed - count + k + i
  <2> HIDE DEF take, k
  <2> QED BY <1>1, CopyOfRing
<1>6. \A i \in 1 .. take : pushed - count + k + i = pushed - take + i
  BY <1>1
<1> QED BY <1>4, <1>5, <1>6 DEF Copy, Latest

LEMMA InitFeedInv == VisInit => FeedInv
<1> SUFFICES ASSUME VisInit PROVE FeedInv
  OBVIOUS
<1>1. /\ count = 0 /\ last_count = 0 /\ ring_count = 0 /\ window = "frame"
      /\ Least(FeedLength, count) = 0 /\ out[Window] = <<>>
  BY RingAssumption, VisualiserAssumption DEF VisInit, Init, Least
<1>2. Latest(0) = <<>>
  BY DEF Latest
<1> QED BY <1>1, <1>2 DEF FeedInv, FeedCurrentUntilFull

(* A push moves the count away from the last one looked at, until it is full. *)
LEMMA PushKeepsFeedInv ==
  ASSUME IInv, FeedInv, Push, UNCHANGED <<uiVars, program>>
  PROVE  FeedInv'
<1> SUFFICES ASSUME program = "viewer" PROVE FeedInv'
  BY DEF FeedInv
<1>1. /\ count' = IF count < kCapacity THEN count + 1 ELSE count
      /\ pass' = pass /\ out' = out
      /\ window' = window /\ ring_count' = ring_count /\ last_count' = last_count
  BY DEF Push, uiVars
<1>2. count' \in Nat /\ count <= count' /\ (count' < kCapacity => count' = count + 1)
  BY <1>1, Numbers
<1>3. FeedCurrentUntilFull'
  BY <1>1, <1>2, Numbers DEF FeedInv, FeedCurrentUntilFull
<1>4. /\ window = "frame" => last_count <= count'
      /\ window \in {"begin", "copy"} => ring_count <= count'
  BY <1>2, Numbers DEF FeedInv
<1> QED BY <1>1, <1>3, <1>4 DEF FeedInv

LEMMA StepFeedInv == IInv /\ FeedInv /\ [VisNext]_visVars => FeedInv'
<1> SUFFICES ASSUME IInv, FeedInv, [VisNext]_visVars PROVE FeedInv'
  OBVIOUS
<1>1. ASSUME UNCHANGED <<vars, uiVars, program>> PROVE FeedInv'
  BY <1>1 DEF FeedInv, FeedCurrentUntilFull, Latest, vars, uiVars
<1>2. CASE program' = "any"
  BY <1>2 DEF FeedInv
<1>3. ASSUME Viewer, NEW w \in Workers, Worker(w) PROVE FeedInv'
  BY <1>1, <1>3, WorkerSteps, PushKeepsFeedInv DEF Viewer
<1>4. CASE Viewer /\ LookAtRing
  BY <1>4, Numbers DEF FeedInv, FeedCurrentUntilFull, Viewer, LookAtRing, ringVars, vars
<1>5. CASE Viewer /\ FeedBegin
  <2>1. /\ pass' = [pass EXCEPT ![Window] = [op |-> "tail", n |-> Least(count, FeedLength),
                                             start |-> Start, seen |-> pushed]]
        /\ count' = count /\ window = "begin" /\ window' = "copy"
        /\ ring_count' = ring_count /\ last_count' = last_count /\ program' = program
        /\ program = "viewer"
    BY <1>5 DEF Viewer, FeedBegin, TailBegin
  <2>2. pass'[Window].n = Least(count, FeedLength)
    BY <2>1, Numbers DEF IInv, TypeOK
  <2>3. /\ pass'[Window].n <= FeedLength
        /\ pass'[Window].n = FeedLength \/ pass'[Window].n >= ring_count
    BY <2>1, <2>2, Numbers DEF FeedInv, Least
  <2>4. FeedCurrentUntilFull'
    BY <2>1 DEF FeedCurrentUntilFull
  <2> QED BY <2>1, <2>3, <2>4 DEF FeedInv
<1>6. CASE Viewer /\ FeedCopy
  <2>1. /\ count' = count /\ pushed' = pushed /\ window = "copy" /\ window' = "frame"
        /\ last_count' = ring_count /\ ring_count' = ring_count
        /\ program = "viewer" /\ program' = program
    BY <1>6 DEF Viewer, FeedCopy, TailCopy
  <2>2. out'[Window] = Latest(pass[Window].n)
    BY <1>6, Numbers, TailCopied DEF FeedCopy
  <2>3. ring_count = count => pass[Window].n = Least(FeedLength, count)
    BY <2>1, Numbers DEF FeedInv, Least
  <2>4. FeedCurrentUntilFull'
    BY <2>1, <2>2, <2>3 DEF FeedCurrentUntilFull, Latest
  <2> QED BY <2>1, <2>4 DEF FeedInv
<1>7. CASE Viewer /\ (Join \/ Close)
  <2>1. window' \in {"join", "closed"} /\ ring_count' = ring_count /\ last_count' = last_count
        /\ program = "viewer"
    BY <1>7 DEF Viewer, Join, Close
  <2> QED BY <2>1 DEF FeedInv, FeedCurrentUntilFull
<1>8. CASE UNCHANGED visVars
  BY <1>1, <1>8 DEF visVars, ringVars
<1> QED BY <1>2, <1>3, <1>4, <1>5, <1>6, <1>7, <1>8 DEF VisNext, Draw, Viewer
------------------------------------------------------------------------------
(* The visualiser uses the ring as any program of EventRing does: what is    *)
(* proved of the ring and its readers holds of it.                          *)
THEOREM ViewerUsesRing == VisSpec => Spec
<1>1. VisInit => Init
  BY DEF VisInit
<1> QED BY <1>1, ViewerStepIsRingStep, PTL DEF VisSpec, Spec

(* Until the ring is full, a feed that draw_event_feed keeps because the      *)
(* count is unchanged is the latest events, whatever the workers push while   *)
(* it is made.                                                              *)
THEOREM FeedAlwaysCurrentUntilFull == VisSpec => []FeedCurrentUntilFull
<1>1. IInv /\ FeedInv => FeedCurrentUntilFull
  BY DEF FeedInv, FeedCurrentUntilFull
<1>2. VisSpec => []IInv
  BY ViewerUsesRing, IInvAlways, PTL
<1>3. VisSpec => []FeedInv
  BY <1>2, InitFeedInv, StepFeedInv, PTL DEF VisSpec
<1> QED BY <1>1, <1>2, <1>3, PTL
==============================================================================
