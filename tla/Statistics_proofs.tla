-------------------------- MODULE Statistics_proofs --------------------------
(***************************************************************************)
(* Theorems about the statistics, for any number of threads, addresses and  *)
(* records.  RegInv: the registry's two vectors list exactly the allocators  *)
(* alive, and no reader ever holds one that is gone; that a retiring thread  *)
(* finds no reader at work is the mutex, and that what a reader comes to     *)
(* next is alive is the first fact.  TypeInv: every variable has its type,   *)
(* because what a thread can give back fits into its live_.  SumInv: what    *)
(* was recorded is in the Stats of the live and of the retired, each once,   *)
(* and a global_stats under way lies between what it was asked for and what  *)
(* is there now, which makes its answer at worst slightly stale.            *)
(***************************************************************************)
EXTENDS Statistics, Recursion, SequenceTheorems

(* Fields of the record visit, whatever the sums in it are. *)
VisitShape ==
  /\ visit = [op |-> visit.op, at |-> visit.at, obj |-> visit.obj,
              field |-> visit.field, total |-> visit.total]
  /\ visit.at \in Nat

RegInv == /\ live \in Seq(Addresses)
          /\ RegistryExact
          /\ VisitShape
          /\ VisitedIsAlive

(* Erasing one element of a sequence. *)
LEMMA RemoveAtProperties ==
  ASSUME NEW S, NEW s \in Seq(S), NEW i \in 1 .. Len(s)
  PROVE  /\ RemoveAt(s, i) \in Seq(S)
         /\ Len(RemoveAt(s, i)) = Len(s) - 1
         /\ \A j \in 1 .. Len(s) - 1 : RemoveAt(s, i)[j] = IF j < i THEN s[j] ELSE s[j + 1]
<1> DEFINE a == SubSeq(s, 1, i - 1)
           b == SubSeq(s, i + 1, Len(s))
<1>1. Len(s) \in Nat /\ i \in Nat /\ i >= 1 /\ i <= Len(s) /\ \A j \in 1 .. Len(s) : s[j] \in S
  BY LenProperties, ElementOfSeq
<1>2. /\ a \in Seq(S) /\ Len(a) = i - 1
      /\ \A j \in 1 .. i - 1 : a[j] = s[j]
  <2>1. 1 \in Int /\ i - 1 \in Int /\ \A j \in 1 .. i - 1 : s[j] \in S
    BY <1>1
  <2>2. /\ a \in Seq(S)
        /\ Len(a) = IF 1 <= i - 1 THEN i - 1 - 1 + 1 ELSE 0
        /\ \A j \in 1 .. i - 1 - 1 + 1 : a[j] = s[1 + j - 1]
    BY <2>1, SubSeqProperties
  <2> HIDE DEF a
  <2> QED BY <1>1, <2>2
<1>3. /\ b \in Seq(S) /\ Len(b) = Len(s) - i
      /\ \A j \in 1 .. Len(s) - i : b[j] = s[i + j]
  <2>1. i + 1 \in Int /\ Len(s) \in Int /\ \A j \in i + 1 .. Len(s) : s[j] \in S
    BY <1>1
  <2>2. /\ b \in Seq(S)
        /\ Len(b) = IF i + 1 <= Len(s) THEN Len(s) - (i + 1) + 1 ELSE 0
        /\ \A j \in 1 .. Len(s) - (i + 1) + 1 : b[j] = s[i + 1 + j - 1]
    BY <2>1, SubSeqProperties
  <2> HIDE DEF b
  <2> QED BY <1>1, <2>2
<1>4. RemoveAt(s, i) = a \o b
  BY DEF RemoveAt
<1> HIDE DEF a, b
<1>5. /\ a \o b \in Seq(S) /\ Len(a \o b) = Len(a) + Len(b)
      /\ \A j \in 1 .. Len(a) + Len(b) : (a \o b)[j] = IF j <= Len(a) THEN a[j] ELSE b[j - Len(a)]
  BY <1>2, <1>3, ConcatProperties
<1>6. ASSUME NEW j \in 1 .. Len(s) - 1
      PROVE  (a \o b)[j] = IF j < i THEN s[j] ELSE s[j + 1]
  <2>1. CASE j < i
    BY <1>1, <1>2, <1>3, <1>5, <2>1
  <2>2. CASE ~(j < i)
    <3>1. j - (i - 1) \in 1 .. Len(s) - i /\ i + (j - (i - 1)) = j + 1
      BY <1>1, <2>2
    <3>2. (a \o b)[j] = b[j - (i - 1)]
      BY <1>1, <1>2, <1>3, <1>5, <2>2
    <3>3. b[j - (i - 1)] = s[i + (j - (i - 1))]
      BY <1>3, <3>1
    <3> QED BY <2>2, <3>1, <3>2, <3>3
  <2> QED BY <2>1, <2>2
<1> QED BY <1>1, <1>2, <1>3, <1>4, <1>5, <1>6

(* No allocator is there, and no reader.                                      *)
LEMMA InitRegInv == Init => RegInv
<1> SUFFICES ASSUME Init PROVE RegInv
  OBVIOUS
<1>1. live \in Seq(Addresses) /\ Len(live) = 0
  BY EmptySeq DEF Init
<1>2. RegistryExact
  BY <1>1 DEF Init, RegistryExact
<1>3. VisitShape /\ VisitedIsAlive
  BY DEF Init, NotVisiting, VisitShape, VisitedIsAlive
<1> QED BY <1>1, <1>2, <1>3 DEF RegInv

(* What a loop over the registry comes to is alive. *)
LEMMA ObjectIsAlive ==
  ASSUME RegInv, NEW i \in Nat, ObjectAt(live, i) # NULL
  PROVE  ObjectAt(live, i) \in running
<1>1. i \in 1 .. Len(live) /\ ObjectAt(live, i) = live[i]
  BY LenProperties DEF RegInv, ObjectAt
<1> QED BY <1>1 DEF RegInv, RegistryExact

(* A new allocator goes to the end of both vectors.                           *)
LEMMA RegisterKeeps ==
  ASSUME RegInv, NEW a \in Addresses, Register(a)
  PROVE  RegInv'
<1>1. /\ live' \in Seq(Addresses) /\ Len(live') = Len(live) + 1 /\ Len(live) \in Nat
      /\ \A i \in 1 .. Len(live) : live'[i] = live[i]
      /\ live'[Len(live) + 1] = a
  BY AppendProperties, LenProperties DEF RegInv, Register
<1>2. \A i \in 1 .. Len(live) : live[i] # a
  BY DEF RegInv, RegistryExact, Register
<1>3. RegistryExact'
  <2>1. live' = live_allocators'
    BY DEF RegInv, RegistryExact, Register
  <2>2. ASSUME NEW i \in 1 .. Len(live'), NEW j \in 1 .. Len(live'), live'[i] = live'[j]
        PROVE  i = j
    BY <1>1, <1>2, <2>2 DEF RegInv, RegistryExact
  <2>3. {live'[i] : i \in 1 .. Len(live')} = {live[i] : i \in 1 .. Len(live)} \cup {a}
    <3>1. \A i \in 1 .. Len(live') : i \in 1 .. Len(live) \/ i = Len(live) + 1
      BY <1>1
    <3>2. \A i \in 1 .. Len(live) : i \in 1 .. Len(live')
      BY <1>1
    <3>3. Len(live) + 1 \in 1 .. Len(live')
      BY <1>1
    <3> QED BY <1>1, <3>1, <3>2, <3>3
  <2> QED BY <2>1, <2>2, <2>3 DEF RegInv, RegistryExact, Register
<1>4. VisitShape' /\ VisitedIsAlive'
  BY DEF RegInv, VisitShape, VisitedIsAlive, Register, readerVars
<1> QED BY <1>1, <1>3, <1>4 DEF RegInv

(* What comes after the erased index moves up in both of them.                *)
LEMMA RetireKeeps ==
  ASSUME RegInv, NEW a \in Addresses, Retire(a)
  PROVE  RegInv'
<1>1. PICK k \in 1 .. Len(live) :
        /\ live[k] = a
        /\ live' = RemoveAt(live, k) /\ live_allocators' = RemoveAt(live_allocators, k)
  BY DEF Retire
<1>2. /\ live' \in Seq(Addresses) /\ Len(live') = Len(live) - 1 /\ Len(live) \in Nat /\ k \in Nat
      /\ \A j \in 1 .. Len(live') : live'[j] = IF j < k THEN live[j] ELSE live[j + 1]
  <2>1. Len(live) \in Nat /\ live \in Seq(Addresses)
    BY LenProperties DEF RegInv
  <2>2. /\ RemoveAt(live, k) \in Seq(Addresses)
        /\ Len(RemoveAt(live, k)) = Len(live) - 1
        /\ \A j \in 1 .. Len(live) - 1 :
             RemoveAt(live, k)[j] = IF j < k THEN live[j] ELSE live[j + 1]
    BY <2>1, RemoveAtProperties
  <2> QED BY <1>1, <2>1, <2>2
<1>3. RegistryExact'
  <2>1. live' = live_allocators'
    BY <1>1 DEF RegInv, RegistryExact
  <2>2. \A i, j \in 1 .. Len(live) : live[i] = live[j] => i = j
    BY DEF RegInv, RegistryExact
  <2>3. ASSUME NEW i \in 1 .. Len(live'), NEW j \in 1 .. Len(live'), live'[i] = live'[j]
        PROVE  i = j
    <3> DEFINE was(x) == IF x < k THEN x ELSE x + 1
    <3>1. was(i) \in 1 .. Len(live) /\ was(j) \in 1 .. Len(live)
      BY <1>2
    <3>2. live'[i] = live[was(i)] /\ live'[j] = live[was(j)]
      BY <1>2
    <3>3. was(i) = was(j)
      BY <2>2, <2>3, <3>1, <3>2
    <3> QED BY <1>2, <3>3
  <2>4. ASSUME NEW i \in 1 .. Len(live')
        PROVE  \E j \in 1 .. Len(live) : j # k /\ live'[i] = live[j]
    <3>1. CASE i < k
      BY <1>2, <3>1
    <3>2. CASE ~(i < k)
      <4>1. i + 1 \in 1 .. Len(live) /\ i + 1 # k /\ live'[i] = live[i + 1]
        BY <1>2, <3>2
      <4> QED BY <4>1
    <3> QED BY <3>1, <3>2
  <2>5. ASSUME NEW j \in 1 .. Len(live), j # k
        PROVE  \E i \in 1 .. Len(live') : live'[i] = live[j]
    <3>1. CASE j < k
      BY <1>2, <3>1
    <3>2. CASE ~(j < k)
      <4>1. j - 1 \in 1 .. Len(live') /\ ~(j - 1 < k) /\ (j - 1) + 1 = j
        BY <1>2, <2>5, <3>2
      <4> QED BY <1>2, <4>1
    <3> QED BY <3>1, <3>2
  <2>6. {live'[i] : i \in 1 .. Len(live')} = {live[j] : j \in 1 .. Len(live)} \ {a}
    BY <1>1, <2>2, <2>4, <2>5
  <2> QED BY <2>1, <2>3, <2>6 DEF RegInv, RegistryExact, Retire
<1>4. VisitShape' /\ VisitedIsAlive'
  <2>1. visit' = visit /\ visit = NotVisiting
    BY DEF Retire, Unlocked, readerVars
  <2> QED BY <2>1 DEF RegInv, VisitShape, VisitedIsAlive, NotVisiting
<1> QED BY <1>2, <1>3, <1>4 DEF RegInv

(* The readers change nothing but visit, and move on to live objects. *)
LEMMA ReaderKeeps ==
  ASSUME RegInv, SumBegin \/ Load \/ SumRetired \/ SumReturn \/ EachBegin \/ EachNext
  PROVE  RegInv'
<1>1. /\ live' = live /\ live_allocators' = live_allocators /\ running' = running
      /\ live_allocators = live
  BY DEF RegInv, RegistryExact, SumBegin, Load, SumRetired, SumReturn, EachBegin, EachNext,
         registryVars
<1>2. live' \in Seq(Addresses) /\ RegistryExact'
  BY <1>1 DEF RegInv, RegistryExact
<1>3. \A i \in Nat : ObjectAt(live, i) # NULL => ObjectAt(live, i) \in running
  BY ObjectIsAlive
<1>4. CASE SumBegin \/ EachBegin
  <2>1. \E name : visit' = [op |-> name, at |-> 1, obj |-> ObjectAt(live, 1), field |-> 1, total |-> Zero]
    BY <1>1, <1>4 DEF SumBegin, EachBegin, NotVisiting
  <2>2. VisitShape' /\ visit'.obj = ObjectAt(live, 1)
    BY <2>1 DEF VisitShape
  <2> QED BY <1>1, <1>2, <1>3, <2>2 DEF RegInv, VisitedIsAlive
<1>5. CASE SumReturn
  BY <1>1, <1>2, <1>5 DEF RegInv, VisitShape, VisitedIsAlive, SumReturn, NotVisiting
<1>6. CASE SumRetired
  <2>1. visit'.obj = visit.obj /\ VisitShape'
    BY <1>6 DEF RegInv, VisitShape, SumRetired
  <2> QED BY <1>1, <1>2, <2>1 DEF RegInv, VisitedIsAlive
<1>7. CASE EachNext
  <2>1. visit.at + 1 \in Nat
    BY DEF RegInv, VisitShape
  <2>2. visit' = NotVisiting \/ visit'.obj = ObjectAt(live, visit.at + 1)
    BY <1>1, <1>7 DEF RegInv, VisitShape, EachNext
  <2>3. VisitShape'
    BY <1>7, <2>1 DEF RegInv, VisitShape, EachNext, NotVisiting
  <2> QED BY <1>1, <1>2, <1>3, <2>1, <2>2, <2>3 DEF RegInv, VisitedIsAlive, NotVisiting
<1>8. CASE Load
  <2>1. visit.at + 1 \in Nat
    BY DEF RegInv, VisitShape
  <2>2. PICK t, n, at :
          /\ at = IF visit.field = 5 THEN visit.at + 1 ELSE visit.at
          /\ visit' = [op |-> "sum", at |-> at,
                       obj |-> IF visit.field = 5 THEN ObjectAt(live, at) ELSE visit.obj,
                       field |-> n, total |-> t]
    BY <1>8 DEF Load
  <2>3. VisitShape' /\ visit'.obj \in {visit.obj, ObjectAt(live, visit.at + 1)}
    BY <2>1, <2>2 DEF RegInv, VisitShape
  <2> QED BY <1>1, <1>2, <1>3, <2>1, <2>3 DEF RegInv, VisitedIsAlive
<1> QED BY <1>4, <1>5, <1>6, <1>7, <1>8

(* Every step keeps RegInv; the owners' calls do not touch the registry.      *)
LEMMA StepRegInv == RegInv /\ [Next]_vars => RegInv'
<1> SUFFICES ASSUME RegInv, [Next]_vars PROVE RegInv'
  OBVIOUS
<1>1. ASSUME NEW a \in Addresses, Register(a) PROVE RegInv'
  BY <1>1, RegisterKeeps
<1>2. ASSUME NEW a \in Addresses, Retire(a) PROVE RegInv'
  BY <1>2, RetireKeeps
<1>3. ASSUME UNCHANGED <<live, live_allocators, running, visit>> PROVE RegInv'
  BY <1>3 DEF RegInv, RegistryExact, VisitShape, VisitedIsAlive
<1>4. ASSUME NEW a \in Addresses, NEW b \in Blocks \cup Large, RecordAlloc(a, b) PROVE RegInv'
  BY <1>3, <1>4 DEF RecordAlloc, Begin, registryVars, readerVars
<1>5. ASSUME NEW a \in Addresses, NEW b \in Blocks, NEW n \in {b[1], b[2]}, RecordFree(a, b, n)
      PROVE  RegInv'
  BY <1>3, <1>5 DEF RecordFree, Begin, registryVars, readerVars
<1>6. ASSUME NEW a \in Addresses, NEW f \in Fields, Store(a, f) PROVE RegInv'
  BY <1>3, <1>6 DEF Store, registryVars, readerVars
<1>7. ASSUME UNCHANGED vars PROVE RegInv'
  BY <1>3, <1>7 DEF vars, registryVars, readerVars
<1> QED BY <1>1, <1>2, <1>4, <1>5, <1>6, <1>7, ReaderKeeps DEF Next

(* The inductive invariant of the registry holds in every state.              *)
THEOREM RegInvAlways == Spec => []RegInv
<1> QED BY InitRegInv, StepRegInv, PTL DEF Spec

(* register_stats and retire_stats keep the two vectors parallel, without     *)
(* duplicates, and equal to the allocators alive, also when an address is     *)
(* used again by a later thread.                                            *)
THEOREM RegistryAlwaysExact == Spec => []RegistryExact
<1>1. RegInv => RegistryExact
  BY DEF RegInv
<1> QED BY <1>1, RegInvAlways, PTL

(* A reader of the registry never has its hands on an allocator whose thread  *)
(* has gone: the mutex it holds keeps every thread from retiring.            *)
THEOREM VisitedAlwaysAlive == Spec => []VisitedIsAlive
<1>1. RegInv => VisitedIsAlive
  BY DEF RegInv
<1> QED BY <1>1, RegInvAlways, PTL
------------------------------------------------------------------------------
(* What add() does to one field. *)
How(f) == IF f = "peak_allocated" THEN "max" ELSE "sum"

(* The fields by name; each is joined in one of the two ways.                 *)
LEMMA FieldNames ==
  /\ Fields = {"requested", "allocated", "alloc_count", "free_count", "peak_allocated"}
  /\ \A f : How(f) \in Joinings
  /\ Zero \in Totals /\ \A f \in Fields : Zero[f] = 0
<1>1. 1 .. 5 = {1, 2, 3, 4, 5}
  OBVIOUS
<1>2. Fields = {"requested", "allocated", "alloc_count", "free_count", "peak_allocated"}
  BY <1>1 DEF Fields, LoadOrder
<1> QED BY <1>2 DEF How, Joinings, Zero, Totals

(* The larger of two numbers. *)
LEMMA MaxOfTwo == \A x, y \in Nat : Max({x, y}) = IF x > y THEN x ELSE y
<1> SUFFICES ASSUME NEW x \in Nat, NEW y \in Nat PROVE Max({x, y}) = IF x > y THEN x ELSE y
  OBVIOUS
<1> DEFINE m == IF x > y THEN x ELSE y
<1>1. m \in {x, y} /\ \A z \in {x, y} : m >= z
  OBVIOUS
<1>2. \A n \in {x, y} : (\A z \in {x, y} : n >= z) => n = m
  OBVIOUS
<1> QED BY <1>1, <1>2 DEF Max

(* add() joins two Stats field by field.                                      *)
LEMMA PlusJoins ==
  ASSUME NEW s \in Totals, NEW t \in Totals
  PROVE  /\ Plus(s, t) \in Totals
         /\ \A f \in Fields : Plus(s, t)[f] = Join(How(f), s[f], t[f])
<1>1. \A f \in Fields : s[f] \in Nat /\ t[f] \in Nat
  BY DEF Totals
<1>2. Plus(s, t) = [f \in Fields |-> Join(How(f), s[f], t[f])]
  BY <1>1, MaxOfTwo DEF Plus, Join, How
<1>3. \A f \in Fields : Join(How(f), s[f], t[f]) \in Nat
  BY <1>1, FieldNames, JoinLaws
<1> QED BY <1>2, <1>3 DEF Totals

(* A store joins something to a field as well. *)
LEMMA UpdatedJoins ==
  ASSUME TypeOK, NEW a \in Addresses, NEW f \in Fields
  PROVE  \E d \in Nat : \A v \in Nat : Updated(pending[a], f, v, live_[a]) = Join(How(f), v, d)
<1>1. pending[a].n \in Nat /\ pending[a].got \in Nat /\ live_[a] \in Nat
  BY DEF TypeOK
<1> DEFINE d == CASE f = "requested"      -> pending[a].n
                  [] f = "allocated"      -> pending[a].got
                  [] f = "peak_allocated" -> live_[a]
                  [] OTHER                -> 1
<1>2. d \in Nat
  BY <1>1
<1>3. ASSUME NEW v \in Nat
      PROVE  Updated(pending[a], f, v, live_[a]) = Join(How(f), v, d)
  BY <1>1 DEF Updated, Join, How
<1> QED BY <1>2, <1>3

(* The largest of a few indices is one of them. *)
LEMMA MaxIsIn ==
  ASSUME NEW n \in Nat, NEW s \in SUBSET (1 .. n), s # {}
  PROVE  Max(s) \in s
<1> DEFINE below == {n - x : x \in s}
<1>1. below \subseteq Nat /\ below # {}
  OBVIOUS
<1>2. PICK d \in below : \A e \in below : d <= e
  BY <1>1, LeastNat
<1>3. PICK m \in s : d = n - m
  BY <1>2
<1>4. \A y \in s : m >= y
  <2>1. \A y \in s : y \in 1 .. n /\ n - m <= n - y
    BY <1>2, <1>3
  <2> QED BY <2>1
<1>5. \E x \in s : \A y \in s : x >= y
  BY <1>4
<1> QED BY <1>5 DEF Max

(* The field f of every Stats of a sequence. *)
Column(r, f) == [i \in 1 .. Len(r) |-> r[i][f]]

(* Adding up a sequence of Stats joins each of their fields. *)
LEMMA FoldJoins ==
  ASSUME NEW t \in Totals, NEW r \in Seq(Totals)
  PROVE  /\ FoldLeft(Plus, t, r) \in Totals
         /\ \A f \in Fields : FoldLeft(Plus, t, r)[f] =
              Join(How(f), t[f], Total(How(f), Column(r, f), 1 .. Len(r)))
<1> DEFINE D == 1 .. Len(r)
           iter == CHOOSE g : g = [s \in SUBSET D |-> IF s = {} THEN t
                                                     ELSE Plus(g[s \ {Max(s)}], r[Max(s)])]
           joined(s) == [f \in Fields |-> Join(How(f), t[f], Total(How(f), Column(r, f), s))]
           sums == [s \in SUBSET D |-> joined(s)]
<1>1. DOMAIN r = D /\ Len(r) \in Nat /\ IsFiniteSet(D) /\ \A i \in D : r[i] \in Totals
  <2>1. DOMAIN r = D /\ Len(r) \in Nat /\ \A i \in D : r[i] \in Totals
    BY LenProperties, ElementOfSeq
  <2>2. IsFiniteSet(D)
    BY <2>1, FS_Interval
  <2> QED BY <2>1, <2>2
<1>2. FoldLeft(Plus, t, r) = iter[D]
  BY <1>1 DEF FoldLeft, MapThenFoldSet
<1>3. \A f \in Fields : \A i \in D : Column(r, f)[i] = r[i][f] /\ r[i][f] \in Nat
  BY <1>1 DEF Column, Totals
<1>a. \A s \in SUBSET D : s # {} => Max(s) \in s
  BY <1>1, MaxIsIn
<1> HIDE DEF D
<1>4. ASSUME NEW s \in SUBSET D
      PROVE  joined(s) \in Totals
  <2>1. ASSUME NEW f \in Fields
        PROVE  Join(How(f), t[f], Total(How(f), Column(r, f), s)) \in Nat
    <3>1. IsFiniteSet(s) /\ How(f) \in Joinings /\ t[f] \in Nat
      BY <1>1, FS_Subset, FieldNames DEF Totals
    <3>2. \A i \in s : Column(r, f)[i] \in Nat
      BY <1>3
    <3>3. Total(How(f), Column(r, f), s) \in Nat
      BY <3>1, <3>2, TotalType
    <3> QED BY <3>1, <3>3, JoinLaws
  <2> QED BY <2>1 DEF Totals
<1>5. joined({}) = t
  <2>1. ASSUME NEW f \in Fields
        PROVE  Join(How(f), t[f], Total(How(f), Column(r, f), {})) = t[f]
    <3>1. t[f] \in Nat /\ How(f) \in Joinings
      BY FieldNames DEF Totals
    <3>2. Total(How(f), Column(r, f), {}) = 0
      BY <3>1, TotalEmpty
    <3> QED BY <3>1, <3>2, JoinLaws
  <2> QED BY <2>1 DEF Totals
<1>6. ASSUME NEW s \in SUBSET D, s # {}
      PROVE  Max(s) \in s /\ joined(s) = Plus(joined(s \ {Max(s)}), r[Max(s)])
  <2>1. Max(s) \in s
    BY <1>6, <1>a
  <2>2. PICK m \in s : m = Max(s)
    BY <2>1
  <2> DEFINE u == s \ {m}
  <2>3. u \in SUBSET D /\ joined(u) \in Totals /\ r[m] \in Totals
    BY <1>1, <1>4
  <2>4. ASSUME NEW f \in Fields
        PROVE  joined(s)[f] = Join(How(f), joined(u)[f], r[m][f])
    <3>1. IsFiniteSet(s) /\ IsFiniteSet(u) /\ How(f) \in Joinings /\ t[f] \in Nat
      BY <1>1, FS_Subset, FieldNames DEF Totals
    <3>2. \A i \in s : Column(r, f)[i] \in Nat
      BY <1>3
    <3>3. Total(How(f), Column(r, f), s) = Join(How(f), Column(r, f)[m], Total(How(f), Column(r, f), u))
      <4>1. PICK h \in Joinings : h = How(f)
        BY <3>1
      <4> DEFINE c == Column(r, f)
      <4>2. \A i \in s : c[i] \in Nat
        BY <3>2, <4>1
      <4>3. Total(h, c, s) = Join(h, c[m], Total(h, c, s \ {m}))
        BY <3>1, <4>2, TotalRemoves
      <4> QED BY <4>1, <4>3
    <3>4. Total(How(f), Column(r, f), u) \in Nat
      BY <3>1, <3>2, TotalType
    <3>5. PICK x \in Nat, y \in Nat, z \in Nat :
            x = t[f] /\ y = r[m][f] /\ z = Total(How(f), Column(r, f), u)
      BY <1>3, <3>1, <3>4
    <3>6. Join(How(f), x, Join(How(f), y, z)) = Join(How(f), Join(How(f), x, z), y)
      BY <3>1, JoinLaws
    <3>7. joined(s)[f] = Join(How(f), x, Join(How(f), y, z))
      BY <1>3, <3>3, <3>5
    <3>8. joined(u)[f] = Join(How(f), x, z)
      BY <3>5
    <3> QED BY <3>5, <3>6, <3>7, <3>8
  <2> HIDE DEF joined, u
  <2>5. \A f \in Fields : Plus(joined(u), r[m])[f] = Join(How(f), joined(u)[f], r[m][f])
    BY <2>3, PlusJoins
  <2>6. Plus(joined(u), r[m]) \in Totals /\ joined(s) \in Totals
    BY <1>4, <2>3, PlusJoins
  <2>7. joined(s) = Plus(joined(u), r[m])
    BY <2>4, <2>5, <2>6 DEF Totals
  <2> QED BY <2>1, <2>2, <2>7 DEF u
<1> HIDE DEF joined
<1>7. iter = [s \in SUBSET D |-> IF s = {} THEN t ELSE Plus(iter[s \ {Max(s)}], r[Max(s)])]
  <2>1. \A s \in SUBSET D : s \ {Max(s)} \in SUBSET D
    OBVIOUS
  <2>2. \A s \in SUBSET D :
          sums[s] = IF s = {} THEN t ELSE Plus(sums[s \ {Max(s)}], r[Max(s)])
    BY <1>5, <1>6, <2>1
  <2>3. sums = [s \in SUBSET D |-> IF s = {} THEN t ELSE Plus(sums[s \ {Max(s)}], r[Max(s)])]
    BY <2>2
  <2>4. \E g : g = [s \in SUBSET D |-> IF s = {} THEN t ELSE Plus(g[s \ {Max(s)}], r[Max(s)])]
    BY <2>3
  <2> QED BY <2>4
<1> HIDE DEF iter
<1>8. \A s \in SUBSET D : iter[s] = joined(s)
  <2> DEFINE wrong == {s \in SUBSET D : iter[s] # joined(s)}
             sizes == {Cardinality(s) : s \in wrong}
  <2>1. SUFFICES ASSUME wrong # {} PROVE FALSE
    OBVIOUS
  <2>2. sizes \subseteq Nat /\ sizes # {}
    <3>1. \A s \in SUBSET D : Cardinality(s) \in Nat
      BY <1>1, FS_Subset, FS_CardinalityType
    <3> QED BY <2>1, <3>1
  <2>3. PICK k \in sizes : \A l \in sizes : k <= l
    BY <2>2, LeastNat
  <2>4. PICK s \in wrong : k = Cardinality(s)
    BY <2>3
  <2>5. s # {}
    BY <1>5, <1>7, <2>4
  <2> DEFINE u == s \ {Max(s)}
  <2>6. u \in SUBSET D /\ Cardinality(u) = Cardinality(s) - 1 /\ Cardinality(s) \in Nat
    <3>1. PICK m \in s : m = Max(s)
      BY <1>6, <2>5
    <3> QED BY <1>1, <3>1, Smaller
  <2>7. iter[u] = joined(u)
    <3>1. u \in wrong => k <= Cardinality(u)
      BY <2>3
    <3> QED BY <2>4, <2>6, <3>1
  <2>8. iter[s] = Plus(iter[u], r[Max(s)])
    BY <1>7, <2>5
  <2>9. joined(s) = Plus(joined(u), r[Max(s)])
    BY <1>6, <2>5
  <2> HIDE DEF u
  <2> QED BY <2>4, <2>7, <2>8, <2>9
<1>9. iter[D] = joined(D) /\ joined(D) \in Totals
  BY <1>4, <1>8
<1> QED BY <1>2, <1>9 DEF joined, D
------------------------------------------------------------------------------
(* A thread has allocated what its blocks sum up to, and its large objects.   *)
Outstanding(h, S) == Sum([b \in Blocks |-> h[b] * b[2]], S)
Fits(h, n) == \A S \in SUBSET Blocks : IsFiniteSet(S) => Outstanding(h, S) <= n
HeldFits == \A a \in Addresses : Fits(held[a], live_[a])

(* Only a thread that runs has stores to do. *)
OwnersRun == /\ IsFiniteSet(running)
             /\ \A a \in Addresses : pending[a].todo # {} => a \in running

(* The field f of every allocator's Stats, and what the retired come to.      *)
Of(f)   == [a \in Addresses |-> stats[a][f]]
Gone(f) == Total(How(f), Column(retired, f), 1 .. Len(retired))

(* Everything stored so far is in the Stats of the allocators alive and of    *)
(* the retired.                                                             *)
Tallied == \A f \in Fields :
             recorded[f] = Join(How(f), Total(How(f), Of(f), running), Gone(f))

(* The allocators whose field f the global_stats under way has loaded.        *)
Past(f)   == \E k \in 1 .. visit.field - 1 : LoadOrder[k] = f
Loaded(f) == {live[i] : i \in 1 .. (IF Past(f) THEN visit.at ELSE visit.at - 1)}

(* Its total so far is no more than what is now in the fields it has loaded,  *)
(* and with what is in the others no less than what was asked for.            *)
SumInBounds ==
  visit.op = "sum" =>
    /\ visit.at \in 1 .. Len(live) + 1 /\ visit.obj = ObjectAt(live, visit.at)
    /\ visit.at = Len(live) + 1 => visit.field = 1
    /\ \A f \in Fields :
         /\ visit.total[f] <= Total(How(f), Of(f), Loaded(f))
         /\ asked[f] <= Join(How(f), Join(How(f), visit.total[f],
                                          Total(How(f), Of(f), running \ Loaded(f))), Gone(f))

TypeInv == TypeOK /\ HeldFits /\ OwnersRun
SumInv == RegInv /\ TypeInv /\ Tallied /\ SumInBounds

(* A sum of what blocks of the held amounts h come to.                       *)
LEMMA Outstands ==
  ASSUME NEW h \in [Blocks -> Nat], NEW S \in SUBSET Blocks, IsFiniteSet(S)
  PROVE  /\ Outstanding(h, S) \in Nat
         /\ \A b \in Blocks \ S : Outstanding(h, S \cup {b}) = h[b] * b[2] + Outstanding(h, S)
         /\ (\A b \in S : h[b] = 0) => Outstanding(h, S) = 0
<1> DEFINE w == [b \in Blocks |-> h[b] * b[2]]
<1>1. \A b \in Blocks : h[b] \in Nat /\ b[2] \in Nat
  BY StatisticsAssumption
<1>2. \A b \in Blocks : w[b] = h[b] * b[2] /\ w[b] \in Nat
  <2>1. \A x, y \in Nat : x * y \in Nat
    OBVIOUS
  <2> QED BY <1>1, <2>1
<1>3. Outstanding(h, S) = Sum(w, S) /\ \A b : Outstanding(h, S \cup {b}) = Sum(w, S \cup {b})
  BY DEF Outstanding
<1>4. ASSUME \A b \in S : h[b] = 0 PROVE \A b \in S : w[b] = 0
  BY <1>1, <1>4
<1> HIDE DEF w
<1>5. Sum(w, S) \in Nat
  BY <1>2, SumType
<1>6. ASSUME NEW b \in Blocks \ S PROVE Sum(w, S \cup {b}) = w[b] + Sum(w, S)
  BY <1>2, SumAdds
<1>7. ASSUME \A b \in S : h[b] = 0 PROVE Sum(w, S) = 0
  <2>1. "sum" \in Joinings
    BY DEF Joinings
  <2>2. Total("sum", w, S) = 0
    BY <1>4, <1>7, <2>1, TotalZero
  <2> QED BY <2>2, SumIsTotal
<1> QED BY <1>2, <1>3, <1>5, <1>6, <1>7

(* It depends on the amounts in S only. *)
LEMMA OutstandingSame ==
  ASSUME NEW S \in SUBSET Blocks, IsFiniteSet(S), NEW h, NEW k, \A b \in S : h[b] = k[b]
  PROVE  Outstanding(h, S) = Outstanding(k, S)
<1> DEFINE w == [b \in Blocks |-> h[b] * b[2]]
           v == [b \in Blocks |-> k[b] * b[2]]
<1>1. Outstanding(h, S) = Sum(w, S) /\ Outstanding(k, S) = Sum(v, S)
  BY DEF Outstanding
<1>2. \A b \in S : w[b] = v[b]
  OBVIOUS
<1> HIDE DEF w, v
<1>3. Sum(w, S) = Sum(v, S)
  BY <1>2, SumSame
<1> QED BY <1>1, <1>3

(* One block more needs its class more, and no block needs anything.          *)
LEMMA FitsMore ==
  ASSUME NEW h \in [Blocks -> Nat], NEW n \in Nat, Fits(h, n), NEW b \in Blocks,
         NEW k \in [Blocks -> Nat], k[b] = h[b] + 1, \A x \in Blocks \ {b} : k[x] = h[x]
  PROVE  Fits(k, n + b[2])
<1> SUFFICES ASSUME NEW S \in SUBSET Blocks, IsFiniteSet(S) PROVE Outstanding(k, S) <= n + b[2]
  BY DEF Fits
<1>1. b[2] \in Nat /\ h[b] \in Nat
  BY StatisticsAssumption
<1>2. Outstanding(h, S) <= n /\ Outstanding(h, S) \in Nat
  BY Outstands DEF Fits
<1>3. CASE b \notin S
  <2>1. \A x \in S : k[x] = h[x]
    BY <1>3
  <2>2. Outstanding(k, S) = Outstanding(h, S)
    BY <2>1, OutstandingSame
  <2> QED BY <1>1, <1>2, <2>2
<1>4. CASE b \in S
  <2>1. PICK R \in SUBSET Blocks : R = S \ {b} /\ IsFiniteSet(R) /\ S = R \cup {b} /\ b \notin R
    <3>1. IsFiniteSet(S \ {b}) /\ S = (S \ {b}) \cup {b} /\ b \notin S \ {b}
      BY <1>4, FS_RemoveElement
    <3> QED BY <3>1
  <2>2. \A x \in R : k[x] = h[x]
    BY <2>1
  <2>3. Outstanding(k, R) = Outstanding(h, R) /\ Outstanding(h, R) \in Nat
    BY <2>1, <2>2, OutstandingSame, Outstands
  <2>4. /\ Outstanding(h, S) = h[b] * b[2] + Outstanding(h, R)
        /\ Outstanding(k, S) = k[b] * b[2] + Outstanding(k, R)
    BY <2>1, Outstands
  <2>5. k[b] * b[2] = h[b] * b[2] + b[2] /\ h[b] * b[2] \in Nat
    <3>1. \A x, y \in Nat : (x + 1) * y = x * y + y /\ x * y \in Nat
      OBVIOUS
    <3> QED BY <1>1, <3>1
  <2> QED BY <1>1, <1>2, <2>3, <2>4, <2>5
<1> QED BY <1>3, <1>4

(* A block given back leaves room for the others: live_ cannot go below zero. *)
LEMMA FitsLess ==
  ASSUME NEW h \in [Blocks -> Nat], NEW n \in Nat, Fits(h, n), NEW b \in Blocks, h[b] > 0,
         NEW k \in [Blocks -> Nat], k[b] = h[b] - 1, \A x \in Blocks \ {b} : k[x] = h[x]
  PROVE  n - b[2] \in Nat /\ Fits(k, n - b[2])
<1>1. b[2] \in Nat /\ h[b] \in Nat \ {0}
  BY StatisticsAssumption
<1>2. h[b] * b[2] = k[b] * b[2] + b[2] /\ k[b] * b[2] \in Nat
  <2>1. \A x \in Nat \ {0} : \A y \in Nat : x * y = (x - 1) * y + y /\ (x - 1) * y \in Nat
    <3>1. \A x, y \in Nat : (x + 1) * y = x * y + y /\ x * y \in Nat
      OBVIOUS
    <3>2. \A x \in Nat \ {0} : x - 1 \in Nat /\ (x - 1) + 1 = x
      OBVIOUS
    <3>3. SUFFICES ASSUME NEW x \in Nat \ {0}, NEW y \in Nat
                   PROVE  x * y = (x - 1) * y + y /\ (x - 1) * y \in Nat
      OBVIOUS
    <3>4. PICK z \in Nat : z = x - 1 /\ x = z + 1
      BY <3>2
    <3> QED BY <3>1, <3>4
  <2> QED BY <1>1, <2>1
<1>3. ASSUME NEW R \in SUBSET Blocks, IsFiniteSet(R), b \notin R
      PROVE  /\ Outstanding(k, R) = Outstanding(h, R) /\ Outstanding(h, R) \in Nat
             /\ h[b] * b[2] + Outstanding(h, R) <= n
             /\ Outstanding(k, R \cup {b}) = k[b] * b[2] + Outstanding(k, R)
  <2>1. \A x \in R : k[x] = h[x]
    BY <1>3
  <2>2. Outstanding(k, R) = Outstanding(h, R)
    BY <1>3, <2>1, OutstandingSame
  <2>3. /\ Outstanding(h, R \cup {b}) = h[b] * b[2] + Outstanding(h, R)
        /\ Outstanding(k, R \cup {b}) = k[b] * b[2] + Outstanding(k, R)
        /\ Outstanding(h, R) \in Nat
    BY <1>3, Outstands
  <2>4. Outstanding(h, R \cup {b}) <= n
    <3>1. IsFiniteSet(R \cup {b}) /\ R \cup {b} \in SUBSET Blocks
      BY <1>3, FS_AddElement
    <3> QED BY <3>1 DEF Fits
  <2> QED BY <2>2, <2>3, <2>4
<1>4. n - b[2] \in Nat
  <2>1. IsFiniteSet({}) /\ {} \in SUBSET Blocks /\ b \notin {}
    BY FS_EmptySet
  <2>2. Outstanding(h, {}) \in Nat /\ h[b] * b[2] + Outstanding(h, {}) <= n
    BY <1>3, <2>1
  <2> QED BY <1>1, <1>2, <2>2
<1>5. ASSUME NEW S \in SUBSET Blocks, IsFiniteSet(S) PROVE Outstanding(k, S) <= n - b[2]
  <2>1. CASE b \notin S
    <3>1. /\ Outstanding(k, S) = Outstanding(h, S) /\ Outstanding(h, S) \in Nat
          /\ h[b] * b[2] + Outstanding(h, S) <= n
      BY <1>3, <1>5, <2>1
    <3>2. PICK p \in Nat, q \in Nat : p = h[b] * b[2] /\ q = b[2] /\ q <= p
      BY <1>1, <1>2
    <3> QED BY <3>1, <3>2
  <2>2. CASE b \in S
    <3>1. PICK R \in SUBSET Blocks : R = S \ {b} /\ IsFiniteSet(R) /\ S = R \cup {b} /\ b \notin R
      <4>1. IsFiniteSet(S \ {b}) /\ S = (S \ {b}) \cup {b} /\ b \notin S \ {b}
        BY <1>5, <2>2, FS_RemoveElement
      <4> QED BY <4>1
    <3>2. /\ Outstanding(k, R) = Outstanding(h, R) /\ Outstanding(h, R) \in Nat
          /\ h[b] * b[2] + Outstanding(h, R) <= n
          /\ Outstanding(k, S) = k[b] * b[2] + Outstanding(k, R)
      BY <1>3, <3>1
    <3> QED BY <1>1, <1>2, <3>2
  <2> QED BY <2>1, <2>2
<1> QED BY <1>4, <1>5 DEF Fits

(* Nothing held fits anywhere.                                                *)
LEMMA FitsNone ==
  ASSUME NEW n \in Nat
  PROVE  Fits([b \in Blocks |-> 0], n)
<1>1. PICK h \in [Blocks -> Nat] : h = [b \in Blocks |-> 0]
  OBVIOUS
<1>2. \A b \in Blocks : h[b] = 0
  BY <1>1
<1>3. \A S \in SUBSET Blocks : IsFiniteSet(S) => Outstanding(h, S) = 0
  BY <1>2, Outstands
<1> QED BY <1>1, <1>3 DEF Fits

(* A larger number is enough as well. *)
LEMMA FitsIn ==
  ASSUME NEW h \in [Blocks -> Nat], NEW n \in Nat, NEW m \in Nat, Fits(h, n), n <= m
  PROVE  Fits(h, m)
<1> SUFFICES ASSUME NEW S \in SUBSET Blocks, IsFiniteSet(S) PROVE Outstanding(h, S) <= m
  BY DEF Fits
<1>1. Outstanding(h, S) <= n /\ Outstanding(h, S) \in Nat
  BY Outstands DEF Fits
<1> QED BY <1>1
------------------------------------------------------------------------------
(* At the start all is zero and nobody runs.                                  *)
LEMMA InitTypeInv == Init => TypeInv
<1> SUFFICES ASSUME Init PROVE TypeInv
  OBVIOUS
<1>1. TypeOK
  <2>1. live \in Seq(Addresses) /\ live_allocators \in Seq(Addresses) /\ retired \in Seq(Totals)
    BY EmptySeq DEF Init
  <2> QED BY <2>1, FieldNames DEF Init, TypeOK, Idle, NotVisiting, Zero, Totals
<1>2. HeldFits
  <2>1. \A a \in Addresses : held[a] = [b \in Blocks |-> 0] /\ live_[a] \in Nat
    BY DEF Init
  <2> QED BY <2>1, FitsNone DEF HeldFits
<1>3. OwnersRun
  BY FS_EmptySet DEF Init, OwnersRun, Idle
<1> QED BY <1>1, <1>2, <1>3 DEF TypeInv

(* A new allocator starts with zeros and nothing held.                        *)
LEMMA RegisterTypes ==
  ASSUME TypeInv, NEW a \in Addresses, Register(a)
  PROVE  TypeInv'
<1>1. /\ stats' \in [Addresses -> Totals] /\ live_' \in [Addresses -> Nat]
      /\ held' \in [Addresses -> [Blocks -> Nat]]
  BY FieldNames DEF TypeInv, TypeOK, Register
<1>2. live' \in Seq(Addresses) /\ live_allocators' \in Seq(Addresses)
  BY AppendProperties DEF TypeInv, TypeOK, Register
<1>3. running' \subseteq Addresses /\ threads' \in Nat
  BY DEF TypeInv, TypeOK, Register
<1>4. TypeOK'
  BY <1>1, <1>2, <1>3 DEF TypeInv, TypeOK, Register, readerVars
<1>5. HeldFits'
  <2>1. \A c \in Addresses : c # a => held'[c] = held[c] /\ live_'[c] = live_[c]
    BY DEF TypeInv, TypeOK, Register
  <2>2. held'[a] = [b \in Blocks |-> 0] /\ live_'[a] = 0
    BY DEF TypeInv, TypeOK, Register
  <2> QED BY <2>1, <2>2, FitsNone DEF TypeInv, HeldFits
<1>6. OwnersRun'
  <2>1. IsFiniteSet(running \cup {a})
    BY FS_AddElement DEF TypeInv, OwnersRun
  <2> QED BY <2>1 DEF TypeInv, OwnersRun, Register
<1> QED BY <1>4, <1>5, <1>6 DEF TypeInv

(* A thread that retires has no store left to do.                             *)
LEMMA RetireTypes ==
  ASSUME RegInv', TypeInv, NEW a \in Addresses, Retire(a)
  PROVE  TypeInv'
<1>1. retired' \in Seq(Totals)
  BY AppendProperties DEF TypeInv, TypeOK, Retire
<1>2. live' \in Seq(Addresses) /\ live_allocators' \in Seq(Addresses)
  BY DEF RegInv, RegistryExact
<1>3. UNCHANGED <<threads, ownerVars, readerVars>> /\ running' = running \ {a}
  BY DEF Retire
<1>4. TypeOK'
  BY <1>1, <1>2, <1>3 DEF TypeInv, TypeOK, ownerVars, readerVars
<1>5. HeldFits'
  BY <1>3 DEF TypeInv, HeldFits, ownerVars
<1>6. OwnersRun'
  <2>1. IsFiniteSet(running \ {a})
    BY FS_Subset DEF TypeInv, OwnersRun
  <2>2. pending[a].todo = {}
    BY DEF Retire, Idle
  <2> QED BY <1>3, <2>1, <2>2 DEF TypeInv, OwnersRun, ownerVars
<1> QED BY <1>4, <1>5, <1>6 DEF TypeInv

(* record_alloc counts a block or a large object in live_.                    *)
LEMMA RecordAllocTypes ==
  ASSUME TypeInv, NEW a \in Addresses, NEW b \in Blocks \cup Large, RecordAlloc(a, b)
  PROVE  TypeInv'
<1>1. b[1] \in Nat /\ b[2] \in Nat
  BY StatisticsAssumption
<1> DEFINE call == [op |-> "alloc", n |-> b[1], got |-> b[2], todo |-> Fields \ {"free_count"}]
<1>2. /\ a \in running /\ pending' = [pending EXCEPT ![a] = call]
      /\ records' = records + 1
      /\ UNCHANGED <<stats, recorded, registryVars, readerVars>>
      /\ live_' = [live_ EXCEPT ![a] = @ + b[2]]
      /\ held' = [held EXCEPT ![a] = [x \in Blocks |-> IF x = b THEN @[x] + 1 ELSE @[x]]]
  BY DEF RecordAlloc, Begin
<1>3. call \in [op : {"none", "alloc", "free"}, n : Nat, got : Nat, todo : SUBSET Fields]
  BY <1>1
<1> HIDE DEF call
<1>4. held' \in [Addresses -> [Blocks -> Nat]] /\ live_' \in [Addresses -> Nat]
  <2> DEFINE more == [x \in Blocks |-> IF x = b THEN held[a][x] + 1 ELSE held[a][x]]
  <2>1. held \in [Addresses -> [Blocks -> Nat]] /\ live_ \in [Addresses -> Nat]
    BY DEF TypeInv, TypeOK
  <2>2. more \in [Blocks -> Nat]
    BY <2>1
  <2>3. held' = [held EXCEPT ![a] = more]
    BY <1>2
  <2>4. live_' \in [Addresses -> Nat]
    BY <1>1, <1>2, <2>1
  <2> HIDE DEF more
  <2> QED BY <2>1, <2>2, <2>3, <2>4
<1>5. TypeOK'
  <2>1. pending' \in [Addresses -> [op : {"none", "alloc", "free"}, n : Nat, got : Nat, todo : SUBSET Fields]]
    BY <1>2, <1>3 DEF TypeInv, TypeOK
  <2>2. records' \in Nat
    BY <1>2 DEF TypeInv, TypeOK
  <2> QED BY <1>2, <1>4, <2>1, <2>2 DEF TypeInv, TypeOK, registryVars, readerVars
<1>6. HeldFits'
  <2>1. \A c \in Addresses : c # a => held'[c] = held[c] /\ live_'[c] = live_[c]
    BY <1>2 DEF TypeInv, TypeOK
  <2>2. /\ live_[a] \in Nat /\ held[a] \in [Blocks -> Nat] /\ held'[a] \in [Blocks -> Nat]
        /\ Fits(held[a], live_[a]) /\ live_'[a] = live_[a] + b[2]
        /\ \A x \in Blocks : held'[a][x] = IF x = b THEN held[a][x] + 1 ELSE held[a][x]
    BY <1>2, <1>4 DEF TypeInv, TypeOK, HeldFits
  <2>3. PICK h \in [Blocks -> Nat], k \in [Blocks -> Nat], n \in Nat :
          h = held[a] /\ k = held'[a] /\ n = live_[a]
    BY <2>2
  <2>4. CASE b \in Blocks
    <3>1. k[b] = h[b] + 1 /\ \A x \in Blocks \ {b} : k[x] = h[x]
      BY <2>2, <2>3, <2>4
    <3>2. Fits(k, n + b[2])
      BY <2>2, <2>3, <2>4, <3>1, FitsMore
    <3> QED BY <2>1, <2>2, <2>3, <3>2 DEF TypeInv, HeldFits
  <2>5. CASE b \notin Blocks
    <3>1. k = h
      BY <2>2, <2>3, <2>5
    <3>2. n + b[2] \in Nat /\ n <= n + b[2]
      BY <1>1
    <3>3. Fits(h, n + b[2])
      BY <2>2, <2>3, <3>2, FitsIn
    <3> QED BY <2>1, <2>2, <2>3, <3>1, <3>3 DEF TypeInv, HeldFits
  <2> QED BY <2>4, <2>5
<1>7. OwnersRun'
  BY <1>2 DEF TypeInv, TypeOK, OwnersRun, registryVars
<1> QED BY <1>5, <1>6, <1>7 DEF TypeInv

(* record_free takes from live_ no more than the block it was given.          *)
LEMMA RecordFreeTypes ==
  ASSUME TypeInv, NEW a \in Addresses, NEW b \in Blocks, NEW n \in {b[1], b[2]}, RecordFree(a, b, n)
  PROVE  TypeInv'
<1>1. n \in Nat /\ b[2] \in Nat
  BY StatisticsAssumption
<1> DEFINE call == [op |-> "free", n |-> n, got |-> b[2],
                    todo |-> {"requested", "allocated", "free_count"}]
<1>2. /\ a \in running /\ pending' = [pending EXCEPT ![a] = call]
      /\ records' = records + 1
      /\ UNCHANGED <<stats, recorded, registryVars, readerVars>>
      /\ held[a][b] > 0
      /\ live_' = [live_ EXCEPT ![a] = @ - b[2]]
      /\ held' = [held EXCEPT ![a][b] = @ - 1]
  BY DEF RecordFree, Begin
<1>3. call \in [op : {"none", "alloc", "free"}, n : Nat, got : Nat, todo : SUBSET Fields]
  BY <1>1, FieldNames
<1> HIDE DEF call
<1>4. /\ held' \in [Addresses -> [Blocks -> Nat]]
      /\ \A c \in Addresses : c # a => held'[c] = held[c] /\ live_'[c] = live_[c]
      /\ live_'[a] = live_[a] - b[2]
      /\ \A x \in Blocks : held'[a][x] = IF x = b THEN held[a][x] - 1 ELSE held[a][x]
  <2> DEFINE less == [held[a] EXCEPT ![b] = held[a][b] - 1]
  <2>1. held \in [Addresses -> [Blocks -> Nat]] /\ live_ \in [Addresses -> Nat]
    BY DEF TypeInv, TypeOK
  <2>2. /\ less \in [Blocks -> Nat]
        /\ \A x \in Blocks : less[x] = IF x = b THEN held[a][x] - 1 ELSE held[a][x]
    BY <1>2, <2>1
  <2>3. held' = [held EXCEPT ![a] = less]
    BY <1>2
  <2>4. live_'[a] = live_[a] - b[2] /\ \A c \in Addresses : c # a => live_'[c] = live_[c]
    BY <1>2, <2>1
  <2> HIDE DEF less
  <2> QED BY <2>1, <2>2, <2>3, <2>4
<1>5. PICK h \in [Blocks -> Nat], k \in [Blocks -> Nat], m \in Nat :
        h = held[a] /\ k = held'[a] /\ m = live_[a]
  BY <1>4 DEF TypeInv, TypeOK
<1>6. m - b[2] \in Nat /\ Fits(k, m - b[2])
  <2>1. Fits(h, m)
    BY <1>5 DEF TypeInv, HeldFits
  <2>2. h[b] > 0 /\ k[b] = h[b] - 1 /\ \A x \in Blocks \ {b} : k[x] = h[x]
    BY <1>2, <1>4, <1>5
  <2> QED BY <2>1, <2>2, FitsLess
<1>7. live_' \in [Addresses -> Nat]
  BY <1>2, <1>5, <1>6 DEF TypeInv, TypeOK
<1>8. TypeOK'
  <2>1. pending' \in [Addresses -> [op : {"none", "alloc", "free"}, n : Nat, got : Nat, todo : SUBSET Fields]]
    BY <1>2, <1>3 DEF TypeInv, TypeOK
  <2>2. records' \in Nat
    BY <1>2 DEF TypeInv, TypeOK
  <2> QED BY <1>2, <1>4, <1>7, <2>1, <2>2 DEF TypeInv, TypeOK, registryVars, readerVars
<1>9. HeldFits'
  BY <1>4, <1>5, <1>6 DEF TypeInv, HeldFits
<1>10. OwnersRun'
  BY <1>2 DEF TypeInv, TypeOK, OwnersRun, registryVars
<1> QED BY <1>8, <1>9, <1>10 DEF TypeInv

(* A store leaves a number in its field.                                      *)
LEMMA StoreTypes ==
  ASSUME TypeInv, NEW a \in Addresses, NEW f \in Fields, Store(a, f)
  PROVE  TypeInv'
<1>1. PICK d \in Nat : \A v \in Nat : Updated(pending[a], f, v, live_[a]) = Join(How(f), v, d)
  BY UpdatedJoins DEF TypeInv
<1>2. \A v \in Nat : Updated(pending[a], f, v, live_[a]) \in Nat
  BY <1>1, FieldNames, JoinLaws
<1>3. stats[a][f] \in Nat /\ recorded[f] \in Nat
  BY DEF TypeInv, TypeOK, Totals
<1>4. stats' \in [Addresses -> Totals] /\ recorded' \in Totals
  BY <1>2, <1>3 DEF Store, TypeInv, TypeOK, Totals
<1>5. /\ pending' \in [Addresses -> [op : {"none", "alloc", "free"}, n : Nat, got : Nat, todo : SUBSET Fields]]
      /\ \A c \in Addresses : pending'[c].todo \subseteq pending[c].todo
  <2> DEFINE Calls == [op : {"none", "alloc", "free"}, n : Nat, got : Nat, todo : SUBSET Fields]
             next == IF pending[a].todo = {f} THEN Idle
                     ELSE [pending[a] EXCEPT !.todo = pending[a].todo \ {f}]
  <2>1. pending \in [Addresses -> Calls]
    BY DEF TypeInv, TypeOK
  <2>2. next \in Calls /\ next.todo \subseteq pending[a].todo
    BY <2>1 DEF Idle
  <2>3. pending' = [pending EXCEPT ![a] = next]
    BY DEF Store
  <2> HIDE DEF next, Calls
  <2>4. pending' \in [Addresses -> Calls] /\ \A c \in Addresses : pending'[c].todo \subseteq pending[c].todo
    BY <2>1, <2>2, <2>3
  <2> QED BY <2>4 DEF Calls
<1>6. UNCHANGED <<live_, held, records, registryVars, readerVars>>
  BY DEF Store
<1>7. TypeOK'
  BY <1>4, <1>5, <1>6 DEF TypeInv, TypeOK, registryVars, readerVars
<1>8. HeldFits'
  BY <1>6 DEF TypeInv, HeldFits
<1>9. OwnersRun'
  BY <1>5, <1>6 DEF TypeInv, OwnersRun, registryVars
<1> QED BY <1>7, <1>8, <1>9 DEF TypeInv

(* What a reader does to visit. *)
LEMMA ReaderTypes ==
  ASSUME RegInv, TypeInv, SumBegin \/ Load \/ SumRetired \/ SumReturn \/ EachBegin \/ EachNext
  PROVE  TypeInv'
<1>1. UNCHANGED <<registryVars, ownerVars>>
  BY DEF SumBegin, Load, SumRetired, SumReturn, EachBegin, EachNext
<1>2. asked' \in Totals
  BY FieldNames DEF TypeInv, TypeOK, SumBegin, Load, SumRetired, SumReturn, EachBegin, EachNext
<1> DEFINE Visits == [op : {"none", "sum", "return", "each"}, at : Nat, obj : Addresses \cup {NULL},
                      field : 1 .. 5, total : Totals]
<1>3. visit \in Visits /\ NotVisiting \in Visits /\ live_allocators = live
  BY FieldNames DEF TypeInv, TypeOK, NotVisiting, RegInv, RegistryExact
<1>4. \A i \in Nat : ObjectAt(live, i) \in Addresses \cup {NULL}
  BY ElementOfSeq, LenProperties DEF TypeInv, TypeOK, ObjectAt
<1>5. visit' \in Visits
  <2>1. CASE SumBegin \/ EachBegin
    <3>1. \E name \in {"sum", "each"} :
            visit' = [op |-> name, at |-> 1, obj |-> ObjectAt(live, 1), field |-> 1, total |-> Zero]
      BY <1>3, <2>1 DEF SumBegin, EachBegin, NotVisiting
    <3>2. ObjectAt(live, 1) \in Addresses \cup {NULL} /\ Zero \in Totals
      BY <1>4, FieldNames
    <3> QED BY <3>1, <3>2
  <2>2. CASE Load
    <3>1. visit.obj \in Addresses /\ visit.total \in Totals /\ stats[visit.obj] \in Totals
      BY <1>3, <2>2 DEF Load, TypeInv, TypeOK
    <3> DEFINE f == LoadOrder[visit.field]
               total == [visit.total EXCEPT ![f] = Plus(visit.total, stats[visit.obj])[f]]
               at == IF visit.field = 5 THEN visit.at + 1 ELSE visit.at
               obj == IF visit.field = 5 THEN ObjectAt(live, at) ELSE visit.obj
    <3>2. visit.field \in 1 .. 5 /\ f \in Fields
      BY <1>3 DEF Fields
    <3>3. total \in Totals
      <4>1. Plus(visit.total, stats[visit.obj])[f] \in Nat
        BY <3>1, <3>2, PlusJoins DEF Totals
      <4> HIDE DEF f
      <4> QED BY <3>1, <4>1 DEF Totals
    <3>4. at \in Nat /\ (visit.field % 5) + 1 \in 1 .. 5
      BY <1>3, <3>2
    <3>5. obj \in Addresses \cup {NULL}
      BY <1>4, <3>1, <3>4
    <3>6. visit' = [op |-> "sum", at |-> at, obj |-> obj, field |-> (visit.field % 5) + 1, total |-> total]
      BY <2>2 DEF Load
    <3> HIDE DEF total, at, obj, f
    <3> QED BY <3>3, <3>4, <3>5, <3>6
  <2>3. CASE SumRetired
    <3>1. FoldLeft(Plus, visit.total, retired) \in Totals
      BY <1>3, FoldJoins DEF TypeInv, TypeOK
    <3> QED BY <1>3, <2>3, <3>1 DEF SumRetired
  <2>4. CASE SumReturn
    BY <1>3, <2>4 DEF SumReturn
  <2>5. CASE EachNext
    <3>1. visit.at + 1 \in Nat
      BY <1>3
    <3>2. ObjectAt(live_allocators, visit.at + 1) \in Addresses \cup {NULL}
      BY <1>3, <1>4, <3>1
    <3> QED BY <1>3, <2>5, <3>1, <3>2 DEF EachNext
  <2> QED BY <2>1, <2>2, <2>3, <2>4, <2>5
<1>6. TypeOK'
  BY <1>1, <1>2, <1>5 DEF TypeInv, TypeOK, registryVars, ownerVars
<1>7. HeldFits' /\ OwnersRun'
  BY <1>1 DEF TypeInv, HeldFits, OwnersRun, registryVars, ownerVars
<1> QED BY <1>6, <1>7 DEF TypeInv

(* Every step keeps the types.                                                *)
LEMMA StepTypeInv == RegInv /\ RegInv' /\ TypeInv /\ [Next]_vars => TypeInv'
<1> SUFFICES ASSUME RegInv, RegInv', TypeInv, [Next]_vars PROVE TypeInv'
  OBVIOUS
<1>1. ASSUME UNCHANGED vars PROVE TypeInv'
  BY <1>1 DEF TypeInv, TypeOK, HeldFits, OwnersRun, vars, registryVars, ownerVars, readerVars
<1> QED BY <1>1, RegisterTypes, RetireTypes, RecordAllocTypes, RecordFreeTypes, StoreTypes,
           ReaderTypes DEF Next

(* The types hold in every state, and with them what keeps live_ a natural    *)
(* number: a thread gives back only blocks it holds.                          *)
THEOREM TypeInvAlways == Spec => []TypeInv
<1> QED BY InitTypeInv, StepTypeInv, RegInvAlways, PTL DEF Spec
------------------------------------------------------------------------------
(* The totals that the invariant speaks of are natural numbers.              *)
LEMMA TotalsTyped ==
  ASSUME TypeOK, NEW f \in Fields
  PROVE  /\ How(f) \in Joinings
         /\ \A a \in Addresses : Of(f)[a] = stats[a][f] /\ Of(f)[a] \in Nat
         /\ \A S \in SUBSET Addresses : IsFiniteSet(S) => Total(How(f), Of(f), S) \in Nat
         /\ Gone(f) \in Nat
         /\ recorded[f] \in Nat /\ asked[f] \in Nat /\ visit.total[f] \in Nat
<1>1. How(f) \in Joinings
  BY FieldNames
<1>2. \A a \in Addresses : Of(f)[a] = stats[a][f] /\ Of(f)[a] \in Nat
  BY DEF Of, TypeOK, Totals
<1>3. ASSUME NEW S \in SUBSET Addresses, IsFiniteSet(S) PROVE Total(How(f), Of(f), S) \in Nat
  BY <1>1, <1>2, <1>3, TotalType
<1>4. Gone(f) \in Nat
  <2> DEFINE D == 1 .. Len(retired)
  <2>1. \A i \in D : Column(retired, f)[i] \in Nat
    BY ElementOfSeq DEF Column, TypeOK, Totals
  <2>2. IsFiniteSet(D)
    BY LenProperties, FS_Interval DEF TypeOK
  <2> HIDE DEF D
  <2>3. Total(How(f), Column(retired, f), D) \in Nat
    BY <1>1, <2>1, <2>2, TotalType
  <2> QED BY <2>3 DEF D, Gone
<1>5. recorded[f] \in Nat /\ asked[f] \in Nat /\ visit.total[f] \in Nat
  BY DEF TypeOK, Totals
<1> QED BY <1>1, <1>2, <1>3, <1>4, <1>5

(* What one more of the retired adds. *)
LEMMA GoneGrows ==
  ASSUME NEW r \in Seq(Totals), NEW t \in Totals, NEW f \in Fields
  PROVE  Total(How(f), Column(Append(r, t), f), 1 .. Len(Append(r, t)))
           = Join(How(f), t[f], Total(How(f), Column(r, f), 1 .. Len(r)))
<1> DEFINE D == 1 .. Len(r)
           n == Len(r) + 1
           c == Column(Append(r, t), f)
<1>1. How(f) \in Joinings
  BY FieldNames
<1>2. /\ Len(r) \in Nat /\ Append(r, t) \in Seq(Totals) /\ Len(Append(r, t)) = n
      /\ \A i \in D : Append(r, t)[i] = r[i]
      /\ Append(r, t)[n] = t
      /\ IsFiniteSet(D) /\ n \notin D /\ 1 .. n = D \cup {n}
  <2>1. Len(r) \in Nat
    BY LenProperties
  <2>2. /\ Append(r, t) \in Seq(Totals) /\ Len(Append(r, t)) = n
        /\ \A i \in D : Append(r, t)[i] = r[i]
        /\ Append(r, t)[n] = t
    BY AppendProperties
  <2>3. IsFiniteSet(D)
    BY <2>1, FS_Interval
  <2>4. n \notin D /\ 1 .. n = D \cup {n}
    BY <2>1
  <2> QED BY <2>1, <2>2, <2>3, <2>4
<1>3. \A i \in D \cup {n} : c[i] = Append(r, t)[i][f] /\ c[i] \in Nat
  <2>1. \A i \in D \cup {n} : Append(r, t)[i] \in Totals
    BY <1>2, ElementOfSeq
  <2> QED BY <1>2, <2>1 DEF Column, Totals
<1>4. \A i \in D : c[i] = Column(r, f)[i]
  BY <1>2, <1>3 DEF Column
<1>5. c[n] = t[f]
  BY <1>2, <1>3
<1> HIDE DEF D, n, c
<1>6. Total(How(f), c, D \cup {n}) = Join(How(f), c[n], Total(How(f), c, D))
  BY <1>1, <1>2, <1>3, TotalAdds
<1>7. Total(How(f), c, D) = Total(How(f), Column(r, f), D)
  BY <1>1, <1>2, <1>4, TotalSame
<1> QED BY <1>2, <1>5, <1>6, <1>7 DEF D, c

(* Every field is loaded once in a round.                                     *)
LEMMA OrderOfLoads ==
  /\ \A i \in 1 .. 5 : LoadOrder[i] \in Fields
  /\ \A i, j \in 1 .. 5 : LoadOrder[i] = LoadOrder[j] => i = j
  /\ \A f \in Fields : \E i \in 1 .. 5 : f = LoadOrder[i]
<1>1. \A i \in 1 .. 5 : i \in {1, 2, 3, 4, 5}
  OBVIOUS
<1>2. \A i, j \in {1, 2, 3, 4, 5} : LoadOrder[i] = LoadOrder[j] => i = j
  BY DEF LoadOrder
<1>3. \A i, j \in 1 .. 5 : LoadOrder[i] = LoadOrder[j] => i = j
  BY <1>1, <1>2
<1> HIDE DEF LoadOrder
<1> QED BY <1>3 DEF Fields

(* Which allocators a global_stats under way has been at.                    *)
LEMMA LoadedRuns ==
  ASSUME RegInv, TypeInv, SumInBounds, visit.op = "sum"
  PROVE  \A f : /\ Loaded(f) \subseteq running /\ IsFiniteSet(Loaded(f))
                /\ IsFiniteSet(running \ Loaded(f)) /\ running \subseteq Addresses
<1> SUFFICES ASSUME NEW f PROVE Loaded(f) \subseteq running
  BY FS_Subset DEF TypeInv, TypeOK, OwnersRun
<1>1. visit.at \in 1 .. Len(live) + 1 /\ (visit.at = Len(live) + 1 => visit.field = 1) /\ Len(live) \in Nat
  BY LenProperties DEF SumInBounds, RegInv
<1>2. visit.field = 1 => ~Past(f)
  BY DEF Past
<1>3. \A i \in 1 .. (IF Past(f) THEN visit.at ELSE visit.at - 1) : i \in 1 .. Len(live)
  BY <1>1, <1>2
<1> QED BY <1>3 DEF Loaded, RegInv, RegistryExact

(* Nothing is recorded and nothing is there.                                  *)
LEMMA InitSumInv == Init => Tallied /\ SumInBounds
<1> SUFFICES ASSUME Init PROVE Tallied /\ SumInBounds
  OBVIOUS
<1>1. visit.op = "none"
  BY DEF Init, NotVisiting
<1>2. ASSUME NEW f \in Fields
      PROVE  recorded[f] = Join(How(f), Total(How(f), Of(f), running), Gone(f))
  <2>1. recorded[f] = 0 /\ running = {} /\ 1 .. Len(retired) = {} /\ How(f) \in Joinings
    BY FieldNames DEF Init
  <2>2. Total(How(f), Of(f), running) = 0 /\ Gone(f) = 0
    BY <2>1, TotalEmpty DEF Gone
  <2> QED BY <2>1, <2>2, JoinLaws
<1> QED BY <1>1, <1>2 DEF Tallied, SumInBounds

(* A new allocator brings zeros to the totals.                                *)
LEMMA RegisterTallies ==
  ASSUME TypeInv, Tallied, NEW a \in Addresses, Register(a)
  PROVE  Tallied' /\ SumInBounds'
<1>1. visit'.op = "none"
  BY DEF Register, Unlocked, NotVisiting, readerVars
<1>2. ASSUME NEW f \in Fields
      PROVE  recorded'[f] = Join(How(f), Total(How(f), Of(f), running), Gone(f))'
  <2>1. /\ How(f) \in Joinings
        /\ \A c \in Addresses : Of(f)[c] \in Nat
        /\ IsFiniteSet(running) /\ running \subseteq Addresses /\ a \notin running
    BY TotalsTyped DEF TypeInv, TypeOK, OwnersRun, Register
  <2>2. PICK w, v, S : w = Of(f) /\ v = Of(f)' /\ S = running /\ running' = S \cup {a}
    BY DEF Register
  <2>3. v[a] = 0 /\ \A c \in Addresses : c # a => v[c] = w[c]
    BY <2>2, FieldNames DEF Of, Register, TypeInv, TypeOK
  <2>4. \A c \in S \cup {a} : v[c] \in Nat
    BY <2>1, <2>2, <2>3
  <2>5. Total(How(f), v, S \cup {a}) = Join(How(f), v[a], Total(How(f), v, S))
    BY <2>1, <2>2, <2>4, TotalAdds
  <2>6. Total(How(f), v, S) = Total(How(f), w, S) /\ Total(How(f), v, S) \in Nat
    <3>1. \A c \in S : v[c] = w[c] /\ v[c] \in Nat
      BY <2>1, <2>2, <2>3, <2>4
    <3> QED BY <2>1, <2>2, <3>1, TotalSame, TotalType
  <2>7. Total(How(f), v, S \cup {a}) = Total(How(f), w, S)
    BY <2>1, <2>3, <2>5, <2>6, JoinLaws
  <2>8. recorded' = recorded /\ Gone(f)' = Gone(f)
    BY DEF Register, Gone
  <2>9. recorded[f] = Join(How(f), Total(How(f), Of(f), running), Gone(f))
    BY DEF Tallied
  <2> QED BY <2>2, <2>7, <2>8, <2>9
<1> QED BY <1>1, <1>2 DEF Tallied, SumInBounds

(* A retiring allocator takes its Stats from the live to the retired, in one  *)
(* step: no total changes.                                                    *)
LEMMA RetireTallies ==
  ASSUME TypeInv, Tallied, NEW a \in Addresses, Retire(a)
  PROVE  Tallied' /\ SumInBounds'
<1>1. visit'.op = "none"
  BY DEF Retire, Unlocked, NotVisiting, readerVars
<1>2. ASSUME NEW f \in Fields
      PROVE  recorded'[f] = Join(How(f), Total(How(f), Of(f), running), Gone(f))'
  <2>1. /\ How(f) \in Joinings
        /\ \A c \in Addresses : Of(f)[c] = stats[c][f] /\ Of(f)[c] \in Nat
        /\ IsFiniteSet(running) /\ running \subseteq Addresses /\ a \in running
        /\ Gone(f) \in Nat
    BY TotalsTyped DEF TypeInv, TypeOK, OwnersRun, Retire
  <2>2. Of(f)' = Of(f) /\ recorded' = recorded /\ running' = running \ {a}
    BY DEF Retire, ownerVars, Of
  <2>3. Gone(f)' = Join(How(f), stats[a][f], Gone(f))
    <3>1. retired' = Append(retired, stats[a]) /\ retired \in Seq(Totals) /\ stats[a] \in Totals
      BY DEF Retire, TypeInv, TypeOK
    <3> QED BY <3>1, GoneGrows DEF Gone
  <2>4. Total(How(f), Of(f), running) = Join(How(f), Of(f)[a], Total(How(f), Of(f), running \ {a}))
    <3>1. PICK w, S : w = Of(f) /\ S = running
      OBVIOUS
    <3>2. \A c \in S : w[c] \in Nat
      BY <2>1, <3>1
    <3>3. Total(How(f), w, S) = Join(How(f), w[a], Total(How(f), w, S \ {a}))
      BY <2>1, <3>1, <3>2, TotalRemoves
    <3> QED BY <3>1, <3>3
  <2>5. Total(How(f), Of(f), running \ {a}) \in Nat
    <3>1. IsFiniteSet(running \ {a}) /\ running \ {a} \in SUBSET Addresses
      BY <2>1, FS_Subset
    <3> QED BY <3>1, TotalsTyped DEF TypeInv
  <2>6. PICK s \in Nat, t \in Nat, g \in Nat :
          s = stats[a][f] /\ t = Total(How(f), Of(f), running \ {a}) /\ g = Gone(f)
    BY <2>1, <2>5
  <2>7. recorded[f] = Join(How(f), Join(How(f), s, t), g)
    BY <2>1, <2>4, <2>6 DEF Tallied
  <2>8. Join(How(f), Join(How(f), s, t), g) = Join(How(f), t, Join(How(f), s, g))
    <3>1. PICK h \in Joinings : h = How(f)
      BY <2>1
    <3>2. Join(h, Join(h, s, t), g) = Join(h, t, Join(h, s, g))
      BY DEF Join, Joinings
    <3> QED BY <3>1, <3>2
  <2> QED BY <2>2, <2>3, <2>6, <2>7, <2>8
<1> QED BY <1>1, <1>2 DEF Tallied, SumInBounds

(* A store lets every total grow, and joins what it stores to those its       *)
(* allocator is in.                                                         *)
LEMMA StoreGrows ==
  ASSUME TypeInv, TypeInv', NEW a \in Addresses, NEW f \in Fields, Store(a, f)
  PROVE  \E d \in Nat :
           /\ recorded'[f] = Join(How(f), recorded[f], d)
           /\ \A S \in SUBSET Addresses : IsFiniteSet(S) =>
                Total(How(f), Of(f)', S) =
                  IF a \in S THEN Join(How(f), Total(How(f), Of(f), S), d)
                  ELSE Total(How(f), Of(f), S)
<1>1. PICK d \in Nat : \A v \in Nat : Updated(pending[a], f, v, live_[a]) = Join(How(f), v, d)
  BY UpdatedJoins DEF TypeInv
<1>2. How(f) \in Joinings /\ recorded[f] \in Nat /\ \A c \in Addresses : Of(f)[c] = stats[c][f] /\ Of(f)[c] \in Nat
  BY TotalsTyped DEF TypeInv
<1>3. recorded'[f] = Join(How(f), recorded[f], d)
  BY <1>1, <1>2 DEF Store, TypeInv, TypeOK, Totals
<1>4. PICK w, v : w = Of(f) /\ v = Of(f)'
  OBVIOUS
<1>5. \A c \in Addresses : w[c] \in Nat /\ v[c] = IF c = a THEN Join(How(f), w[a], d) ELSE w[c]
  <2>1. stats'[a][f] = Join(How(f), stats[a][f], d) /\ \A c \in Addresses : c # a => stats'[c] = stats[c]
    BY <1>1, <1>2 DEF Store, TypeInv, TypeOK, Totals
  <2>2. \A c \in Addresses : v[c] = stats'[c][f]
    BY <1>4 DEF Of
  <2> QED BY <1>2, <1>4, <2>1, <2>2
<1>6. ASSUME NEW S \in SUBSET Addresses, IsFiniteSet(S), a \in S
      PROVE  Total(How(f), v, S) = Join(How(f), Total(How(f), w, S), d)
  <2>1. /\ \A c \in S : w[c] \in Nat
        /\ v[a] = Join(How(f), w[a], d)
        /\ \A c \in S \ {a} : v[c] = w[c]
    BY <1>5
  <2> QED BY <1>2, <1>6, <2>1, TotalGrows
<1>7. ASSUME NEW S \in SUBSET Addresses, IsFiniteSet(S), a \notin S
      PROVE  Total(How(f), v, S) = Total(How(f), w, S)
  <2>1. \A c \in S : v[c] = w[c]
    BY <1>5, <1>7
  <2> QED BY <1>2, <1>7, <2>1, TotalSame
<1> QED BY <1>3, <1>4, <1>6, <1>7

(* The other fields stay. *)
LEMMA StoreLeaves ==
  ASSUME TypeInv, NEW a \in Addresses, NEW f \in Fields, Store(a, f), NEW e \in Fields, e # f
  PROVE  recorded'[e] = recorded[e] /\ Of(e)' = Of(e)
BY DEF Store, TypeInv, TypeOK, Totals, Of

(* How the terms of SumInBounds may be rearranged.                           *)
LEMMA Rearranged ==
  ASSUME NEW h \in Joinings, NEW t \in Nat, NEW x \in Nat, NEW g \in Nat, NEW s \in Nat
  PROVE  /\ Join(h, Join(h, t, x), g) <= Join(h, Join(h, t, Join(h, x, s)), g)
         /\ Join(h, Join(h, t, Join(h, s, x)), g) = Join(h, Join(h, Join(h, t, s), x), g)
         /\ Join(h, Join(h, x, g), s) = Join(h, Join(h, x, s), g)
         /\ Join(h, Join(h, t, x), g) \in Nat
BY DEF Join, Joinings

(* A store is in the totals at once; a global_stats under way sees it if it   *)
(* has not loaded that field yet, and stays in its bounds if it has.          *)
LEMMA StoreTallies ==
  ASSUME RegInv, TypeInv, TypeInv', Tallied, SumInBounds, NEW a \in Addresses, NEW f \in Fields, Store(a, f)
  PROVE  Tallied' /\ SumInBounds'
<1>1. UNCHANGED <<registryVars, readerVars>>
  BY DEF Store
<1>2. a \in running /\ running \in SUBSET Addresses /\ IsFiniteSet(running)
  BY DEF Store, TypeInv, TypeOK, OwnersRun
<1>3. PICK d \in Nat :
           /\ recorded'[f] = Join(How(f), recorded[f], d)
           /\ \A S \in SUBSET Addresses : IsFiniteSet(S) =>
                Total(How(f), Of(f)', S) =
                  IF a \in S THEN Join(How(f), Total(How(f), Of(f), S), d)
                  ELSE Total(How(f), Of(f), S)
  BY StoreGrows
<1>4. \A e \in Fields : e # f => recorded'[e] = recorded[e] /\ Of(e)' = Of(e)
  BY StoreLeaves
<1>5. \A e : Gone(e)' = Gone(e) /\ Loaded(e)' = Loaded(e)
  BY <1>1 DEF Gone, Loaded, Past, registryVars, readerVars
<1>6. ASSUME NEW e \in Fields
      PROVE  recorded'[e] = Join(How(e), Total(How(e), Of(e), running), Gone(e))'
  <2>1. recorded[e] = Join(How(e), Total(How(e), Of(e), running), Gone(e)) /\ running' = running
    BY <1>1 DEF Tallied, registryVars
  <2>2. CASE e # f
    BY <1>4, <1>5, <2>1, <2>2
  <2>3. CASE e = f
    <3>1. PICK h \in Joinings, x \in Nat, g \in Nat :
            h = How(f) /\ x = Total(How(f), Of(f), running) /\ g = Gone(f)
      BY <1>2, TotalsTyped DEF TypeInv
    <3>2. recorded'[f] = Join(h, Join(h, x, g), d)
      BY <1>3, <2>1, <2>3, <3>1
    <3>3. Total(How(f), Of(f)', running) = Join(h, x, d)
      BY <1>2, <1>3, <3>1
    <3>4. Join(h, Join(h, x, g), d) = Join(h, Join(h, x, d), g)
      BY Rearranged
    <3> QED BY <1>5, <2>1, <2>3, <3>1, <3>2, <3>3, <3>4
  <2> QED BY <2>2, <2>3
<1>7. ASSUME visit.op = "sum", NEW e \in Fields
      PROVE  /\ visit.total[e] <= Total(How(e), Of(e)', Loaded(e))
             /\ asked[e] <= Join(How(e), Join(How(e), visit.total[e],
                                              Total(How(e), Of(e)', running \ Loaded(e))), Gone(e))
  <2>1. /\ visit.total[e] <= Total(How(e), Of(e), Loaded(e))
        /\ asked[e] <= Join(How(e), Join(How(e), visit.total[e],
                                         Total(How(e), Of(e), running \ Loaded(e))), Gone(e))
    BY <1>7 DEF SumInBounds
  <2>2. CASE e # f
    BY <1>4, <2>1, <2>2
  <2>3. CASE e = f
    <3>1. PICK L, R : L = Loaded(f) /\ R = running \ L
      OBVIOUS
    <3>2. /\ IsFiniteSet(L) /\ L \in SUBSET Addresses
          /\ IsFiniteSet(R) /\ R \in SUBSET Addresses
      BY <1>2, <1>7, <3>1, LoadedRuns
    <3>3. PICK h \in Joinings, x \in Nat, y \in Nat, g \in Nat, t \in Nat, q \in Nat :
            /\ h = How(f) /\ x = Total(How(f), Of(f), L) /\ y = Total(How(f), Of(f), R)
            /\ g = Gone(f) /\ t = visit.total[f] /\ q = asked[f]
      BY <3>2, TotalsTyped DEF TypeInv
    <3>4. t <= x /\ q <= Join(h, Join(h, t, y), g)
      BY <2>1, <2>3, <3>1, <3>3
    <3>5. Join(h, x, d) \in Nat /\ x <= Join(h, x, d) /\ Join(h, y, d) \in Nat
      BY JoinLaws
    <3>6. /\ Join(h, Join(h, t, y), g) <= Join(h, Join(h, t, Join(h, y, d)), g)
          /\ Join(h, Join(h, t, y), g) \in Nat
      BY Rearranged
    <3>7. Join(h, Join(h, t, Join(h, y, d)), g) \in Nat
      BY <3>5, Rearranged
    <3>8. Total(How(f), Of(f)', L) \in {x, Join(h, x, d)}
      BY <1>3, <3>2, <3>3
    <3>9. Total(How(f), Of(f)', R) \in {y, Join(h, y, d)}
      BY <1>3, <3>2, <3>3
    <3>10. t <= Total(How(f), Of(f)', L)
      BY <3>4, <3>5, <3>8
    <3>11. q <= Join(h, Join(h, t, Total(How(f), Of(f)', R)), g)
      BY <3>4, <3>6, <3>7, <3>9
    <3> QED BY <2>3, <3>1, <3>3, <3>10, <3>11
  <2> QED BY <2>2, <2>3
<1>8. SumInBounds'
  <2>1. /\ visit' = visit /\ asked' = asked /\ live' = live /\ running' = running
        /\ ObjectAt(live, visit.at)' = ObjectAt(live, visit.at)
    BY <1>1 DEF registryVars, readerVars, ObjectAt
  <2>2. visit.op = "sum" =>
            /\ visit.at \in 1 .. Len(live) + 1 /\ visit.obj = ObjectAt(live, visit.at)
            /\ visit.at = Len(live) + 1 => visit.field = 1
    BY DEF SumInBounds
  <2> QED BY <1>5, <1>7, <2>1, <2>2 DEF SumInBounds
<1>9. Tallied'
  BY <1>6 DEF Tallied
<1> QED BY <1>8, <1>9

(* When global_stats begins, all that is asked for is still to be loaded.     *)
LEMMA SumBeginBounds ==
  ASSUME RegInv, TypeInv, Tallied, SumBegin
  PROVE  SumInBounds'
<1>1. /\ UNCHANGED <<registryVars, ownerVars>>
      /\ asked' = recorded
      /\ visit' = [op |-> "sum", at |-> 1, obj |-> ObjectAt(live, 1), field |-> 1, total |-> Zero]
  BY DEF SumBegin, NotVisiting
<1>2. visit'.at = 1 /\ visit'.field = 1 /\ visit'.obj = ObjectAt(live, 1) /\ visit'.total = Zero
  BY <1>1
<1>3. live' = live /\ running' = running /\ Len(live) \in Nat
  BY <1>1, LenProperties DEF registryVars, RegInv
<1>4. \A f : Loaded(f)' = {}
  <2>1. \A f : ~Past(f)'
    BY <1>2 DEF Past
  <2> QED BY <1>2, <2>1 DEF Loaded
<1>5. \A f : Of(f)' = Of(f) /\ Gone(f)' = Gone(f)
  BY <1>1 DEF Of, Gone, registryVars, ownerVars
<1>6. ObjectAt(live, visit.at)' = ObjectAt(live, 1)
  BY <1>2, <1>3 DEF ObjectAt
<1>7. ASSUME NEW f \in Fields
      PROVE  /\ Zero[f] <= Total(How(f), Of(f), {})
             /\ recorded[f] <= Join(How(f), Join(How(f), Zero[f], Total(How(f), Of(f), running)), Gone(f))
  <2>1. PICK h \in Joinings, x \in Nat, g \in Nat, r \in Nat :
          /\ h = How(f) /\ x = Total(How(f), Of(f), running) /\ g = Gone(f) /\ r = recorded[f]
    BY TotalsTyped DEF TypeInv, TypeOK, OwnersRun
  <2>2. Total(How(f), Of(f), {}) = 0 /\ Zero[f] = 0
    BY FieldNames, TotalEmpty
  <2>3. r = Join(h, x, g)
    BY <2>1 DEF Tallied
  <2>4. Join(h, 0, x) = x
    BY JoinLaws
  <2> QED BY <2>1, <2>2, <2>3, <2>4
<1>8. \A S : S \ {} = S
  OBVIOUS
<1>9. \A f \in Fields :
         /\ visit'.total[f] <= Total(How(f), Of(f)', Loaded(f)')
         /\ asked'[f] <= Join(How(f), Join(How(f), visit'.total[f],
                                          Total(How(f), Of(f)', running' \ Loaded(f)')), Gone(f)')
  BY <1>1, <1>2, <1>3, <1>4, <1>5, <1>7, <1>8
<1> QED BY <1>2, <1>3, <1>6, <1>9 DEF SumInBounds

(* A load takes one allocator into what is loaded of one field.              *)
LEMMA LoadMoves ==
  ASSUME RegInv, TypeInv, SumInBounds, Load
  PROVE  \E g \in Fields :
           /\ visit.obj \in running /\ visit.obj \notin Loaded(g)
           /\ Loaded(g)' = Loaded(g) \cup {visit.obj}
           /\ visit'.total[g] = Join(How(g), visit.total[g], stats[visit.obj][g])
           /\ \A f \in Fields : f # g => Loaded(f)' = Loaded(f) /\ visit'.total[f] = visit.total[f]
           /\ visit'.at \in 1 .. Len(live) + 1 /\ visit'.obj = ObjectAt(live, visit'.at)
           /\ visit'.at = Len(live) + 1 => visit'.field = 1
<1>0. PICK k \in 1 .. 5 : k = visit.field
  BY DEF TypeInv, TypeOK
<1> DEFINE g == LoadOrder[k]
           at == IF k = 5 THEN visit.at + 1 ELSE visit.at
<1>1. /\ visit.op = "sum" /\ visit.obj # NULL
      /\ visit.total \in Totals /\ visit.obj \in Addresses /\ stats[visit.obj] \in Totals
      /\ Len(live) \in Nat /\ DOMAIN live = 1 .. Len(live)
  BY LenProperties DEF TypeInv, TypeOK, Load, RegInv
<1>2. /\ visit.at \in 1 .. Len(live) /\ visit.obj = live[visit.at]
  BY <1>0, <1>1 DEF SumInBounds, ObjectAt
<1>3. g \in Fields /\ \A i \in 1 .. 5 : LoadOrder[i] = g => i = k
  BY <1>1, OrderOfLoads
<1>4. visit' = [op |-> "sum", at |-> at,
                obj |-> IF k = 5 THEN ObjectAt(live, at) ELSE visit.obj,
                field |-> (k % 5) + 1,
                total |-> [visit.total EXCEPT ![g] = Plus(visit.total, stats[visit.obj])[g]]]
  BY <1>0 DEF Load
<1>5. live' = live
  BY DEF Load, registryVars
<1>6. visit'.total[g] = Join(How(g), visit.total[g], stats[visit.obj][g])
  <2>1. Plus(visit.total, stats[visit.obj])[g] = Join(How(g), visit.total[g], stats[visit.obj][g])
    BY <1>1, <1>3, PlusJoins
  <2> HIDE DEF g
  <2>2. visit'.total = [visit.total EXCEPT ![g] = Plus(visit.total, stats[visit.obj])[g]]
    BY <1>4
  <2> QED BY <1>1, <1>3, <2>1, <2>2 DEF Totals
<1>7. \A f \in Fields : f # g => visit'.total[f] = visit.total[f]
  <2>1. visit'.total = [visit.total EXCEPT ![g] = Plus(visit.total, stats[visit.obj])[g]]
    BY <1>4
  <2> HIDE DEF g
  <2> QED BY <1>1, <2>1 DEF Totals
<1>8. /\ visit'.at = at /\ visit'.field = IF k = 5 THEN 1 ELSE k + 1
      /\ visit'.obj = IF k = 5 THEN ObjectAt(live, at) ELSE visit.obj
  <2>1. \A i \in 1 .. 5 : (i % 5) + 1 = IF i = 5 THEN 1 ELSE i + 1
    OBVIOUS
  <2> QED BY <1>1, <1>4, <2>1
<1>9. /\ visit'.at \in 1 .. Len(live) + 1 /\ visit'.obj = ObjectAt(live, visit'.at)
      /\ visit'.at = Len(live) + 1 => visit'.field = 1
  BY <1>0, <1>1, <1>2, <1>8 DEF SumInBounds
<1> DEFINE n == visit.at
           end(f) == IF Past(f) THEN n ELSE n - 1
<1>10. n \in 1 .. Len(live) /\ \A f : Loaded(f) = {live[i] : i \in 1 .. end(f)}
  BY <1>2 DEF Loaded
<1>11. ~Past(g)
  BY <1>0, <1>3 DEF Past
<1>12. ASSUME NEW f \in Fields
       PROVE  Loaded(f)' = {live[i] : i \in 1 .. (IF f = g THEN n ELSE end(f))}
  <2>1. PICK j \in 1 .. 5 : f = LoadOrder[j]
    BY OrderOfLoads
  <2>2. \A i \in 1 .. 5 : LoadOrder[i] = f <=> i = j
    BY <2>1, OrderOfLoads
  <2>3. Past(f) <=> j < k
    BY <1>0, <2>2 DEF Past
  <2>4. f = g <=> j = k
    BY <1>1, <2>2
  <2>5. Past(f)' <=> j < visit'.field
    BY <1>0, <1>8, <2>2 DEF Past
  <2>6. Loaded(f)' = {live[i] : i \in 1 .. (IF j < visit'.field THEN at ELSE at - 1)}
    BY <1>5, <1>8, <2>5 DEF Loaded
  <2>7. (IF j < visit'.field THEN at ELSE at - 1) = IF f = g THEN n ELSE end(f)
    BY <1>1, <1>2, <1>8, <2>3, <2>4
  <2> QED BY <2>6, <2>7
<1>13. \A f \in Fields : f # g => Loaded(f)' = Loaded(f)
  BY <1>10, <1>12
<1>14. Loaded(g)' = Loaded(g) \cup {live[n]} /\ live[n] \notin Loaded(g)
  <2>1. Loaded(g)' = {live[i] : i \in 1 .. n} /\ Loaded(g) = {live[i] : i \in 1 .. n - 1}
    <3>1. end(g) = n - 1
      BY <1>11
    <3>2. Loaded(g)' = {live[i] : i \in 1 .. n}
      BY <1>3, <1>12
    <3> HIDE DEF end
    <3> QED BY <1>10, <3>1, <3>2
  <2>2. \A i \in 1 .. n : i \in 1 .. n - 1 \/ i = n
    BY <1>10
  <2>3. \A i \in 1 .. n - 1 : i \in 1 .. n /\ live[i] # live[n]
    BY <1>10 DEF RegInv, RegistryExact
  <2>4. n \in 1 .. n
    BY <1>10
  <2> HIDE DEF n
  <2> QED BY <2>1, <2>2, <2>3, <2>4
<1>15. visit.obj \in running
  BY <1>2 DEF RegInv, RegistryExact
<1>16. visit.obj \notin Loaded(g) /\ Loaded(g)' = Loaded(g) \cup {visit.obj}
  BY <1>2, <1>14
<1> HIDE DEF g
<1> QED BY <1>3, <1>6, <1>7, <1>9, <1>13, <1>15, <1>16

(* What a load adds to the total it takes from what is still to be loaded.    *)
LEMMA LoadBounds ==
  ASSUME RegInv, TypeInv, SumInBounds, Load
  PROVE  SumInBounds'
<1>1. UNCHANGED <<registryVars, ownerVars, asked>> /\ visit.op = "sum"
  BY DEF Load
<1>2. live' = live /\ running' = running /\ asked' = asked
      /\ \A f : Of(f)' = Of(f) /\ Gone(f)' = Gone(f)
  BY <1>1 DEF Of, Gone, registryVars, ownerVars
<1>3. PICK g \in Fields :
           /\ visit.obj \in running /\ visit.obj \notin Loaded(g)
           /\ Loaded(g)' = Loaded(g) \cup {visit.obj}
           /\ visit'.total[g] = Join(How(g), visit.total[g], stats[visit.obj][g])
           /\ \A f \in Fields : f # g => Loaded(f)' = Loaded(f) /\ visit'.total[f] = visit.total[f]
           /\ visit'.at \in 1 .. Len(live) + 1 /\ visit'.obj = ObjectAt(live, visit'.at)
           /\ visit'.at = Len(live) + 1 => visit'.field = 1
  BY LoadMoves
<1>4. ASSUME NEW f \in Fields
      PROVE  /\ visit'.total[f] <= Total(How(f), Of(f), Loaded(f)')
             /\ asked[f] <= Join(How(f), Join(How(f), visit'.total[f],
                                              Total(How(f), Of(f), running \ Loaded(f)')), Gone(f))
  <2>1. /\ visit.total[f] <= Total(How(f), Of(f), Loaded(f))
        /\ asked[f] <= Join(How(f), Join(How(f), visit.total[f],
                                         Total(How(f), Of(f), running \ Loaded(f))), Gone(f))
    BY <1>1 DEF SumInBounds
  <2>2. CASE f # g
    BY <1>3, <2>1, <2>2
  <2>3. CASE f = g
    <3>0. PICK h \in Joinings : h = How(f)
      BY FieldNames
    <3>1. PICK a, L, R, w : a = visit.obj /\ L = Loaded(f) /\ w = Of(f) /\ R = running \ (L \cup {a})
      OBVIOUS
    <3>2. /\ IsFiniteSet(L) /\ a \notin L /\ L \cup {a} \subseteq Addresses
          /\ IsFiniteSet(R) /\ a \notin R /\ R \cup {a} = running \ L /\ R \cup {a} \subseteq Addresses
      <4>1. IsFiniteSet(L) /\ L \subseteq running /\ IsFiniteSet(running \ L) /\ running \subseteq Addresses
        BY <1>1, <3>1, LoadedRuns
      <4>2. a \in running /\ a \notin L
        BY <1>3, <2>3, <3>1
      <4>3. R \subseteq running \ L /\ R \cup {a} = running \ L /\ a \notin R
        BY <3>1, <4>1, <4>2
      <4> QED BY <4>1, <4>2, <4>3, FS_Subset
    <3>3. \A c \in Addresses : w[c] \in Nat /\ w[c] = stats[c][f]
      BY <3>0, <3>1, TotalsTyped DEF TypeInv
    <3>4. Total(h, w, L \cup {a}) = Join(h, w[a], Total(h, w, L))
      <4>1. \A c \in L \cup {a} : w[c] \in Nat
        BY <3>2, <3>3
      <4> QED BY <3>2, <4>1, TotalAdds
    <3>5. Total(h, w, R \cup {a}) = Join(h, w[a], Total(h, w, R))
      <4>1. \A c \in R \cup {a} : w[c] \in Nat
        BY <3>2, <3>3
      <4> QED BY <3>2, <4>1, TotalAdds
    <3>6. Total(h, w, L) \in Nat /\ Total(h, w, R) \in Nat
      <4>1. (\A c \in L : w[c] \in Nat) /\ (\A c \in R : w[c] \in Nat)
        BY <3>2, <3>3
      <4> QED BY <3>2, <4>1, TotalType
    <3>7. PICK s \in Nat, x \in Nat, y \in Nat, g2 \in Nat, t \in Nat, q \in Nat :
            /\ s = w[a] /\ s = stats[a][f] /\ x = Total(h, w, L) /\ y = Total(h, w, R)
            /\ g2 = Gone(f) /\ t = visit.total[f] /\ q = asked[f]
      BY <3>0, <3>2, <3>3, <3>6, TotalsTyped DEF TypeInv
    <3>8. t <= x /\ q <= Join(h, Join(h, t, Join(h, s, y)), g2)
      BY <3>0, <2>1, <3>1, <3>2, <3>5, <3>7
    <3>9. visit'.total[f] = Join(h, t, s) /\ Loaded(f)' = L \cup {a}
      BY <3>0, <1>3, <2>3, <3>1, <3>7
    <3>10. Join(h, t, s) <= Join(h, s, x)
      <4>1. Join(h, t, s) <= Join(h, x, s) /\ Join(h, x, s) = Join(h, s, x)
        BY <3>8 DEF Join, Joinings
      <4> QED BY <4>1
    <3>11. Join(h, Join(h, t, Join(h, s, y)), g2) = Join(h, Join(h, Join(h, t, s), y), g2)
      BY Rearranged
    <3> QED BY <3>0, <3>1, <3>4, <3>7, <3>8, <3>9, <3>10, <3>11
  <2> QED BY <2>2, <2>3
<1>5. ObjectAt(live, visit.at)' = ObjectAt(live, visit'.at)
  BY <1>2 DEF ObjectAt
<1> QED BY <1>2, <1>3, <1>4, <1>5 DEF SumInBounds

(* What no step of an owner's call but its stores changes.                   *)
LEMMA UntouchedTallies ==
  ASSUME Tallied, UNCHANGED <<stats, recorded, retired, running>>
  PROVE  Tallied'
<1>1. \A f : Of(f)' = Of(f) /\ Gone(f)' = Gone(f)
  BY DEF Of, Gone
<1> QED BY <1>1 DEF Tallied

(* Nor the bounds of a sum.                                                   *)
LEMMA UntouchedBounds ==
  ASSUME SumInBounds, UNCHANGED <<stats, retired, running, live, visit, asked>>
  PROVE  SumInBounds'
<1>1. /\ \A f : Of(f)' = Of(f) /\ Gone(f)' = Gone(f) /\ Loaded(f)' = Loaded(f)
      /\ ObjectAt(live, visit.at)' = ObjectAt(live, visit.at)
  BY DEF Of, Gone, Loaded, Past, ObjectAt
<1> QED BY <1>1 DEF SumInBounds

(* Every step keeps the tallies and the bounds.                               *)
LEMMA StepSumInv ==
  RegInv /\ TypeInv /\ TypeInv' /\ Tallied /\ SumInBounds /\ [Next]_vars => Tallied' /\ SumInBounds'
<1> SUFFICES ASSUME RegInv, TypeInv, TypeInv', Tallied, SumInBounds, [Next]_vars
             PROVE  Tallied' /\ SumInBounds'
  OBVIOUS
<1>1. ASSUME UNCHANGED <<stats, recorded, retired, running, live, visit, asked>>
      PROVE  Tallied' /\ SumInBounds'
  BY <1>1, UntouchedTallies, UntouchedBounds
<1>2. ASSUME NEW a \in Addresses, NEW b \in Blocks \cup Large, RecordAlloc(a, b)
      PROVE  Tallied' /\ SumInBounds'
  BY <1>1, <1>2 DEF RecordAlloc, Begin, registryVars, readerVars
<1>3. ASSUME NEW a \in Addresses, NEW b \in Blocks, NEW n \in {b[1], b[2]}, RecordFree(a, b, n)
      PROVE  Tallied' /\ SumInBounds'
  BY <1>1, <1>3 DEF RecordFree, Begin, registryVars, readerVars
<1>4. ASSUME UNCHANGED vars PROVE Tallied' /\ SumInBounds'
  BY <1>1, <1>4 DEF vars, registryVars, ownerVars, readerVars
<1>5. ASSUME SumBegin \/ Load PROVE Tallied' /\ SumInBounds'
  <2>1. UNCHANGED <<registryVars, ownerVars>>
    BY <1>5 DEF SumBegin, Load
  <2>2. Tallied'
    BY <2>1, UntouchedTallies DEF registryVars, ownerVars
  <2> QED BY <1>5, <2>2, SumBeginBounds, LoadBounds
<1>6. ASSUME SumRetired \/ SumReturn \/ EachBegin \/ EachNext PROVE Tallied' /\ SumInBounds'
  <2>1. UNCHANGED <<registryVars, ownerVars>>
    BY <1>6 DEF SumRetired, SumReturn, EachBegin, EachNext
  <2>2. Tallied'
    BY <2>1, UntouchedTallies DEF registryVars, ownerVars
  <2>3. visit'.op # "sum"
    <3>1. visit \in [op : {"none", "sum", "return", "each"}, at : Nat, obj : Addresses \cup {NULL},
                     field : 1 .. 5, total : Totals]
      BY DEF TypeInv, TypeOK
    <3>2. CASE SumRetired
      BY <3>1, <3>2 DEF SumRetired
    <3>3. CASE SumReturn
      BY <3>3 DEF SumReturn, NotVisiting
    <3>4. CASE EachBegin
      BY <3>4 DEF EachBegin, NotVisiting
    <3>5. CASE EachNext
      BY <3>1, <3>5 DEF EachNext, NotVisiting
    <3> QED BY <1>6, <3>2, <3>3, <3>4, <3>5
  <2> QED BY <2>2, <2>3 DEF SumInBounds
<1> QED BY <1>2, <1>3, <1>4, <1>5, <1>6, RegisterTallies, RetireTallies, StoreTallies DEF Next

(* In every state what was recorded is in the Stats of the live and of the    *)
(* retired, each once, and a sum under way lies within its bounds.            *)
THEOREM SumInvAlways == Spec => []SumInv
<1>1. Init => SumInv
  BY InitRegInv, InitTypeInv, InitSumInv DEF SumInv
<1>2. SumInv /\ [Next]_vars => SumInv'
  BY StepRegInv, StepTypeInv, StepSumInv DEF SumInv
<1> QED BY <1>1, <1>2, PTL DEF Spec

(* The initial state maps to the initial state of RunningTotals.              *)
LEMMA InitReads == Init => Abstract!Init
<1> SUFFICES ASSUME Init PROVE Abstract!Init
  OBVIOUS
<1>1. Returned = Zero
  BY DEF Init, Returned, NotVisiting
<1> QED BY <1>1 DEF Init, Abstract!Init, Abstract!Nothing, Zero

(* The answer, the retired added up. *)
LEMMA SumRetiredAnswers ==
  ASSUME SumInv, SumRetired
  PROVE  Abstract!Answer
<1>1. /\ visit.op = "sum" /\ visit.obj = NULL
      /\ visit'.op = "return" /\ visit'.total = FoldLeft(Plus, visit.total, retired)
      /\ UNCHANGED <<registryVars, ownerVars, asked>>
  BY DEF SumInv, TypeInv, TypeOK, SumRetired
<1>2. Returned' = FoldLeft(Plus, visit.total, retired) /\ recorded' = recorded /\ asked' = asked
  BY <1>1 DEF Returned, ownerVars
<1>3. \A f : Loaded(f) = running
  <2>1. Len(live) \in Nat /\ DOMAIN live = 1 .. Len(live) /\ \A i \in 1 .. Len(live) : live[i] \in Addresses
    BY LenProperties, ElementOfSeq DEF SumInv, RegInv
  <2>2. /\ visit.at \in 1 .. Len(live) + 1 /\ ObjectAt(live, visit.at) = NULL
        /\ visit.at = Len(live) + 1 => visit.field = 1
    BY <1>1 DEF SumInv, SumInBounds
  <2>3. visit.at \notin 1 .. Len(live)
    BY <2>1, <2>2, StatisticsAssumption DEF ObjectAt
  <2>4. visit.at = Len(live) + 1 /\ visit.field = 1
    BY <2>1, <2>2, <2>3
  <2>5. \A f : ~Past(f)
    BY <2>4 DEF Past
  <2>6. visit.at - 1 = Len(live)
    BY <2>1, <2>4
  <2>7. \A f : Loaded(f) = {live[i] : i \in 1 .. Len(live)}
    BY <2>5, <2>6 DEF Loaded
  <2> QED BY <2>7 DEF SumInv, RegInv, RegistryExact
<1>4. ASSUME NEW f \in Fields
      PROVE  asked[f] <= Returned'[f] /\ Returned'[f] <= recorded[f]
  <2>1. PICK h \in Joinings, x \in Nat, g \in Nat, r \in Nat, q \in Nat, t \in Nat :
          /\ h = How(f) /\ x = Total(How(f), Of(f), running) /\ g = Gone(f)
          /\ r = recorded[f] /\ q = asked[f] /\ t = visit.total[f]
    BY TotalsTyped DEF SumInv, TypeInv, TypeOK, OwnersRun
  <2>2. Returned'[f] = Join(h, t, g)
    <3>1. visit.total \in Totals /\ retired \in Seq(Totals)
      BY DEF SumInv, TypeInv, TypeOK
    <3> QED BY <1>2, <2>1, <3>1, FoldJoins DEF Gone
  <2>3. r = Join(h, x, g)
    BY <2>1 DEF SumInv, Tallied
  <2>4. running \ running = {} /\ Total(h, Of(f), {}) = 0 /\ Join(h, t, 0) = t
    BY TotalEmpty, JoinLaws
  <2>5. t <= x /\ q <= Join(h, t, g)
    BY <1>1, <1>3, <2>1, <2>4 DEF SumInv, SumInBounds
  <2>6. Join(h, t, g) <= Join(h, x, g)
    BY <2>5, JoinLaws
  <2> QED BY <2>1, <2>2, <2>3, <2>5, <2>6
<1> QED BY <1>2, <1>4 DEF Abstract!Answer, Abstract!AtMost

(* A store is a Record: the totals only grow.                                 *)
LEMMA StoreRecords ==
  ASSUME SumInv, TypeInv', NEW a \in Addresses, NEW f \in Fields, Store(a, f)
  PROVE  Abstract!Record
<1>1. UNCHANGED readerVars
  BY DEF Store
<1>2. asked' = asked /\ Returned' = Returned
  BY <1>1 DEF readerVars, Returned
<1>3. ASSUME NEW e \in Fields PROVE recorded[e] <= recorded'[e]
  <2>1. How(e) \in Joinings /\ recorded[e] \in Nat
    BY TotalsTyped DEF SumInv, TypeInv
  <2>2. CASE e # f
    BY <2>1, <2>2, StoreLeaves DEF SumInv
  <2>3. CASE e = f
    <3>1. PICK d \in Nat : recorded'[f] = Join(How(f), recorded[f], d)
      BY StoreGrows DEF SumInv
    <3> QED BY <2>1, <2>3, <3>1, JoinLaws
  <2> QED BY <2>2, <2>3
<1> QED BY <1>2, <1>3 DEF Abstract!Record, Abstract!AtMost

(* Every step is one of RunningTotals or changes nothing it knows of.         *)
LEMMA StepReads == SumInv /\ TypeInv' /\ [Next]_vars => [Abstract!Next]_(Abstract!rtVars)
<1> SUFFICES ASSUME SumInv, TypeInv', [Next]_vars PROVE [Abstract!Next]_(Abstract!rtVars)
  OBVIOUS
<1> DEFINE Same == recorded' = recorded /\ asked' = asked /\ Returned' = Returned
<1>1. Same => [Abstract!Next]_(Abstract!rtVars)
  BY DEF Abstract!rtVars
<1>2. UNCHANGED <<recorded, asked, visit>> => Same
  BY DEF Returned
<1>3. ASSUME NEW a \in Addresses, Register(a) \/ Retire(a) PROVE Same
  BY <1>2, <1>3 DEF Register, Retire, ownerVars, readerVars
<1>4. ASSUME NEW a \in Addresses, NEW b \in Blocks \cup Large, RecordAlloc(a, b) PROVE Same
  BY <1>2, <1>4 DEF RecordAlloc, Begin, readerVars
<1>5. ASSUME NEW a \in Addresses, NEW b \in Blocks, NEW n \in {b[1], b[2]}, RecordFree(a, b, n) PROVE Same
  BY <1>2, <1>5 DEF RecordFree, Begin, readerVars
<1>6. ASSUME NEW a \in Addresses, NEW f \in Fields, Store(a, f) PROVE Abstract!Next
  BY <1>6, StoreRecords DEF Abstract!Next
<1>7. visit \in [op : {"none", "sum", "return", "each"}, at : Nat, obj : Addresses \cup {NULL},
                 field : 1 .. 5, total : Totals]
  BY DEF SumInv, TypeInv, TypeOK
<1>8. ASSUME Load \/ EachBegin \/ EachNext PROVE Same
  <2>1. recorded' = recorded /\ asked' = asked
    BY <1>8 DEF Load, EachBegin, EachNext, ownerVars
  <2>2. visit.op # "return" /\ visit'.op # "return"
    <3>1. CASE Load
      BY <3>1 DEF Load
    <3>2. CASE EachBegin
      BY <3>2 DEF EachBegin, Unlocked, NotVisiting
    <3>3. CASE EachNext
      BY <1>7, <3>3 DEF EachNext, NotVisiting
    <3> QED BY <1>8, <3>1, <3>2, <3>3
  <2> QED BY <2>1, <2>2 DEF Returned
<1>9. ASSUME SumBegin PROVE Abstract!Next
  <2>1. recorded' = recorded /\ asked' = recorded
    BY <1>9 DEF SumBegin, ownerVars
  <2>2. visit.op # "return" /\ visit'.op # "return"
    BY <1>9 DEF SumBegin, Unlocked, NotVisiting
  <2>3. Returned' = Returned
    BY <2>2 DEF Returned
  <2> QED BY <2>1, <2>3 DEF Abstract!Next, Abstract!Ask
<1>10. ASSUME SumRetired PROVE Abstract!Next
  BY <1>10, SumRetiredAnswers DEF Abstract!Next
<1>11. ASSUME SumReturn PROVE Abstract!Next
  <2>1. recorded' = recorded /\ asked' = Zero /\ visit'.op = "none"
    BY <1>11 DEF SumReturn, ownerVars, NotVisiting
  <2>2. Returned' = Zero
    BY <2>1 DEF Returned
  <2> QED BY <2>1, <2>2 DEF Abstract!Next, Abstract!Over, Abstract!Nothing, Zero
<1>12. ASSUME UNCHANGED vars PROVE Same
  BY <1>2, <1>12 DEF vars, ownerVars, readerVars
<1> HIDE DEF Same
<1> QED BY <1>1, <1>3, <1>4, <1>5, <1>6, <1>8, <1>9, <1>10, <1>11, <1>12 DEF Next

(* global_stats implements RunningTotals: whatever the threads store, start   *)
(* or retire meanwhile, each field of its answer lies between the true total  *)
(* at the call and the one at the return.                                     *)
THEOREM AlwaysSlightlyStale == Spec => SlightlyStale
<1>1. SumInv => TypeInv
  BY DEF SumInv
<1> QED BY InitReads, StepReads, SumInvAlways, <1>1, PTL DEF Spec, SlightlyStale, Abstract!Spec

(* Every variable has its type in every state; that live_ never wraps below   *)
(* zero rests on threads giving back what they hold.                          *)
THEOREM TypeCorrect == Spec => []TypeOK
<1>1. SumInv => TypeOK
  BY DEF SumInv, TypeInv
<1> QED BY <1>1, SumInvAlways, PTL
==============================================================================
