------------------------------ MODULE Recursion ------------------------------
(***************************************************************************)
(* Lemmas about what recursive definitions compute: a loop that looks for   *)
(* the first index to stop at, and the numbers of a finite set added up, or  *)
(* the largest of them, with zero.  Each is a recursive function, which a    *)
(* CHOOSE defines: it has to be shown that there is such a function, and     *)
(* what its values are.  These are inductions, carried out here with the     *)
(* least element of a set of counterexamples.                               *)
(***************************************************************************)
EXTENDS FiniteSetTheorems, WellFoundedInduction, TLAPS

(* A set of numbers that is not empty has a least element. *)
LEMMA LeastNat ==
  ASSUME NEW T, T \subseteq Nat, T # {}
  PROVE  \E x \in T : \A y \in T : x <= y
<1> DEFINE R == OpToRel(<, Nat)
<1>1. IsWellFoundedOn(R, Nat)
  BY NatLessThanWellFounded
<1>2. \A y, x \in Nat : y < x => <<y, x>> \in R
  BY DEF OpToRel
<1> HIDE DEF R
<1>3. PICK x \in T : \A y \in T : ~(<<y, x>> \in R)
  BY <1>1, WFMin
<1>4. \A y \in T : ~(y < x)
  BY <1>2, <1>3
<1>5. \A y \in T : y \in Nat /\ x \in Nat
  OBVIOUS
<1>6. \A y \in T : x <= y
  BY <1>4, <1>5
<1> QED BY <1>6

(* The loop over 0 .. N that goes on from an index to the next one unless it  *)
(* is N or in Stops: there is a function that does what the loop does.        *)
Looping(g, N, Stops) == g = [i \in 0 .. N |-> IF i = N \/ i \in Stops THEN i ELSE g[i + 1]]

LEMMA LoopExists ==
  ASSUME NEW N \in Nat, NEW Stops
  PROVE  \E g : Looping(g, N, Stops)
<1> DEFINE Ends(i)  == {j \in i .. N : j = N \/ j \in Stops}
           First(i) == CHOOSE j \in Ends(i) : \A k \in Ends(i) : j <= k
           found    == [i \in 0 .. N |-> First(i)]
<1>1. ASSUME NEW i \in 0 .. N
      PROVE  First(i) \in Ends(i) /\ \A k \in Ends(i) : First(i) <= k
  <2>1. Ends(i) \subseteq Nat /\ N \in Ends(i)
    OBVIOUS
  <2>2. \E j \in Ends(i) : \A k \in Ends(i) : j <= k
    BY <2>1, LeastNat
  <2> QED BY <2>2
<1>2. ASSUME NEW i \in 0 .. N
      PROVE  First(i) = IF i = N \/ i \in Stops THEN i ELSE found[i + 1]
  <2>1. CASE i = N \/ i \in Stops
    <3>1. i \in Ends(i) /\ \A k \in Ends(i) : i <= k /\ k \in Nat
      BY <2>1
    <3>2. First(i) <= i /\ i <= First(i) /\ First(i) \in Nat
      BY <1>1, <3>1
    <3> HIDE DEF First
    <3> QED BY <2>1, <3>2
  <2>2. CASE ~(i = N \/ i \in Stops)
    <3>1. i + 1 \in 0 .. N
      BY <2>2
    <3>2. Ends(i) = Ends(i + 1)
      BY <2>2
    <3>3. First(i) = First(i + 1)
      BY <3>2
    <3> QED BY <2>2, <3>1, <3>3
  <2> QED BY <2>1, <2>2
<1>3. Looping(found, N, Stops)
  BY <1>2 DEF Looping
<1> QED BY <1>3

(* It stops at the first index where it can.                                 *)
LEMMA LoopFindsFirst ==
  ASSUME NEW N \in Nat, NEW Stops, NEW from,
         \A i \in 0 .. N : from[i] = IF i = N \/ i \in Stops THEN i ELSE from[i + 1]
  PROVE  /\ from[0] \in 0 .. N
         /\ from[0] = N \/ from[0] \in Stops
         /\ \A k \in 0 .. from[0] - 1 : k \notin Stops
<1> DEFINE Ends == {j \in 0 .. N : j = N \/ j \in Stops}
<1>1. PICK s \in Ends : \A k \in Ends : s <= k
  <2>1. Ends \subseteq Nat /\ N \in Ends
    OBVIOUS
  <2> QED BY <2>1, LeastNat
<1>2. s \in 0 .. N /\ from[s] = s /\ (s = N \/ s \in Stops)
  BY <1>1
<1>3. \A k \in 0 .. s - 1 : k \in 0 .. N /\ k \notin Ends
  BY <1>1
<1>4. \A k \in 0 .. s - 1 : k \notin Stops /\ from[k] = from[k + 1]
  BY <1>3
<1> DEFINE Wrong == {d \in 0 .. s : from[s - d] # from[s]}
<1>5. Wrong = {}
  <2>1. SUFFICES ASSUME Wrong # {} PROVE FALSE
    OBVIOUS
  <2>2. Wrong \subseteq Nat
    BY <1>2
  <2>3. PICK d \in Wrong : \A e \in Wrong : d <= e
    BY <2>1, <2>2, LeastNat
  <2>4. d \in 0 .. s /\ d # 0
    BY <1>2, <2>3
  <2>5. s - d \in 0 .. s - 1 /\ (s - d) + 1 = s - (d - 1) /\ d - 1 \in 0 .. s /\ ~(d <= d - 1)
    BY <1>2, <2>4
  <2>6. from[s - (d - 1)] = from[s]
    BY <2>3, <2>5
  <2>7. from[s - d] = from[s - (d - 1)]
    BY <1>4, <2>5
  <2> QED BY <2>3, <2>6, <2>7
<1>6. from[0] = s
  <2>1. s \in 0 .. s /\ s - s = 0
    BY <1>2
  <2> QED BY <1>2, <1>5, <2>1
<1> QED BY <1>2, <1>4, <1>6
------------------------------------------------------------------------------
(* Two ways of putting numbers together: adding them up, and keeping the      *)
(* largest.                                                                 *)
Joinings == {"sum", "max"}
Join(how, x, y) == IF how = "sum" THEN x + y ELSE IF x > y THEN x ELSE y

(* Either way is a commutative monoid of the natural numbers, and monotonic.  *)
LEMMA JoinLaws ==
  ASSUME NEW how \in Joinings
  PROVE  /\ \A x, y \in Nat : /\ Join(how, x, y) \in Nat
                             /\ Join(how, x, y) = Join(how, y, x)
                             /\ x <= Join(how, x, y) /\ y <= Join(how, x, y)
         /\ \A x \in Nat : Join(how, x, 0) = x /\ Join(how, 0, x) = x
         /\ \A x, y, z \in Nat : Join(how, x, Join(how, y, z)) = Join(how, Join(how, x, y), z)
         /\ \A x, y, z \in Nat : x <= y => Join(how, x, z) <= Join(how, y, z)
BY DEF Join, Joinings

(* The element that a joining of s takes next. *)
Pick(s) == CHOOSE x \in s : TRUE

(* The function that does this for every subset of S. *)
Joining(g, how, w, S) ==
  g = [s \in SUBSET S |-> IF s = {} THEN 0 ELSE Join(how, w[Pick(s)], g[s \ {Pick(s)}])]

(* The w[x] over the x in S joined, one element after the other.              *)
Total(how, w, S) ==
  LET rest[s \in SUBSET S] == IF s = {} THEN 0 ELSE Join(how, w[Pick(s)], rest[s \ {Pick(s)}])
  IN rest[S]

(* A function that does this for every subset.                               *)
Joins(g, how, w, S) ==
  \A s \in SUBSET S : g[s] = IF s = {} THEN 0 ELSE Join(how, w[Pick(s)], g[s \ {Pick(s)}])

(* What such a function is asked at sets of up to k elements. *)
JoinsUpTo(g, how, w, S, k) ==
  \A s \in SUBSET S : Cardinality(s) <= k =>
    g[s] = IF s = {} THEN 0 ELSE Join(how, w[Pick(s)], g[s \ {Pick(s)}])

(* A set with one element less. *)
LEMMA Smaller ==
  ASSUME NEW S, IsFiniteSet(S), NEW s \in SUBSET S, NEW x \in s
  PROVE  /\ IsFiniteSet(s) /\ Cardinality(s) \in Nat \ {0}
         /\ s \ {x} \in SUBSET S /\ IsFiniteSet(s \ {x})
         /\ Cardinality(s \ {x}) = Cardinality(s) - 1
<1>1. IsFiniteSet(s)
  BY FS_Subset
<1>2. IsFiniteSet(s \ {x}) /\ Cardinality(s \ {x}) = Cardinality(s) - 1
  BY <1>1, FS_RemoveElement
<1>3. Cardinality(s) \in Nat /\ Cardinality(s \ {x}) \in Nat
  BY <1>1, <1>2, FS_CardinalityType
<1>4. s \ {x} \in SUBSET S
  OBVIOUS
<1> QED BY <1>1, <1>2, <1>3, <1>4

LEMMA Picked == \A s : s # {} => Pick(s) \in s
BY DEF Pick

(* For every number of elements there is a function that sums up to there.   *)
LEMMA JoinsUpToExists ==
  ASSUME NEW how \in Joinings, NEW S, IsFiniteSet(S), NEW w, NEW k \in Nat
  PROVE  \E g : JoinsUpTo(g, how, w, S, k)
<1> DEFINE Short == {m \in Nat : ~ \E g : JoinsUpTo(g, how, w, S, m)}
<1>1. SUFFICES ASSUME Short # {} PROVE FALSE
  OBVIOUS
<1>2. PICK m \in Short : \A l \in Short : m <= l
  BY <1>1, LeastNat
<1>3. m \in Nat /\ ~ \E g : JoinsUpTo(g, how, w, S, m)
  BY <1>2
<1>4. CASE m = 0
  <2> DEFINE zero == [s \in SUBSET S |-> 0]
  <2>1. \A s \in SUBSET S : Cardinality(s) <= 0 => s = {}
    <3>1. SUFFICES ASSUME NEW s \in SUBSET S, Cardinality(s) <= 0 PROVE s = {}
      OBVIOUS
    <3>2. IsFiniteSet(s) /\ Cardinality(s) \in Nat
      BY FS_Subset, FS_CardinalityType
    <3> QED BY <3>1, <3>2, FS_EmptySet
  <2>2. JoinsUpTo(zero, how, w, S, 0)
    BY <2>1 DEF JoinsUpTo
  <2> QED BY <1>3, <1>4, <2>2
<1>5. CASE m # 0
  <2>1. m - 1 \in Nat /\ ~(m <= m - 1)
    BY <1>3, <1>5
  <2>2. PICK g : JoinsUpTo(g, how, w, S, m - 1)
    BY <1>2, <2>1
  <2> DEFINE next == [s \in SUBSET S |-> IF s = {} THEN 0 ELSE Join(how, w[Pick(s)], g[s \ {Pick(s)}])]
  <2>3. \A s \in SUBSET S : Cardinality(s) <= m - 1 => next[s] = g[s]
    BY <2>2 DEF JoinsUpTo
  <2>4. ASSUME NEW s \in SUBSET S, Cardinality(s) <= m
        PROVE  next[s] = IF s = {} THEN 0 ELSE Join(how, w[Pick(s)], next[s \ {Pick(s)}])
    <3>1. CASE s = {}
      BY <3>1
    <3>2. CASE s # {}
      <4>1. /\ s \ {Pick(s)} \in SUBSET S /\ Cardinality(s) \in Nat
            /\ Cardinality(s \ {Pick(s)}) = Cardinality(s) - 1
        BY <3>2, Picked, Smaller
      <4>2. Cardinality(s \ {Pick(s)}) <= m - 1
        BY <1>3, <2>4, <4>1
      <4>3. next[s \ {Pick(s)}] = g[s \ {Pick(s)}]
        BY <2>3, <4>1, <4>2
      <4>4. next[s] = Join(how, w[Pick(s)], g[s \ {Pick(s)}])
        BY <3>2
      <4> QED BY <3>2, <4>3, <4>4
    <3> QED BY <3>1, <3>2
  <2> HIDE DEF next
  <2>5. JoinsUpTo(next, how, w, S, m)
    BY <2>4 DEF JoinsUpTo
  <2> QED BY <1>3, <2>5
<1> QED BY <1>4, <1>5

(* So there is one that sums all subsets.                                    *)
LEMMA TotalExists ==
  ASSUME NEW how \in Joinings, NEW S, IsFiniteSet(S), NEW w
  PROVE  \E g : Joining(g, how, w, S)
<1>1. Cardinality(S) \in Nat
  BY FS_CardinalityType
<1>2. PICK h : JoinsUpTo(h, how, w, S, Cardinality(S))
  BY <1>1, JoinsUpToExists
<1> DEFINE g == [s \in SUBSET S |-> h[s]]
<1>3. \A s \in SUBSET S : g[s] = IF s = {} THEN 0 ELSE Join(how, w[Pick(s)], h[s \ {Pick(s)}])
  <2>1. \A s \in SUBSET S : Cardinality(s) <= Cardinality(S)
    BY FS_Subset
  <2> QED BY <1>2, <2>1 DEF JoinsUpTo
<1>4. \A s \in SUBSET S : g[s \ {Pick(s)}] = h[s \ {Pick(s)}]
  OBVIOUS
<1>5. g = [s \in SUBSET S |-> IF s = {} THEN 0 ELSE Join(how, w[Pick(s)], g[s \ {Pick(s)}])]
  BY <1>3, <1>4
<1> QED BY <1>5 DEF Joining

(* It does not matter which element comes next.                              *)
LEMMA TotalAnyOrder ==
  ASSUME NEW how \in Joinings, NEW S, IsFiniteSet(S), NEW w, \A x \in S : w[x] \in Nat, NEW g,
         Joins(g, how, w, S)
  PROVE  \A s \in SUBSET S : g[s] \in Nat /\ \A x \in s : g[s] = Join(how, w[x], g[s \ {x}])
<1> DEFINE Good(s) == g[s] \in Nat /\ \A x \in s : g[s] = Join(how, w[x], g[s \ {x}])
           Sizes   == {Cardinality(s) : s \in {s \in SUBSET S : ~Good(s)}}
<1>1. SUFFICES ASSUME \E s \in SUBSET S : ~Good(s) PROVE FALSE
  OBVIOUS
<1> HIDE DEF Good
<1>2. Sizes \subseteq Nat /\ Sizes # {}
  <2>1. \A s \in SUBSET S : Cardinality(s) \in Nat
    BY FS_Subset, FS_CardinalityType
  <2> QED BY <1>1, <2>1
<1>3. PICK m \in Sizes : \A l \in Sizes : m <= l
  BY <1>2, LeastNat
<1>4. PICK s \in SUBSET S : ~Good(s) /\ Cardinality(s) = m
  BY <1>3
<1>5. \A u \in SUBSET S : Cardinality(u) \in Nat /\ Cardinality(u) < Cardinality(s) => Good(u)
  <2>1. \A u \in SUBSET S : ~Good(u) => m <= Cardinality(u)
    BY <1>3
  <2> QED BY <1>2, <1>4, <2>1
<1>6. \A x \in s : Good(s \ {x}) /\ s \ {x} \in SUBSET S
  <2>1. ASSUME NEW x \in s
        PROVE  /\ s \ {x} \in SUBSET S
               /\ Cardinality(s \ {x}) \in Nat /\ Cardinality(s \ {x}) < Cardinality(s)
    <3>1. /\ Cardinality(s) \in Nat \ {0} /\ s \ {x} \in SUBSET S
          /\ Cardinality(s \ {x}) = Cardinality(s) - 1
      BY Smaller
    <3> QED BY <3>1
  <2> QED BY <1>5, <2>1
<1>7. CASE s = {}
  <2>1. g[s] = 0
    BY <1>7 DEF Joins
  <2> QED BY <1>4, <1>7, <2>1 DEF Good
<1>8. CASE s # {}
  <2> DEFINE c == Pick(s)
  <2>1. c \in s
    BY <1>8, Picked
  <2>2. g[s] = Join(how, w[c], g[s \ {c}])
    BY <1>8 DEF Joins
  <2> HIDE DEF c
  <2>3. g[s \ {c}] \in Nat /\ w[c] \in Nat
    BY <1>6, <2>1 DEF Good
  <2>4. ASSUME NEW x \in s PROVE g[s] = Join(how, w[x], g[s \ {x}])
    <3>1. CASE x = c
      BY <2>2, <3>1
    <3>2. CASE x # c
      <4>1. x \in s \ {c} /\ c \in s \ {x}
        BY <2>1, <3>2
      <4>2. g[s \ {c}] = Join(how, w[x], g[(s \ {c}) \ {x}])
        BY <1>6, <2>1, <4>1 DEF Good
      <4>3. g[s \ {x}] = Join(how, w[c], g[(s \ {x}) \ {c}])
        BY <1>6, <4>1 DEF Good
      <4>4. (s \ {c}) \ {x} = (s \ {x}) \ {c}
        OBVIOUS
      <4>5. g[(s \ {x}) \ {c}] \in Nat /\ w[x] \in Nat
        <5>1. (s \ {x}) \ {c} \in SUBSET S /\ Good((s \ {x}) \ {c})
          <6>1. /\ Cardinality(s) \in Nat \ {0} /\ s \ {x} \in SUBSET S
                /\ Cardinality(s \ {x}) = Cardinality(s) - 1
            BY Smaller
          <6>2. /\ Cardinality(s \ {x}) \in Nat \ {0} /\ (s \ {x}) \ {c} \in SUBSET S
                /\ Cardinality((s \ {x}) \ {c}) = Cardinality(s \ {x}) - 1
            <7>1. PICK u \in SUBSET S : u = s \ {x}
              BY <6>1
            <7>2. c \in u
              BY <4>1, <7>1
            <7>3. /\ Cardinality(u) \in Nat \ {0} /\ u \ {c} \in SUBSET S
                  /\ Cardinality(u \ {c}) = Cardinality(u) - 1
              BY <7>2, Smaller
            <7> QED BY <7>1, <7>3
          <6>3. /\ Cardinality((s \ {x}) \ {c}) \in Nat
                /\ Cardinality((s \ {x}) \ {c}) < Cardinality(s)
            BY <6>1, <6>2
          <6> QED BY <1>5, <6>2, <6>3
        <5> QED BY <5>1 DEF Good
      <4>6. g[s \ {c}] = Join(how, w[x], g[(s \ {x}) \ {c}])
        BY <4>2, <4>4
      <4>7. PICK r \in Nat, a \in Nat, b \in Nat : r = g[(s \ {x}) \ {c}] /\ a = w[x] /\ b = w[c]
        BY <2>3, <4>5
      <4>8. g[s] = Join(how, b, Join(how, a, r)) /\ g[s \ {x}] = Join(how, b, r)
        BY <2>2, <4>3, <4>6, <4>7
      <4>9. g[s] = Join(how, a, Join(how, b, r))
        <5>1. Join(how, b, Join(how, a, r)) = Join(how, a, Join(how, b, r))
          BY JoinLaws
        <5> QED BY <4>8, <5>1
      <4> QED BY <4>7, <4>8, <4>9
    <3> QED BY <3>1, <3>2
  <2>5. g[s] \in Nat
    BY <2>2, <2>3, JoinLaws
  <2> QED BY <1>4, <2>4, <2>5 DEF Good
<1> QED BY <1>7, <1>8

(* Two such sums agree where their summands do.                              *)
LEMMA TotalAgrees ==
  ASSUME NEW how \in Joinings, NEW S, IsFiniteSet(S), NEW T, NEW w, NEW v, NEW g, NEW h,
         Joins(g, how, w, S),
         Joins(h, how, v, T),
         \A x \in S : w[x] = v[x], S \subseteq T
  PROVE  \A s \in SUBSET S : g[s] = h[s]
<1> DEFINE Sizes == {Cardinality(s) : s \in {s \in SUBSET S : g[s] # h[s]}}
<1>1. SUFFICES ASSUME \E s \in SUBSET S : g[s] # h[s] PROVE FALSE
  OBVIOUS
<1>2. Sizes \subseteq Nat /\ Sizes # {}
  <2>1. \A s \in SUBSET S : Cardinality(s) \in Nat
    BY FS_Subset, FS_CardinalityType
  <2> QED BY <1>1, <2>1
<1>3. PICK m \in Sizes : \A l \in Sizes : m <= l
  BY <1>2, LeastNat
<1>4. PICK s \in SUBSET S : g[s] # h[s] /\ Cardinality(s) = m
  BY <1>3
<1>5. CASE s = {}
  <2>1. s \in SUBSET T
    OBVIOUS
  <2>2. g[s] = 0 /\ h[s] = 0
    BY <1>5, <2>1 DEF Joins
  <2> QED BY <1>4, <2>2
<1>6. CASE s # {}
  <2> DEFINE c == Pick(s)
  <2>1. c \in s /\ s \in SUBSET T
    BY <1>6, Picked
  <2>2. g[s] = Join(how, w[c], g[s \ {c}]) /\ h[s] = Join(how, v[c], h[s \ {c}])
    BY <1>6, <2>1 DEF Joins
  <2> HIDE DEF c
  <2>3. /\ Cardinality(s) \in Nat \ {0} /\ s \ {c} \in SUBSET S
        /\ Cardinality(s \ {c}) = Cardinality(s) - 1
    BY <2>1, Smaller
  <2>4. ~(m <= Cardinality(s \ {c}))
    BY <1>4, <2>3
  <2>5. g[s \ {c}] = h[s \ {c}]
    BY <1>3, <2>3, <2>4
  <2> QED BY <1>4, <2>1, <2>2, <2>5
<1> QED BY <1>5, <1>6
------------------------------------------------------------------------------
(* Total is such a function at S.                                            *)
LEMMA TotalIs ==
  ASSUME NEW how \in Joinings, NEW S, IsFiniteSet(S), NEW w
  PROVE  \E g : /\ Joins(g, how, w, S)
                /\ Total(how, w, S) = g[S]
<1>0. \E g : Joining(g, how, w, S)
  BY TotalExists
<1> DEFINE rest == CHOOSE g : g = [s \in SUBSET S |-> IF s = {} THEN 0
                                                      ELSE Join(how, w[Pick(s)], g[s \ {Pick(s)}])]
<1>1. Total(how, w, S) = rest[S]
  BY DEF Total
<1>2. rest = [s \in SUBSET S |-> IF s = {} THEN 0 ELSE Join(how, w[Pick(s)], rest[s \ {Pick(s)}])]
  BY <1>0 DEF Joining
<1> HIDE DEF rest
<1>3. Joins(rest, how, w, S)
  BY <1>2 DEF Joins
<1> QED BY <1>1, <1>3

(* Nothing joined is 0. *)
LEMMA TotalEmpty == \A how \in Joinings : \A w : Total(how, w, {}) = 0
<1> SUFFICES ASSUME NEW how \in Joinings, NEW w PROVE Total(how, w, {}) = 0
  OBVIOUS
<1>1. IsFiniteSet({})
  BY FS_EmptySet
<1>2. PICK g : /\ Joins(g, how, w, {})
               /\ Total(how, w, {}) = g[{}]
  BY <1>1, TotalIs
<1> QED BY <1>2 DEF Joins

(* Natural numbers joined are one.                                           *)
LEMMA TotalType ==
  ASSUME NEW how \in Joinings, NEW S, IsFiniteSet(S), NEW w, \A x \in S : w[x] \in Nat
  PROVE  Total(how, w, S) \in Nat
<1>1. PICK g : /\ Joins(g, how, w, S)
               /\ Total(how, w, S) = g[S]
  BY TotalIs
<1>2. \A s \in SUBSET S : g[s] \in Nat
  BY <1>1, TotalAnyOrder
<1> QED BY <1>1, <1>2

(* It depends on the values at S only.                                       *)
LEMMA TotalSame ==
  ASSUME NEW how \in Joinings, NEW S, IsFiniteSet(S), NEW w, NEW v, \A x \in S : w[x] = v[x]
  PROVE  Total(how, w, S) = Total(how, v, S)
<1>1. PICK g : /\ Joins(g, how, w, S)
               /\ Total(how, w, S) = g[S]
  BY TotalIs
<1>2. PICK h : /\ Joins(h, how, v, S)
               /\ Total(how, v, S) = h[S]
  BY TotalIs
<1>3. \A s \in SUBSET S : g[s] = h[s]
  BY <1>1, <1>2, TotalAgrees
<1> QED BY <1>1, <1>2, <1>3

(* An element more is a number more.                                         *)
LEMMA TotalAdds ==
  ASSUME NEW how \in Joinings, NEW S, IsFiniteSet(S), NEW w, NEW x, x \notin S, \A y \in S \cup {x} : w[y] \in Nat
  PROVE  Total(how, w, S \cup {x}) = Join(how, w[x], Total(how, w, S))
<1> DEFINE T == S \cup {x}
<1>1. IsFiniteSet(T) /\ x \in T /\ T \ {x} = S /\ S \subseteq T
  BY FS_AddElement
<1> HIDE DEF T
<1>2. PICK g : /\ Joins(g, how, w, S)
               /\ Total(how, w, S) = g[S]
  BY TotalIs
<1>3. PICK h : /\ Joins(h, how, w, T)
               /\ Total(how, w, T) = h[T]
  BY <1>1, TotalIs
<1>4. \A y \in T : w[y] \in Nat
  BY DEF T
<1>5. h[T] = Join(how, w[x], h[T \ {x}])
  BY <1>1, <1>3, <1>4, TotalAnyOrder
<1>6. \A s \in SUBSET S : g[s] = h[s]
  BY <1>1, <1>2, <1>3, TotalAgrees
<1> QED BY <1>1, <1>2, <1>3, <1>5, <1>6 DEF T

(* An element less.                                                         *)
LEMMA TotalRemoves ==
  ASSUME NEW how \in Joinings, NEW S, IsFiniteSet(S), NEW w, NEW x \in S, \A y \in S : w[y] \in Nat
  PROVE  Total(how, w, S) = Join(how, w[x], Total(how, w, S \ {x}))
<1> DEFINE R == S \ {x}
<1>1. IsFiniteSet(R) /\ x \notin R /\ R \cup {x} = S /\ \A y \in R \cup {x} : w[y] \in Nat
  BY FS_Subset
<1> HIDE DEF R
<1>2. Total(how, w, R \cup {x}) = Join(how, w[x], Total(how, w, R))
  BY <1>1, TotalAdds
<1> QED BY <1>1, <1>2 DEF R

(* Zeros joined are zero. *)
LEMMA TotalZero ==
  ASSUME NEW how \in Joinings, NEW S, IsFiniteSet(S), NEW w, \A x \in S : w[x] = 0
  PROVE  Total(how, w, S) = 0
<1> DEFINE zero == [s \in SUBSET S |-> 0]
<1>1. PICK g : /\ Joins(g, how, w, S)
               /\ Total(how, w, S) = g[S]
  BY TotalIs
<1>2. Joins(zero, how, w, S)
  <2>1. ASSUME NEW s \in SUBSET S, s # {}
        PROVE  zero[s] = Join(how, w[Pick(s)], zero[s \ {Pick(s)}])
    <3>1. w[Pick(s)] = 0
      BY <2>1, Picked
    <3>2. zero[s] = 0 /\ zero[s \ {Pick(s)}] = 0
      OBVIOUS
    <3> QED BY <3>1, <3>2, JoinLaws
  <2>2. zero[{}] = 0
    OBVIOUS
  <2> HIDE DEF zero
  <2> QED BY <2>1, <2>2 DEF Joins
<1>3. \A s \in SUBSET S : g[s] = zero[s]
  <2> HIDE DEF zero
  <2> QED BY <1>1, <1>2, TotalAgrees
<1> QED BY <1>1, <1>3

(* To join something to one of the values is to join it to all.              *)
LEMMA TotalGrows ==
  ASSUME NEW how \in Joinings, NEW S, IsFiniteSet(S), NEW w, NEW v, NEW x \in S, NEW d \in Nat,
         \A y \in S : w[y] \in Nat,
         v[x] = Join(how, w[x], d),
         \A y \in S \ {x} : v[y] = w[y]
  PROVE  Total(how, v, S) = Join(how, Total(how, w, S), d)
<1> DEFINE R == S \ {x}
<1>1. IsFiniteSet(R) /\ \A y \in R : y \in S /\ v[y] = w[y]
  BY FS_Subset
<1>2. v[x] \in Nat
  BY JoinLaws
<1>3. \A y \in S : v[y] \in Nat
  <2>1. \A y \in S : y = x \/ y \in R
    OBVIOUS
  <2> QED BY <1>1, <1>2, <2>1
<1>4. Total(how, v, S) = Join(how, v[x], Total(how, v, R))
  BY <1>3, TotalRemoves
<1>5. Total(how, w, S) = Join(how, w[x], Total(how, w, R))
  BY TotalRemoves
<1> HIDE DEF R
<1>6. Total(how, v, R) = Total(how, w, R) /\ Total(how, w, R) \in Nat
  BY <1>1, TotalSame, TotalType
<1>7. PICK t \in Nat, a \in Nat : t = Total(how, w, R) /\ a = w[x]
  BY <1>6
<1>8. Join(how, Join(how, a, d), t) = Join(how, Join(how, a, t), d)
  BY JoinLaws
<1> QED BY <1>4, <1>5, <1>6, <1>7, <1>8
------------------------------------------------------------------------------
(* Sums. *)
Sum(w, S) == LET rest[s \in SUBSET S] ==
                   IF s = {} THEN 0 ELSE w[Pick(s)] + rest[s \ {Pick(s)}]
             IN rest[S]

(* A sum is one of the two joinings.                                          *)
LEMMA SumIsTotal == \A w, S : Sum(w, S) = Total("sum", w, S)
BY DEF Sum, Total, Join

(* Nothing sums up to zero.                                                   *)
LEMMA SumEmpty == \A w : Sum(w, {}) = 0
BY SumIsTotal, TotalEmpty DEF Joinings

(* Natural numbers sum up to one.                                             *)
LEMMA SumType ==
  ASSUME NEW S, IsFiniteSet(S), NEW w, \A x \in S : w[x] \in Nat
  PROVE  Sum(w, S) \in Nat
<1>1. "sum" \in Joinings
  BY DEF Joinings
<1>2. Total("sum", w, S) \in Nat
  BY <1>1, TotalType
<1> QED BY <1>2, SumIsTotal

(* A sum depends on the numbers in S only.                                    *)
LEMMA SumSame ==
  ASSUME NEW S, IsFiniteSet(S), NEW w, NEW v, \A x \in S : w[x] = v[x]
  PROVE  Sum(w, S) = Sum(v, S)
<1>1. "sum" \in Joinings
  BY DEF Joinings
<1>2. Total("sum", w, S) = Total("sum", v, S)
  BY <1>1, TotalSame
<1> QED BY <1>2, SumIsTotal

(* An element more adds its number.                                           *)
LEMMA SumAdds ==
  ASSUME NEW S, IsFiniteSet(S), NEW w, NEW x, x \notin S, \A y \in S \cup {x} : w[y] \in Nat
  PROVE  Sum(w, S \cup {x}) = w[x] + Sum(w, S)
<1>1. "sum" \in Joinings
  BY DEF Joinings
<1>2. Total("sum", w, S \cup {x}) = Join("sum", w[x], Total("sum", w, S))
  BY <1>1, TotalAdds
<1> QED BY <1>2, SumIsTotal DEF Join
==============================================================================
