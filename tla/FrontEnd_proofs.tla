--------------------------- MODULE FrontEnd_proofs ---------------------------
(***************************************************************************)
(* Theorems about FrontEnd and its arena, for every list of size classes,   *)
(* chunk size, slab size, set of requests and placing in memory that the    *)
(* assumptions allow: no byte belongs to two things, classify() tells for   *)
(* every address what it belongs to, and the counters are exact.            *)
(*                                                                         *)
(* FeInv has one part per question.  ArenaInv keeps the objects below used_ *)
(* and apart, and says what the two counters add up to.  Pools says that a  *)
(* pool's blocks are exactly those of its regions, each free or held and     *)
(* none both, and that no two regions overlap: where a pointer leads back    *)
(* to is then one block of one class.  Counted ties live_ to both.  BlocksApart *)
(* is not inductive without the second: a block that classify() mistook      *)
(* would come back to the wrong list.                                       *)
(***************************************************************************)
EXTENDS FrontEnd, Recursion

(* The constants of the arena are numbers. *)
LEMMA ArenaNumbers ==
  /\ Modulus \in Nat \ {0} /\ Capacity \in Nat
  /\ \A b \in Bases : b \in Nat /\ b + Capacity < Modulus
  /\ \A size \in Sizes : size \in Nat /\ size < Modulus
  /\ \A alignment \in Alignments : alignment \in Nat \ {0} /\ alignment < Modulus
BY ArenaAssumption

(* Addition that does not wrap is addition; so is subtraction. *)
LEMMA NoWrap ==
  /\ \A x, y \in Nat : x + y < Modulus => x ++ y = x + y
  /\ \A x, y \in Nat : y <= x /\ x < Modulus => x -- y = x - y
<1>1. ASSUME NEW x \in Nat, NEW y \in Nat, x + y < Modulus PROVE x ++ y = x + y
  BY <1>1, ArenaNumbers DEF ++
<1>2. ASSUME NEW x \in Nat, NEW y \in Nat, y <= x, x < Modulus PROVE x -- y = x - y
  <2>1. PICK d \in Nat : d = x - y
    BY <1>2
  <2>2. x + Modulus - y = Modulus * 1 + d /\ d \in 0 .. Modulus - 1
    BY <1>2, <2>1, ArenaNumbers
  <2>3. PICK z \in Int : z = x + Modulus - y
    BY <2>2, ArenaNumbers
  <2>4. z % Modulus = d
    BY <2>2, <2>3, ArenaNumbers
  <2> QED BY <2>1, <2>3, <2>4 DEF --
<1> QED BY <1>1, <1>2

(* Where allocate() aligns an address to. *)
LEMMA AlignUpFacts ==
  ASSUME NEW x \in Nat, NEW alignment \in Nat \ {0}, x + alignment <= Modulus
  PROVE  /\ AlignUp(x, alignment) \in Nat
         /\ x <= AlignUp(x, alignment) /\ AlignUp(x, alignment) < x + alignment
         /\ AlignUp(x, alignment) % alignment = 0
<1>1. PICK y \in Nat : y = x + (alignment - 1)
  OBVIOUS
<1>2. x ++ (alignment - 1) = y
  BY <1>1, NoWrap, ArenaNumbers
<1>3. PICK q \in Nat, r \in 0 .. alignment - 1 : y = alignment * q + r /\ y % alignment = r
  BY <1>1
<1>4. AlignUp(x, alignment) = alignment * q
  BY <1>2, <1>3 DEF AlignUp
<1>5. PICK z \in Nat : z = alignment * q
  BY <1>3
<1>6. z % alignment = 0
  BY <1>5
<1> QED BY <1>1, <1>3, <1>4, <1>5, <1>6
------------------------------------------------------------------------------
(* The sum of the sizes of objects, as MapThenSumSet takes it. *)
LEMMA SizesSum ==
  ASSUME NEW S, IsFiniteSet(S)
  PROVE  MapThenSumSet(LAMBDA o : o.size, S) = Sum([o \in S |-> o.size], S)
<1> DEFINE w == [o \in S |-> o.size]
           iter == CHOOSE g : g = [s \in SUBSET S |-> IF s = {} THEN 0
                     ELSE (CHOOSE x \in s : TRUE).size + g[s \ {CHOOSE x \in s : TRUE}]]
           rest == CHOOSE g : g = [s \in SUBSET S |-> IF s = {} THEN 0
                     ELSE w[Pick(s)] + g[s \ {Pick(s)}]]
<1>1. MapThenSumSet(LAMBDA o : o.size, S) = iter[S]
  BY DEF MapThenSumSet, MapThenFoldSet
<1>2. Sum(w, S) = rest[S]
  BY DEF Sum
<1>3. ASSUME NEW g
      PROVE  [s \in SUBSET S |-> IF s = {} THEN 0
                ELSE (CHOOSE x \in s : TRUE).size + g[s \ {CHOOSE x \in s : TRUE}]]
             = [s \in SUBSET S |-> IF s = {} THEN 0 ELSE w[Pick(s)] + g[s \ {Pick(s)}]]
  <2>1. \A s \in SUBSET S : s # {} => Pick(s) \in S
    BY Picked
  <2>2. \A s \in SUBSET S : s # {} => w[Pick(s)] = Pick(s).size
    BY <2>1
  <2> HIDE DEF w
  <2>3. [s \in SUBSET S |-> IF s = {} THEN 0 ELSE Pick(s).size + g[s \ {Pick(s)}]]
         = [s \in SUBSET S |-> IF s = {} THEN 0 ELSE w[Pick(s)] + g[s \ {Pick(s)}]]
    BY <2>2
  <2> QED BY <2>3 DEF Pick
<1>4. iter = rest
  BY <1>3
<1> QED BY <1>1, <1>2, <1>4

(* The arena: its objects lie one behind the other in what it counts as used, *)
(* and its two counters are the bytes used and the bytes asked for.          *)
Before(o, p) == o.addr + o.size <= p.addr
ArenaInv ==
  /\ TypeOK
  /\ IsFiniteSet(objects)
  /\ \A o \in objects : o.addr % o.alignment = 0 /\ o.addr + o.size <= base + used
  /\ \A o, p \in objects : o # p => Before(o, p) \/ Before(p, o)
  /\ allocated = used
  /\ requested = Sum([o \in objects |-> o.size], objects)
  /\ requested <= used

(* What allocate() computes, without the wrapping. *)
LEMMA AllocateEffect ==
  ASSUME TypeOK, NEW size \in Sizes, NEW alignment \in Alignments, Fits(size, alignment)
  PROVE  /\ Aligned(alignment) \in Word /\ Aligned(alignment) % alignment = 0
         /\ base + used <= Aligned(alignment)
         /\ Padding(alignment) = Aligned(alignment) - (base + used)
         /\ Consumed(size, alignment) = Padding(alignment) + size
         /\ used + (Padding(alignment) + size) <= Capacity
<1>1. /\ base \in Nat /\ used \in Nat /\ used <= Capacity /\ size \in Nat
      /\ alignment \in Nat \ {0} /\ base + Capacity + alignment + size <= Modulus
      /\ Capacity \in Nat /\ Modulus \in Nat
  BY ArenaNumbers, SumsDoNotWrap DEF TypeOK
<1>2. base ++ used = base + used
  BY <1>1, NoWrap
<1>3. PICK x \in Nat : x = base + used
  BY <1>1
<1>4. x + alignment <= Modulus
  BY <1>1, <1>3
<1>5. Aligned(alignment) = AlignUp(x, alignment)
  BY <1>2, <1>3 DEF Aligned
<1>6. PICK a \in Nat : a = Aligned(alignment) /\ x <= a /\ a < x + alignment /\ a % alignment = 0
  BY <1>1, <1>4, <1>5, AlignUpFacts
<1>7. Padding(alignment) = a - x
  BY <1>1, <1>2, <1>3, <1>4, <1>6, NoWrap DEF Padding
<1>8. PICK d \in Nat : d = a - x /\ d < alignment
  BY <1>1, <1>6
<1>9. used + d < Modulus /\ (used + d) + size < Modulus /\ d + size < Modulus
  BY <1>1, <1>8
<1>10. used ++ d = used + d /\ (used + d) ++ size = (used + d) + size /\ d ++ size = d + size
  BY <1>1, <1>8, <1>9, NoWrap
<1>11. (used + d) + size <= Capacity
  BY <1>7, <1>8, <1>10 DEF Fits
<1>12. Consumed(size, alignment) = d + size
  BY <1>7, <1>8, <1>10 DEF Consumed
<1>13. a < Modulus
  BY <1>1, <1>4, <1>6
<1> QED BY <1>1, <1>3, <1>6, <1>7, <1>8, <1>11, <1>12, <1>13 DEF Word

(* The sum of the sizes, with one object more.                               *)
LEMMA SizesWith ==
  ASSUME IsFiniteSet(objects), \A o \in objects : o.size \in Nat,
         NEW new, new.size \in Nat, new \in objects => new.size = 0
  PROVE  /\ IsFiniteSet(objects \cup {new})
         /\ Sum([o \in objects |-> o.size], objects) \in Nat
         /\ Sum([o \in objects \cup {new} |-> o.size], objects \cup {new})
              = Sum([o \in objects |-> o.size], objects) + new.size
<1> DEFINE w == [o \in objects |-> o.size]
           v == [o \in objects \cup {new} |-> o.size]
<1>1. IsFiniteSet(objects \cup {new})
  BY FS_AddElement
<1>2. \A x \in objects : w[x] \in Nat /\ w[x] = v[x]
  OBVIOUS
<1>3. \A x \in objects \cup {new} : v[x] \in Nat
  OBVIOUS
<1>4. v[new] = new.size
  OBVIOUS
<1> HIDE DEF w, v
<1>5. Sum(w, objects) \in Nat
  BY <1>2, SumType
<1>6. Sum(w, objects) = Sum(v, objects)
  BY <1>2, SumSame
<1>7. CASE new \in objects
  <2>1. objects \cup {new} = objects /\ new.size = 0
    BY <1>7
  <2>2. Sum(v, objects \cup {new}) = Sum(w, objects) + new.size
    <3>1. PICK m \in Nat : m = Sum(w, objects)
      BY <1>5
    <3>2. Sum(v, objects \cup {new}) = m
      BY <1>6, <2>1, <3>1
    <3> QED BY <2>1, <3>1, <3>2
  <2> QED BY <1>1, <1>5, <2>2 DEF w, v
<1>8. CASE new \notin objects
  <2>1. Sum(v, objects \cup {new}) = v[new] + Sum(v, objects)
    BY <1>3, <1>8, SumAdds
  <2>2. Sum(v, objects \cup {new}) = Sum(w, objects) + new.size
    BY <1>4, <1>5, <1>6, <2>1
  <2> QED BY <1>1, <1>5, <2>2 DEF w, v
<1> QED BY <1>7, <1>8

(* The arena starts empty. *)
LEMMA ArenaInit == Init => ArenaInv
<1> SUFFICES ASSUME Init PROVE ArenaInv
  OBVIOUS
<1>1. TypeOK
  BY ArenaNumbers DEF Init, TypeOK, Word
<1>2. IsFiniteSet(objects) /\ Sum([o \in objects |-> o.size], objects) = 0
  BY FS_EmptySet, SumEmpty DEF Init
<1> QED BY <1>1, <1>2 DEF Init, ArenaInv

(* An object more. *)
LEMMA ArenaAllocate ==
  ASSUME ArenaInv, NEW size \in Sizes, NEW alignment \in Alignments, Allocate(size, alignment)
  PROVE  ArenaInv' /\ used <= used'
<1> DEFINE a   == Aligned(alignment)
           new == [addr |-> a, size |-> size, alignment |-> alignment]
           d   == Padding(alignment)
<1>1. /\ base \in Nat /\ used \in Nat /\ used <= Capacity /\ size \in Nat /\ size < Modulus
      /\ base + Capacity < Modulus /\ Capacity \in Nat /\ Modulus \in Nat
      /\ alignment \in Nat \ {0}
  BY ArenaNumbers DEF ArenaInv, TypeOK
<1>2. /\ a \in Word /\ a % alignment = 0 /\ base + used <= a /\ d = a - (base + used)
      /\ Consumed(size, alignment) = d + size /\ used + (d + size) <= Capacity
  BY AllocateEffect DEF ArenaInv, Allocate
<1>3. /\ used' = used ++ Consumed(size, alignment) /\ requested' = requested ++ size
      /\ allocated' = allocated ++ (d ++ size) /\ objects' = objects \cup {new} /\ base' = base
  BY DEF Allocate
<1> HIDE DEF a, d
<1>4. a \in Nat /\ d \in Nat
  BY <1>1, <1>2 DEF Word
<1>5. used' = used + (d + size) /\ used' <= Capacity /\ base + used' = a + size
  <2>1. used + (d + size) < Modulus
    BY <1>1, <1>2, <1>4
  <2>2. used' = used + (d + size)
    BY <1>1, <1>2, <1>3, <1>4, <2>1, NoWrap
  <2> QED BY <1>1, <1>2, <1>4, <2>2
<1>6. allocated' = used'
  <2>1. d ++ size = d + size
    BY <1>1, <1>2, <1>4, NoWrap
  <2>2. allocated' = used ++ (d + size) /\ used' = used ++ (d + size)
    BY <1>2, <1>3, <2>1 DEF ArenaInv
  <2> QED BY <2>2
<1>7. \A o \in objects : /\ o.addr \in Nat /\ o.size \in Nat /\ o.alignment \in Alignments
                         /\ o.addr + o.size <= a
  BY <1>1, <1>2, <1>4 DEF ArenaInv, TypeOK, Word
<1>8. new \in objects => new.size = 0
  BY <1>1, <1>4, <1>7
<1>9. /\ IsFiniteSet(objects') /\ requested \in Nat
      /\ Sum([o \in objects' |-> o.size], objects') = requested + size
  <2>1. new.size \in Nat /\ new.size = size
    BY <1>1
  <2> HIDE DEF new
  <2> QED BY <1>3, <1>7, <1>8, <2>1, SizesWith DEF ArenaInv
<1>10. requested' = requested + size /\ requested' <= used'
  <2>1. requested <= used
    BY DEF ArenaInv
  <2>2. requested + size < Modulus
    BY <1>1, <1>2, <1>4, <1>9, <2>1
  <2> QED BY <1>1, <1>3, <1>4, <1>5, <1>9, <2>1, <2>2, NoWrap
<1>11. TypeOK'
  <2>1. base' \in Bases /\ used' \in 0 .. Capacity /\ requested' \in Word /\ allocated' \in Word
    BY <1>1, <1>2, <1>3, <1>4, <1>5, <1>6, <1>9, <1>10 DEF ArenaInv, TypeOK, Word
  <2>2. new \in [addr : Word, size : Word, alignment : Alignments]
    BY <1>1, <1>2 DEF Word
  <2> QED BY <1>3, <2>1, <2>2 DEF ArenaInv, TypeOK, Word
<1>12. \A o \in objects' : o.addr % o.alignment = 0 /\ o.addr + o.size <= base' + used'
  <2>1. new.addr % new.alignment = 0 /\ new.addr + new.size <= base' + used'
    BY <1>1, <1>2, <1>3, <1>5
  <2>2. base' + used' = a + size
    BY <1>3, <1>5
  <2>3. \A o \in objects : o.addr % o.alignment = 0 /\ o.addr + o.size <= base' + used'
    <3>1. \A o \in objects : o.addr % o.alignment = 0
      BY DEF ArenaInv
    <3> QED BY <1>1, <1>4, <1>7, <2>2, <3>1
  <2> QED BY <1>3, <2>1, <2>3
<1>13. \A o, p \in objects' : o # p => Before(o, p) \/ Before(p, o)
  <2>1. \A o \in objects : Before(o, new)
    BY <1>7 DEF Before
  <2>2. \A o, p \in objects : o # p => Before(o, p) \/ Before(p, o)
    BY DEF ArenaInv
  <2> QED BY <1>3, <2>1, <2>2
<1>14. used <= used'
  BY <1>1, <1>4, <1>5
<1> QED BY <1>6, <1>9, <1>10, <1>11, <1>12, <1>13, <1>14 DEF ArenaInv, Before

(* Starting over. *)
LEMMA ArenaReset == ArenaInv /\ Reset => ArenaInv'
<1> SUFFICES ASSUME ArenaInv, Reset PROVE ArenaInv'
  OBVIOUS
<1>1. TypeOK'
  BY ArenaNumbers DEF ArenaInv, Reset, TypeOK, Word
<1>2. objects' = {} /\ used' = 0 /\ requested' = 0 /\ allocated' = 0
  BY DEF Reset
<1>3. IsFiniteSet(objects') /\ Sum([o \in objects' |-> o.size], objects') = 0
  BY <1>2, FS_EmptySet, SumEmpty
<1> QED BY <1>1, <1>2, <1>3 DEF ArenaInv

(* A step that leaves the arena alone. *)
LEMMA ArenaStutters == ArenaInv /\ UNCHANGED vars => ArenaInv'
BY DEF ArenaInv, vars, TypeOK, Before
------------------------------------------------------------------------------
(* The size classes ascend to MAX_SMALL; a chunk holds its header and a block *)
(* of any class.                                                            *)
LEMMA ClassNumbers ==
  /\ Lay!NUM_CLASSES \in Nat \ {0} /\ Indices = 1 .. Lay!NUM_CLASSES
  /\ \A i \in Indices : Classes[i] \in Nat \ {0} /\ Classes[i] <= MAX_SMALL
  /\ \A i, j \in Indices : i < j => Classes[i] < Classes[j]
  /\ Lay!NUM_CLASSES \in Indices /\ MAX_SMALL = Classes[Lay!NUM_CLASSES] /\ MAX_SMALL \in Nat
<1>1. /\ Lay!NUM_CLASSES \in Nat \ {0} /\ Indices = 1 .. Lay!NUM_CLASSES
      /\ MAX_SMALL = Classes[Lay!NUM_CLASSES]
  BY ClassesAssumption DEF Lay!LayoutAssumption, Lay!NUM_CLASSES, Indices
<1>2. \A i \in Indices : Classes[i] \in Nat \ {0}
  BY ClassesAssumption DEF Lay!LayoutAssumption, Indices
<1>3. \A i, j \in Indices : i < j => Classes[i] < Classes[j]
  BY <1>1, ClassesAssumption DEF Lay!LayoutAssumption
<1>4. Lay!NUM_CLASSES \in Indices
  BY <1>1
<1>5. ASSUME NEW i \in Indices PROVE Classes[i] <= MAX_SMALL
  <2>1. i = Lay!NUM_CLASSES \/ i < Lay!NUM_CLASSES
    BY <1>1
  <2> QED BY <1>1, <1>2, <1>3, <1>4, <2>1
<1> QED BY <1>1, <1>2, <1>3, <1>4, <1>5

(* The constants of chunks are numbers; chunks lie at multiples of their size. *)
LEMMA ChunkNumbers ==
  /\ BlocksPerSlab \in Nat \ {0} /\ CHUNK_SIZE \in Nat \ {0} /\ kHeaderOffset \in Nat
  /\ kHeaderOffset + MAX_SMALL <= CHUNK_SIZE
  /\ \A c \in ChunkBases : c \in Nat /\ c % CHUNK_SIZE = 0
BY ClassesAssumption DEF Lay!LayoutAssumption

(* size_class_index finds the first class that holds a small request. *)
LEMMA ClassOf ==
  ASSUME NEW m \in Nat, m <= MAX_SMALL
  PROVE  /\ Class(m) \in Indices /\ Classes[Class(m)] >= m
         /\ \A j \in Indices : j < Class(m) => ~(Classes[j] >= m)
<1> DEFINE N     == Lay!NUM_CLASSES
           Stops == {i \in 0 .. N : Lay!Holds(i, m)}
           from  == CHOOSE g : g = [i \in 0 .. Lay!NUM_CLASSES |->
                                     IF i = Lay!NUM_CLASSES \/ Lay!Holds(i, m) THEN i ELSE g[i + 1]]
<1>1. N \in Nat \ {0} /\ Indices = 1 .. N
  BY ClassNumbers
<1>2. CASE m = 0
  <2>1. Class(m) = 1
    BY <1>2 DEF Class, Lay!size_class_index
  <2> QED BY <1>1, <1>2, <2>1, ClassNumbers
<1>3. CASE m # 0
  <2>1. Class(m) = from[0] + 1
    BY <1>3 DEF Class, Lay!size_class_index
  <2> HIDE DEF Stops, from, N
  <2>3. PICK g : Looping(g, N, Stops)
    BY <1>1, LoopExists
  <2>4. g = [i \in 0 .. Lay!NUM_CLASSES |->
               IF i = Lay!NUM_CLASSES \/ Lay!Holds(i, m) THEN i ELSE g[i + 1]]
    BY <2>3 DEF Stops, N, Looping
  <2>5. from = [i \in 0 .. Lay!NUM_CLASSES |->
               IF i = Lay!NUM_CLASSES \/ Lay!Holds(i, m) THEN i ELSE from[i + 1]]
    BY <2>4 DEF from
  <2>6. \A i \in 0 .. N : from[i] = IF i = N \/ i \in Stops THEN i ELSE from[i + 1]
    BY <2>5 DEF Stops, N
  <2>7. /\ from[0] \in 0 .. N
        /\ from[0] = N \/ from[0] \in Stops
        /\ \A k \in 0 .. from[0] - 1 : k \notin Stops
    BY <1>1, <2>6, LoopFindsFirst
  <2>8. \A i \in 0 .. N : i \in Stops <=> Classes[i + 1] >= m
    BY DEF Stops, N, Lay!Holds
  <2>9. \A j \in 1 .. from[0] : ~(Classes[j] >= m)
    <3>1. \A j \in 1 .. from[0] : j - 1 \in 0 .. from[0] - 1 /\ j - 1 \in 0 .. N /\ (j - 1) + 1 = j
      BY <1>1, <2>7
    <3> QED BY <2>7, <2>8, <3>1
  <2>10. from[0] # N
    <3>1. N \in 1 .. N /\ Classes[N] >= m
      BY <1>1, ClassNumbers DEF N
    <3> QED BY <2>9, <3>1
  <2>11. from[0] + 1 \in Indices /\ Classes[from[0] + 1] >= m
    BY <1>1, <2>7, <2>8, <2>10
  <2>12. \A j \in Indices : j < from[0] + 1 => j \in 1 .. from[0]
    BY <1>1, <2>7
  <2> QED BY <2>1, <2>9, <2>11, <2>12
<1> QED BY <1>2, <1>3

(* The class of a block's size is the block's. *)
LEMMA ClassOfClass == \A i \in Indices : Class(Classes[i]) = i
<1> SUFFICES ASSUME NEW i \in Indices PROVE Class(Classes[i]) = i
  OBVIOUS
<1>1. Classes[i] \in Nat /\ Classes[i] <= MAX_SMALL /\ Classes[i] >= Classes[i]
  BY ClassNumbers
<1>2. PICK k : k = Class(Classes[i])
  OBVIOUS
<1>3. /\ k \in Indices /\ Classes[k] >= Classes[i]
      /\ \A j \in Indices : j < k => ~(Classes[j] >= Classes[i])
  BY <1>1, <1>2, ClassOf
<1>4. ~(i < k)
  BY <1>1, <1>3
<1>5. ~(k < i)
  BY <1>1, <1>3, ClassNumbers
<1>6. i = k
  BY <1>3, <1>4, <1>5, ClassNumbers
<1> QED BY <1>2, <1>6
------------------------------------------------------------------------------
(* The memory of a region; the regions a pool can have. *)
Extent(i, s) == <<s[1], s[2] * Classes[i]>>
OwnSlab(i)   == <<SlabBases[i], BlocksPerSlab>>
Refill(i, c) == <<Lay!BlockStart(c, Classes[i], 0), Lay!max_blocks(Classes[i])>>
Linked(i, s) == s = OwnSlab(i) \/ \E c \in ChunkBases : s = Refill(i, c)

Regions(sl) ==
  /\ sl \in [Indices -> SUBSET (Word \X Nat)]
  /\ \A i \in Indices : \A s \in sl[i] : Linked(i, s)
  /\ \A i, j \in Indices : \A s \in sl[i], t \in sl[j] :
       (i = j /\ s = t) \/ Apart(Extent(i, s), Extent(j, t))

(* The blocks of a refill lie in its chunk, behind the header. *)
LEMMA RefillInChunk ==
  ASSUME NEW i \in Indices, NEW c \in ChunkBases
  PROVE  /\ Refill(i, c)[1] = c + kHeaderOffset /\ Refill(i, c)[2] \in Nat
         /\ Refill(i, c)[2] * Classes[i] \in Nat
         /\ Refill(i, c)[2] * Classes[i] <= CHUNK_SIZE - kHeaderOffset
<1>1. PICK size \in Nat \ {0} : size = Classes[i] /\ size <= MAX_SMALL
  BY ClassNumbers
<1>2. PICK S \in Nat : S = CHUNK_SIZE - kHeaderOffset
  BY ClassNumbers, ChunkNumbers
<1>3. PICK m \in Nat : m = S \div size /\ m * size <= S
  BY <1>1, <1>2
<1>4. PICK k \in Nat : k = Lay!max_blocks(size) /\ k <= m
  BY <1>2, <1>3, ChunkNumbers DEF Lay!max_blocks, Lay!blocks_per_chunk
<1>5. k * size \in Nat /\ k * size <= m * size
  BY <1>1, <1>3, <1>4
<1>6. k * size \in Nat /\ k * size <= S
  <2>1. m * size \in Nat
    BY <1>1, <1>3
  <2> QED BY <1>3, <1>5, <2>1
<1>7. Lay!BlockStart(c, size, 0) = c + kHeaderOffset
  BY <1>1, ChunkNumbers DEF Lay!BlockStart
<1>8. Refill(i, c) = <<c + kHeaderOffset, k>>
  BY <1>1, <1>4, <1>7 DEF Refill
<1> QED BY <1>1, <1>2, <1>6, <1>8

(* An aligned address is a multiple. *)
LEMMA Multiple ==
  ASSUME NEW C \in Nat \ {0}, NEW b \in Nat, b % C = 0
  PROVE  \E q \in Nat : b = C * q
OBVIOUS

(* Chunks are aligned to their size, so two have no byte in common. *)
LEMMA ChunksApart ==
  ASSUME NEW c \in ChunkBases, NEW d \in ChunkBases, c # d
  PROVE  c + CHUNK_SIZE <= d \/ d + CHUNK_SIZE <= c
<1>1. PICK C \in Nat \ {0} : C = CHUNK_SIZE
  BY ChunkNumbers
<1>2. PICK p \in Nat, q \in Nat : c = C * p /\ d = C * q
  <2>1. c \in Nat /\ c % C = 0 /\ d \in Nat /\ d % C = 0
    BY <1>1, ChunkNumbers
  <2> QED BY <2>1, Multiple
<1>3. ASSUME NEW x \in Nat, NEW y \in Nat, x < y PROVE C * x + C <= C * y
  <2>1. PICK z \in Nat : y = x + 1 + z
    <3>1. y - x - 1 \in Nat /\ y = x + 1 + (y - x - 1)
      BY <1>3
    <3> QED BY <3>1
  <2>2. C * y = C * x + C + C * z /\ C * z \in Nat /\ C * x \in Nat
    BY <2>1
  <2> QED BY <2>2
<1>4. p < q \/ q < p
  BY <1>2
<1> QED BY <1>1, <1>2, <1>3, <1>4

(* Any region of a pool lies in memory, apart from the arena and from every   *)
(* chunk's header.                                                          *)
LEMMA RegionFacts ==
  ASSUME NEW i \in Indices, NEW s, Linked(i, s)
  PROVE  /\ s \in Word \X Nat /\ s[2] * Classes[i] \in Nat /\ s[1] + s[2] * Classes[i] <= Modulus
         /\ \A b \in Bases : Apart(<<b, Capacity>>, Extent(i, s))
         /\ \A c \in ChunkBases : Apart(<<c, kHeaderOffset>>, Extent(i, s))
<1>0. Classes[i] \in Nat \ {0} /\ Modulus \in Nat /\ MAX_SMALL \in Nat /\ Classes[i] <= MAX_SMALL
  BY ClassNumbers, ArenaNumbers
<1>1. CASE s = OwnSlab(i)
  <2>1. PICK x \in Nat : x = BlocksPerSlab * Classes[i] /\ x >= 1
    <3>1. PICK u \in Nat \ {0}, v \in Nat \ {0} : u = BlocksPerSlab /\ v = Classes[i]
      BY <1>0, ChunkNumbers
    <3>2. u * v \in Nat /\ u * v >= 1
      OBVIOUS
    <3> QED BY <3>1, <3>2
  <2>2. /\ s[1] = SlabBases[i] /\ s[2] = BlocksPerSlab /\ s = <<s[1], s[2]>> /\ s[1] \in Word /\ s[2] \in Nat
        /\ Extent(i, s) = SlabMemory(i) /\ SlabMemory(i) = <<s[1], x>>
    BY <1>1, <2>1, ChunkNumbers, FrontEndAssumption DEF OwnSlab, Extent, SlabMemory
  <2>3. s[1] + x <= Modulus
    BY <2>1, <2>2, MemoryAssumption
  <2>4. \A b \in Bases : Apart(<<b, Capacity>>, Extent(i, s))
    BY <2>2, MemoryAssumption
  <2>5. \A c \in ChunkBases : Apart(<<c, kHeaderOffset>>, Extent(i, s))
    <3>1. SUFFICES ASSUME NEW c \in ChunkBases PROVE Apart(<<c, kHeaderOffset>>, <<s[1], x>>)
      BY <2>2
    <3>2. Apart(<<s[1], x>>, <<c, CHUNK_SIZE>>)
      BY <2>2, MemoryAssumption DEF ChunkMemory
    <3>3. kHeaderOffset <= CHUNK_SIZE
      BY <1>0, ChunkNumbers
    <3>4. s[1] \in Nat
      BY <2>2 DEF Word
    <3> QED BY <2>1, <3>2, <3>3, <3>4, ChunkNumbers DEF Apart
  <2> QED BY <2>1, <2>2, <2>3, <2>4, <2>5
<1>2. CASE \E c \in ChunkBases : s = Refill(i, c)
  <2>1. PICK c \in ChunkBases : s = Refill(i, c)
    BY <1>2
  <2>2. PICK k \in Nat, x \in Nat : /\ s = <<c + kHeaderOffset, k>> /\ x = k * Classes[i]
                                    /\ x <= CHUNK_SIZE - kHeaderOffset
    BY <2>1, RefillInChunk DEF Refill
  <2>3. /\ c \in Nat /\ CHUNK_SIZE \in Nat /\ kHeaderOffset \in Nat /\ kHeaderOffset < CHUNK_SIZE
        /\ c + CHUNK_SIZE <= Modulus
    BY <1>0, ChunkNumbers, MemoryAssumption
  <2>4. c + kHeaderOffset \in Word /\ c + kHeaderOffset + x <= c + CHUNK_SIZE
    BY <2>2, <2>3, ArenaNumbers DEF Word
  <2>5. Extent(i, s) = <<c + kHeaderOffset, x>>
    BY <2>2 DEF Extent
  <2>6. \A b \in Bases : Apart(<<b, Capacity>>, Extent(i, s))
    <3>1. SUFFICES ASSUME NEW b \in Bases PROVE Apart(<<b, Capacity>>, <<c + kHeaderOffset, x>>)
      BY <2>5
    <3>2. Apart(<<b, Capacity>>, <<c, CHUNK_SIZE>>)
      BY MemoryAssumption DEF ChunkMemory
    <3>3. b \in Nat /\ Capacity \in Nat
      BY ArenaNumbers
    <3> QED BY <2>2, <2>3, <2>4, <3>2, <3>3 DEF Apart
  <2>7. \A d \in ChunkBases : Apart(<<d, kHeaderOffset>>, Extent(i, s))
    <3>1. SUFFICES ASSUME NEW d \in ChunkBases PROVE Apart(<<d, kHeaderOffset>>, <<c + kHeaderOffset, x>>)
      BY <2>5
    <3>2. CASE c = d
      BY <2>2, <2>3, <3>2 DEF Apart
    <3>3. CASE c # d
      <4>1. d \in Nat /\ (c + CHUNK_SIZE <= d \/ d + CHUNK_SIZE <= c)
        BY <3>3, ChunksApart, ChunkNumbers
      <4> QED BY <2>2, <2>3, <2>4, <4>1 DEF Apart
    <3> QED BY <3>2, <3>3
  <2>8. s[1] = c + kHeaderOffset /\ s[2] = k
    BY <2>2
  <2> QED BY <1>0, <2>2, <2>3, <2>4, <2>6, <2>7, <2>8
<1> QED BY <1>1, <1>2 DEF Linked

(* A chunk whose address no region of a pool begins at is apart from all.      *)
LEMMA FreshRegion ==
  ASSUME NEW sl, Regions(sl), NEW i \in Indices, NEW c \in ChunkBases,
         \A j \in Indices : \A s \in sl[j] : s[1] # Refill(i, c)[1],
         NEW j \in Indices, NEW t \in sl[j]
  PROVE  Apart(Extent(i, Refill(i, c)), Extent(j, t)) /\ Apart(Extent(j, t), Extent(i, Refill(i, c)))
<1>1. PICK x \in Nat : /\ Extent(i, Refill(i, c)) = <<c + kHeaderOffset, x>>
                       /\ x <= CHUNK_SIZE - kHeaderOffset
  BY RefillInChunk DEF Extent
<1>2. c \in Nat /\ CHUNK_SIZE \in Nat /\ kHeaderOffset \in Nat /\ kHeaderOffset <= CHUNK_SIZE
  BY ClassNumbers, ChunkNumbers
<1>3. CASE t = OwnSlab(j)
  <2>1. Apart(Extent(j, t), <<c, CHUNK_SIZE>>)
    BY <1>3, MemoryAssumption DEF OwnSlab, Extent, SlabMemory, ChunkMemory
  <2>2. PICK a \in Nat, y \in Nat : Extent(j, t) = <<a, y>>
    <3>1. Linked(j, t)
      BY DEF Regions
    <3>2. t \in Word \X Nat /\ t[2] * Classes[j] \in Nat
      BY <3>1, RegionFacts
    <3>3. t[1] \in Nat
      BY <3>2 DEF Word
    <3> QED BY <3>2, <3>3 DEF Extent
  <2> QED BY <1>1, <1>2, <2>1, <2>2 DEF Apart
<1>4. CASE \E d \in ChunkBases : t = Refill(j, d)
  <2>1. PICK d \in ChunkBases : t = Refill(j, d)
    BY <1>4
  <2>2. PICK y \in Nat : /\ Extent(j, t) = <<d + kHeaderOffset, y>>
                         /\ y <= CHUNK_SIZE - kHeaderOffset
    BY <2>1, RefillInChunk DEF Extent
  <2>3. c # d
    <3>1. t[1] # Refill(i, c)[1]
      OBVIOUS
    <3>2. t[1] = d + kHeaderOffset /\ Refill(i, c)[1] = c + kHeaderOffset
      BY <2>1, RefillInChunk
    <3> QED BY <3>1, <3>2
  <2>4. d \in Nat /\ (c + CHUNK_SIZE <= d \/ d + CHUNK_SIZE <= c)
    BY <2>3, ChunksApart, ChunkNumbers
  <2> QED BY <1>1, <1>2, <2>2, <2>4 DEF Apart
<1> QED BY <1>3, <1>4 DEF Regions, Linked
------------------------------------------------------------------------------
(* All blocks of a pool. *)
PoolBlocks(sl, i) == UNION {BlocksOf(i, s) : s \in sl[i]}

(* What is multiplied: the offset of a block, and the block at an offset.     *)
LEMMA Offsets ==
  ASSUME NEW size \in Nat \ {0}, NEW k \in Nat
  PROVE  /\ k * size \in Nat
         /\ \A m \in Nat : m < k => m * size + size <= k * size
         /\ \A off \in Nat : off < k * size =>
              /\ off \div size \in Nat /\ off \div size < k
              /\ (off \div size) * size <= off /\ off < (off \div size) * size + size
<1>1. k * size \in Nat
  OBVIOUS
<1>2. ASSUME NEW m \in Nat, NEW l \in Nat, m < l PROVE m * size + size <= l * size
  <2>1. PICK z \in Nat : l = m + 1 + z
    <3>1. l - m - 1 \in Nat /\ l = m + 1 + (l - m - 1)
      BY <1>2
    <3> QED BY <3>1
  <2>2. l * size = m * size + size + z * size /\ z * size \in Nat /\ m * size \in Nat
    BY <2>1
  <2> QED BY <2>2
<1>3. ASSUME NEW off \in Nat, off < k * size
      PROVE  /\ off \div size \in Nat /\ off \div size < k
             /\ (off \div size) * size <= off /\ off < (off \div size) * size + size
  <2>1. PICK q \in Nat : q = off \div size /\ q * size <= off /\ off < q * size + size
    OBVIOUS
  <2>2. ~(k <= q)
    <3>1. SUFFICES ASSUME k <= q PROVE FALSE
      OBVIOUS
    <3>2. k = q \/ k < q
      BY <3>1
    <3>3. k * size <= q * size
      <4>1. CASE k = q
        BY <4>1
      <4>2. CASE k < q
        <5>1. k * size + size <= q * size
          BY <1>2, <4>2
        <5> QED BY <1>1, <5>1
      <4> QED BY <3>2, <4>1, <4>2
    <3>4. q * size \in Nat
      OBVIOUS
    <3> QED BY <1>1, <1>3, <2>1, <3>3, <3>4
  <2> QED BY <2>1, <2>2
<1> QED BY <1>1, <1>2, <1>3

(* Each block of a region lies in it.                                        *)
LEMMA BlockBounds ==
  ASSUME NEW i \in Indices, NEW s \in Nat \X Nat, NEW x \in BlocksOf(i, s)
  PROVE  x \in Nat /\ s[1] <= x /\ x + Classes[i] <= s[1] + s[2] * Classes[i]
<1>1. PICK C \in Nat \ {0} : C = Classes[i]
  BY ClassNumbers
<1>2. PICK k \in 0 .. s[2] - 1 : x = s[1] + k * C
  BY <1>1 DEF BlocksOf
<1>3. PICK m \in Nat : m = s[2]
  OBVIOUS
<1>4. k \in Nat /\ k < m
  BY <1>2, <1>3
<1>5. k * C \in Nat /\ k * C + C <= m * C /\ m * C \in Nat
  BY <1>4, Offsets
<1> QED BY <1>1, <1>2, <1>3, <1>5

(* Two blocks of a region do not overlap.                                    *)
LEMMA SameRegion ==
  ASSUME NEW i \in Indices, NEW s \in Nat \X Nat, NEW x \in BlocksOf(i, s), NEW y \in BlocksOf(i, s)
  PROVE  x = y \/ x + Classes[i] <= y \/ y + Classes[i] <= x
<1>1. PICK C \in Nat \ {0} : C = Classes[i]
  BY ClassNumbers
<1>2. PICK k \in Nat : x = s[1] + k * C
  BY <1>1 DEF BlocksOf
<1>3. PICK m \in Nat : y = s[1] + m * C
  BY <1>1 DEF BlocksOf
<1>4. k * C \in Nat /\ m * C \in Nat
  OBVIOUS
<1>5. k = m \/ k < m \/ m < k
  OBVIOUS
<1>6. CASE k = m
  BY <1>2, <1>3, <1>6
<1>7. CASE k < m
  <2>1. k * C + C <= m * C
    BY <1>7, Offsets
  <2> QED BY <1>1, <1>2, <1>3, <1>4, <2>1
<1>8. CASE m < k
  <2>1. m * C + C <= k * C
    BY <1>8, Offsets
  <2> QED BY <1>1, <1>2, <1>3, <1>4, <2>1
<1> QED BY <1>5, <1>6, <1>7, <1>8

(* deallocate_containing finds the block of the region that p lies in.        *)
LEMMA BlockAtFacts ==
  ASSUME NEW i \in Indices, NEW s \in Nat \X Nat, NEW p \in Nat, InRegion(i, s, p)
  PROVE  /\ BlockAt(i, s, p) \in BlocksOf(i, s)
         /\ BlockAt(i, s, p) <= p /\ p < BlockAt(i, s, p) + Classes[i]
<1>1. PICK C \in Nat \ {0} : C = Classes[i]
  BY ClassNumbers
<1>2. PICK m \in Nat : m = s[2]
  OBVIOUS
<1>3. PICK off \in Nat : off = p - s[1] /\ p = s[1] + off /\ off < m * C
  <2>1. p >= s[1] /\ p < s[1] + m * C /\ m * C \in Nat
    BY <1>1, <1>2, Offsets DEF InRegion
  <2> QED BY <2>1
<1>4. PICK q \in Nat : q = off \div C /\ q < m /\ q * C <= off /\ off < q * C + C
  BY <1>3, Offsets
<1>5. BlockAt(i, s, p) = s[1] + q * C /\ q * C \in Nat
  BY <1>1, <1>3, <1>4 DEF BlockAt
<1>6. q \in 0 .. s[2] - 1
  BY <1>2, <1>4
<1>7. s[1] + q * C \in BlocksOf(i, s)
  BY <1>1, <1>6 DEF BlocksOf
<1> QED BY <1>1, <1>3, <1>4, <1>5, <1>7

(* ... also when p is any byte of a block.                                   *)
LEMMA BlockAtOf ==
  ASSUME NEW i \in Indices, NEW s \in Nat \X Nat, NEW x \in BlocksOf(i, s), NEW p \in Span(x, Classes[i])
  PROVE  p \in Nat /\ InRegion(i, s, p) /\ BlockAt(i, s, p) = x
<1>1. Classes[i] \in Nat \ {0} /\ s[1] \in Nat
  BY ClassNumbers
<1>2. PICK e \in Nat : e = s[2] * Classes[i]
  BY <1>1, Offsets
<1>3. x \in Nat /\ s[1] <= x /\ x + Classes[i] <= s[1] + e
  BY <1>2, BlockBounds
<1>4. p \in Nat /\ x <= p /\ p < x + Classes[i]
  BY <1>1, <1>3 DEF Span
<1>5. InRegion(i, s, p)
  BY <1>1, <1>2, <1>3, <1>4 DEF InRegion
<1>6. PICK y \in BlocksOf(i, s) : y = BlockAt(i, s, p) /\ y <= p /\ p < y + Classes[i]
  BY <1>4, <1>5, BlockAtFacts
<1>7. y \in Nat
  BY BlockBounds
<1>8. x = y \/ x + Classes[i] <= y \/ y + Classes[i] <= x
  BY SameRegion
<1> QED BY <1>1, <1>3, <1>4, <1>5, <1>6, <1>7, <1>8

(* A slab that a pool has. *)
LEMMA SlabNumbers ==
  ASSUME NEW sl, Regions(sl), NEW i \in Indices, NEW s \in sl[i]
  PROVE  s \in Nat \X Nat /\ Linked(i, s)
BY DEF Regions, Word

(* No two blocks of one thread's pools overlap.                              *)
LEMMA BlocksDiffer ==
  ASSUME NEW sl, Regions(sl), NEW i \in Indices, NEW j \in Indices, NEW x \in PoolBlocks(sl, i), NEW y \in PoolBlocks(sl, j)
  PROVE  /\ x \in Nat /\ y \in Nat
         /\ (i = j /\ x = y) \/ x + Classes[i] <= y \/ y + Classes[j] <= x
<1>1. PICK s \in sl[i] : x \in BlocksOf(i, s)
  BY DEF PoolBlocks
<1>2. PICK t \in sl[j] : y \in BlocksOf(j, t)
  BY DEF PoolBlocks
<1>3. s \in Nat \X Nat /\ t \in Nat \X Nat
  BY SlabNumbers
<1>4. Classes[i] \in Nat /\ Classes[j] \in Nat
  BY ClassNumbers
<1>5. PICK e \in Nat, f \in Nat : e = s[2] * Classes[i] /\ f = t[2] * Classes[j]
  <2>1. s[2] \in Nat /\ t[2] \in Nat
    BY <1>3
  <2> QED BY <1>4, <2>1
<1>6. x \in Nat /\ s[1] <= x /\ x + Classes[i] <= s[1] + e
  BY <1>1, <1>3, <1>5, BlockBounds
<1>7. y \in Nat /\ t[1] <= y /\ y + Classes[j] <= t[1] + f
  BY <1>2, <1>3, <1>5, BlockBounds
<1>8. CASE i = j /\ s = t
  BY <1>1, <1>2, <1>3, <1>6, <1>7, <1>8, SameRegion
<1>9. CASE Apart(Extent(i, s), Extent(j, t))
  <2>1. s[1] + e <= t[1] \/ t[1] + f <= s[1]
    BY <1>5, <1>9 DEF Apart, Extent
  <2>2. s[1] \in Nat /\ t[1] \in Nat
    BY <1>3
  <2> QED BY <1>4, <1>5, <1>6, <1>7, <2>1, <2>2
<1> QED BY <1>8, <1>9 DEF Regions
------------------------------------------------------------------------------
(* What a block counts for in live_; all that is held. *)
Weight(o) == Classes[Class(o.size)]
HeldBytes == Sum([o \in held |-> Weight(o)], held)

(* Each pool has its blocks, free or held by one holder.                     *)
Pools ==
  /\ Regions(slabs)
  /\ free \in [Indices -> SUBSET Word]
  /\ \A i \in Indices : /\ free[i] \cap BlocksHeld(i) = {}
                        /\ free[i] \cup BlocksHeld(i) = PoolBlocks(slabs, i)
  /\ held \subseteq [addr : Word, size : Requests] /\ IsFiniteSet(held)
  /\ \A o \in held : o.size <= MAX_SMALL
  /\ \A o, q \in held : o.addr = q.addr => o = q

(* The counter live_ of the front-end; a program on its own holds no blocks. *)
Counted ==
  /\ caller \in {"front-end", "program"} /\ live_ \in Nat
  /\ caller = "program" => held = {}
  /\ caller = "front-end" => live_ = used + HeldBytes

FeInv == ArenaInv /\ Pools /\ Counted

(* Requests are numbers. *)
LEMMA RequestNumbers == \A n \in Requests : n \in Nat /\ n \in Sizes
BY FrontEndAssumption, ArenaNumbers

(* What is held is a block of the class of its size. *)
LEMMA HeldFacts ==
  ASSUME Pools, NEW o \in held
  PROVE  /\ o.size \in Nat /\ o.size <= MAX_SMALL /\ Class(o.size) \in Indices
         /\ o.size <= Classes[Class(o.size)]
         /\ Weight(o) \in Nat \ {0}
         /\ o.addr \in BlocksHeld(Class(o.size)) /\ o.addr \in PoolBlocks(slabs, Class(o.size))
<1>1. o.size \in Nat /\ o.size <= MAX_SMALL
  BY RequestNumbers DEF Pools
<1>2. Class(o.size) \in Indices /\ Classes[Class(o.size)] >= o.size
  BY <1>1, ClassOf
<1>3. Classes[Class(o.size)] \in Nat \ {0}
  BY <1>2, ClassNumbers
<1>4. o.addr \in BlocksHeld(Class(o.size))
  BY DEF BlocksHeld
<1>5. o.addr \in PoolBlocks(slabs, Class(o.size))
  BY <1>2, <1>4 DEF Pools
<1> QED BY <1>1, <1>2, <1>3, <1>4, <1>5 DEF Weight

(* Every block has an address. *)
LEMMA BlocksAreWords ==
  ASSUME NEW sl, Regions(sl), NEW i \in Indices
  PROVE  PoolBlocks(sl, i) \subseteq Word
<1> SUFFICES ASSUME NEW x \in PoolBlocks(sl, i) PROVE x \in Word
  OBVIOUS
<1>1. PICK s \in sl[i] : x \in BlocksOf(i, s)
  BY DEF PoolBlocks
<1>2. s \in Nat \X Nat /\ Linked(i, s)
  BY SlabNumbers
<1>3. PICK e \in Nat : e = s[2] * Classes[i] /\ s[1] + e <= Modulus
  BY <1>2, RegionFacts
<1>4. x \in Nat /\ x + Classes[i] <= s[1] + e
  BY <1>1, <1>2, <1>3, BlockBounds
<1>5. Classes[i] \in Nat \ {0} /\ s[1] \in Nat /\ Modulus \in Nat
  BY <1>2, ClassNumbers, ArenaNumbers
<1> QED BY <1>3, <1>4, <1>5 DEF Word

(* A block goes from a pool's list to a holder, as in both ways of serving a  *)
(* small request.                                                           *)
LEMMA TakeKeeps ==
  ASSUME Pools, NEW n \in Requests, n <= MAX_SMALL, NEW f, NEW b \in f,
         Regions(slabs'),
         \A j \in Indices : j # Class(n) => PoolBlocks(slabs', j) = PoolBlocks(slabs, j),
         f \cap BlocksHeld(Class(n)) = {},
         f \cup BlocksHeld(Class(n)) = PoolBlocks(slabs', Class(n)),
         free' = [free EXCEPT ![Class(n)] = f \ {b}],
         held' = held \cup {[addr |-> b, size |-> n]}
  PROVE  Pools' /\ HeldBytes \in Nat /\ HeldBytes' = HeldBytes + Classes[Class(n)]
<1> DEFINE i   == Class(n)
           new == [addr |-> b, size |-> n]
<1>1. n \in Nat /\ i \in Indices /\ Classes[i] \in Nat \ {0}
  BY RequestNumbers, ClassOf, ClassNumbers
<1> HIDE DEF i
<1>2. b \in PoolBlocks(slabs', i) /\ b \in Word /\ b \notin BlocksHeld(i)
  BY <1>1, BlocksAreWords DEF i
<1>3. \A q \in held : q.addr # b
  <2>1. SUFFICES ASSUME NEW q \in held, q.addr = b PROVE FALSE
    OBVIOUS
  <2>2. PICK k \in Indices : k = Class(q.size) /\ b \in BlocksHeld(k) /\ b \in PoolBlocks(slabs, k)
    BY <2>1, HeldFacts
  <2>3. k # i
    BY <1>2, <2>2
  <2>4. b \in PoolBlocks(slabs', k)
    BY <2>2, <2>3 DEF i
  <2>5. b + Classes[k] <= b \/ b + Classes[i] <= b
    BY <1>1, <1>2, <2>3, <2>4, BlocksDiffer
  <2>6. Classes[k] \in Nat \ {0} /\ b \in Nat
    BY <1>2, ClassNumbers DEF Word
  <2> QED BY <1>1, <2>5, <2>6
<1>4. new \notin held
  BY <1>3
<1>5. \A j \in Indices : BlocksHeld(j)' = IF j = i THEN BlocksHeld(j) \cup {b} ELSE BlocksHeld(j)
  <2>1. held' = held \cup {new} /\ new.addr = b /\ Class(new.size) = i
    BY DEF i
  <2> HIDE DEF new
  <2> QED BY <2>1 DEF BlocksHeld
<1>6. \A j \in Indices : /\ free'[j] \cap BlocksHeld(j)' = {}
                         /\ free'[j] \cup BlocksHeld(j)' = PoolBlocks(slabs', j)
  <2>1. ASSUME NEW j \in Indices
        PROVE  /\ free'[j] \cap BlocksHeld(j)' = {}
               /\ free'[j] \cup BlocksHeld(j)' = PoolBlocks(slabs', j)
    <3>1. CASE j = i
      <4>1. free'[j] = f \ {b} /\ BlocksHeld(j)' = BlocksHeld(i) \cup {b}
        BY <1>5, <3>1 DEF Pools, i
      <4>2. f \cap BlocksHeld(i) = {} /\ f \cup BlocksHeld(i) = PoolBlocks(slabs', i)
        BY DEF i
      <4> QED BY <1>2, <3>1, <4>1, <4>2
    <3>2. CASE j # i
      <4>1. free'[j] = free[j] /\ BlocksHeld(j)' = BlocksHeld(j)
        BY <1>5, <3>2 DEF Pools, i
      <4>2. PoolBlocks(slabs', j) = PoolBlocks(slabs, j)
        BY <3>2 DEF i
      <4> QED BY <4>1, <4>2 DEF Pools
    <3> QED BY <3>1, <3>2
  <2> QED BY <2>1
<1>7. free' \in [Indices -> SUBSET Word]
  <2>1. f \subseteq Word
    BY <1>1, BlocksAreWords DEF i
  <2> QED BY <1>1, <2>1 DEF Pools
<1>8. held' \subseteq [addr : Word, size : Requests] /\ IsFiniteSet(held')
  <2>1. IsFiniteSet(held \cup {new})
    BY FS_AddElement DEF Pools
  <2>2. new \in [addr : Word, size : Requests]
    BY <1>2
  <2> QED BY <2>1, <2>2 DEF Pools
<1>9. \A o \in held' : o.size <= MAX_SMALL
  BY DEF Pools
<1>10. \A o, q \in held' : o.addr = q.addr => o = q
  BY <1>3 DEF Pools
<1>11. HeldBytes \in Nat /\ HeldBytes' = HeldBytes + Classes[i]
  <2> DEFINE w == [o \in held |-> Weight(o)]
             v == [o \in held \cup {new} |-> Weight(o)]
  <2>1. \A o \in held : w[o] \in Nat /\ w[o] = v[o]
    BY HeldFacts
  <2>2. v[new] = Classes[i]
    BY DEF Weight, i
  <2>3. IsFiniteSet(held) /\ HeldBytes = Sum(w, held) /\ HeldBytes' = Sum(v, held \cup {new})
    BY DEF Pools, HeldBytes
  <2>4. \A o \in held \cup {new} : v[o] \in Nat
    BY <1>1, <2>1, <2>2
  <2> HIDE DEF w, v, new
  <2>5. Sum(w, held) \in Nat
    BY <2>1, <2>3, SumType
  <2>6. Sum(w, held) = Sum(v, held)
    BY <2>1, <2>3, SumSame
  <2>7. Sum(v, held \cup {new}) = v[new] + Sum(v, held)
    BY <1>4, <2>3, <2>4, SumAdds
  <2> QED BY <1>1, <2>2, <2>3, <2>5, <2>6, <2>7
<1> QED BY <1>6, <1>7, <1>8, <1>9, <1>10, <1>11 DEF Pools, i

(* allocate(n), small, from the list. *)
LEMMA SmallKeeps ==
  ASSUME Pools, NEW n \in Requests, AllocateSmall(n)
  PROVE  Pools' /\ HeldBytes \in Nat /\ live_' = live_ + Classes[Class(n)]
         /\ HeldBytes' = HeldBytes + Classes[Class(n)]
<1> DEFINE i == Class(n)
<1>1. n <= MAX_SMALL /\ slabs' = slabs /\ i \in Indices
  BY RequestNumbers, ClassOf DEF AllocateSmall
<1>2. PICK b \in free[i] : /\ free' = [free EXCEPT ![i] = free[i] \ {b}]
                           /\ held' = held \cup {[addr |-> b, size |-> n]}
                           /\ live_' = live_ + Classes[i]
  BY DEF AllocateSmall, TakeFrom
<1>3. Regions(slabs') /\ \A j \in Indices : PoolBlocks(slabs', j) = PoolBlocks(slabs, j)
  BY <1>1 DEF Pools
<1>4. free[i] \cap BlocksHeld(i) = {} /\ free[i] \cup BlocksHeld(i) = PoolBlocks(slabs', i)
  BY <1>1, <1>3 DEF Pools
<1>5. \A j \in Indices : j # Class(n) => PoolBlocks(slabs', j) = PoolBlocks(slabs, j)
  BY <1>3
<1> QED BY <1>1, <1>2, <1>3, <1>4, <1>5, TakeKeeps

(* A chunk linked to a pool: the regions stay apart, and this pool has its     *)
(* blocks as well.                                                          *)
LEMMA LinkKeeps ==
  ASSUME NEW sl, Regions(sl), NEW i \in Indices, NEW c \in ChunkBases,
         \A j \in Indices : \A s \in sl[j] : s[1] # Refill(i, c)[1],
         NEW new, new = [sl EXCEPT ![i] = @ \cup {Refill(i, c)}]
  PROVE  /\ Regions(new)
         /\ PoolBlocks(new, i) = PoolBlocks(sl, i) \cup BlocksOf(i, Refill(i, c))
         /\ \A j \in Indices : j # i => PoolBlocks(new, j) = PoolBlocks(sl, j)
         /\ BlocksOf(i, Refill(i, c)) \cap PoolBlocks(sl, i) = {}
<1> DEFINE r == Refill(i, c)
<1>1. Linked(i, r)
  BY DEF Linked
<1>2. r \in Word \X Nat
  BY <1>1, RegionFacts
<1>3. \A j \in Indices : \A t \in sl[j] : Apart(Extent(i, r), Extent(j, t)) /\ Apart(Extent(j, t), Extent(i, r))
  BY FreshRegion
<1> HIDE DEF r
<1>4. sl \in [Indices -> SUBSET (Word \X Nat)] /\ new = [sl EXCEPT ![i] = @ \cup {r}]
  BY DEF Regions, r
<1>5. /\ new \in [Indices -> SUBSET (Word \X Nat)]
      /\ new[i] = sl[i] \cup {r} /\ \A j \in Indices : j # i => new[j] = sl[j]
  BY <1>2, <1>4
<1>6. \A j \in Indices : \A s \in new[j] : s \in sl[j] \/ (j = i /\ s = r)
  BY <1>5
<1>7. \A j \in Indices : \A s \in new[j] : Linked(j, s)
  BY <1>1, <1>6 DEF Regions
<1>8. \A j, k \in Indices : \A s \in new[j], t \in new[k] :
        (j = k /\ s = t) \/ Apart(Extent(j, s), Extent(k, t))
  <2> SUFFICES ASSUME NEW j \in Indices, NEW k \in Indices, NEW s \in new[j], NEW t \in new[k]
               PROVE  (j = k /\ s = t) \/ Apart(Extent(j, s), Extent(k, t))
    OBVIOUS
  <2>1. CASE s \in sl[j] /\ t \in sl[k]
    BY <2>1 DEF Regions
  <2>2. CASE j = i /\ s = r /\ t \in sl[k]
    BY <1>3, <2>2
  <2>3. CASE s \in sl[j] /\ k = i /\ t = r
    BY <1>3, <2>3
  <2>4. CASE j = i /\ s = r /\ k = i /\ t = r
    BY <2>4
  <2> QED BY <1>6, <2>1, <2>2, <2>3, <2>4
<1>9. Regions(new)
  BY <1>5, <1>7, <1>8 DEF Regions
<1>10. PoolBlocks(new, i) = PoolBlocks(sl, i) \cup BlocksOf(i, r)
  BY <1>5 DEF PoolBlocks
<1>11. \A j \in Indices : j # i => PoolBlocks(new, j) = PoolBlocks(sl, j)
  BY <1>5 DEF PoolBlocks
<1>12. BlocksOf(i, r) \cap PoolBlocks(sl, i) = {}
  <2>1. SUFFICES ASSUME NEW x \in BlocksOf(i, r), NEW s \in sl[i], x \in BlocksOf(i, s) PROVE FALSE
    BY DEF PoolBlocks
  <2>2. s \in Nat \X Nat /\ r \in Nat \X Nat /\ Classes[i] \in Nat \ {0}
    BY <1>2, SlabNumbers, ClassNumbers DEF Word
  <2>3. PICK e \in Nat, f \in Nat : e = s[2] * Classes[i] /\ f = r[2] * Classes[i]
    <3>1. PICK k \in Nat, m \in Nat, C \in Nat : k = s[2] /\ m = r[2] /\ C = Classes[i]
      BY <2>2
    <3>2. k * C \in Nat /\ m * C \in Nat
      OBVIOUS
    <3> QED BY <3>1, <3>2
  <2>4. x \in Nat /\ s[1] <= x /\ x + Classes[i] <= s[1] + e
    BY <2>1, <2>2, <2>3, BlockBounds
  <2>5. r[1] <= x /\ x + Classes[i] <= r[1] + f
    BY <2>1, <2>2, <2>3, BlockBounds
  <2>6. r[1] + f <= s[1] \/ s[1] + e <= r[1]
    BY <1>3, <2>3 DEF Apart, Extent
  <2>7. s[1] \in Nat /\ r[1] \in Nat
    BY <2>2
  <2> QED BY <2>2, <2>3, <2>4, <2>5, <2>6, <2>7
<1> QED BY <1>9, <1>10, <1>11, <1>12 DEF r

(* allocate(n), small, on an exhausted pool. *)
LEMMA RefilledKeeps ==
  ASSUME Pools, NEW n \in Requests, AllocateRefilled(n)
  PROVE  Pools' /\ HeldBytes \in Nat /\ live_' = live_ + Classes[Class(n)]
         /\ HeldBytes' = HeldBytes + Classes[Class(n)]
<1> DEFINE i == Class(n)
<1>1. n <= MAX_SMALL /\ i \in Indices /\ free[i] = {}
  BY RequestNumbers, ClassOf DEF AllocateRefilled
<1>2. PICK c \in ChunkBases :
        /\ \A j \in Indices : \A s \in slabs[j] : s[1] # Refill(i, c)[1]
        /\ slabs' = [slabs EXCEPT ![i] = @ \cup {Refill(i, c)}]
        /\ TakeFrom(BlocksOf(i, Refill(i, c)), i, n)
  BY DEF AllocateRefilled, Refill
<1> DEFINE f == BlocksOf(i, Refill(i, c))
<1>3. /\ Regions(slabs')
      /\ PoolBlocks(slabs', i) = PoolBlocks(slabs, i) \cup f
      /\ \A j \in Indices : j # i => PoolBlocks(slabs', j) = PoolBlocks(slabs, j)
      /\ f \cap PoolBlocks(slabs, i) = {}
  <2>1. Regions(slabs)
    BY DEF Pools
  <2>2. \A new : new = [slabs EXCEPT ![i] = @ \cup {Refill(i, c)}] =>
          /\ Regions(new)
          /\ PoolBlocks(new, i) = PoolBlocks(slabs, i) \cup f
          /\ \A j \in Indices : j # i => PoolBlocks(new, j) = PoolBlocks(slabs, j)
          /\ f \cap PoolBlocks(slabs, i) = {}
    <3> HIDE DEF i
    <3> QED BY <1>1, <1>2, <2>1, LinkKeeps
  <2> QED BY <1>2, <2>2
<1>4. PICK b \in f : /\ free' = [free EXCEPT ![i] = f \ {b}]
                     /\ held' = held \cup {[addr |-> b, size |-> n]}
                     /\ live_' = live_ + Classes[i]
  BY <1>2 DEF TakeFrom
<1> HIDE DEF f
<1>5. BlocksHeld(i) = PoolBlocks(slabs, i)
  BY <1>1 DEF Pools
<1>6. f \cap BlocksHeld(i) = {} /\ f \cup BlocksHeld(i) = PoolBlocks(slabs', i)
  BY <1>3, <1>5
<1> QED BY <1>1, <1>3, <1>4, <1>6, TakeKeeps

(* A block comes back from its holder. *)
LEMMA ReturnKeeps ==
  ASSUME Pools, NEW o \in held, Return(Class(o.size), o.addr)
  PROVE  Pools' /\ HeldBytes' \in Nat /\ HeldBytes = HeldBytes' + Weight(o)
         /\ live_' = live_ - Weight(o)
<1> DEFINE i == Class(o.size)
<1>1. i \in Indices /\ o.addr \in BlocksHeld(i) /\ o.addr \in PoolBlocks(slabs, i) /\ Weight(o) \in Nat
  BY HeldFacts
<1>2. /\ free' = [free EXCEPT ![i] = @ \cup {o.addr}] /\ slabs' = slabs
      /\ held' = {q \in held : q.addr # o.addr} /\ live_' = live_ - Weight(o)
  BY DEF Return, Weight
<1> HIDE DEF i
<1>3. held' = held \ {o}
  BY <1>2 DEF Pools
<1>4. \A j \in Indices : BlocksHeld(j)' = IF j = i THEN BlocksHeld(j) \ {o.addr} ELSE BlocksHeld(j)
  <2>1. ASSUME NEW j \in Indices PROVE BlocksHeld(j)' = {q.addr : q \in {q \in held \ {o} : Class(q.size) = j}}
    BY <1>3 DEF BlocksHeld
  <2>2. {q.addr : q \in {q \in held \ {o} : Class(q.size) = i}} = BlocksHeld(i) \ {o.addr}
    BY DEF BlocksHeld, Pools
  <2>3. ASSUME NEW j \in Indices, j # i
        PROVE  {q.addr : q \in {q \in held \ {o} : Class(q.size) = j}} = BlocksHeld(j)
    BY <2>3 DEF BlocksHeld, i
  <2> QED BY <1>1, <2>1, <2>2, <2>3
<1>5. o.addr \notin free[i] /\ o.addr \in Word
  BY <1>1, BlocksAreWords DEF Pools
<1>6. \A j \in Indices : /\ free'[j] \cap BlocksHeld(j)' = {}
                         /\ free'[j] \cup BlocksHeld(j)' = PoolBlocks(slabs', j)
  <2>1. ASSUME NEW j \in Indices
        PROVE  /\ free'[j] \cap BlocksHeld(j)' = {}
               /\ free'[j] \cup BlocksHeld(j)' = PoolBlocks(slabs, j)
    <3>1. free[j] \cap BlocksHeld(j) = {} /\ free[j] \cup BlocksHeld(j) = PoolBlocks(slabs, j)
      BY DEF Pools
    <3>2. CASE j = i
      <4>1. free'[j] = free[i] \cup {o.addr} /\ BlocksHeld(j)' = BlocksHeld(i) \ {o.addr}
        BY <1>2, <1>4, <3>2 DEF Pools
      <4> QED BY <1>1, <3>1, <3>2, <4>1
    <3>3. CASE j # i
      <4>1. free'[j] = free[j] /\ BlocksHeld(j)' = BlocksHeld(j)
        BY <1>2, <1>4, <3>3 DEF Pools
      <4> QED BY <3>1, <4>1
    <3> QED BY <3>2, <3>3
  <2> QED BY <1>2, <2>1
<1>7. free' \in [Indices -> SUBSET Word]
  BY <1>1, <1>2, <1>5 DEF Pools
<1>8. IsFiniteSet(held')
  BY <1>3, FS_RemoveElement DEF Pools
<1>9. HeldBytes' \in Nat /\ HeldBytes = HeldBytes' + Weight(o)
  <2> DEFINE v == [q \in held |-> Weight(q)]
             w == [q \in held \ {o} |-> Weight(q)]
             S == held \ {o}
  <2>1. HeldBytes = Sum(v, held) /\ HeldBytes' = Sum(w, S) /\ held = S \cup {o} /\ o \notin S
    BY <1>3 DEF HeldBytes
  <2>2. IsFiniteSet(S)
    BY <1>3, <1>8
  <2>3. \A q \in S \cup {o} : v[q] \in Nat
    BY HeldFacts
  <2>4. \A q \in S : w[q] \in Nat /\ w[q] = v[q]
    BY HeldFacts
  <2>5. v[o] = Weight(o)
    OBVIOUS
  <2> HIDE DEF v, w, S
  <2>6. Sum(w, S) \in Nat
    BY <2>2, <2>4, SumType
  <2>7. Sum(w, S) = Sum(v, S)
    BY <2>2, <2>4, SumSame
  <2>8. Sum(v, S \cup {o}) = v[o] + Sum(v, S)
    BY <2>1, <2>2, <2>3, SumAdds
  <2> QED BY <1>1, <2>1, <2>5, <2>6, <2>7, <2>8
<1>10. Regions(slabs')
  BY <1>2 DEF Pools
<1> QED BY <1>2, <1>3, <1>6, <1>7, <1>8, <1>9, <1>10 DEF Pools
------------------------------------------------------------------------------
(* No address lies in two regions. *)
LEMMA OneRegion ==
  ASSUME NEW sl, Regions(sl), NEW i \in Indices, NEW s \in sl[i], NEW j \in Indices, NEW t \in sl[j],
         NEW p \in Nat, InRegion(i, s, p), InRegion(j, t, p)
  PROVE  i = j /\ s = t
<1>1. s \in Nat \X Nat /\ t \in Nat \X Nat /\ Linked(i, s) /\ Linked(j, t)
  BY SlabNumbers
<1>2. PICK e \in Nat, f \in Nat : e = s[2] * Classes[i] /\ f = t[2] * Classes[j]
  BY <1>1, RegionFacts
<1>3. s[1] <= p /\ p < s[1] + e /\ t[1] <= p /\ p < t[1] + f /\ s[1] \in Nat /\ t[1] \in Nat
  BY <1>1, <1>2 DEF InRegion
<1>4. ~Apart(Extent(i, s), Extent(j, t))
  BY <1>2, <1>3 DEF Apart, Extent
<1> QED BY <1>4 DEF Regions

(* classify() finds the pool whose region a pointer lies in. *)
LEMMA ClassifyPool ==
  ASSUME Pools, NEW i \in Indices, NEW s \in slabs[i], NEW p \in Nat, InRegion(i, s, p)
  PROVE  Classify(p) = Classes[i]
<1> DEFINE pools == {j \in Indices : PoolContains(j, p)}
<1>1. pools = {i}
  <2>1. i \in pools
    BY DEF PoolContains
  <2>2. ASSUME NEW j \in pools PROVE j = i
    <3>1. PICK t \in slabs[j] : InRegion(j, t, p)
      BY DEF PoolContains
    <3> QED BY <3>1, OneRegion DEF Pools
  <2> QED BY <2>1, <2>2
<1>2. Classify(p) = IF pools # {} THEN Classes[Max(pools)]
                    ELSE IF Contains(p) THEN kArenaPointer ELSE 0
  BY DEF Classify
<1> HIDE DEF pools
<1>3. Max({i}) = i
  <2>1. i \in Nat
    BY ClassNumbers
  <2> QED BY <2>1 DEF Max
<1> QED BY <1>1, <1>2, <1>3

(* A pointer into a held object leads back to its block. *)
LEMMA ReachesBlock ==
  ASSUME Pools, NEW o \in held, NEW p \in Reach(o)
  PROVE  /\ Class(Classify(p)) = Class(o.size)
         /\ \A s \in slabs[Class(o.size)] : InRegion(Class(o.size), s, p) =>
              BlockAt(Class(o.size), s, p) = o.addr
<1> DEFINE i == Class(o.size)
<1>1. /\ i \in Indices /\ o.addr \in PoolBlocks(slabs, i) /\ o.size <= Classes[i] /\ o.size \in Nat
      /\ Classes[i] \in Nat \ {0}
  BY HeldFacts, ClassNumbers
<1>2. PICK s \in slabs[i] : o.addr \in BlocksOf(i, s)
  BY <1>1 DEF PoolBlocks
<1> HIDE DEF i
<1>3. s \in Nat \X Nat /\ Regions(slabs)
  BY <1>1, <1>2, SlabNumbers DEF Pools
<1>4. o.addr \in Nat
  BY <1>1, <1>2, <1>3, BlockBounds
<1>5. p \in Span(o.addr, Classes[i])
  BY <1>1, <1>4 DEF Reach, Span
<1>6. p \in Nat /\ InRegion(i, s, p) /\ BlockAt(i, s, p) = o.addr
  BY <1>1, <1>2, <1>3, <1>5, BlockAtOf
<1>7. Class(Classify(p)) = i
  BY <1>1, <1>2, <1>6, ClassifyPool, ClassOfClass
<1>8. \A t \in slabs[i] : InRegion(i, t, p) => t = s
  BY <1>1, <1>2, <1>3, <1>6, OneRegion
<1> QED BY <1>6, <1>7, <1>8 DEF i
------------------------------------------------------------------------------
(* At the start each pool has its own slab, all of it free. *)
LEMMA FrontEndInit == FeInit => FeInv
<1> SUFFICES ASSUME FeInit PROVE FeInv
  OBVIOUS
<1>1. ArenaInv
  BY ArenaInit DEF FeInit
<1>2. /\ caller \in {"front-end", "program"} /\ live_ = 0 /\ held = {} /\ used = 0
      /\ slabs = [i \in Indices |-> {OwnSlab(i)}]
      /\ free = [i \in Indices |-> BlocksOf(i, OwnSlab(i))]
  BY DEF FeInit, Init, OwnSlab
<1>3. \A i \in Indices : OwnSlab(i) \in Word \X Nat /\ Linked(i, OwnSlab(i))
  BY RegionFacts DEF Linked
<1>4. Regions(slabs)
  <2>1. \A i, j \in Indices : i # j => Apart(Extent(i, OwnSlab(i)), Extent(j, OwnSlab(j)))
    BY MemoryAssumption DEF Extent, OwnSlab, SlabMemory
  <2>2. slabs \in [Indices -> SUBSET (Word \X Nat)]
    BY <1>2, <1>3
  <2>3. \A i \in Indices : \A s \in slabs[i] : s = OwnSlab(i)
    BY <1>2
  <2> QED BY <1>3, <2>1, <2>2, <2>3 DEF Regions
<1>5. \A i \in Indices : PoolBlocks(slabs, i) = free[i] /\ BlocksHeld(i) = {}
  BY <1>2 DEF PoolBlocks, BlocksHeld
<1>6. free \in [Indices -> SUBSET Word]
  <2>1. \A i \in Indices : free[i] \subseteq Word
    BY <1>4, <1>5, BlocksAreWords
  <2> QED BY <1>2, <2>1
<1>7. HeldBytes = 0 /\ IsFiniteSet(held)
  BY <1>2, SumEmpty, FS_EmptySet DEF HeldBytes
<1>8. Pools
  BY <1>2, <1>4, <1>5, <1>6, <1>7 DEF Pools
<1>9. Counted
  BY <1>2, <1>7 DEF Counted
<1> QED BY <1>1, <1>8, <1>9 DEF FeInv

(* Nothing changes in the pools. *)
LEMMA PoolsStutter == Pools /\ UNCHANGED <<free, slabs, held>> => Pools' /\ HeldBytes' = HeldBytes
BY DEF Pools, HeldBytes, BlocksHeld

(* A step on the pools: the arena stays, live_ follows what is held.          *)
LEMMA PoolStep ==
  ASSUME FeInv, caller = "front-end", caller' = caller, UNCHANGED vars, Pools',
         HeldBytes \in Nat, HeldBytes' \in Nat, live_' - HeldBytes' = live_ - HeldBytes, live_' \in Int
  PROVE  FeInv'
<1>1. ArenaInv' /\ used' = used /\ used \in Nat
  BY ArenaStutters, ArenaNumbers DEF FeInv, vars, ArenaInv, TypeOK
<1>2. live_ = used + HeldBytes /\ live_ \in Nat
  BY DEF FeInv, Counted
<1>3. live_' = used' + HeldBytes' /\ live_' \in Nat
  <2>1. PICK h \in Nat, k \in Nat, l \in Int, u \in Nat :
           h = HeldBytes /\ k = HeldBytes' /\ l = live_' /\ u = used
    BY <1>1
  <2>2. l - k = (u + h) - h
    BY <1>2, <2>1
  <2>3. l = u + k
    BY <2>2
  <2>4. l \in Nat
    BY <2>3
  <2>5. live_' = used' + HeldBytes'
    BY <1>1, <2>1, <2>3, Zenon
  <2> QED BY <2>1, <2>4, <2>5
<1> QED BY <1>1, <1>3 DEF FeInv, Counted

(* A large request, or an aligned one. *)
LEMMA LargeKeeps ==
  ASSUME FeInv, caller = "front-end", caller' = caller, HeldBytes \in Nat,
         NEW n \in Sizes, NEW alignment \in Alignments, AllocateAligned(n, alignment)
  PROVE  FeInv'
<1>1. ArenaInv' /\ used <= used'
  BY ArenaAllocate DEF FeInv, AllocateAligned
<1>2. Pools' /\ HeldBytes' = HeldBytes
  BY PoolsStutter DEF FeInv, AllocateAligned
<1>3. used \in Nat /\ used' \in Nat
  BY <1>1, ArenaNumbers DEF FeInv, ArenaInv, TypeOK
<1>4. live_ \in Nat /\ live_ = used + HeldBytes /\ live_' = live_ + (used' - used)
  BY DEF FeInv, Counted, AllocateAligned
<1>5. live_' \in Nat /\ live_' = used' + HeldBytes'
  <2>1. PICK h \in Nat, u \in Nat, v \in Nat : h = HeldBytes /\ u = used /\ v = used' /\ u <= v
    BY <1>1, <1>3
  <2>2. live_' = (u + h) + (v - u)
    BY <1>4, <2>1
  <2>3. live_' = v + h /\ v + h \in Nat
    <3>1. (u + h) + (v - u) = v + h /\ v + h \in Nat
      OBVIOUS
    <3> QED BY <2>2, <3>1
  <2>4. live_' = used' + HeldBytes'
    BY <1>2, <2>1, <2>3, Zenon
  <2> QED BY <2>3, <2>4, Zenon
<1> QED BY <1>1, <1>2, <1>5 DEF FeInv, Counted

(* What is held has a sum. *)
LEMMA HeldBytesType == Pools => HeldBytes \in Nat
<1> SUFFICES ASSUME Pools PROVE HeldBytes \in Nat
  OBVIOUS
<1> DEFINE w == [o \in held |-> Weight(o)]
<1>1. \A o \in held : w[o] \in Nat
  BY HeldFacts
<1>2. IsFiniteSet(held)
  BY DEF Pools
<1> HIDE DEF w
<1>3. Sum(w, held) \in Nat
  BY <1>1, <1>2, SumType
<1> QED BY <1>3 DEF w, HeldBytes

(* Each step keeps the invariant. *)
LEMMA FrontEndStep == FeInv /\ [FeNext]_feVars => FeInv'
<1> SUFFICES ASSUME FeInv, [FeNext]_feVars PROVE FeInv'
  OBVIOUS
<1>0. Pools /\ HeldBytes \in Nat /\ live_ \in Nat
  BY HeldBytesType DEF FeInv, Counted
<1>1. CASE UNCHANGED feVars
  <2>1. ArenaInv' /\ Pools' /\ HeldBytes' = HeldBytes
    BY <1>1, ArenaStutters, PoolsStutter DEF FeInv, feVars
  <2>2. Counted'
    BY <1>1, <2>1 DEF FeInv, Counted, feVars, vars
  <2> QED BY <2>1, <2>2 DEF FeInv
<1>2. ASSUME caller = "front-end", caller' = caller, NEW n \in Requests, AllocateSmall(n) PROVE FeInv'
  <2>1. /\ Pools' /\ live_' = live_ + Classes[Class(n)]
        /\ HeldBytes' = HeldBytes + Classes[Class(n)] /\ UNCHANGED vars
    BY <1>0, <1>2, SmallKeeps DEF AllocateSmall
  <2>2. Classes[Class(n)] \in Nat
    BY <1>2, RequestNumbers, ClassOf, ClassNumbers DEF AllocateSmall
  <2>3. HeldBytes' \in Nat /\ live_' \in Int /\ live_' - HeldBytes' = live_ - HeldBytes
    BY <1>0, <2>1, <2>2
  <2> QED BY <1>0, <1>2, <2>1, <2>3, PoolStep
<1>3. ASSUME caller = "front-end", caller' = caller, NEW n \in Requests, AllocateRefilled(n) PROVE FeInv'
  <2>1. /\ Pools' /\ live_' = live_ + Classes[Class(n)]
        /\ HeldBytes' = HeldBytes + Classes[Class(n)] /\ UNCHANGED vars
    BY <1>0, <1>3, RefilledKeeps DEF AllocateRefilled
  <2>2. Classes[Class(n)] \in Nat
    BY <1>3, RequestNumbers, ClassOf, ClassNumbers DEF AllocateRefilled
  <2>3. HeldBytes' \in Nat /\ live_' \in Int /\ live_' - HeldBytes' = live_ - HeldBytes
    BY <1>0, <2>1, <2>2
  <2> QED BY <1>0, <1>3, <2>1, <2>3, PoolStep
<1>4. ASSUME caller = "front-end", caller' = caller, NEW n \in Requests, AllocateLarge(n)
      PROVE  FeInv'
  BY <1>0, <1>4, RequestNumbers, FrontEndAssumption, LargeKeeps DEF AllocateLarge
<1>5. ASSUME caller = "front-end", caller' = caller, NEW r \in AlignedRequests, AllocateAligned(r[1], r[2])
      PROVE  FeInv'
  <2>1. r[1] \in Sizes /\ r[2] \in Alignments
    BY FrontEndAssumption
  <2> QED BY <1>0, <1>5, <2>1, LargeKeeps
<1>6. ASSUME caller = "front-end", caller' = caller, NEW o \in held, Return(Class(o.size), o.addr)
      PROVE  FeInv'
  <2>1. /\ Pools' /\ HeldBytes' \in Nat /\ HeldBytes = HeldBytes' + Weight(o)
        /\ live_' = live_ - Weight(o) /\ Weight(o) \in Nat
    BY <1>0, <1>6, ReturnKeeps, HeldFacts
  <2>2. UNCHANGED vars
    BY <1>6 DEF Return
  <2>3. live_' \in Int /\ live_' - HeldBytes' = live_ - HeldBytes
    BY <1>0, <2>1
  <2> QED BY <1>0, <1>6, <2>1, <2>2, <2>3, PoolStep
<1>7. ASSUME caller = "front-end", caller' = caller, NEW o \in held, NEW p \in Reach(o),
             DeallocateContaining(o, p)
      PROVE  FeInv'
  <2>1. PICK s \in slabs[Class(o.size)] : InRegion(Class(o.size), s, p)
                                       /\ Return(Class(o.size), BlockAt(Class(o.size), s, p))
    BY <1>0, <1>7, ReachesBlock DEF DeallocateContaining
  <2>2. BlockAt(Class(o.size), s, p) = o.addr
    BY <1>0, <1>7, <2>1, ReachesBlock
  <2>3. Return(Class(o.size), o.addr)
    BY <2>1, <2>2
  <2> QED BY <1>6, <1>7, <2>3
<1>8. ASSUME caller = "program", caller' = caller, Next, UNCHANGED <<free, slabs, live_, held>>
      PROVE  FeInv'
  <2>1. ArenaInv'
    BY <1>8, ArenaReset, ArenaAllocate DEF FeInv, Next
  <2>2. Pools'
    BY <1>0, <1>8, PoolsStutter
  <2>3. Counted'
    BY <1>8 DEF FeInv, Counted
  <2> QED BY <2>1, <2>2, <2>3 DEF FeInv
<1> QED BY <1>1, <1>2, <1>3, <1>4, <1>5, <1>6, <1>7, <1>8 DEF FeNext, Deallocate

(* The invariant holds in every state. *)
LEMMA FrontEndInvariant == FeSpec => []FeInv
BY FrontEndInit, FrontEndStep, PTL DEF FeSpec
------------------------------------------------------------------------------
(* The sum of the blocks held, as MapThenSumSet takes it. *)
LEMMA WeightsSum ==
  ASSUME NEW S, IsFiniteSet(S)
  PROVE  MapThenSumSet(LAMBDA o : Classes[Class(o.size)], S) = Sum([o \in S |-> Weight(o)], S)
<1> DEFINE w == [o \in S |-> Weight(o)]
           iter == CHOOSE g : g = [s \in SUBSET S |-> IF s = {} THEN 0
                     ELSE Classes[Class((CHOOSE x \in s : TRUE).size)] + g[s \ {CHOOSE x \in s : TRUE}]]
           rest == CHOOSE g : g = [s \in SUBSET S |-> IF s = {} THEN 0
                     ELSE w[Pick(s)] + g[s \ {Pick(s)}]]
<1>1. MapThenSumSet(LAMBDA o : Classes[Class(o.size)], S) = iter[S]
  BY DEF MapThenSumSet, MapThenFoldSet
<1>2. Sum(w, S) = rest[S]
  BY DEF Sum
<1>3. ASSUME NEW g
      PROVE  [s \in SUBSET S |-> IF s = {} THEN 0
                ELSE Classes[Class((CHOOSE x \in s : TRUE).size)] + g[s \ {CHOOSE x \in s : TRUE}]]
             = [s \in SUBSET S |-> IF s = {} THEN 0 ELSE w[Pick(s)] + g[s \ {Pick(s)}]]
  <2>1. \A s \in SUBSET S : s # {} => Pick(s) \in S
    BY Picked
  <2>2. \A s \in SUBSET S : s # {} => w[Pick(s)] = Weight(Pick(s))
    BY <2>1
  <2> HIDE DEF w
  <2>3. [s \in SUBSET S |-> IF s = {} THEN 0 ELSE Weight(Pick(s)) + g[s \ {Pick(s)}]]
         = [s \in SUBSET S |-> IF s = {} THEN 0 ELSE w[Pick(s)] + g[s \ {Pick(s)}]]
    BY <2>2
  <2> QED BY <2>3 DEF Pick, Weight
<1>4. iter = rest
  BY <1>3
<1> QED BY <1>1, <1>2, <1>4

(* Every variable of the front-end and its arena keeps its type: in particular *)
(* live_ never goes below zero, for any classes, regions and requests.        *)
THEOREM TypeCorrect == FeSpec => []FeTypeOK
<1>1. FeInv => FeTypeOK
  BY DEF FeInv, ArenaInv, Pools, Counted, Regions, FeTypeOK
<1> QED BY <1>1, FrontEndInvariant, PTL

(* allocate() of the arena gives each caller an aligned object of its own,     *)
(* inside the region, for any base, capacity, sizes and alignments whose sums *)
(* do not wrap.                                                             *)
THEOREM ObjectsStayApart == FeSpec => []ObjectsApart
<1>1. FeInv => ObjectsApart
  <2> SUFFICES ASSUME ArenaInv PROVE ObjectsApart
    BY DEF FeInv
  <2>1. \A o \in objects : o.addr \in Nat /\ o.size \in Nat
    BY DEF ArenaInv, TypeOK, Word
  <2>2. ASSUME NEW o \in objects, NEW p \in objects, Before(o, p)
        PROVE  Bytes(o) \cap Bytes(p) = {}
    BY <2>1, <2>2 DEF Before, Bytes
  <2>3. ASSUME NEW o \in objects, NEW p \in objects, o # p
        PROVE  Bytes(o) \cap Bytes(p) = {}
    <3>1. Before(o, p) \/ Before(p, o)
      BY <2>3 DEF ArenaInv
    <3> QED BY <2>2, <3>1
  <2> QED BY <2>3 DEF ArenaInv, ObjectsApart
<1> QED BY <1>1, FrontEndInvariant, PTL

(* The difference of the arena's two counters is every byte used and in no     *)
(* object, however many objects there are.                                  *)
THEOREM FragmentationAlwaysPadding == FeSpec => []FragmentationIsPadding
<1>1. FeInv => FragmentationIsPadding
  <2> SUFFICES ASSUME ArenaInv PROVE FragmentationIsPadding
    BY DEF FeInv
  <2>1. MapThenSumSet(LAMBDA o : o.size, objects) = requested
    BY SizesSum DEF ArenaInv
  <2>2. allocated = used
    BY DEF ArenaInv
  <2> QED BY <2>1, <2>2 DEF FragmentationIsPadding
<1> QED BY <1>1, FrontEndInvariant, PTL
------------------------------------------------------------------------------
(* Every block is apart from the arena's memory and from chunks' headers. *)
LEMMA BlockOutside ==
  ASSUME Pools, NEW i \in Indices, NEW x \in PoolBlocks(slabs, i)
  PROVE  /\ x \in Nat
         /\ \A b \in Bases : Apart(<<b, Capacity>>, <<x, Classes[i]>>)
         /\ \A c \in ChunkBases : Apart(<<c, kHeaderOffset>>, <<x, Classes[i]>>)
<1>1. PICK s \in slabs[i] : x \in BlocksOf(i, s)
  BY DEF PoolBlocks
<1>2. s \in Nat \X Nat /\ Linked(i, s)
  BY <1>1, SlabNumbers DEF Pools
<1>3. PICK e \in Nat : e = s[2] * Classes[i]
  BY <1>2, RegionFacts
<1>4. x \in Nat /\ s[1] <= x /\ x + Classes[i] <= s[1] + e /\ s[1] \in Nat /\ Classes[i] \in Nat
  BY <1>1, <1>2, <1>3, BlockBounds, ClassNumbers
<1>5. ASSUME NEW a \in Nat, NEW m \in Nat, Apart(<<a, m>>, Extent(i, s))
      PROVE  Apart(<<a, m>>, <<x, Classes[i]>>)
  <2>1. a + m <= s[1] \/ s[1] + e <= a
    BY <1>3, <1>5 DEF Apart, Extent
  <2> QED BY <1>3, <1>4, <2>1 DEF Apart
<1>6. ASSUME NEW b \in Bases PROVE Apart(<<b, Capacity>>, <<x, Classes[i]>>)
  <2>1. Apart(<<b, Capacity>>, Extent(i, s))
    BY <1>2, RegionFacts
  <2>2. b \in Nat /\ Capacity \in Nat
    BY ArenaNumbers
  <2> QED BY <1>5, <2>1, <2>2
<1>7. ASSUME NEW c \in ChunkBases PROVE Apart(<<c, kHeaderOffset>>, <<x, Classes[i]>>)
  <2>1. Apart(<<c, kHeaderOffset>>, Extent(i, s))
    BY <1>2, RegionFacts
  <2>2. c \in Nat /\ kHeaderOffset \in Nat
    BY ChunkNumbers
  <2> QED BY <1>5, <2>1, <2>2
<1> QED BY <1>4, <1>6, <1>7

(* Memory apart has no byte in common. *)
LEMMA ApartSpans ==
  ASSUME NEW a \in Nat, NEW m \in Nat, NEW b \in Nat, NEW k \in Nat, Apart(<<a, m>>, <<b, k>>)
  PROVE  Span(a, m) \cap Span(b, k) = {} /\ Span(b, k) \cap Span(a, m) = {}
<1>1. a + m <= b \/ b + k <= a
  BY DEF Apart
<1> QED BY <1>1 DEF Span

(* The bytes that the arena has given out lie in its region. *)
LEMMA ArenaSpan ==
  ASSUME ArenaInv
  PROVE  base \in Bases /\ base \in Nat /\ used \in Nat /\ used <= Capacity /\ Capacity \in Nat
         /\ \A y, k \in Nat : Apart(<<base, Capacity>>, <<y, k>>) => Apart(<<base, used>>, <<y, k>>)
<1>1. base \in Bases /\ base \in Nat /\ used \in Nat /\ used <= Capacity /\ Capacity \in Nat
  BY ArenaNumbers DEF ArenaInv, TypeOK
<1> QED BY <1>1 DEF Apart

(* No two of blocks, chunk headers and the arena's memory overlap, for any     *)
(* classes, chunk size and regions of memory that do not overlap, whatever is *)
(* allocated, refilled and returned.                                        *)
THEOREM BlocksStayApart == FeSpec => []BlocksApart
<1>1. FeInv => BlocksApart
  <2> SUFFICES ASSUME ArenaInv, Pools PROVE BlocksApart
    BY DEF FeInv
  <2>1. \A i \in Indices : free[i] \cap BlocksHeld(i) = {}
    BY DEF Pools
  <2> DEFINE IsBlock(x)  == \E i \in Indices : \E b \in PoolBlocks(slabs, i) : x = Span(b, Classes[i])
             IsHeader(x) == \E c \in ChunkBases : x = Span(c, kHeaderOffset)
  <2>2. \A x \in Pieces : IsBlock(x) \/ IsHeader(x) \/ x = ArenaBytes
    <3>1. \A i \in Indices : free[i] \cup BlocksHeld(i) = PoolBlocks(slabs, i)
      BY DEF Pools
    <3> SUFFICES ASSUME NEW x \in Pieces PROVE IsBlock(x) \/ IsHeader(x) \/ x = ArenaBytes
      OBVIOUS
    <3>2. CASE \E i \in Indices : x \in {Span(b, Classes[i]) : b \in free[i] \cup BlocksHeld(i)}
      BY <3>1, <3>2
    <3>3. CASE x \in {Span(c, kHeaderOffset) : c \in ChunkBases} \/ x = ArenaBytes
      BY <3>3
    <3> HIDE DEF IsBlock, IsHeader
    <3> DEFINE blocks == {{Span(b, Classes[i]) : b \in free[i] \cup BlocksHeld(i)} : i \in Indices}
    <3> DEFINE headers == {Span(c, kHeaderOffset) : c \in ChunkBases}
    <3>4. x \in UNION blocks \/ x \in headers \/ x = ArenaBytes
      <4>1. Pieces = (UNION blocks) \cup headers \cup {ArenaBytes}
        BY DEF Pieces
      <4> HIDE DEF blocks, headers
      <4> QED BY <4>1
    <3>5. x \in UNION blocks =>
            \E i \in Indices : x \in {Span(b, Classes[i]) : b \in free[i] \cup BlocksHeld(i)}
      OBVIOUS
    <3> HIDE DEF blocks
    <3> QED BY <3>2, <3>3, <3>4, <3>5
  <2>3. ASSUME NEW x, NEW y, IsBlock(x), IsBlock(y) PROVE x = y \/ x \cap y = {}
    <3>a. PICK i \in Indices : \E b \in PoolBlocks(slabs, i) : x = Span(b, Classes[i])
      BY <2>3
    <3>1. PICK b \in PoolBlocks(slabs, i) : x = Span(b, Classes[i])
      BY <3>a
    <3>b. PICK j \in Indices : \E d \in PoolBlocks(slabs, j) : y = Span(d, Classes[j])
      BY <2>3
    <3>2. PICK d \in PoolBlocks(slabs, j) : y = Span(d, Classes[j])
      BY <3>b
    <3>3. /\ b \in Nat /\ d \in Nat
          /\ (i = j /\ b = d) \/ b + Classes[i] <= d \/ d + Classes[j] <= b
      BY BlocksDiffer DEF Pools
    <3>4. Classes[i] \in Nat /\ Classes[j] \in Nat
      BY ClassNumbers
    <3>5. CASE i = j /\ b = d
      BY <3>1, <3>2, <3>5
    <3>6. CASE Apart(<<b, Classes[i]>>, <<d, Classes[j]>>)
      BY <3>1, <3>2, <3>3, <3>4, <3>6, ApartSpans
    <3> QED BY <3>3, <3>5, <3>6 DEF Apart
  <2>4. ASSUME NEW x, NEW y, IsBlock(x), IsHeader(y) PROVE x \cap y = {} /\ y \cap x = {}
    <3>a. PICK i \in Indices : \E b \in PoolBlocks(slabs, i) : x = Span(b, Classes[i])
      BY <2>4
    <3>1. PICK b \in PoolBlocks(slabs, i) : x = Span(b, Classes[i])
      BY <3>a
    <3>2. PICK c \in ChunkBases : y = Span(c, kHeaderOffset)
      BY <2>4
    <3>3. b \in Nat /\ Apart(<<c, kHeaderOffset>>, <<b, Classes[i]>>)
      BY BlockOutside
    <3>4. Classes[i] \in Nat /\ c \in Nat /\ kHeaderOffset \in Nat
      BY ClassNumbers, ChunkNumbers
    <3> QED BY <3>1, <3>2, <3>3, <3>4, ApartSpans
  <2>5. ASSUME NEW x, IsBlock(x) PROVE x \cap ArenaBytes = {} /\ ArenaBytes \cap x = {}
    <3>a. PICK i \in Indices : \E b \in PoolBlocks(slabs, i) : x = Span(b, Classes[i])
      BY <2>5
    <3>1. PICK b \in PoolBlocks(slabs, i) : x = Span(b, Classes[i])
      BY <3>a
    <3>2. Classes[i] \in Nat /\ b \in Nat
      BY ClassNumbers, BlockOutside
    <3>3. Apart(<<base, used>>, <<b, Classes[i]>>)
      BY <3>2, BlockOutside, ArenaSpan
    <3> QED BY <3>1, <3>2, <3>3, ApartSpans, ArenaSpan DEF ArenaBytes
  <2>6. ASSUME NEW x, NEW y, IsHeader(x), IsHeader(y) PROVE x = y \/ x \cap y = {}
    <3>1. PICK c \in ChunkBases, d \in ChunkBases : x = Span(c, kHeaderOffset) /\ y = Span(d, kHeaderOffset)
      BY <2>6
    <3>2. /\ c \in Nat /\ d \in Nat /\ kHeaderOffset \in Nat /\ CHUNK_SIZE \in Nat
          /\ kHeaderOffset <= CHUNK_SIZE
      BY ChunkNumbers, ClassNumbers
    <3>3. CASE c = d
      BY <3>1, <3>3
    <3>4. CASE c # d
      <4>1. c + CHUNK_SIZE <= d \/ d + CHUNK_SIZE <= c
        BY <3>4, ChunksApart
      <4>2. Apart(<<c, kHeaderOffset>>, <<d, kHeaderOffset>>)
        BY <3>2, <4>1 DEF Apart
      <4> QED BY <3>1, <3>2, <4>2, ApartSpans
    <3> QED BY <3>3, <3>4
  <2>7. ASSUME NEW x, IsHeader(x) PROVE x \cap ArenaBytes = {} /\ ArenaBytes \cap x = {}
    <3>1. PICK c \in ChunkBases : x = Span(c, kHeaderOffset)
      BY <2>7
    <3>2. /\ c \in Nat /\ kHeaderOffset \in Nat /\ CHUNK_SIZE \in Nat /\ kHeaderOffset <= CHUNK_SIZE
      BY ChunkNumbers, ClassNumbers
    <3>3. Apart(<<base, Capacity>>, <<c, CHUNK_SIZE>>)
      BY ArenaSpan, MemoryAssumption DEF ChunkMemory
    <3>4. Apart(<<base, Capacity>>, <<c, kHeaderOffset>>)
      BY <3>2, <3>3, ArenaSpan DEF Apart
    <3>5. Apart(<<base, used>>, <<c, kHeaderOffset>>)
      BY <3>2, <3>4, ArenaSpan
    <3> QED BY <3>1, <3>2, <3>5, ApartSpans, ArenaSpan DEF ArenaBytes
  <2> HIDE DEF IsBlock, IsHeader
  <2>8. \A x, y \in Pieces : x # y => x \cap y = {}
    BY <2>2, <2>3, <2>4, <2>5, <2>6, <2>7
  <2> QED BY <2>1, <2>8 DEF BlocksApart
<1> QED BY <1>1, FrontEndInvariant, PTL
------------------------------------------------------------------------------
(* contains() of the arena is true of its memory. *)
LEMMA ContainsArena ==
  ASSUME ArenaInv, NEW p \in Nat
  PROVE  Contains(p) <=> p \in ArenaBytes
<1>1. base \in Nat /\ used \in Nat /\ base + used < Modulus
  BY ArenaSpan, ArenaNumbers
<1>2. base ++ used = base + used
  BY <1>1, NoWrap
<1> QED BY <1>1, <1>2 DEF Contains, ArenaBytes, Span

(* classify() is exact for every address: the pool whose block it lies in, the *)
(* arena, or nothing of this thread's; a header or the rest of a chunk behind *)
(* the last block are nobody's.                                             *)
THEOREM ClassifyAlwaysExact == FeSpec => []ClassifyExact
<1>1. FeInv => ClassifyExact
  <2> SUFFICES ASSUME ArenaInv, Pools, NEW p \in Word
               PROVE  Classify(p) = IF p \in ArenaBytes THEN kArenaPointer
                                    ELSE IF \E i \in Indices : p \in PoolBytes(i)
                                    THEN Classes[CHOOSE i \in Indices : p \in PoolBytes(i)]
                                    ELSE 0
    BY DEF FeInv, ClassifyExact
  <2>1. p \in Nat
    BY DEF Word
  <2>2. \A i \in Indices : p \in PoolBytes(i) <=> \E b \in PoolBlocks(slabs, i) : p \in Span(b, Classes[i])
    <3>1. \A i \in Indices : free[i] \cup BlocksHeld(i) = PoolBlocks(slabs, i)
      BY DEF Pools
    <3> QED BY <3>1 DEF PoolBytes
  <2>3. ASSUME NEW i \in Indices, p \in PoolBytes(i)
        PROVE  Classify(p) = Classes[i] /\ p \notin ArenaBytes
    <3>1. PICK b \in PoolBlocks(slabs, i) : p \in Span(b, Classes[i])
      BY <2>2, <2>3
    <3>2. PICK s \in slabs[i] : b \in BlocksOf(i, s)
      BY DEF PoolBlocks
    <3>3. s \in Nat \X Nat
      BY SlabNumbers DEF Pools
    <3>4. InRegion(i, s, p)
      BY <3>1, <3>2, <3>3, BlockAtOf
    <3>5. Classify(p) = Classes[i]
      BY <2>1, <3>4, ClassifyPool
    <3>6. p \notin ArenaBytes
      <4>1. b \in Nat /\ Classes[i] \in Nat
        BY BlockOutside, ClassNumbers
      <4>2. Apart(<<base, used>>, <<b, Classes[i]>>)
        BY <4>1, BlockOutside, ArenaSpan
      <4>3. Span(base, used) \cap Span(b, Classes[i]) = {}
        BY <4>1, <4>2, ApartSpans, ArenaSpan
      <4> QED BY <3>1, <4>3 DEF ArenaBytes
    <3> QED BY <3>5, <3>6
  <2>4. ASSUME NEW i \in Indices, PoolContains(i, p) PROVE p \in PoolBytes(i)
    <3>1. PICK s \in slabs[i] : InRegion(i, s, p)
      BY <2>4 DEF PoolContains
    <3>2. s \in Nat \X Nat
      BY SlabNumbers DEF Pools
    <3>3. PICK b \in BlocksOf(i, s) : b <= p /\ p < b + Classes[i]
      BY <2>1, <3>1, <3>2, BlockAtFacts
    <3>4. b \in PoolBlocks(slabs, i) /\ b \in Nat /\ Classes[i] \in Nat
      BY <3>2, BlockBounds, ClassNumbers DEF PoolBlocks
    <3>5. p \in Span(b, Classes[i])
      BY <2>1, <3>3, <3>4 DEF Span
    <3> QED BY <2>2, <3>4, <3>5
  <2>5. CASE \E i \in Indices : p \in PoolBytes(i)
    <3>1. PICK i \in Indices : i = CHOOSE j \in Indices : p \in PoolBytes(j)
      BY <2>5
    <3>2. p \in PoolBytes(i)
      BY <2>5, <3>1
    <3>3. Classify(p) = Classes[i] /\ p \notin ArenaBytes
      BY <2>3, <3>2
    <3> QED BY <2>5, <3>1, <3>3
  <2>6. CASE ~ \E i \in Indices : p \in PoolBytes(i)
    <3>1. {i \in Indices : PoolContains(i, p)} = {}
      BY <2>4, <2>6
    <3>2. Classify(p) = IF Contains(p) THEN kArenaPointer ELSE 0
      BY <3>1 DEF Classify
    <3> QED BY <2>1, <2>6, <3>2, ContainsArena
  <2> QED BY <2>5, <2>6
<1> QED BY <1>1, FrontEndInvariant, PTL

(* live_ is the sum of the blocks held and what the arena has used, however    *)
(* many blocks are held.                                                    *)
THEOREM LiveBytesAlwaysExact == FeSpec => []LiveBytesExact
<1>1. FeInv => LiveBytesExact
  <2> SUFFICES ASSUME Pools, Counted, caller = "front-end"
               PROVE  live_ = used + MapThenSumSet(LAMBDA o : Classes[Class(o.size)], held)
    BY DEF FeInv, LiveBytesExact
  <2>1. MapThenSumSet(LAMBDA o : Classes[Class(o.size)], held) = HeldBytes
    BY WeightsSum DEF Pools, HeldBytes
  <2>2. live_ = used + HeldBytes
    BY DEF Counted
  <2> QED BY <2>1, <2>2
<1> QED BY <1>1, FrontEndInvariant, PTL
==============================================================================
