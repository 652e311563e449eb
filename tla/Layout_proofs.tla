---------------------------- MODULE Layout_proofs ----------------------------
(***************************************************************************)
(* What the arithmetic of Layout computes, for every list of classes, chunk *)
(* size and request.  The loop of size_class_index is a recursive function: *)
(* what it finds is a lemma of Recursion.                                   *)
(***************************************************************************)
EXTENDS Layout, Recursion

(* What size_class_index finds. *)
LEMMA IndexOfRequest ==
  ASSUME NEW m \in Nat, m # 0
  PROVE  /\ size_class_index(m) \in 0 .. NUM_CLASSES
         /\ size_class_index(m) = NUM_CLASSES \/ Classes[size_class_index(m) + 1] >= m
         /\ \A k \in 0 .. size_class_index(m) - 1 : ~(Classes[k + 1] >= m)
<1> DEFINE Stops == {i \in 0 .. NUM_CLASSES : Holds(i, m)}
           from  == CHOOSE g : g = [i \in 0 .. NUM_CLASSES |->
                                     IF i = NUM_CLASSES \/ Holds(i, m) THEN i ELSE g[i + 1]]
<1>1. NUM_CLASSES \in Nat
  BY LayoutAssumption DEF NUM_CLASSES
<1> HIDE DEF Stops, from
<1>2. PICK g : Looping(g, NUM_CLASSES, Stops)
  BY <1>1, LoopExists
<1>3. g = [i \in 0 .. NUM_CLASSES |-> IF i = NUM_CLASSES \/ Holds(i, m) THEN i ELSE g[i + 1]]
  BY <1>2 DEF Stops, Looping
<1>4. from = [i \in 0 .. NUM_CLASSES |-> IF i = NUM_CLASSES \/ Holds(i, m) THEN i ELSE from[i + 1]]
  BY <1>3 DEF from
<1>5. size_class_index(m) = from[0]
  BY DEF size_class_index, from
<1>6. \A i \in 0 .. NUM_CLASSES : from[i] = IF i = NUM_CLASSES \/ i \in Stops THEN i ELSE from[i + 1]
  BY <1>4 DEF Stops
<1>7. /\ from[0] \in 0 .. NUM_CLASSES
      /\ from[0] = NUM_CLASSES \/ from[0] \in Stops
      /\ \A k \in 0 .. from[0] - 1 : k \notin Stops
  BY <1>1, <1>6, LoopFindsFirst
<1>8. \A i \in 0 .. NUM_CLASSES : i \in Stops <=> Classes[i + 1] >= m
  BY DEF Holds, Stops
<1> QED BY <1>1, <1>5, <1>7, <1>8
------------------------------------------------------------------------------
(* The classes are numbers, and none is larger than MAX_SMALL. *)
LEMMA ClassFacts ==
  /\ NUM_CLASSES \in Nat \ {0} /\ MAX_SMALL \in Nat \ {0} /\ MAX_SMALL = Classes[NUM_CLASSES]
  /\ \A i \in 1 .. NUM_CLASSES : Classes[i] \in Nat \ {0} /\ Classes[i] <= MAX_SMALL
<1>1. NUM_CLASSES \in Nat \ {0} /\ MAX_SMALL = Classes[NUM_CLASSES]
  BY LayoutAssumption DEF NUM_CLASSES
<1>2. \A i \in 1 .. NUM_CLASSES : Classes[i] \in Nat \ {0}
  BY LayoutAssumption DEF NUM_CLASSES
<1>3. \A i \in 1 .. NUM_CLASSES : i = NUM_CLASSES \/ i < NUM_CLASSES
  BY <1>1
<1>4. NUM_CLASSES \in 1 .. NUM_CLASSES
  BY <1>1
<1>5. ASSUME NEW i \in 1 .. NUM_CLASSES PROVE Classes[i] <= MAX_SMALL
  <2>1. CASE i = NUM_CLASSES
    BY <1>1, <1>2, <2>1
  <2>2. CASE i < NUM_CLASSES
    BY <1>1, <1>2, <1>4, <2>2, LayoutAssumption
  <2> QED BY <1>3, <2>1, <2>2
<1> QED BY <1>1, <1>2, <1>4, <1>5

(* The class of a request: the first that holds it. *)
LEMMA ClassOfRequest ==
  ASSUME NEW m \in Nat
  PROVE  /\ m > MAX_SMALL => /\ block_for(m) = 0 /\ size_class_index(m) = NUM_CLASSES
                             /\ \A j \in 1 .. NUM_CLASSES : ~(Classes[j] >= m)
         /\ m <= MAX_SMALL =>
              \E i \in 1 .. NUM_CLASSES : /\ block_for(m) = Classes[i] /\ size_class_index(m) = i - 1
                                          /\ Classes[i] >= m
                                          /\ \A j \in 1 .. i - 1 : ~(Classes[j] >= m)
<1>1. CASE m = 0
  <2>1. 1 \in 1 .. NUM_CLASSES /\ MAX_SMALL >= m
    BY <1>1, ClassFacts
  <2>2. block_for(m) = Classes[1] /\ size_class_index(m) = 1 - 1 /\ Classes[1] >= m
    BY <1>1, <2>1, ClassFacts DEF block_for, size_class_index
  <2>3. \A j \in 1 .. 1 - 1 : FALSE
    OBVIOUS
  <2> QED BY <1>1, <2>1, <2>2, <2>3, ClassFacts
<1>2. CASE m # 0
  <2> DEFINE x == size_class_index(m)
  <2>1. /\ x \in 0 .. NUM_CLASSES
        /\ x = NUM_CLASSES \/ Classes[x + 1] >= m
        /\ \A k \in 0 .. x - 1 : ~(Classes[k + 1] >= m)
    BY <1>2, IndexOfRequest
  <2>2. block_for(m) = IF m > MAX_SMALL THEN 0 ELSE Classes[x + 1]
    BY <1>2 DEF block_for
  <2> HIDE DEF x
  <2>3. \A j \in 1 .. x : ~(Classes[j] >= m)
    <3>1. \A j \in 1 .. x : j - 1 \in 0 .. x - 1 /\ (j - 1) + 1 = j
      BY <2>1
    <3> QED BY <2>1, <3>1
  <2>4. CASE m > MAX_SMALL
    <3>1. \A j \in 1 .. NUM_CLASSES : ~(Classes[j] >= m)
      BY <2>4, ClassFacts
    <3>2. x = NUM_CLASSES \/ x + 1 \in 1 .. NUM_CLASSES
      BY <2>1, ClassFacts
    <3>3. x = NUM_CLASSES
      BY <2>1, <3>1, <3>2
    <3> QED BY <2>2, <2>4, <3>1, <3>3, ClassFacts DEF x
  <2>5. CASE ~(m > MAX_SMALL)
    <3>1. NUM_CLASSES \in 1 .. NUM_CLASSES /\ Classes[NUM_CLASSES] >= m
      BY <2>5, ClassFacts
    <3>2. x # NUM_CLASSES
      BY <2>3, <3>1
    <3>3. x + 1 \in 1 .. NUM_CLASSES /\ Classes[x + 1] >= m /\ (x + 1) - 1 = x
      BY <2>1, <3>2, ClassFacts
    <3> QED BY <2>2, <2>3, <2>5, <3>3, ClassFacts DEF x
  <2> QED BY <2>4, <2>5
<1> QED BY <1>1, <1>2

(* ... so that it is the smallest that holds it.                            *)
LEMMA SmallestFitOf == n \in Nat => SmallestFit
<1> SUFFICES ASSUME n \in Nat PROVE SmallestFit
  OBVIOUS
<1> DEFINE fits == {i \in 1 .. NUM_CLASSES : Classes[i] >= n}
<1>1. CASE n > MAX_SMALL
  <2>1. fits = {} /\ block_for(n) = 0 /\ size_class_index(n) = NUM_CLASSES
    BY <1>1, ClassOfRequest
  <2> QED BY <2>1 DEF SmallestFit
<1>2. CASE n <= MAX_SMALL
  <2>1. PICK i \in 1 .. NUM_CLASSES : /\ block_for(n) = Classes[i] /\ size_class_index(n) = i - 1
                                      /\ Classes[i] >= n
                                      /\ \A j \in 1 .. i - 1 : ~(Classes[j] >= n)
    BY <1>2, ClassOfRequest
  <2>2. i \in fits /\ \A j \in fits : i <= j
    BY <2>1
  <2> QED BY <2>1, <2>2 DEF SmallestFit
<1> QED BY <1>1, <1>2, ClassFacts

(* The class before it is less than the request, and at least half of it.   *)
LEMMA WasteOf == n \in Nat => WasteBelowHalf
<1> SUFFICES ASSUME n \in Nat, n <= MAX_SMALL, 2 * n > Classes[1]
             PROVE  2 * (block_for(n) - n) < block_for(n)
  BY DEF WasteBelowHalf
<1>1. PICK i \in 1 .. NUM_CLASSES : /\ block_for(n) = Classes[i] /\ Classes[i] >= n
                                    /\ \A j \in 1 .. i - 1 : ~(Classes[j] >= n)
  BY ClassOfRequest
<1>2. Classes[i] \in Nat
  BY ClassFacts
<1>3. Classes[i] < 2 * n
  <2>1. CASE i = 1
    BY <2>1
  <2>2. CASE i # 1
    <3>1. i - 1 \in 1 .. NUM_CLASSES - 1 /\ i - 1 \in 1 .. i - 1 /\ (i - 1) + 1 = i /\ i - 1 \in 1 .. NUM_CLASSES
      BY <2>2, ClassFacts
    <3>2. Classes[i - 1] \in Nat /\ Classes[i] <= 2 * Classes[i - 1] /\ ~(Classes[i - 1] >= n)
      BY <1>1, <3>1, ClassFacts, ClassesDouble
    <3> QED BY <1>2, <3>2
  <2> QED BY <2>1, <2>2
<1> QED BY <1>1, <1>2, <1>3
------------------------------------------------------------------------------
(* Quotient and remainder. *)
LEMMA QuotientRemainder ==
  ASSUME NEW C \in Nat \ {0}, NEW x \in Int
  PROVE  x % C \in 0 .. C - 1 /\ x \div C \in Int /\ x = C * (x \div C) + (x % C)
OBVIOUS

(* Masking an address less than a chunk behind a chunk's start. *)
LEMMA Masked ==
  ASSUME NEW C \in Nat \ {0}, NEW b \in Nat, b % C = 0, NEW r \in 0 .. C - 1
  PROVE  (b + r) - ((b + r) % C) = b
<1>1. PICK q \in Nat : b = C * q
  OBVIOUS
<1>2. PICK x \in Int : x = b + r /\ x = C * q + r
  BY <1>1
<1>3. PICK m \in 0 .. C - 1, d \in Int : m = x % C /\ x = C * d + m
  <2>1. x % C \in 0 .. C - 1 /\ x \div C \in Int /\ x = C * (x \div C) + (x % C)
    BY QuotientRemainder
  <2> DEFINE m == x % C
             d == x \div C
  <2>2. m \in 0 .. C - 1 /\ d \in Int /\ m = x % C /\ x = C * d + m
    BY <2>1
  <2> HIDE DEF d
  <2>3. \E e \in Int : m \in 0 .. C - 1 /\ m = x % C /\ x = C * e + m
    BY <2>2
  <2> HIDE DEF m
  <2> QED BY <2>3
<1>4. PICK k \in Int : k = d - q /\ C * k = r - m
  BY <1>2, <1>3
<1>5. ~(k >= 1)
  <2>1. k >= 1 => C * k >= C
    OBVIOUS
  <2> QED BY <1>4, <2>1
<1>6. ~(k <= -1)
  <2>1. k <= -1 => C * k <= -C
    OBVIOUS
  <2> QED BY <1>4, <2>1
<1>7. x % C = r
  BY <1>3, <1>4, <1>5, <1>6
<1> QED BY <1>2, <1>7

(* How much a chunk holds of blocks of one size. *)
LEMMA Carving ==
  ASSUME NEW S \in Nat, NEW size \in Nat \ {0}, size <= S
  PROVE  /\ S \div size \in Nat /\ S \div size >= 1
         /\ \A i \in Nat : i < S \div size => i * size \in Nat /\ i * size + size <= S
<1>1. S \div size \in Nat /\ size * (S \div size) <= S /\ S < size * (S \div size) + size
  OBVIOUS
<1>2. S \div size >= 1
  BY <1>1
<1>3. ASSUME NEW i \in Nat, i < S \div size
      PROVE  i * size \in Nat /\ i * size + size <= S
  <2>1. i + 1 <= S \div size
    BY <1>1, <1>3
  <2>2. (i + 1) * size <= size * (S \div size)
    BY <1>1, <2>1
  <2> QED BY <1>1, <2>2
<1> QED BY <1>1, <1>2, <1>3

(* The blocks of a request's class, carved from a chunk.                     *)
LEMMA ChunkOf == n \in Nat => ChunkHoldsItsBlocks
<1> SUFFICES ASSUME n \in 1 .. MAX_SMALL
             PROVE  /\ max_blocks(block_for(n)) >= 1
                    /\ \A base \in Bases, i \in 0 .. max_blocks(block_for(n)) - 1 :
                         LET p == BlockStart(base, block_for(n), i)
                         IN /\ base + kHeaderOffset <= p /\ p + block_for(n) <= base + CHUNK_SIZE
                            /\ header_for(p) = base /\ header_for(p + block_for(n) - 1) = base
  BY DEF ChunkHoldsItsBlocks
<1> DEFINE size == block_for(n)
<1>1. size \in Nat \ {0} /\ size <= MAX_SMALL
  <2>1. n \in Nat /\ n <= MAX_SMALL
    BY ClassFacts
  <2>2. \E i \in 1 .. NUM_CLASSES : block_for(n) = Classes[i]
    BY <2>1, ClassOfRequest
  <2> QED BY <2>2, ClassFacts
<1> HIDE DEF size
<1>2. /\ CHUNK_SIZE \in Nat \ {0} /\ kHeaderOffset \in Nat /\ BlocksPerSlab \in Nat \ {0}
      /\ kHeaderOffset + MAX_SMALL <= CHUNK_SIZE /\ \A base \in Bases : base \in Nat /\ base % CHUNK_SIZE = 0
  BY LayoutAssumption
<1> DEFINE S == CHUNK_SIZE - kHeaderOffset
<1>3. S \in Nat /\ size <= S /\ S + kHeaderOffset = CHUNK_SIZE
  BY <1>1, <1>2, ClassFacts
<1>4. /\ S \div size \in Nat /\ S \div size >= 1
      /\ \A i \in Nat : i < S \div size => i * size \in Nat /\ i * size + size <= S
  BY <1>1, <1>3, Carving
<1>5. max_blocks(size) \in Nat /\ max_blocks(size) >= 1 /\ max_blocks(size) <= S \div size
  BY <1>2, <1>4 DEF max_blocks, blocks_per_chunk
<1> HIDE DEF S
<1>6. ASSUME NEW base \in Bases, NEW i \in 0 .. max_blocks(size) - 1
      PROVE  LET p == BlockStart(base, size, i)
             IN /\ base + kHeaderOffset <= p /\ p + size <= base + CHUNK_SIZE
                /\ header_for(p) = base /\ header_for(p + size - 1) = base
  <2>1. i \in Nat /\ i < S \div size
    BY <1>4, <1>5
  <2>2. PICK o : o = i * size
    OBVIOUS
  <2>3. o \in Nat /\ o + size <= S
    BY <1>4, <2>1, <2>2
  <2>4. base \in Nat /\ base % CHUNK_SIZE = 0
    BY <1>2
  <2>5. BlockStart(base, size, i) = base + (kHeaderOffset + o)
    BY <1>2, <2>2, <2>3, <2>4 DEF BlockStart
  <2>6. kHeaderOffset + o \in 0 .. CHUNK_SIZE - 1 /\ kHeaderOffset + o + size - 1 \in 0 .. CHUNK_SIZE - 1
    BY <1>1, <1>2, <1>3, <2>3
  <2>7. header_for(base + (kHeaderOffset + o)) = base
    BY <1>2, <2>4, <2>6, Masked DEF header_for
  <2>8. header_for(base + (kHeaderOffset + o + size - 1)) = base
    BY <1>2, <2>4, <2>6, Masked DEF header_for
  <2>9. base + (kHeaderOffset + o) + size - 1 = base + (kHeaderOffset + o + size - 1)
    BY <1>1, <1>2, <2>3, <2>4
  <2>10. base + kHeaderOffset <= base + (kHeaderOffset + o) /\ base + (kHeaderOffset + o) + size <= base + CHUNK_SIZE
    BY <1>1, <1>2, <1>3, <2>3, <2>4
  <2> QED BY <2>5, <2>7, <2>8, <2>9, <2>10
<1> QED BY <1>5, <1>6 DEF size
------------------------------------------------------------------------------
(* The request is a number. *)
LEMMA RequestIsNat == Spec => [](n \in Nat)
<1>1. Init => n \in Nat
  BY DEF Init
<1>2. n \in Nat /\ [Next]_n => (n \in Nat)'
  BY DEF Next
<1> QED BY <1>1, <1>2, PTL DEF Spec

(* The size class of any request is the smallest that holds it, and only what *)
(* no class holds goes to the large path: the loop of size_class_index and    *)
(* the cases of block_for, for every ascending list of classes.              *)
THEOREM SmallestFitsAlways == Spec => []SmallestFit
BY RequestIsNat, SmallestFitOf, PTL

(* Rounding up loses less than half a block (frag_detect.hpp), for every list *)
(* of classes that at most double.                                           *)
THEOREM WasteAlwaysBelowHalf == Spec => []WasteBelowHalf
BY RequestIsNat, WasteOf, PTL

(* Every block that a refill of any class carves lies in its chunk, between    *)
(* the header and the end, and masks to that header, for every chunk size,    *)
(* header and list of classes of which the largest fits.                      *)
THEOREM ChunkAlwaysHoldsItsBlocks == Spec => []ChunkHoldsItsBlocks
BY RequestIsNat, ChunkOf, PTL
==============================================================================
