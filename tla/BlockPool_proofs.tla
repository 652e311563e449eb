--------------------------- MODULE BlockPool_proofs ---------------------------
(***************************************************************************)
(* Theorems about BlockPool, for every slab size, every set of chunks and   *)
(* every set of pointer offsets: the free list kept inside the blocks is    *)
(* always intact (FreeListLinked), no block is duplicated or dropped        *)
(* (FreeOrLive), and the pool implements FreeStack.                         *)
(*                                                                          *)
(* The three conjuncts of IInv are inductive only together: popping trusts  *)
(* the word in the head block (FreeListLinked), which survives the holders' *)
(* stores only because no free block is also held (FreeOrLive).             *)
(***************************************************************************)
EXTENDS PoolWalk, SequenceTheorems, FiniteSetTheorems, TLAPS

IInv == TypeOK /\ FreeListLinked /\ FreeOrLive

(* The slab InOrder(r, n) is a sequence of n different blocks of region r.  *)
LEMMA InOrderProperties ==
  ASSUME NEW r \in AllRegions, NEW n \in 1 .. BlocksPerSlab
  PROVE  /\ InOrder(r, n) \in Seq(Block)
         /\ Len(InOrder(r, n)) = n
         /\ \A i \in 1 .. n : InOrder(r, n)[i] = <<r, i - 1>>
<1>1. n \in Nat /\ \A i \in 1 .. n : <<r, i - 1>> \in Block
  BY PoolAssumption DEF Block
<1>2. InOrder(r, n) \in [1 .. n -> Block]
  BY <1>1 DEF InOrder
<1>3. InOrder(r, n) \in Seq(Block)
  BY <1>1, <1>2, SeqDef
<1>4. Len(InOrder(r, n)) = n
  BY <1>1, <1>2, <1>3, LenProperties
<1> QED BY <1>3, <1>4 DEF InOrder

(* A block in front of a sequence of blocks. *)
LEMMA ConsProperties ==
  ASSUME NEW b \in Block, NEW s \in Seq(Block)
  PROVE  /\ <<b>> \o s \in Seq(Block)
         /\ Len(<<b>> \o s) = Len(s) + 1
         /\ \A i \in 1 .. Len(s) + 1 :
              (<<b>> \o s)[i] = IF i = 1 THEN b ELSE s[i - 1]
<1>1. <<b>> \in Seq(Block) /\ Len(<<b>>) = 1 /\ <<b>>[1] = b
  OBVIOUS
<1>2. Len(s) \in Nat
  BY LenProperties
<1> QED BY <1>1, <1>2, ConcatProperties

(* What allocate leaves of the list. *)
LEMMA RestIsTail ==
  ASSUME NEW s \in Seq(Block), s # <<>>
  PROVE  SubSeq(s, 2, Len(s)) = Tail(s)
<1>1. /\ Len(s) \in Nat \ {0} /\ Tail(s) \in Seq(Block) /\ Len(Tail(s)) = Len(s) - 1
      /\ \A i \in 1 .. Len(s) - 1 : Tail(s)[i] = s[i + 1]
  BY HeadTailProperties, EmptySeq, LenProperties
<1>2. \A i \in 2 .. Len(s) : s[i] \in Block
  BY <1>1, ElementOfSeq
<1>3. /\ SubSeq(s, 2, Len(s)) \in Seq(Block)
      /\ Len(SubSeq(s, 2, Len(s))) = Len(s) - 1
      /\ \A i \in 1 .. Len(s) - 1 : SubSeq(s, 2, Len(s))[i] = s[i + 1]
  BY <1>1, <1>2
<1> QED BY <1>1, <1>3, SeqEqual

LEMMA InitIInv == Init => IInv
<1> SUFFICES ASSUME Init PROVE IInv
  OBVIOUS
<1>1. OwnSlab \in AllRegions /\ BlocksPerSlab \in 1 .. BlocksPerSlab
  BY PoolAssumption DEF AllRegions
<1>2. /\ chain \in Seq(Block)
      /\ Len(chain) = BlocksPerSlab
      /\ \A i \in 1 .. BlocksPerSlab : chain[i] = <<OwnSlab, i - 1>>
  BY <1>1, InOrderProperties DEF Init
<1>3. TypeOK
  BY <1>1, <1>2, PoolAssumption DEF Init, TypeOK, Linked, Word, Link, Block
<1>4. FreeListLinked
  <2>1. head = chain[1] /\ chain # <<>>
    BY <1>2, PoolAssumption DEF Init
  <2>2. ASSUME NEW i \in 1 .. Len(chain)
        PROVE  mem[chain[i]] = IF i = Len(chain) THEN NULL ELSE chain[i + 1]
    <3>1. chain[i] \in Block /\ chain[i] = <<OwnSlab, i - 1>>
      BY <1>2, <1>1 DEF Block
    <3>2. i - 1 + 1 < BlocksPerSlab => chain[i + 1] = <<OwnSlab, i - 1 + 1>>
      BY <1>2, PoolAssumption
    <3>3. mem[<<OwnSlab, i - 1>>]
            = IF i - 1 + 1 < BlocksPerSlab THEN <<OwnSlab, i - 1 + 1>> ELSE NULL
      <4>1. i - 1 < BlocksPerSlab /\ <<OwnSlab, i - 1>> \in Block
        BY <3>1, <1>2, PoolAssumption
      <4>2. \A b \in Block :
              b[1] = OwnSlab /\ b[2] < BlocksPerSlab =>
                mem[b] = IF b[2] + 1 < BlocksPerSlab
                         THEN <<OwnSlab, b[2] + 1>> ELSE NULL
        BY DEF Init, Linked
      <4> DEFINE b == <<OwnSlab, i - 1>>
      <4>3. b \in Block /\ b[1] = OwnSlab /\ b[2] = i - 1
        BY <4>1
      <4>4. mem[b] = IF b[2] + 1 < BlocksPerSlab
                     THEN <<OwnSlab, b[2] + 1>> ELSE NULL
        <5> HIDE DEF b
        <5> QED BY <4>1, <4>2, <4>3
      <4> QED BY <4>3, <4>4
    <3>4. i - 1 + 1 = i /\ (i < BlocksPerSlab <=> i # Len(chain))
      BY <1>2, PoolAssumption
    <3> QED BY <3>1, <3>2, <3>3, <3>4
  <2> QED BY <2>1, <2>2 DEF FreeListLinked
<1>5. FreeOrLive
  <2>1. Managed = {chain[i] : i \in 1 .. Len(chain)}
    <3>1. Managed = {b \in Block : b[1] = OwnSlab}
      <4>1. ASSUME NEW b \in Block
            PROVE  b[2] < slabs[b[1]] <=> b[1] = OwnSlab
        <5>1. b[1] \in AllRegions /\ b[2] \in 0 .. BlocksPerSlab - 1
          BY DEF Block
        <5>2. slabs[b[1]] = IF b[1] = OwnSlab THEN BlocksPerSlab ELSE 0
          BY <5>1 DEF Init
        <5> QED BY <5>1, <5>2, PoolAssumption
      <4> QED BY <4>1, Zenon DEF Managed
    <3>2. ASSUME NEW b \in Block, b[1] = OwnSlab
          PROVE  \E i \in 1 .. Len(chain) : chain[i] = b
      <4>1. b[2] + 1 \in 1 .. BlocksPerSlab /\ b = <<OwnSlab, (b[2] + 1) - 1>>
        BY <3>2, PoolAssumption DEF Block
      <4> QED BY <4>1, <1>2
    <3>3. \A i \in 1 .. Len(chain) : chain[i] \in Block /\ chain[i][1] = OwnSlab
      BY <1>2, <1>1 DEF Block
    <3> QED BY <3>1, <3>2, <3>3
  <2> QED BY <1>2, <2>1, PoolAssumption DEF Init, FreeOrLive
<1> QED BY <1>3, <1>4, <1>5 DEF IInv

(* Popping the head of an intact list leaves an intact list. *)
LEMMA AllocateIInv == IInv /\ Allocate => IInv'
<1> SUFFICES ASSUME IInv, Allocate PROVE IInv'
  OBVIOUS
<1> USE DEF IInv
<1>1. /\ chain # <<>> /\ head = chain[1] /\ head \in Block
      /\ Len(chain) \in Nat \ {0}
      /\ \A i \in 1 .. Len(chain) : chain[i] \in Block
  BY WordAssumption, EmptySeq, ElementOfSeq, LenProperties DEF Allocate, TypeOK, FreeListLinked
<1>2. /\ chain' \in Seq(Block)
      /\ Len(chain') = Len(chain) - 1
      /\ \A i \in 1 .. Len(chain') : chain'[i] = chain[i + 1]
  BY <1>1, HeadTailProperties, RestIsTail DEF Allocate, TypeOK
<1>head. mem[head] = IF 1 = Len(chain) THEN NULL ELSE chain[1 + 1]
  <2>1. 1 \in 1 .. Len(chain)
    BY <1>1
  <2>2. mem[chain[1]] = IF 1 = Len(chain) THEN NULL ELSE chain[1 + 1]
    BY <2>1, Zenon DEF FreeListLinked
  <2> QED BY <2>2, <1>1
<1>3. TypeOK'
  <2>1. head' \in Link
    <3>0. Len(chain) \in Nat \ {0}
      BY <1>1
    <3>1. Len(chain) # 1 => 1 + 1 \in 1 .. Len(chain)
      <4>1. \A n \in Nat \ {0} : n # 1 => 1 + 1 \in 1 .. n
        OBVIOUS
      <4> QED BY <4>1, <3>0
    <3>2. Len(chain) # 1 => chain[1 + 1] \in Block
      BY <3>1, <1>1
    <3> QED BY <3>2, <1>head DEF Allocate, Link
  <2>2. live' \subseteq Block
    BY <1>1 DEF Allocate, TypeOK
  <2> QED BY <2>1, <2>2, <1>2 DEF Allocate, TypeOK
<1>4. FreeListLinked'
  <2>1. head' = IF chain' = <<>> THEN NULL ELSE chain'[1]
    <3>1. chain' = <<>> <=> Len(chain) = 1
      BY <1>1, <1>2, EmptySeq
    <3> QED BY <3>1, <1>head, <1>1, <1>2 DEF Allocate
  <2>2. ASSUME NEW i \in 1 .. Len(chain')
        PROVE  mem'[chain'[i]] = IF i = Len(chain') THEN NULL ELSE chain'[i + 1]
    <3>1. i + 1 \in 1 .. Len(chain) /\ chain'[i] = chain[i + 1]
      BY <1>1, <1>2
    <3>2. mem[chain[i + 1]] = IF i + 1 = Len(chain) THEN NULL ELSE chain[i + 1 + 1]
      BY <3>1 DEF FreeListLinked
    <3>3. i # Len(chain') => chain'[i + 1] = chain[i + 1 + 1]
      BY <1>1, <1>2
    <3>4. i = Len(chain') <=> i + 1 = Len(chain)
      BY <1>1, <1>2
    <3>5. mem' = mem
      BY DEF Allocate
    <3> QED BY <3>1, <3>2, <3>3, <3>4, <3>5
  <2> QED BY <2>1, <2>2 DEF FreeListLinked
<1>5. FreeOrLive'
  <2>1. \A i, j \in 1 .. Len(chain') : chain'[i] = chain'[j] => i = j
    BY <1>1, <1>2 DEF FreeOrLive
  <2>2. ASSUME NEW i \in 1 .. Len(chain')
        PROVE  chain'[i] \notin live'
    <3>1. i + 1 \in 1 .. Len(chain) /\ chain'[i] = chain[i + 1]
      BY <1>1, <1>2
    <3>2. chain[i + 1] \notin live
      BY <3>1 DEF FreeOrLive
    <3>3. chain[i + 1] # chain[1]
      BY <3>1, <1>1 DEF FreeOrLive
    <3> QED BY <3>1, <3>2, <3>3, <1>1 DEF Allocate
  <2>3. {chain[i] : i \in 1 .. Len(chain)}
          = {head} \cup {chain'[i] : i \in 1 .. Len(chain')}
    <3>1. ASSUME NEW i \in 1 .. Len(chain)
          PROVE  chain[i] = head \/ \E j \in 1 .. Len(chain') : chain'[j] = chain[i]
      <4>1. CASE i = 1
        BY <4>1, <1>1
      <4>2. CASE i # 1
        <5>1. i - 1 \in 1 .. Len(chain') /\ chain'[i - 1] = chain[(i - 1) + 1]
          BY <4>2, <1>1, <1>2
        <5> QED BY <5>1
      <4> QED BY <4>1, <4>2
    <3>2. ASSUME NEW i \in 1 .. Len(chain')
          PROVE  \E j \in 1 .. Len(chain) : chain'[i] = chain[j]
      BY <1>1, <1>2
    <3> QED BY <3>1, <3>2, <1>1
  <2>4. Managed' = {chain'[i] : i \in 1 .. Len(chain')} \cup live'
    BY <2>3 DEF FreeOrLive, Managed, Allocate
  <2> QED BY <2>1, <2>2, <2>4 DEF FreeOrLive
<1> QED BY <1>3, <1>4, <1>5

(* Pushing a block that was held: shared by both forms of deallocate. *)
LEMMA PushFreeIInv ==
  ASSUME IInv, NEW b \in live, PushFree(b)
  PROVE  IInv'
<1> USE DEF IInv
<1>1. /\ b \in Block /\ chain \in Seq(Block) /\ Len(chain) \in Nat
      /\ \A i \in 1 .. Len(chain) : chain[i] \in Block
  BY ElementOfSeq, LenProperties DEF TypeOK
<1>2. /\ chain' \in Seq(Block)
      /\ Len(chain') = Len(chain) + 1
      /\ \A i \in 1 .. Len(chain) + 1 :
           chain'[i] = IF i = 1 THEN b ELSE chain[i - 1]
  BY <1>1, ConsProperties DEF PushFree
<1>3. TypeOK'
  BY <1>1, <1>2 DEF TypeOK, PushFree, LinkFreed, Link, Word
<1>4. \A i \in 1 .. Len(chain) : chain[i] # b
  BY DEF FreeOrLive
<1>5. FreeListLinked'
  <2>1. head' = IF chain' = <<>> THEN NULL ELSE chain'[1]
    BY <1>1, <1>2, EmptySeq DEF PushFree
  <2>2. ASSUME NEW i \in 1 .. Len(chain')
        PROVE  mem'[chain'[i]] = IF i = Len(chain') THEN NULL ELSE chain'[i + 1]
    <3>1. CASE i = 1
      <4>1. mem'[chain'[i]] = head
        BY <3>1, <1>1, <1>2 DEF PushFree, LinkFreed, TypeOK
      <4>2. head = IF Len(chain) = 0 THEN NULL ELSE chain[1]
        BY <1>1, EmptySeq DEF FreeListLinked
      <4>3. Len(chain) # 0 => chain'[1 + 1] = chain[1]
        BY <1>1, <1>2
      <4> QED BY <3>1, <4>1, <4>2, <4>3, <1>1, <1>2
    <3>2. CASE i # 1
      <4>1. i - 1 \in 1 .. Len(chain) /\ chain'[i] = chain[i - 1]
        BY <3>2, <1>1, <1>2
      <4>2. mem'[chain[i - 1]] = mem[chain[i - 1]]
        BY <4>1, <1>1, <1>4 DEF PushFree, LinkFreed, TypeOK
      <4>3. mem[chain[i - 1]]
              = IF i - 1 = Len(chain) THEN NULL ELSE chain[(i - 1) + 1]
        BY <4>1 DEF FreeListLinked
      <4>4. i # Len(chain') => chain'[i + 1] = chain[(i - 1) + 1]
        BY <4>1, <1>1, <1>2
      <4> QED BY <4>1, <4>2, <4>3, <4>4, <1>1, <1>2
    <3> QED BY <3>1, <3>2
  <2> QED BY <2>1, <2>2 DEF FreeListLinked
<1>6. FreeOrLive'
  <2>1. ASSUME NEW i \in 1 .. Len(chain'), NEW j \in 1 .. Len(chain'),
               chain'[i] = chain'[j]
        PROVE  i = j
    <3>1. CASE i = 1 \/ j = 1
      BY <2>1, <3>1, <1>1, <1>2, <1>4
    <3>2. CASE i # 1 /\ j # 1
      <4>1. i - 1 \in 1 .. Len(chain) /\ j - 1 \in 1 .. Len(chain)
        BY <3>2, <1>1, <1>2
      <4>2. chain[i - 1] = chain[j - 1]
        BY <2>1, <3>2, <1>1, <1>2
      <4>3. i - 1 = j - 1
        BY <4>1, <4>2 DEF FreeOrLive
      <4> QED BY <4>3
    <3> QED BY <3>1, <3>2
  <2>2. \A i \in 1 .. Len(chain') : chain'[i] \notin live'
    BY <1>1, <1>2, <1>4 DEF FreeOrLive, PushFree
  <2>3. {chain'[i] : i \in 1 .. Len(chain')}
          = {b} \cup {chain[i] : i \in 1 .. Len(chain)}
    <3>1. ASSUME NEW i \in 1 .. Len(chain)
          PROVE  \E j \in 1 .. Len(chain') : chain'[j] = chain[i]
      <4>1. i + 1 \in 1 .. Len(chain) + 1 /\ chain'[i + 1] = chain[(i + 1) - 1]
        BY <1>1, <1>2
      <4> QED BY <4>1, <1>2
    <3>2. ASSUME NEW j \in 1 .. Len(chain')
          PROVE  chain'[j] = b \/ \E i \in 1 .. Len(chain) : chain'[j] = chain[i]
      BY <1>1, <1>2
    <3>3. 1 \in 1 .. Len(chain') /\ chain'[1] = b
      BY <1>1, <1>2
    <3>4. {chain'[i] : i \in 1 .. Len(chain')} \subseteq {b} \cup {chain[i] : i \in 1 .. Len(chain)}
      BY <3>2
    <3>5. {b} \cup {chain[i] : i \in 1 .. Len(chain)} \subseteq {chain'[i] : i \in 1 .. Len(chain')}
      BY <3>1, <3>3
    <3> QED BY <3>4, <3>5, Zenon
  <2>4. Managed' = {chain'[i] : i \in 1 .. Len(chain')} \cup live'
    BY <2>3 DEF FreeOrLive, Managed, PushFree
  <2> QED BY <2>1, <2>2, <2>4 DEF FreeOrLive
<1> QED BY <1>3, <1>5, <1>6

(* A slab in front of a sequence of blocks. *)
LEMMA SlabConcatProperties ==
  ASSUME NEW r \in AllRegions, NEW n \in 1 .. BlocksPerSlab, NEW s \in Seq(Block)
  PROVE  /\ InOrder(r, n) \o s \in Seq(Block)
         /\ Len(InOrder(r, n) \o s) = n + Len(s)
         /\ \A i \in 1 .. n + Len(s) :
              (InOrder(r, n) \o s)[i] = IF i <= n THEN <<r, i - 1>> ELSE s[i - n]
<1> DEFINE t == InOrder(r, n)
<1>1. t \in Seq(Block) /\ Len(t) = n /\ \A i \in 1 .. n : t[i] = <<r, i - 1>>
  BY InOrderProperties
<1>2. Len(s) \in Nat /\ n \in Nat
  BY LenProperties, PoolAssumption
<1> HIDE DEF t
<1>3. /\ t \o s \in Seq(Block)
      /\ Len(t \o s) = n + Len(s)
      /\ \A i \in 1 .. n + Len(s) : (t \o s)[i] = IF i <= n THEN t[i] ELSE s[i - n]
  BY <1>1, <1>2, ConcatProperties
<1>4. \A i \in 1 .. n + Len(s) : i <= n => t[i] = <<r, i - 1>>
  BY <1>1, <1>2
<1> QED BY <1>3, <1>4 DEF t

(* Linking a slab the pool has never seen. *)
LEMMA AddExternalSlabIInv ==
  ASSUME IInv, NEW r \in Regions, NEW n \in 1 .. BlocksPerSlab,
         AddExternalSlab(r, n)
  PROVE  IInv'
<1> USE DEF IInv
<1>1. /\ r \in AllRegions /\ r # OwnSlab /\ n \in Nat \ {0}
      /\ chain \in Seq(Block) /\ Len(chain) \in Nat
      /\ \A i \in 1 .. Len(chain) : chain[i] \in Block
  BY PoolAssumption, ElementOfSeq, LenProperties DEF TypeOK, AllRegions
<1>2. /\ chain' \in Seq(Block)
      /\ Len(chain') = n + Len(chain)
      /\ \A i \in 1 .. n + Len(chain) :
           chain'[i] = IF i <= n THEN <<r, i - 1>> ELSE chain[i - n]
  BY <1>1, SlabConcatProperties DEF AddExternalSlab
<1>3. \A i \in 1 .. n : <<r, i - 1>> \in Block
  BY <1>1, PoolAssumption DEF Block
<1>4. \A b \in Block : mem'[b] = IF b[1] = r /\ b[2] < n
                                 THEN IF b[2] + 1 < n THEN <<r, b[2] + 1>> ELSE head
                                 ELSE mem[b]
  BY DEF AddExternalSlab, Linked
<1>5. \A b \in Block : b[1] = r => b \notin Managed
  <2>1. \A b \in Block : b[2] \in Nat
    BY PoolAssumption DEF Block
  <2> QED BY <2>1 DEF AddExternalSlab, Managed
<1>6. /\ \A i \in 1 .. Len(chain) : chain[i] \in Managed
      /\ live \subseteq Managed
  BY DEF FreeOrLive
<1>7. \A i \in 1 .. Len(chain) : chain[i][1] # r
  BY <1>1, <1>5, <1>6
<1>8. TypeOK'
  <2>1. head' \in Link
    <3>1. 1 \in 1 .. n /\ 1 - 1 = 0
      BY <1>1
    <3> QED BY <1>3, <3>1 DEF AddExternalSlab, Link
  <2>2. mem' \in [Block -> Word]
    <3>1. ASSUME NEW b \in Block
          PROVE  mem'[b] \in Word
      <4>1. CASE b[1] = r /\ b[2] < n /\ b[2] + 1 < n
        <5>1. <<r, b[2] + 1>> \in Block
          BY <4>1, <1>1, PoolAssumption DEF Block
        <5> QED BY <5>1, <4>1, <1>4 DEF Word, Link
      <4>2. CASE ~(b[1] = r /\ b[2] < n /\ b[2] + 1 < n)
        BY <4>2, <1>4 DEF Word, TypeOK
      <4> QED BY <4>1, <4>2
    <3> QED BY <3>1 DEF AddExternalSlab, Linked
  <2>3. slabs' \in [AllRegions -> 0 .. BlocksPerSlab] /\ slabs'[OwnSlab] = BlocksPerSlab
    BY <1>1, PoolAssumption DEF AddExternalSlab, TypeOK
  <2> QED BY <2>1, <2>2, <2>3, <1>2 DEF TypeOK, AddExternalSlab
<1>9. FreeListLinked'
  <2>1. head' = chain'[1] /\ chain' # <<>>
    <3>1. 1 \in 1 .. n + Len(chain) /\ 1 <= n /\ 1 - 1 = 0 /\ n + Len(chain) # 0
      BY <1>1
    <3> QED BY <3>1, <1>2, EmptySeq DEF AddExternalSlab
  <2>2. ASSUME NEW i \in 1 .. Len(chain')
        PROVE  mem'[chain'[i]] = IF i = Len(chain') THEN NULL ELSE chain'[i + 1]
    <3>1. CASE i < n
      <4>1. i + 1 \in 1 .. n + Len(chain) /\ i + 1 <= n /\ i <= n /\ i # Len(chain')
            /\ i \in 1 .. n + Len(chain)
        BY <3>1, <1>1, <1>2
      <4>2. chain'[i] = <<r, i - 1>> /\ chain'[i + 1] = <<r, i>>
        BY <4>1, <1>2
      <4>3. mem'[<<r, i - 1>>] = <<r, i>>
        <5> DEFINE b == <<r, i - 1>>
        <5>1. b \in Block /\ b[1] = r /\ b[2] < n /\ b[2] + 1 < n /\ b[2] + 1 = i
          BY <3>1, <4>1, <1>1, <1>3
        <5> HIDE DEF b
        <5>2. mem'[b] = <<r, b[2] + 1>>
          BY <5>1, <1>4
        <5> QED BY <5>1, <5>2 DEF b
      <4> QED BY <4>1, <4>2, <4>3
    <3>2. CASE i = n
      <4>1. chain'[i] = <<r, n - 1>> /\ n \in 1 .. n + Len(chain)
        BY <3>2, <1>1, <1>2
      <4>2. mem'[<<r, n - 1>>] = head
        <5> DEFINE b == <<r, n - 1>>
        <5>1. b \in Block /\ b[1] = r /\ b[2] < n /\ ~(b[2] + 1 < n)
          BY <1>1, <1>3
        <5> HIDE DEF b
        <5>2. mem'[b] = head
          BY <5>1, <1>4
        <5> QED BY <5>2 DEF b
      <4>3. CASE Len(chain) = 0
        <5>1. head = NULL
          BY <4>3, <1>1, EmptySeq DEF FreeListLinked
        <5> QED BY <5>1, <4>1, <4>2, <4>3, <3>2, <1>1, <1>2
      <4>4. CASE Len(chain) # 0
        <5>1. head = chain[1]
          BY <4>4, <1>1, EmptySeq DEF FreeListLinked
        <5>2. n + 1 \in 1 .. n + Len(chain) /\ ~(n + 1 <= n) /\ n + 1 - n = 1
              /\ n # n + Len(chain)
          BY <4>4, <1>1
        <5>3. chain'[n + 1] = chain[1]
          BY <5>2, <1>2
        <5> QED BY <5>1, <5>2, <5>3, <4>1, <4>2, <3>2, <1>2
      <4> QED BY <4>3, <4>4
    <3>3. CASE i > n
      <4> DEFINE j == i - n
      <4>1. j \in 1 .. Len(chain) /\ ~(i <= n) /\ i \in 1 .. n + Len(chain)
            /\ (i = Len(chain') <=> j = Len(chain))
        BY <3>3, <1>1, <1>2
      <4>2. chain'[i] = chain[j]
        BY <4>1, <1>2
      <4>3. mem[chain[j]] = IF j = Len(chain) THEN NULL ELSE chain[j + 1]
        BY <4>1 DEF FreeListLinked
      <4>4. mem'[chain[j]] = mem[chain[j]]
        <5>1. chain[j] \in Block /\ chain[j][1] # r
          BY <4>1, <1>1, <1>7
        <5> HIDE DEF j
        <5> QED BY <5>1, <1>4
      <4>5. i # Len(chain') => chain'[i + 1] = chain[j + 1]
        <5>1. i # n + Len(chain) => i + 1 \in 1 .. n + Len(chain)
          BY <4>1, <1>1
        <5>2. ~(i + 1 <= n) /\ i + 1 - n = j + 1
          BY <3>3, <4>1, <1>1
        <5> QED BY <5>1, <5>2, <1>2
      <4> HIDE DEF j
      <4> QED BY <4>1, <4>2, <4>3, <4>4, <4>5
    <3>4. i < n \/ i = n \/ i > n
      BY <1>1, <1>2
    <3> QED BY <3>1, <3>2, <3>3, <3>4
  <2> QED BY <2>1, <2>2 DEF FreeListLinked
<1>10. FreeOrLive'
  <2>1. ASSUME NEW i \in 1 .. Len(chain'), NEW j \in 1 .. Len(chain'),
               chain'[i] = chain'[j]
        PROVE  i = j
    <3>1. i \in 1 .. n + Len(chain) /\ j \in 1 .. n + Len(chain)
      BY <1>2
    <3>2. CASE i <= n /\ j <= n
      <4>1. <<r, i - 1>> = <<r, j - 1>>
        BY <3>1, <3>2, <2>1, <1>2
      <4>2. i - 1 = j - 1
        BY <4>1
      <4> QED BY <4>2, <3>1, <1>1
    <3>3. CASE ~(i <= n) /\ ~(j <= n)
      <4>1. i - n \in 1 .. Len(chain) /\ j - n \in 1 .. Len(chain)
        BY <3>1, <3>3, <1>1
      <4>2. chain[i - n] = chain[j - n]
        BY <3>1, <3>3, <2>1, <1>2
      <4>3. i - n = j - n
        BY <4>1, <4>2 DEF FreeOrLive
      <4> QED BY <4>3, <3>1, <1>1
    <3>4. CASE i <= n /\ ~(j <= n)
      <4>1. j - n \in 1 .. Len(chain) /\ chain'[j] = chain[j - n]
        BY <3>1, <3>4, <1>1, <1>2
      <4>2. chain'[i] = <<r, i - 1>>
        BY <3>1, <3>4, <1>2
      <4>3. chain[j - n] = <<r, i - 1>>
        BY <4>1, <4>2, <2>1
      <4> QED BY <4>1, <4>3, <1>7
    <3>5. CASE ~(i <= n) /\ j <= n
      <4>1. i - n \in 1 .. Len(chain) /\ chain'[i] = chain[i - n]
        BY <3>1, <3>5, <1>1, <1>2
      <4>2. chain'[j] = <<r, j - 1>>
        BY <3>1, <3>5, <1>2
      <4>3. chain[i - n] = <<r, j - 1>>
        BY <4>1, <4>2, <2>1
      <4> QED BY <4>1, <4>3, <1>7
    <3> QED BY <3>2, <3>3, <3>4, <3>5
  <2>2. ASSUME NEW i \in 1 .. Len(chain')
        PROVE  chain'[i] \notin live'
    <3>1. i \in 1 .. n + Len(chain) /\ live' = live
      BY <1>2 DEF AddExternalSlab
    <3>2. CASE i <= n
      <4>1. i \in 1 .. n
        BY <3>1, <3>2, <1>1
      <4>2. <<r, i - 1>> \in Block /\ chain'[i] = <<r, i - 1>>
        BY <3>1, <3>2, <4>1, <1>2, <1>3
      <4> QED BY <4>2, <3>1, <1>5, <1>6
    <3>3. CASE ~(i <= n)
      <4>1. i - n \in 1 .. Len(chain) /\ chain'[i] = chain[i - n]
        BY <3>1, <3>3, <1>1, <1>2
      <4> QED BY <4>1, <3>1 DEF FreeOrLive
    <3> QED BY <3>2, <3>3
  <2>3. {chain'[i] : i \in 1 .. Len(chain')}
          = {<<r, i - 1>> : i \in 1 .. n} \cup {chain[i] : i \in 1 .. Len(chain)}
    <3>1. ASSUME NEW i \in 1 .. Len(chain')
          PROVE  \/ \E k \in 1 .. n : chain'[i] = <<r, k - 1>>
                 \/ \E k \in 1 .. Len(chain) : chain'[i] = chain[k]
      <4>1. i \in 1 .. n + Len(chain)
        BY <1>2
      <4>2. CASE i <= n
        <5>1. i \in 1 .. n
          BY <4>1, <4>2, <1>1
        <5>2. chain'[i] = <<r, i - 1>>
          BY <4>1, <4>2, <1>2
        <5> QED BY <5>1, <5>2
      <4>3. CASE ~(i <= n)
        <5>1. i - n \in 1 .. Len(chain) /\ chain'[i] = chain[i - n]
          BY <4>1, <4>3, <1>1, <1>2
        <5> QED BY <5>1
      <4> QED BY <4>2, <4>3
    <3>2. ASSUME NEW k \in 1 .. n
          PROVE  \E i \in 1 .. Len(chain') : chain'[i] = <<r, k - 1>>
      <4>1. k \in 1 .. n + Len(chain) /\ k <= n
        BY <1>1
      <4> QED BY <4>1, <1>2
    <3>3. ASSUME NEW k \in 1 .. Len(chain)
          PROVE  \E i \in 1 .. Len(chain') : chain'[i] = chain[k]
      <4>1. k + n \in 1 .. n + Len(chain) /\ ~(k + n <= n) /\ (k + n) - n = k
        BY <1>1
      <4> QED BY <4>1, <1>2
    <3> DEFINE A == {chain'[i] : i \in 1 .. Len(chain')}
               B == {<<r, i - 1>> : i \in 1 .. n}
               C == {chain[i] : i \in 1 .. Len(chain)}
    <3>4. \A x \in A : x \in B \/ x \in C
      BY <3>1
    <3>5. \A x \in B : x \in A
      BY <3>2
    <3>6. \A x \in C : x \in A
      BY <3>3
    <3> QED BY <3>4, <3>5, <3>6
  <2>4. Managed' = {<<r, i - 1>> : i \in 1 .. n} \cup Managed
    <3>1. ASSUME NEW b \in Block
          PROVE  b[2] < slabs'[b[1]] <=> (b[1] = r /\ b[2] < n) \/ b[2] < slabs[b[1]]
      <4>1. b[1] \in AllRegions /\ b[2] \in Nat
        BY PoolAssumption DEF Block
      <4>2. slabs'[b[1]] = IF b[1] = r THEN n ELSE slabs[b[1]]
        BY <4>1, <1>1 DEF AddExternalSlab, TypeOK
      <4>3. slabs[r] = 0
        BY DEF AddExternalSlab
      <4> QED BY <4>1, <4>2, <4>3, <1>1
    <3>2. ASSUME NEW b \in Block, b[1] = r, b[2] < n
          PROVE  \E i \in 1 .. n : b = <<r, i - 1>>
      <4>1. b[2] + 1 \in 1 .. n /\ b = <<r, (b[2] + 1) - 1>>
        BY <3>2, <1>1, PoolAssumption DEF Block
      <4> QED BY <4>1
    <3>3. ASSUME NEW i \in 1 .. n
          PROVE  <<r, i - 1>>[1] = r /\ <<r, i - 1>>[2] < n
      BY <1>1
    <3>4. Managed' = {b \in Block : b[2] < slabs'[b[1]]}
      BY DEF Managed
    <3> QED BY <3>1, <3>2, <3>3, <3>4, <1>3 DEF Managed
  <2>5. live' = live
    BY DEF AddExternalSlab
  <2>6. Managed' = {chain'[i] : i \in 1 .. Len(chain')} \cup live'
    BY <2>3, <2>4, <2>5 DEF FreeOrLive
  <2> QED BY <2>1, <2>2, <2>6 DEF FreeOrLive
<1> QED BY <1>8, <1>9, <1>10

(* The holder's stores land in blocks that are not on the list. *)
LEMMA ClientWriteIInv ==
  ASSUME IInv, NEW b \in Block, NEW w \in Word, ClientWrite(b, w)
  PROVE  IInv'
<1> USE DEF IInv
<1>1. TypeOK'
  BY DEF TypeOK, ClientWrite
<1>2. ASSUME NEW i \in 1 .. Len(chain)
      PROVE  mem'[chain[i]] = mem[chain[i]]
  <2>1. chain[i] # b
    BY DEF FreeOrLive, ClientWrite
  <2>2. chain[i] \in Block
    BY ElementOfSeq DEF TypeOK
  <2> QED BY <2>1, <2>2 DEF ClientWrite, TypeOK
<1>3. FreeListLinked'
  BY <1>2 DEF FreeListLinked, ClientWrite
<1>4. FreeOrLive'
  BY DEF FreeOrLive, ClientWrite, Managed
<1> QED BY <1>1, <1>3, <1>4

LEMMA StepIInv == IInv /\ [Next]_vars => IInv'
<1> SUFFICES ASSUME IInv, [Next]_vars PROVE IInv'
  OBVIOUS
<1>1. CASE Allocate
  BY <1>1, AllocateIInv
<1>2. ASSUME NEW b \in Block, Deallocate(b) PROVE IInv'
  BY <1>2, PushFreeIInv DEF Deallocate
<1>3. ASSUME NEW b \in Block, NEW off \in Offsets,
             DeallocateContaining(<<b[1], b[2], off>>)
      PROVE  IInv'
  BY <1>3, PushFreeIInv DEF DeallocateContaining
<1>4. ASSUME NEW r \in Regions, NEW n \in 1 .. BlocksPerSlab, AddExternalSlab(r, n)
      PROVE  IInv'
  BY <1>4, AddExternalSlabIInv
<1>5. ASSUME NEW b \in Block, NEW w \in Word, ClientWrite(b, w) PROVE IInv'
  BY <1>5, ClientWriteIInv
<1>6. CASE UNCHANGED vars
  BY <1>6 DEF vars, IInv, TypeOK, FreeListLinked, FreeOrLive, Managed
<1> QED BY <1>1, <1>2, <1>3, <1>4, <1>5, <1>6 DEF Next
------------------------------------------------------------------------------
THEOREM IInvAlways == Spec => []IInv
<1> QED BY InitIInv, StepIInv, PTL DEF Spec

(* Every variable of the pool keeps its type: head_ and the words of free    *)
(* blocks stay pointers to blocks or nullptr.                               *)
THEOREM TypeCorrect == Spec => []TypeOK
<1>1. IInv => TypeOK
  BY DEF IInv
<1> QED BY <1>1, IInvAlways, PTL

(* However allocate, deallocate, deallocate_containing, add_external_slab   *)
(* and the callers' stores interleave, the links in the blocks spell the     *)
(* free list and end in nullptr.                                            *)
THEOREM FreeListAlwaysLinked == Spec => []FreeListLinked
<1>1. IInv => FreeListLinked
  BY DEF IInv
<1> QED BY <1>1, IInvAlways, PTL

(* No block is ever handed out twice at once, on the list twice, or lost.   *)
THEOREM FreeXorLive == Spec => []FreeOrLive
<1>1. IInv => FreeOrLive
  BY DEF IInv
<1> QED BY <1>1, IInvAlways, PTL

(* BlockPool implements FreeStack: each operation pops, pushes or grows the *)
(* stack of free blocks, and the holders' stores are invisible to it.       *)
THEOREM Refinement == Spec => RefinesFreeStack
<1>1. Init => Abs!Init
  <2> SUFFICES ASSUME Init PROVE Abs!Init
    OBVIOUS
  <2>1. OwnSlab \in AllRegions /\ BlocksPerSlab \in 1 .. BlocksPerSlab
    BY PoolAssumption DEF AllRegions
  <2>2. chain \in LinkableSlabs
    BY <2>1 DEF Init, LinkableSlabs
  <2> QED BY <2>2 DEF Init, Abs!Init
<1>2. IInv /\ [Next]_vars => [Abs!Next]_<<chain, live>>
  <2> SUFFICES ASSUME IInv, [Next]_vars PROVE [Abs!Next]_<<chain, live>>
    OBVIOUS
  <2>1. CASE Allocate
    <3>1. chain # <<>> /\ head = Head(chain)
      BY <2>1, WordAssumption, EmptySeq DEF Allocate, IInv, TypeOK, FreeListLinked
    <3>2. chain' = Tail(chain)
      BY <2>1, <3>1, RestIsTail DEF Allocate, IInv, TypeOK
    <3> QED BY <2>1, <3>1, <3>2 DEF Allocate, Abs!Next, Abs!Pop
  <2>2. ASSUME NEW b \in Block, b \in live, PushFree(b)
        PROVE  Abs!Next
    BY <2>2 DEF PushFree, Abs!Next, Abs!Push
  <2>3. ASSUME NEW b \in Block, Deallocate(b)
        PROVE  Abs!Next
    BY <2>2, <2>3 DEF Deallocate
  <2>4. ASSUME NEW b \in Block, NEW off \in Offsets,
               DeallocateContaining(<<b[1], b[2], off>>)
        PROVE  Abs!Next
    <3>1. ContainingBlock(<<b[1], b[2], off>>) \in Block
      BY DEF ContainingBlock, Block
    <3> QED BY <2>2, <2>4, <3>1 DEF DeallocateContaining
  <2>5. ASSUME NEW r \in Regions, NEW n \in 1 .. BlocksPerSlab, AddExternalSlab(r, n)
        PROVE  Abs!Next
    <3>1. r \in AllRegions /\ n \in Nat
      BY PoolAssumption DEF AllRegions
    <3>2. InOrder(r, n) \in LinkableSlabs
      BY <3>1 DEF LinkableSlabs
    <3>3. Abs!Elems(chain) \cup live = Managed
      <4>1. chain \in Seq(Block)
        BY DEF IInv, TypeOK
      <4>2. DOMAIN chain = 1 .. Len(chain)
        BY <4>1, LenProperties
      <4> QED BY <4>2 DEF IInv, FreeOrLive, Abs!Elems
    <3>4. ASSUME NEW b \in Abs!Elems(InOrder(r, n))
          PROVE  b \notin Managed
      <4>1. PICK i \in 1 .. n : b = <<r, i - 1>>
        BY DEF Abs!Elems, InOrder
      <4>2. slabs[r] = 0 /\ b[1] = r /\ b[2] = i - 1 /\ i - 1 \in Nat
        BY <2>5, <4>1, <3>1 DEF AddExternalSlab
      <4> QED BY <4>2 DEF Managed
    <3>5. Abs!Elems(InOrder(r, n)) \cap Abs!Known = {}
      BY <3>3, <3>4 DEF Abs!Known
    <3> QED BY <2>5, <3>2, <3>5 DEF AddExternalSlab, Abs!Next, Abs!Grow
  <2>6. ASSUME NEW b \in Block, NEW w \in Word, ClientWrite(b, w)
        PROVE  UNCHANGED <<chain, live>>
    BY <2>6 DEF ClientWrite
  <2>7. CASE UNCHANGED vars
    BY <2>7 DEF vars
  <2> QED BY <2>1, <2>3, <2>4, <2>5, <2>6, <2>7 DEF Next
<1>3. Abs!Init /\ [][Abs!Next]_<<chain, live>> => RefinesFreeStack
  BY PTL DEF RefinesFreeStack, Abs!Spec, Abs!fsVars
<1> QED BY <1>1, <1>2, <1>3, IInvAlways, PTL DEF Spec

------------------------------------------------------------------------------
(***************************************************************************)
(* Theorems about a walk over the free list of a pool whose owner goes on,  *)
(* for every pool, every number of chunks and every length of the walk.     *)
(*                                                                          *)
(* How far off the count can be is shown with two levels.  A level gives    *)
(* every free block its distance to the end of the list, and every block    *)
(* handed out a number from which the walk, once it has strayed there, can  *)
(* be judged: an upper level drops by at least one with every link, so that *)
(* it bounds what is still to be counted; a lower level drops by at most    *)
(* one, so that at least that much is.  No step of the owner leaves them as  *)
(* they are, and each lemma names the levels after the step.                *)
(***************************************************************************)

Links == Managed \cup {NULL}

(* Every word in the pool, and the pointer of the walk, stay in the pool.    *)
Closed == /\ \A b \in Managed : mem[b] \in Links
          /\ walk.on => walk.at \in Links

Dist(f, w) == IF w \in Block THEN f[w] ELSE 0

Level(f) == /\ f \in [Block -> Nat]
            /\ \A i \in 1 .. Len(chain) : f[chain[i]] = Len(chain) - i + 1

Upper(f) == /\ Level(f)
            /\ \A b \in live : f[b] > Len(chain) /\ Dist(f, mem[b]) < f[b]
            /\ walk.on => walk.n + Dist(f, walk.at) <= Len(chain) + walk.popped

Lower(f) == /\ Level(f)
            /\ \A b \in live : f[b] <= Dist(f, mem[b]) + 1
            /\ walk.on => Len(chain) <= walk.n + Dist(f, walk.at) + walk.pushed

WInv == /\ WalkTypeOK
        /\ IsFiniteSet(live)
        /\ ~writes => Closed /\ (\E f : Upper(f)) /\ (\E f : Lower(f))
------------------------------------------------------------------------------
(* What the pool's own invariant says of the blocks a walk can meet.         *)
LEMMA PoolFacts ==
  ASSUME IInv
  PROVE  /\ chain \in Seq(Block) /\ Len(chain) \in Nat
         /\ \A i \in 1 .. Len(chain) : chain[i] \in Managed /\ chain[i] \notin live
         /\ Managed \subseteq Block /\ live \subseteq Managed /\ NULL \notin Block
         /\ \A b \in Managed \ live : \E i \in 1 .. Len(chain) : b = chain[i]
         /\ head \in Links
<1>1. chain \in Seq(Block) /\ Len(chain) \in Nat
  BY LenProperties DEF IInv, TypeOK
<1>2. /\ \A i \in 1 .. Len(chain) : chain[i] \in Managed /\ chain[i] \notin live
      /\ live \subseteq Managed
      /\ \A b \in Managed \ live : \E i \in 1 .. Len(chain) : b = chain[i]
  BY DEF IInv, FreeOrLive
<1>3. Managed \subseteq Block /\ NULL \notin Block
  BY WordAssumption DEF Managed
<1>4. head \in Links
  <2>1. CASE chain = <<>>
    BY <2>1 DEF IInv, FreeListLinked, Links
  <2>2. CASE chain # <<>>
    <3>1. 1 \in 1 .. Len(chain) /\ head = chain[1]
      BY <2>2, <1>1, EmptySeq DEF IInv, FreeListLinked
    <3> QED BY <3>1, <1>2 DEF Links
  <2> QED BY <2>1, <2>2
<1> QED BY <1>1, <1>2, <1>3, <1>4

(* A level along the free list: head_ is as far from its end as the list is  *)
(* long, and every link is one nearer.                                      *)
LEMMA LevelOfList ==
  ASSUME IInv, NEW f, Level(f)
  PROVE  /\ Dist(f, head) = Len(chain)
         /\ \A i \in 1 .. Len(chain) :
              Dist(f, chain[i]) = Len(chain) - i + 1 /\ Dist(f, mem[chain[i]]) = Len(chain) - i
<1>1. ASSUME NEW i \in 1 .. Len(chain) PROVE Dist(f, chain[i]) = Len(chain) - i + 1
  BY PoolFacts DEF Dist, Level
<1>2. Dist(f, head) = Len(chain)
  <2>1. CASE chain = <<>>
    <3>1. head = NULL /\ Len(chain) = 0
      BY <2>1, PoolFacts, EmptySeq DEF IInv, FreeListLinked
    <3> QED BY <3>1, PoolFacts DEF Dist
  <2>2. CASE chain # <<>>
    <3>1. 1 \in 1 .. Len(chain) /\ head = chain[1]
      BY <2>2, PoolFacts, EmptySeq DEF IInv, FreeListLinked
    <3> QED BY <3>1, <1>1, PoolFacts
  <2> QED BY <2>1, <2>2
<1>3. ASSUME NEW i \in 1 .. Len(chain) PROVE Dist(f, mem[chain[i]]) = Len(chain) - i
  <2>1. mem[chain[i]] = IF i = Len(chain) THEN NULL ELSE chain[i + 1]
    BY DEF IInv, FreeListLinked
  <2>2. CASE i = Len(chain)
    BY <2>1, <2>2, PoolFacts DEF Dist
  <2>3. CASE i # Len(chain)
    <3>1. i + 1 \in 1 .. Len(chain)
      BY <2>3, PoolFacts
    <3> QED BY <2>1, <2>3, <3>1, <1>1, PoolFacts
  <2> QED BY <2>2, <2>3
<1> QED BY <1>1, <1>2, <1>3

(* What the owner's moves leave of the walk.                                 *)
LEMMA PoppedFacts ==
  ASSUME WalkTypeOK, ~writes, NEW k \in Nat, Moved("popped", k)
  PROVE  /\ walk' \in [on : BOOLEAN, at : Word, n : Nat, popped : Nat, pushed : Nat]
         /\ walk'.on = walk.on /\ walk'.at = walk.at /\ walk'.n = walk.n
         /\ walk'.pushed = walk.pushed
         /\ walk.on => walk'.popped = walk.popped + k
BY DEF WalkTypeOK, Moved

LEMMA PushedFacts ==
  ASSUME WalkTypeOK, ~writes, NEW k \in Nat, Moved("pushed", k)
  PROVE  /\ walk' \in [on : BOOLEAN, at : Word, n : Nat, popped : Nat, pushed : Nat]
         /\ walk'.on = walk.on /\ walk'.at = walk.at /\ walk'.n = walk.n
         /\ walk'.popped = walk.popped
         /\ walk.on => walk'.pushed = walk.pushed + k
BY DEF WalkTypeOK, Moved
------------------------------------------------------------------------------
(* The list after a pop, a push and the link of a slab.                      *)
LEMMA PoppedChain ==
  ASSUME IInv, Allocate
  PROVE  /\ 1 \in 1 .. Len(chain) /\ head = chain[1] /\ Len(chain') = Len(chain) - 1
         /\ \A i \in 1 .. Len(chain') : i + 1 \in 1 .. Len(chain) /\ chain'[i] = chain[i + 1]
<1>1. chain # <<>> /\ head = chain[1]
  BY WordAssumption, EmptySeq DEF IInv, Allocate, TypeOK, FreeListLinked
<1>2. Len(chain) \in Nat \ {0}
  BY <1>1, PoolFacts, EmptySeq
<1>3. Len(chain') = Len(chain) - 1 /\ \A i \in 1 .. Len(chain') : chain'[i] = chain[i + 1]
  <2>1. chain' = Tail(chain)
    BY <1>1, PoolFacts, RestIsTail DEF Allocate
  <2> QED BY <1>1, <1>2, <2>1, PoolFacts, HeadTailProperties
<1> QED BY <1>1, <1>2, <1>3

LEMMA PushedChain ==
  ASSUME IInv, NEW b \in live, PushFree(b)
  PROVE  /\ b \in Block /\ Len(chain') = Len(chain) + 1
         /\ \A i \in 1 .. Len(chain') :
              IF i = 1 THEN chain'[i] = b
              ELSE i - 1 \in 1 .. Len(chain) /\ chain'[i] = chain[i - 1]
         /\ \A c \in Block : mem'[c] = IF c = b THEN head ELSE mem[c]
<1>1. b \in Block
  BY PoolFacts
<1>2. \A c \in Block : mem'[c] = IF c = b THEN head ELSE mem[c]
  BY DEF PushFree, LinkFreed, IInv, TypeOK
<1>3. /\ Len(chain') = Len(chain) + 1
      /\ \A i \in 1 .. Len(chain) + 1 : chain'[i] = IF i = 1 THEN b ELSE chain[i - 1]
  BY <1>1, PoolFacts, ConsProperties DEF PushFree
<1> QED BY <1>1, <1>2, <1>3, PoolFacts

LEMMA GrownChain ==
  ASSUME IInv, NEW r \in Regions, NEW n \in 1 .. BlocksPerSlab, AddExternalSlab(r, n)
  PROVE  /\ n \in Nat \ {0} /\ Len(chain') = Len(chain) + n
         /\ \A i \in 1 .. Len(chain') :
              IF i <= n THEN chain'[i] = <<r, i - 1>> /\ <<r, i - 1>> \in Block
              ELSE i - n \in 1 .. Len(chain) /\ chain'[i] = chain[i - n]
         /\ \A b \in Links : b \in Block => b[1] # r /\ b[2] \in Nat
         /\ \A b \in Managed : mem'[b] = mem[b]
<1>1. n \in Nat \ {0} /\ r \in AllRegions
  BY PoolAssumption DEF AllRegions
<1>2. /\ Len(chain') = n + Len(chain)
      /\ \A i \in 1 .. n + Len(chain) :
           chain'[i] = IF i <= n THEN <<r, i - 1>> ELSE chain[i - n]
  BY <1>1, PoolFacts, SlabConcatProperties DEF AddExternalSlab
<1>3. \A i \in 1 .. n : <<r, i - 1>> \in Block
  BY <1>1, PoolAssumption DEF Block
<1>4. \A b \in Managed : b[1] # r /\ b[2] \in Nat /\ b \in Block
  BY PoolAssumption DEF AddExternalSlab, Managed, Block
<1>5. \A b \in Managed : mem'[b] = mem[b]
  BY <1>4 DEF AddExternalSlab, Linked
<1> QED BY <1>1, <1>2, <1>3, <1>4, <1>5, PoolFacts DEF Links
------------------------------------------------------------------------------
(* The owner's moves keep every word and the walk inside the pool.           *)
LEMMA PopKeepsClosed ==
  ASSUME IInv, WalkTypeOK, ~writes, Closed, Allocate, Moved("popped", 1)
  PROVE  Closed'
<1>1. mem' = mem /\ Managed' = Managed
  BY DEF Allocate, Managed
<1> QED BY <1>1, PoppedFacts DEF Closed, Links

LEMMA PushKeepsClosed ==
  ASSUME IInv, WalkTypeOK, ~writes, Closed, NEW b \in live, PushFree(b), Moved("pushed", 1)
  PROVE  Closed'
<1>1. Managed' = Managed /\ Links' = Links
  BY DEF PushFree, Managed, Links
<1>2. \A c \in Managed : mem'[c] \in Links
  BY PushedChain, PoolFacts DEF Closed
<1> QED BY <1>1, <1>2, PushedFacts DEF Closed

(* The block being freed gets the link that its push stores again.           *)
LEMMA StoredLink ==
  ASSUME IInv, NEW b \in live, StoreLink(b)
  PROVE  /\ b \in Block
         /\ \A c \in Block : mem'[c] = IF c = b THEN head ELSE mem[c]
         /\ UNCHANGED <<head, slabs, live, chain, walk>>
         /\ Managed' = Managed /\ Links' = Links
<1>1. b \in Block
  BY PoolFacts
<1>2. \A c \in Block : mem'[c] = IF c = b THEN head ELSE mem[c]
  BY DEF StoreLink, LinkFreed, IInv, TypeOK
<1>3. UNCHANGED <<head, slabs, live, chain, walk>>
  BY DEF StoreLink
<1>4. Managed' = Managed /\ Links' = Links
  BY <1>3 DEF Managed, Links
<1> QED BY <1>1, <1>2, <1>3, <1>4

LEMMA StoreKeepsClosed ==
  ASSUME IInv, Closed, NEW b \in live, StoreLink(b)
  PROVE  Closed'
BY StoredLink, PoolFacts DEF Closed

LEMMA GrowKeepsClosed ==
  ASSUME IInv, WalkTypeOK, ~writes, Closed,
         NEW r \in Regions, NEW n \in 1 .. BlocksPerSlab, AddExternalSlab(r, n),
         Moved("pushed", n)
  PROVE  Closed'
<1>1. n \in Nat \ {0} /\ r \in AllRegions
  BY GrownChain DEF AllRegions
<1>2. /\ Links \subseteq Links'
      /\ \A b \in Block : b \in Managed' <=> b \in Managed \/ (b[1] = r /\ b[2] < n)
  <2>1. ASSUME NEW b \in Block
        PROVE  b \in Managed' <=> b \in Managed \/ (b[1] = r /\ b[2] < n)
    <3>1. b[1] \in AllRegions /\ b[2] \in Nat
      BY PoolAssumption DEF Block
    <3>2. slabs'[b[1]] = IF b[1] = r THEN n ELSE slabs[b[1]]
      BY <3>1, <1>1 DEF AddExternalSlab, IInv, TypeOK
    <3>3. b \in Managed' <=> b[2] < slabs'[b[1]]
      BY DEF Managed
    <3>4. b \in Managed <=> b[2] < slabs[b[1]]
      BY DEF Managed
    <3>5. b[1] = r => b \notin Managed
      BY GrownChain DEF Links
    <3> QED BY <3>2, <3>3, <3>4, <3>5
  <2> QED BY <2>1, PoolFacts DEF Links
<1>3. ASSUME NEW b \in Managed' PROVE mem'[b] \in Links'
  <2>1. b \in Block
    BY DEF Managed
  <2>2. CASE b \in Managed
    BY <2>2, <1>2, GrownChain DEF Closed
  <2>3. CASE b[1] = r /\ b[2] < n
    <3>1. b[2] \in Nat /\ b[2] + 1 \in Nat
      BY <2>1, PoolAssumption DEF Block
    <3>2. mem'[b] = IF b[2] + 1 < n THEN <<r, b[2] + 1>> ELSE head
      BY <2>1, <2>3 DEF AddExternalSlab, Linked
    <3>3. CASE b[2] + 1 < n
      <4> DEFINE next == <<r, b[2] + 1>>
      <4>1. next \in Block /\ next[1] = r /\ next[2] = b[2] + 1
        BY <3>1, <3>3, <1>1, PoolAssumption DEF Block
      <4> HIDE DEF next
      <4>2. next \in Managed'
        BY <4>1, <3>3, <1>2
      <4> QED BY <4>2, <3>2, <3>3 DEF next, Links
    <3>4. CASE ~(b[2] + 1 < n)
      BY <3>2, <3>4, <1>2, PoolFacts
    <3> QED BY <3>3, <3>4
  <2> QED BY <2>1, <2>2, <2>3, <1>2
<1>4. walk'.on => walk'.at \in Links'
  BY <1>1, <1>2, PushedFacts DEF Closed
<1> QED BY <1>3, <1>4 DEF Closed
------------------------------------------------------------------------------
(* Upper levels.  A popped block keeps its level, which is now above the     *)
(* list.                                                                    *)
LEMMA PopKeepsUpper ==
  ASSUME IInv, WalkTypeOK, ~writes, Allocate, Moved("popped", 1), NEW f, Upper(f)
  PROVE  Upper(f)'
<1>1. Level(f)'
  <2>1. ASSUME NEW i \in 1 .. Len(chain') PROVE f[chain'[i]] = Len(chain') - i + 1
    <3>1. /\ i + 1 \in 1 .. Len(chain) /\ chain'[i] = chain[i + 1]
          /\ Len(chain') = Len(chain) - 1 /\ Len(chain) \in Nat
      BY PoppedChain, PoolFacts
    <3>2. f[chain[i + 1]] = Len(chain) - (i + 1) + 1
      BY <3>1 DEF Upper, Level
    <3> QED BY <3>1, <3>2
  <2> QED BY <2>1 DEF Upper, Level
<1>2. ASSUME NEW b \in live' PROVE f[b] > Len(chain') /\ Dist(f, mem'[b]) < f[b]
  <2>1. mem' = mem /\ Len(chain') = Len(chain) - 1 /\ Len(chain) \in Nat
    BY PoppedChain, PoolFacts DEF Allocate
  <2>2. CASE b = head
    <3>1. f[b] = Len(chain) /\ Dist(f, mem[b]) = Len(chain) - 1
      BY <2>2, <2>1, PoppedChain, LevelOfList, PoolFacts DEF Upper, Level
    <3> QED BY <3>1, <2>1
  <2>3. CASE b \in live
    <3>1. f[b] > Len(chain) /\ Dist(f, mem[b]) < f[b] /\ f[b] \in Nat
      BY <2>3, PoolFacts DEF Upper, Level
    <3> QED BY <3>1, <2>1
  <2> QED BY <2>2, <2>3 DEF Allocate
<1>3. walk'.on => walk'.n + Dist(f, walk'.at) <= Len(chain') + walk'.popped
  <2> SUFFICES ASSUME walk'.on PROVE walk'.n + Dist(f, walk'.at) <= Len(chain') + walk'.popped
    OBVIOUS
  <2>1. /\ walk.on /\ walk'.at = walk.at /\ walk'.n = walk.n /\ walk'.popped = walk.popped + 1
        /\ walk.n \in Nat /\ walk.popped \in Nat
    BY PoppedFacts DEF WalkTypeOK
  <2>2. walk.n + Dist(f, walk.at) <= Len(chain) + walk.popped
    BY <2>1 DEF Upper
  <2>3. Dist(f, walk.at) \in Nat
    BY DEF Upper, Level, Dist
  <2> QED BY <2>1, <2>2, <2>3, PoppedChain, PoolFacts
<1> QED BY <1>1, <1>2, <1>3 DEF Upper

(* A pushed block drops to the new top of the list, and whatever is handed   *)
(* out rises with it.                                                       *)
LEMMA PushKeepsUpper ==
  ASSUME IInv, WalkTypeOK, ~writes, Closed, NEW b \in live, PushFree(b), Moved("pushed", 1),
         NEW f, Upper(f)
  PROVE  \E h : Upper(h)'
<1> PICK h : h = [c \in Block |-> IF c = b THEN Len(chain) + 1
                                  ELSE IF c \in live THEN f[c] + 1 ELSE f[c]]
  OBVIOUS
<1>1. /\ f \in [Block -> Nat] /\ Len(chain) \in Nat /\ b \in Block
      /\ \A c \in live : c \in Block /\ f[c] > Len(chain) /\ Dist(f, mem[c]) < f[c]
  BY PoolFacts DEF Upper, Level
<1>2. h \in [Block -> Nat]
  BY <1>1
<1>3. \A w \in Links : Dist(h, w) \in Nat /\ Dist(f, w) \in Nat /\ Dist(h, w) <= Dist(f, w) + 1
  BY <1>1 DEF Dist
<1>4. Level(h)'
  <2>1. ASSUME NEW i \in 1 .. Len(chain') PROVE h[chain'[i]] = Len(chain') - i + 1
    <3>1. CASE i = 1
      BY <3>1, <1>1, PushedChain
    <3>2. CASE i # 1
      <4>1. i - 1 \in 1 .. Len(chain) /\ chain'[i] = chain[i - 1] /\ Len(chain') = Len(chain) + 1
        BY <3>2, PushedChain
      <4>2. chain[i - 1] \in Block /\ chain[i - 1] \notin live
        BY <4>1, PoolFacts
      <4>3. h[chain[i - 1]] = f[chain[i - 1]]
        BY <4>2
      <4>4. f[chain[i - 1]] = Len(chain) - (i - 1) + 1
        BY <4>1 DEF Upper, Level
      <4> QED BY <4>1, <4>3, <4>4, <1>1
    <3> QED BY <3>1, <3>2
  <2> QED BY <2>1, <1>2 DEF Level
<1>5. ASSUME NEW c \in live' PROVE h[c] > Len(chain') /\ Dist(h, mem'[c]) < h[c]
  <2>1. c \in live /\ c # b /\ c \in Block /\ c \in Managed
    BY <1>1, PoolFacts DEF PushFree
  <2>2. mem'[c] = mem[c] /\ Len(chain') = Len(chain) + 1 /\ mem[c] \in Links
    BY <2>1, PushedChain DEF Closed
  <2>3. h[c] = f[c] + 1 /\ f[c] > Len(chain) /\ Dist(f, mem[c]) < f[c] /\ f[c] \in Nat
    BY <2>1, <1>1
  <2>4. Dist(h, mem[c]) \in Nat /\ Dist(f, mem[c]) \in Nat /\ Dist(h, mem[c]) <= Dist(f, mem[c]) + 1
    BY <2>2, <1>3
  <2> QED BY <2>2, <2>3, <2>4, <1>1
<1>6. walk'.on => walk'.n + Dist(h, walk'.at) <= Len(chain') + walk'.popped
  <2> SUFFICES ASSUME walk'.on PROVE walk'.n + Dist(h, walk'.at) <= Len(chain') + walk'.popped
    OBVIOUS
  <2>1. /\ walk.on /\ walk'.at = walk.at /\ walk'.n = walk.n /\ walk'.popped = walk.popped
        /\ walk.n \in Nat /\ walk.popped \in Nat
    BY PushedFacts DEF WalkTypeOK
  <2>2. walk.n + Dist(f, walk.at) <= Len(chain) + walk.popped /\ walk.at \in Links
    BY <2>1 DEF Upper, Closed
  <2>3. Dist(h, walk.at) \in Nat /\ Dist(f, walk.at) \in Nat /\ Dist(h, walk.at) <= Dist(f, walk.at) + 1
    BY <2>2, <1>3
  <2>4. Len(chain') = Len(chain) + 1
    BY PushedChain
  <2> QED BY <2>1, <2>2, <2>3, <2>4, <1>1
<1>7. Upper(h)'
  BY <1>4, <1>5, <1>6 DEF Upper
<1> QED BY <1>7

(* The link of a block being freed leads to the top of the list, above which  *)
(* the block already is.                                                    *)
LEMMA StoreKeepsUpper ==
  ASSUME IInv, NEW b \in live, StoreLink(b), NEW f, Upper(f)
  PROVE  Upper(f)'
<1>1. Level(f)'
  BY StoredLink DEF Upper, Level
<1>2. ASSUME NEW c \in live' PROVE f[c] > Len(chain') /\ Dist(f, mem'[c]) < f[c]
  <2>1. c \in live /\ c \in Block /\ chain' = chain
    BY StoredLink, PoolFacts
  <2>2. f[c] > Len(chain) /\ Dist(f, mem[c]) < f[c]
    BY <2>1 DEF Upper
  <2>3. Dist(f, head) = Len(chain)
    BY LevelOfList DEF Upper
  <2> QED BY <2>1, <2>2, <2>3, StoredLink
<1>3. walk'.on => walk'.n + Dist(f, walk'.at) <= Len(chain') + walk'.popped
  BY StoredLink DEF Upper
<1> QED BY <1>1, <1>2, <1>3 DEF Upper

(* A slab raises what is handed out by the number of its blocks.             *)
LEMMA GrowKeepsUpper ==
  ASSUME IInv, WalkTypeOK, ~writes, Closed,
         NEW r \in Regions, NEW n \in 1 .. BlocksPerSlab, AddExternalSlab(r, n),
         Moved("pushed", n), NEW f, Upper(f)
  PROVE  \E h : Upper(h)'
<1> PICK h : h = [c \in Block |-> IF c[1] = r /\ c[2] < n THEN Len(chain) + n - c[2]
                                  ELSE IF c \in live THEN f[c] + n ELSE f[c]]
  OBVIOUS
<1>1. /\ f \in [Block -> Nat] /\ Len(chain) \in Nat /\ n \in Nat \ {0}
      /\ \A c \in live : c \in Block /\ f[c] > Len(chain) /\ Dist(f, mem[c]) < f[c]
      /\ \A c \in Block : c[2] \in Nat
  BY PoolFacts, GrownChain, PoolAssumption DEF Upper, Level, Block
<1>2. h \in [Block -> Nat]
  BY <1>1
<1>3. \A w \in Links : Dist(h, w) \in Nat /\ Dist(f, w) \in Nat /\ Dist(h, w) <= Dist(f, w) + n
  BY <1>1, GrownChain DEF Dist
<1>4. Level(h)'
  <2>1. ASSUME NEW i \in 1 .. Len(chain') PROVE h[chain'[i]] = Len(chain') - i + 1
    <3>1. CASE i <= n
      <4> DEFINE b == <<r, i - 1>>
      <4>1. chain'[i] = b /\ b \in Block /\ b[1] = r /\ b[2] = i - 1 /\ Len(chain') = Len(chain) + n
        BY <3>1, GrownChain
      <4>2. b[2] < n
        BY <4>1, <3>1, <1>1
      <4> HIDE DEF b
      <4>3. h[b] = Len(chain) + n - b[2]
        BY <4>1, <4>2
      <4> QED BY <4>1, <4>3, <1>1
    <3>2. CASE ~(i <= n)
      <4>1. i - n \in 1 .. Len(chain) /\ chain'[i] = chain[i - n] /\ Len(chain') = Len(chain) + n
        BY <3>2, GrownChain
      <4>2. chain[i - n] \in Block /\ chain[i - n] \notin live /\ chain[i - n][1] # r
        BY <4>1, PoolFacts, GrownChain DEF Links
      <4>3. h[chain[i - n]] = f[chain[i - n]]
        BY <4>2
      <4>4. f[chain[i - n]] = Len(chain) - (i - n) + 1
        BY <4>1 DEF Upper, Level
      <4> QED BY <4>1, <4>3, <4>4, <1>1
    <3> QED BY <3>1, <3>2
  <2> QED BY <2>1, <1>2 DEF Level
<1>5. ASSUME NEW c \in live' PROVE h[c] > Len(chain') /\ Dist(h, mem'[c]) < h[c]
  <2>1. c \in live /\ c \in Block /\ c \in Managed
    BY <1>1, PoolFacts DEF AddExternalSlab
  <2>2. mem'[c] = mem[c] /\ Len(chain') = Len(chain) + n /\ mem[c] \in Links /\ c[1] # r
    BY <2>1, GrownChain DEF Closed, Links
  <2>3. h[c] = f[c] + n /\ f[c] > Len(chain) /\ Dist(f, mem[c]) < f[c] /\ f[c] \in Nat
    BY <2>1, <2>2, <1>1
  <2>4. Dist(h, mem[c]) \in Nat /\ Dist(f, mem[c]) \in Nat /\ Dist(h, mem[c]) <= Dist(f, mem[c]) + n
    BY <2>2, <1>3
  <2> QED BY <2>2, <2>3, <2>4, <1>1
<1>6. walk'.on => walk'.n + Dist(h, walk'.at) <= Len(chain') + walk'.popped
  <2> SUFFICES ASSUME walk'.on PROVE walk'.n + Dist(h, walk'.at) <= Len(chain') + walk'.popped
    OBVIOUS
  <2>1. /\ walk.on /\ walk'.at = walk.at /\ walk'.n = walk.n /\ walk'.popped = walk.popped
        /\ walk.n \in Nat /\ walk.popped \in Nat
    BY <1>1, PushedFacts DEF WalkTypeOK
  <2>2. walk.n + Dist(f, walk.at) <= Len(chain) + walk.popped /\ walk.at \in Links
    BY <2>1 DEF Upper, Closed
  <2>3. Dist(h, walk.at) \in Nat /\ Dist(f, walk.at) \in Nat /\ Dist(h, walk.at) <= Dist(f, walk.at) + n
    BY <2>2, <1>3
  <2>4. Len(chain') = Len(chain) + n
    BY GrownChain
  <2> QED BY <2>1, <2>2, <2>3, <2>4, <1>1
<1>7. Upper(h)'
  BY <1>4, <1>5, <1>6 DEF Upper
<1> QED BY <1>7
------------------------------------------------------------------------------
(* Lower levels.  The pop of a block changes none of them.                   *)
LEMMA PopKeepsLower ==
  ASSUME IInv, WalkTypeOK, ~writes, Allocate, Moved("popped", 1), NEW f, Lower(f)
  PROVE  Lower(f)'
<1>1. Level(f)'
  BY PoppedChain, PoolFacts DEF Lower, Level
<1>2. ASSUME NEW b \in live' PROVE f[b] <= Dist(f, mem'[b]) + 1
  <2>1. mem' = mem /\ Len(chain) \in Nat
    BY PoolFacts DEF Allocate
  <2>2. CASE b = head
    <3>1. f[b] = Len(chain) /\ Dist(f, mem[b]) = Len(chain) - 1
      BY <2>2, <2>1, PoppedChain, LevelOfList, PoolFacts DEF Lower, Level
    <3> QED BY <3>1, <2>1
  <2>3. CASE b \in live
    BY <2>1, <2>3 DEF Lower
  <2> QED BY <2>2, <2>3 DEF Allocate
<1>3. walk'.on => Len(chain') <= walk'.n + Dist(f, walk'.at) + walk'.pushed
  <2> SUFFICES ASSUME walk'.on PROVE Len(chain') <= walk'.n + Dist(f, walk'.at) + walk'.pushed
    OBVIOUS
  <2>1. /\ walk.on /\ walk'.at = walk.at /\ walk'.n = walk.n /\ walk'.pushed = walk.pushed
        /\ walk.n \in Nat /\ walk.pushed \in Nat
    BY PoppedFacts DEF WalkTypeOK
  <2>2. Len(chain) <= walk.n + Dist(f, walk.at) + walk.pushed
    BY <2>1 DEF Lower
  <2>3. Dist(f, walk.at) \in Nat
    BY DEF Lower, Level, Dist
  <2> QED BY <2>1, <2>2, <2>3, PoppedChain, PoolFacts
<1> QED BY <1>1, <1>2, <1>3 DEF Lower

(* A pushed block has the level of the new top of the list, and no block     *)
(* handed out needs one more than one above it: it may point there.         *)
LEMMA PushKeepsLower ==
  ASSUME IInv, WalkTypeOK, ~writes, Closed, NEW b \in live, PushFree(b), Moved("pushed", 1),
         NEW f, Lower(f)
  PROVE  \E h : Lower(h)'
<1> PICK h : h = [c \in Block |-> IF c = b THEN Len(chain) + 1
                                  ELSE IF f[c] > Len(chain) + 2 THEN Len(chain) + 2 ELSE f[c]]
  OBVIOUS
<1>1. /\ f \in [Block -> Nat] /\ Len(chain) \in Nat /\ b \in Block
      /\ \A c \in live : c \in Block /\ f[c] <= Dist(f, mem[c]) + 1
      /\ Len(chain') = Len(chain) + 1
  BY PoolFacts, PushedChain DEF Lower, Level
<1>2. /\ h \in [Block -> Nat]
      /\ h[b] = Len(chain) + 1
      /\ \A c \in Block \ {b} : h[c] = IF f[c] > Len(chain) + 2 THEN Len(chain) + 2 ELSE f[c]
  BY <1>1
<1>3. Level(h)'
  <2>1. ASSUME NEW i \in 1 .. Len(chain') PROVE h[chain'[i]] = Len(chain') - i + 1
    <3>1. CASE i = 1
      BY <3>1, <1>1, <1>2, PushedChain
    <3>2. CASE i # 1
      <4>1. i - 1 \in 1 .. Len(chain) /\ chain'[i] = chain[i - 1]
        BY <3>2, PushedChain
      <4>2. chain[i - 1] \in Block \ {b}
        BY <4>1, PoolFacts
      <4>3. f[chain[i - 1]] = Len(chain) - (i - 1) + 1
        BY <4>1 DEF Lower, Level
      <4>4. ~(f[chain[i - 1]] > Len(chain) + 2)
        BY <4>1, <4>3, <1>1
      <4> QED BY <4>1, <4>2, <4>3, <4>4, <1>1, <1>2
    <3> QED BY <3>1, <3>2
  <2> QED BY <2>1, <1>2 DEF Level
<1>4. ASSUME NEW c \in live' PROVE h[c] <= Dist(h, mem'[c]) + 1
  <2>1. c \in live /\ c \in Block \ {b}
    BY <1>1 DEF PushFree
  <2>2. mem'[c] = mem[c]
    BY <2>1, PushedChain
  <2>3. f[c] <= Dist(f, mem[c]) + 1 /\ f[c] \in Nat /\ h[c] \in Nat
    BY <2>1, <1>1, <1>2
  <2>4. h[c] <= f[c] /\ h[c] <= Len(chain) + 2
    BY <2>1, <2>3, <1>1, <1>2
  <2>5. CASE mem[c] \notin Block
    BY <2>2, <2>3, <2>4, <2>5 DEF Dist
  <2>6. CASE mem[c] = b
    BY <2>2, <2>4, <2>6, <1>1, <1>2 DEF Dist
  <2>7. CASE mem[c] \in Block \ {b}
    <3>1. f[mem[c]] \in Nat /\ f[c] <= f[mem[c]] + 1
      BY <2>3, <2>7, <1>1 DEF Dist
    <3>2. Dist(h, mem[c]) = IF f[mem[c]] > Len(chain) + 2 THEN Len(chain) + 2 ELSE f[mem[c]]
      BY <2>7, <1>2 DEF Dist
    <3> QED BY <2>2, <2>3, <2>4, <3>1, <3>2, <1>1
  <2> QED BY <2>5, <2>6, <2>7
<1>5. walk'.on => Len(chain') <= walk'.n + Dist(h, walk'.at) + walk'.pushed
  <2> SUFFICES ASSUME walk'.on PROVE Len(chain') <= walk'.n + Dist(h, walk'.at) + walk'.pushed
    OBVIOUS
  <2>1. /\ walk.on /\ walk'.at = walk.at /\ walk'.n = walk.n /\ walk'.pushed = walk.pushed + 1
        /\ walk.n \in Nat /\ walk.pushed \in Nat
    BY PushedFacts DEF WalkTypeOK
  <2>2. Len(chain) <= walk.n + Dist(f, walk.at) + walk.pushed
    BY <2>1 DEF Lower
  <2>3. Dist(f, walk.at) \in Nat /\ Dist(h, walk.at) \in Nat
    BY <1>1, <1>2 DEF Dist
  <2>4. Dist(h, walk.at) = Dist(f, walk.at) \/ Dist(h, walk.at) >= Len(chain) + 1
    BY <1>1, <1>2 DEF Dist
  <2> QED BY <2>1, <2>2, <2>3, <2>4, <1>1
<1>6. Lower(h)'
  BY <1>3, <1>4, <1>5 DEF Lower
<1> QED BY <1>6

(* A block that is linked before it is pushed has the level of the list with  *)
(* it on top already.                                                       *)
LEMMA StoreKeepsLower ==
  ASSUME IInv, WalkTypeOK, Closed, NEW b \in live, StoreLink(b), NEW f, Lower(f)
  PROVE  \E h : Lower(h)'
<1> PICK h : h = [c \in Block |-> IF c = b THEN Len(chain) + 1
                                  ELSE IF f[c] > Len(chain) + 2 THEN Len(chain) + 2 ELSE f[c]]
  OBVIOUS
<1>1. /\ f \in [Block -> Nat] /\ Len(chain) \in Nat /\ b \in Block
      /\ \A c \in live : c \in Block /\ f[c] <= Dist(f, mem[c]) + 1
      /\ chain' = chain /\ live' = live /\ walk' = walk
  BY PoolFacts, StoredLink DEF Lower, Level
<1>2. /\ h \in [Block -> Nat]
      /\ h[b] = Len(chain) + 1
      /\ \A c \in Block \ {b} : h[c] = IF f[c] > Len(chain) + 2 THEN Len(chain) + 2 ELSE f[c]
  BY <1>1
<1>3. Level(h) /\ Level(h)'
  <2>1. ASSUME NEW i \in 1 .. Len(chain) PROVE h[chain[i]] = Len(chain) - i + 1
    <3>1. chain[i] \in Block \ {b}
      BY PoolFacts
    <3>2. f[chain[i]] = Len(chain) - i + 1
      BY DEF Lower, Level
    <3>3. ~(f[chain[i]] > Len(chain) + 2)
      BY <3>2, <1>1
    <3> QED BY <3>1, <3>2, <3>3, <1>2
  <2>2. Level(h)
    BY <2>1, <1>2 DEF Level
  <2> QED BY <2>2, <1>1 DEF Level
<1>4. ASSUME NEW c \in live' PROVE h[c] <= Dist(h, mem'[c]) + 1
  <2>1. c \in live /\ c \in Block
    BY <1>1
  <2>2. CASE c = b
    <3>1. mem'[c] = head /\ h[c] = Len(chain) + 1
      BY <2>1, <2>2, <1>2, StoredLink
    <3>2. Dist(h, head) = Len(chain)
      BY <1>3, LevelOfList
    <3> QED BY <3>1, <3>2, <1>1
  <2>3. CASE c # b
    <3>1. mem'[c] = mem[c]
      BY <2>1, <2>3, StoredLink
    <3>2. f[c] <= Dist(f, mem[c]) + 1 /\ f[c] \in Nat /\ h[c] \in Nat
      BY <2>1, <1>1, <1>2
    <3>3. h[c] <= f[c] /\ h[c] <= Len(chain) + 2
      BY <2>1, <2>3, <3>2, <1>1, <1>2
    <3>4. CASE mem[c] \notin Block
      BY <3>1, <3>2, <3>3, <3>4 DEF Dist
    <3>5. CASE mem[c] = b
      BY <3>1, <3>3, <3>5, <1>1, <1>2 DEF Dist
    <3>6. CASE mem[c] \in Block \ {b}
      <4>1. f[mem[c]] \in Nat /\ f[c] <= f[mem[c]] + 1
        BY <3>2, <3>6, <1>1 DEF Dist
      <4>2. Dist(h, mem[c]) = IF f[mem[c]] > Len(chain) + 2 THEN Len(chain) + 2 ELSE f[mem[c]]
        BY <3>6, <1>2 DEF Dist
      <4> QED BY <3>1, <3>2, <3>3, <4>1, <4>2, <1>1
    <3> QED BY <3>4, <3>5, <3>6
  <2> QED BY <2>2, <2>3
<1>5. walk'.on => Len(chain') <= walk'.n + Dist(h, walk'.at) + walk'.pushed
  <2> SUFFICES ASSUME walk.on PROVE Len(chain) <= walk.n + Dist(h, walk.at) + walk.pushed
    BY <1>1
  <2>1. walk.n \in Nat /\ walk.pushed \in Nat
    BY DEF WalkTypeOK
  <2>2. Len(chain) <= walk.n + Dist(f, walk.at) + walk.pushed
    BY DEF Lower
  <2>3. Dist(f, walk.at) \in Nat /\ Dist(h, walk.at) \in Nat
    BY <1>1, <1>2 DEF Dist
  <2>4. Dist(h, walk.at) = Dist(f, walk.at) \/ Dist(h, walk.at) >= Len(chain) + 1
    BY <1>1, <1>2 DEF Dist
  <2> QED BY <2>1, <2>2, <2>3, <2>4, <1>1
<1>6. Lower(h)'
  BY <1>3, <1>4, <1>5 DEF Lower
<1> QED BY <1>6

(* Nothing in the pool points into a slab that is only being linked.         *)
LEMMA GrowKeepsLower ==
  ASSUME IInv, WalkTypeOK, ~writes, Closed,
         NEW r \in Regions, NEW n \in 1 .. BlocksPerSlab, AddExternalSlab(r, n),
         Moved("pushed", n), NEW f, Lower(f)
  PROVE  \E h : Lower(h)'
<1> PICK h : h = [c \in Block |-> IF c[1] = r /\ c[2] < n THEN Len(chain) + n - c[2] ELSE f[c]]
  OBVIOUS
<1>1. /\ f \in [Block -> Nat] /\ Len(chain) \in Nat /\ n \in Nat \ {0}
      /\ \A c \in live : c \in Block /\ f[c] <= Dist(f, mem[c]) + 1
      /\ \A c \in Block : c[2] \in Nat
      /\ Len(chain') = Len(chain) + n
  BY PoolFacts, GrownChain, PoolAssumption DEF Lower, Level, Block
<1>2. h \in [Block -> Nat]
  BY <1>1
<1>3. \A w \in Links : Dist(h, w) = Dist(f, w) /\ Dist(f, w) \in Nat
  BY <1>1, GrownChain DEF Dist
<1>4. Level(h)'
  <2>1. ASSUME NEW i \in 1 .. Len(chain') PROVE h[chain'[i]] = Len(chain') - i + 1
    <3>1. CASE i <= n
      <4> DEFINE b == <<r, i - 1>>
      <4>1. chain'[i] = b /\ b \in Block /\ b[1] = r /\ b[2] = i - 1
        BY <3>1, GrownChain
      <4>2. b[2] < n
        BY <4>1, <3>1, <1>1
      <4> HIDE DEF b
      <4>3. h[b] = Len(chain) + n - b[2]
        BY <4>1, <4>2
      <4> QED BY <4>1, <4>3, <1>1
    <3>2. CASE ~(i <= n)
      <4>1. i - n \in 1 .. Len(chain) /\ chain'[i] = chain[i - n]
        BY <3>2, GrownChain
      <4>2. chain[i - n] \in Block /\ chain[i - n][1] # r
        BY <4>1, PoolFacts, GrownChain DEF Links
      <4>3. h[chain[i - n]] = f[chain[i - n]]
        BY <4>2
      <4>4. f[chain[i - n]] = Len(chain) - (i - n) + 1
        BY <4>1 DEF Lower, Level
      <4> QED BY <4>1, <4>3, <4>4, <1>1
    <3> QED BY <3>1, <3>2
  <2> QED BY <2>1, <1>2 DEF Level
<1>5. ASSUME NEW c \in live' PROVE h[c] <= Dist(h, mem'[c]) + 1
  <2>1. c \in live /\ c \in Block /\ c \in Managed
    BY <1>1, PoolFacts DEF AddExternalSlab
  <2>2. mem'[c] = mem[c] /\ mem[c] \in Links /\ c[1] # r
    BY <2>1, GrownChain DEF Closed, Links
  <2>3. h[c] = f[c]
    BY <2>1, <2>2
  <2> QED BY <2>1, <2>2, <2>3, <1>1, <1>3
<1>6. walk'.on => Len(chain') <= walk'.n + Dist(h, walk'.at) + walk'.pushed
  <2> SUFFICES ASSUME walk'.on PROVE Len(chain') <= walk'.n + Dist(h, walk'.at) + walk'.pushed
    OBVIOUS
  <2>1. /\ walk.on /\ walk'.at = walk.at /\ walk'.n = walk.n /\ walk'.pushed = walk.pushed + n
        /\ walk.n \in Nat /\ walk.pushed \in Nat
    BY <1>1, PushedFacts DEF WalkTypeOK
  <2>2. Len(chain) <= walk.n + Dist(f, walk.at) + walk.pushed /\ walk.at \in Links
    BY <2>1 DEF Lower, Closed
  <2>3. Dist(h, walk.at) = Dist(f, walk.at) /\ Dist(f, walk.at) \in Nat
    BY <2>2, <1>3
  <2> QED BY <2>1, <2>2, <2>3, <1>1
<1>7. Lower(h)'
  BY <1>4, <1>5, <1>6 DEF Lower
<1> QED BY <1>7
------------------------------------------------------------------------------
(* What the pool's type says of the regions.                                 *)
LEMMA SlabTypes ==
  ASSUME IInv
  PROVE  slabs \in [AllRegions -> Nat]
BY PoolAssumption DEF IInv, TypeOK

LEMMA WalkInitWInv == WalkInit => IInv /\ WInv
<1> SUFFICES ASSUME WalkInit PROVE IInv /\ WInv
  OBVIOUS
<1>1. IInv
  BY InitIInv DEF WalkInit
<1>2. WalkTypeOK /\ ~walk.on
  BY <1>1, SlabTypes DEF WalkInit, WalkTypeOK, NoWalk, Word, Link
<1>3. IsFiniteSet(live) /\ live = {}
  BY FS_EmptySet DEF WalkInit, Init
<1>4. Closed
  <2>1. ASSUME NEW b \in Managed PROVE mem[b] \in Links
    <3>1. PICK i \in 1 .. Len(chain) : b = chain[i]
      BY <1>1, <1>3, PoolFacts
    <3>2. mem[b] = IF i = Len(chain) THEN NULL ELSE chain[i + 1]
      BY <1>1, <3>1 DEF IInv, FreeListLinked
    <3>3. i # Len(chain) => i + 1 \in 1 .. Len(chain)
      BY <1>1, PoolFacts
    <3> QED BY <1>1, <3>2, <3>3, PoolFacts DEF Links
  <2> QED BY <1>2, <2>1 DEF Closed
<1>5. \E f : Level(f)
  <2>1. PICK f : f = [b \in Block |-> BlocksPerSlab - b[2]]
    OBVIOUS
  <2>2. OwnSlab \in AllRegions /\ BlocksPerSlab \in 1 .. BlocksPerSlab
    BY PoolAssumption DEF AllRegions
  <2>3. /\ Len(chain) = BlocksPerSlab
        /\ \A i \in 1 .. BlocksPerSlab : chain[i] = <<OwnSlab, i - 1>>
    BY <2>2, InOrderProperties DEF WalkInit, Init
  <2>4. f \in [Block -> Nat]
    BY <2>1, PoolAssumption DEF Block
  <2>5. ASSUME NEW i \in 1 .. Len(chain) PROVE f[chain[i]] = Len(chain) - i + 1
    <3> DEFINE b == <<OwnSlab, i - 1>>
    <3>1. chain[i] = b /\ b \in Block /\ b[2] = i - 1
      BY <2>2, <2>3 DEF Block
    <3> HIDE DEF b
    <3>2. f[b] = BlocksPerSlab - b[2]
      BY <2>1, <3>1
    <3> QED BY <2>3, <3>1, <3>2, PoolAssumption
  <2>6. Level(f)
    BY <2>4, <2>5 DEF Level
  <2> QED BY <2>6
<1>6. (\E f : Upper(f)) /\ (\E f : Lower(f))
  BY <1>2, <1>3, <1>5 DEF Upper, Lower
<1> QED BY <1>1, <1>2, <1>3, <1>4, <1>6 DEF WInv

(* The owner takes a block.                                                  *)
LEMMA PopKeepsWInv == ASSUME IInv, WInv, Pop, writes' = writes PROVE WInv'
<1>1. /\ WalkTypeOK /\ Allocate /\ Moved("popped", 1) /\ freeing = NULL
      /\ UNCHANGED <<writes, freeing, recorded, slabs>>
  BY DEF Pop, AtRest, WInv, Allocate
<1>2. WalkTypeOK'
  BY <1>1, PoppedFacts DEF WalkTypeOK, Moved
<1>3. IsFiniteSet(live')
  BY <1>1, FS_AddElement DEF WInv, Allocate
<1>4. ASSUME ~writes PROVE Closed' /\ (\E f : Upper(f))' /\ (\E f : Lower(f))'
  <2>1. Closed'
    BY <1>1, <1>4, PopKeepsClosed DEF WInv
  <2>2. PICK f : Upper(f)
    BY <1>4 DEF WInv
  <2>3. PICK g : Lower(g)
    BY <1>4 DEF WInv
  <2>4. Upper(f)' /\ Lower(g)'
    BY <1>1, <1>4, <2>2, <2>3, PopKeepsUpper, PopKeepsLower
  <2> QED BY <2>1, <2>4
<1> QED BY <1>1, <1>2, <1>3, <1>4 DEF WInv

(* He links the block that he gives back.                                    *)
LEMMA StoreKeepsWInv ==
  ASSUME IInv, WInv, NEW b \in Block, StoreLink(b), writes' = writes
  PROVE  WInv'
<1>1. /\ b \in live /\ WalkTypeOK /\ freeing' = b
      /\ UNCHANGED <<slabs, live, chain, recorded, walk>>
  BY DEF StoreLink, WInv
<1>2. WalkTypeOK' /\ IsFiniteSet(live')
  BY <1>1 DEF WInv, WalkTypeOK
<1>3. ASSUME ~writes PROVE Closed' /\ (\E f : Upper(f))' /\ (\E f : Lower(f))'
  <2>1. Closed'
    BY <1>1, <1>3, StoreKeepsClosed DEF WInv
  <2>2. PICK f : Upper(f)
    BY <1>3 DEF WInv
  <2>3. PICK g : Lower(g)
    BY <1>3 DEF WInv
  <2>4. Upper(f)'
    BY <1>1, <2>2, StoreKeepsUpper
  <2>5. \E h : Lower(h)'
    BY <1>1, <1>3, <2>3, StoreKeepsLower DEF WInv
  <2> QED BY <2>1, <2>4, <2>5
<1> QED BY <1>2, <1>3 DEF WInv

(* He puts it on the list.                                                   *)
LEMMA PushIsPushFree ==
  ASSUME IInv, WInv, Push
  PROVE  /\ freeing \in live /\ PushFree(freeing) /\ Moved("pushed", 1)
         /\ freeing' = NULL /\ UNCHANGED <<recorded, slabs>>
<1>1. Deallocate(freeing) => freeing \in live /\ PushFree(freeing)
  BY DEF Deallocate
<1>2. ASSUME NEW off \in Offsets, DeallocateContaining(<<freeing[1], freeing[2], off>>)
      PROVE  freeing \in live /\ PushFree(freeing)
  <2>1. ContainingBlock(<<freeing[1], freeing[2], off>>) = <<freeing[1], freeing[2]>>
    BY DEF ContainingBlock
  <2>2. freeing \in Block
    BY PoolFacts DEF Push, WInv, WalkTypeOK
  <2>3. freeing = <<freeing[1], freeing[2]>>
    BY <2>2 DEF Block
  <2> QED BY <1>2, <2>1, <2>3 DEF DeallocateContaining
<1>3. freeing \in live /\ PushFree(freeing)
  BY <1>1, <1>2 DEF Push
<1> QED BY <1>3 DEF Push, PushFree

LEMMA PushKeepsWInv ==
  ASSUME IInv, WInv, Push, writes' = writes
  PROVE  WInv'
<1>1. /\ freeing \in live /\ PushFree(freeing) /\ Moved("pushed", 1) /\ WalkTypeOK
      /\ freeing' = NULL /\ UNCHANGED <<recorded, slabs>>
  BY PushIsPushFree DEF WInv
<1>2. WalkTypeOK'
  BY <1>1, PushedFacts DEF WalkTypeOK, Moved
<1>3. IsFiniteSet(live')
  BY <1>1, FS_RemoveElement DEF WInv, PushFree
<1>4. ASSUME ~writes PROVE Closed' /\ (\E f : Upper(f))' /\ (\E f : Lower(f))'
  <2>1. Closed'
    BY <1>1, <1>4, PushKeepsClosed DEF WInv
  <2>2. PICK f : Upper(f)
    BY <1>4 DEF WInv
  <2>3. PICK g : Lower(g)
    BY <1>4 DEF WInv
  <2>4. \E h : Upper(h)'
    BY <1>1, <1>4, <2>2, PushKeepsUpper DEF WInv
  <2>5. \E h : Lower(h)'
    BY <1>1, <1>4, <2>3, PushKeepsLower DEF WInv
  <2> QED BY <2>1, <2>4, <2>5
<1> QED BY <1>2, <1>3, <1>4 DEF WInv

(* He puts a slab on the list.                                               *)
LEMMA LinkSlabKeepsWInv ==
  ASSUME IInv, WInv, NEW r \in Regions, NEW n \in 1 .. BlocksPerSlab, LinkSlab(r, n),
         writes' = writes
  PROVE  WInv'
<1>1. /\ AddExternalSlab(r, n) /\ Moved("pushed", n) /\ WalkTypeOK /\ n \in Nat
      /\ UNCHANGED <<freeing, recorded, live>>
  BY GrownChain DEF LinkSlab, AddExternalSlab, WInv
<1>2. WalkTypeOK'
  <2>1. walk' \in [on : BOOLEAN, at : Word, n : Nat, popped : Nat, pushed : Nat]
    BY <1>1, PushedFacts DEF WalkTypeOK, Moved
  <2>2. \A q \in AllRegions : recorded[q] <= slabs'[q]
    BY <1>1, SlabTypes DEF AddExternalSlab, WalkTypeOK
  <2> QED BY <1>1, <2>1, <2>2 DEF WalkTypeOK
<1>3. IsFiniteSet(live')
  BY <1>1 DEF WInv
<1>4. ASSUME ~writes PROVE Closed' /\ (\E f : Upper(f))' /\ (\E f : Lower(f))'
  <2>1. Closed'
    BY <1>1, <1>4, GrowKeepsClosed DEF WInv
  <2>2. PICK f : Upper(f)
    BY <1>4 DEF WInv
  <2>3. PICK g : Lower(g)
    BY <1>4 DEF WInv
  <2>4. \E h : Upper(h)'
    BY <1>1, <1>4, <2>2, GrowKeepsUpper DEF WInv
  <2>5. \E h : Lower(h)'
    BY <1>1, <1>4, <2>3, GrowKeepsLower DEF WInv
  <2> QED BY <2>1, <2>4, <2>5
<1> QED BY <1>2, <1>3, <1>4 DEF WInv

(* A step that leaves the list, the words and the walk leaves the levels.    *)
LEMMA RestKeepsLevels ==
  ASSUME UNCHANGED <<vars, walk>>
  PROVE  /\ Closed => Closed'
         /\ \A f : (Upper(f) => Upper(f)') /\ (Lower(f) => Lower(f)')
<1>1. Links' = Links /\ Managed' = Managed /\ UNCHANGED <<mem, live, chain, walk>>
  BY DEF vars, Links, Managed
<1>2. Closed => Closed'
  BY <1>1 DEF Closed
<1>3. \A f : (Upper(f) => Upper(f)') /\ (Lower(f) => Lower(f)')
  BY <1>1 DEF Upper, Lower, Level
<1> QED BY <1>2, <1>3

LEMMA OwnerKeepsWInv == IInv /\ WInv /\ Owner => WInv'
<1> SUFFICES ASSUME IInv, WInv, Owner PROVE WInv'
  OBVIOUS
<1>1. writes' = writes /\ WalkTypeOK
  BY DEF Owner, WInv
<1>2. CASE Pop
  BY <1>1, <1>2, PopKeepsWInv
<1>3. ASSUME NEW b \in Block, StoreLink(b) PROVE WInv'
  BY <1>1, <1>3, StoreKeepsWInv
<1>4. CASE Push
  BY <1>1, <1>4, PushKeepsWInv
<1>5. ASSUME NEW r \in Regions, NEW n \in 1 .. BlocksPerSlab, LinkSlab(r, n)
      PROVE  WInv'
  BY <1>1, <1>5, LinkSlabKeepsWInv
<1>6. CASE RecordSlab
  <2>1. UNCHANGED <<vars, freeing, walk, live, slabs>> /\ recorded' = slabs
    BY <1>6 DEF RecordSlab, vars
  <2>2. WalkTypeOK' /\ IsFiniteSet(live')
    BY <1>1, <2>1, SlabTypes DEF WalkTypeOK, WInv
  <2> QED BY <1>1, <2>1, <2>2, RestKeepsLevels DEF WInv
<1>7. CASE Write
  <2>1. writes /\ UNCHANGED <<slabs, live, freeing, recorded, walk>>
    BY <1>7 DEF Write, ClientWrite
  <2>2. WalkTypeOK' /\ IsFiniteSet(live')
    BY <1>1, <2>1 DEF WalkTypeOK, WInv
  <2> QED BY <1>1, <2>1, <2>2 DEF WInv
<1> QED BY <1>2, <1>3, <1>4, <1>5, <1>6, <1>7 DEF Owner

(* The reader: every hop counts one block and takes the walk one link on.    *)
LEMMA ReaderKeepsWInv ==
  ASSUME IInv, WInv, WalkBegin \/ Hop \/ WalkEnd
  PROVE  WInv'
<1>1. /\ writes' = writes /\ live' = live /\ chain' = chain /\ mem' = mem
      /\ UNCHANGED <<slabs, freeing, recorded>>
      /\ Managed' = Managed /\ Links' = Links /\ WalkTypeOK
  BY DEF WalkBegin, Hop, WalkEnd, ownerVars, vars, Managed, Links, WInv
<1>2. CASE WalkBegin
  <2>1. /\ walk' = [NoWalk EXCEPT !.on = TRUE, !.at = head] /\ head \in Links
        /\ walk'.n = 0 /\ walk'.popped = 0 /\ walk'.pushed = 0 /\ walk'.at = head
    BY <1>2, PoolFacts DEF WalkBegin, NoWalk
  <2>2. WalkTypeOK'
    BY <1>1, <2>1 DEF WalkTypeOK, NoWalk, IInv, TypeOK, Word
  <2>3. Closed => Closed'
    BY <1>1, <2>1 DEF Closed
  <2>4. ASSUME NEW f, Upper(f) PROVE Upper(f)'
    <3>1. Dist(f, head) = Len(chain) /\ Len(chain) \in Nat
      BY <2>4, LevelOfList, PoolFacts DEF Upper
    <3> QED BY <1>1, <2>1, <2>4, <3>1 DEF Upper, Level
  <2>5. ASSUME NEW f, Lower(f) PROVE Lower(f)'
    <3>1. Dist(f, head) = Len(chain) /\ Len(chain) \in Nat
      BY <2>5, LevelOfList, PoolFacts DEF Lower
    <3> QED BY <1>1, <2>1, <2>5, <3>1 DEF Lower, Level
  <2> QED BY <1>1, <2>2, <2>3, <2>4, <2>5 DEF WInv
<1>3. CASE Hop
  <2>1. /\ walk.on /\ walk.at \in Block /\ walk.n \in Nat
        /\ walk.popped \in Nat /\ walk.pushed \in Nat
        /\ walk' = [walk EXCEPT !.at = mem[walk.at], !.n = @ + 1]
    BY <1>1, <1>3 DEF Hop, WalkTypeOK
  <2>2. /\ WalkTypeOK'
        /\ walk'.on /\ walk'.at = mem[walk.at] /\ walk'.n = walk.n + 1
        /\ walk'.popped = walk.popped /\ walk'.pushed = walk.pushed
    <3>1. mem[walk.at] \in Word /\ walk.n + 1 \in Nat
      BY <2>1 DEF IInv, TypeOK
    <3>2. /\ walk' \in [on : BOOLEAN, at : Word, n : Nat, popped : Nat, pushed : Nat]
          /\ walk'.on = walk.on /\ walk'.at = mem[walk.at] /\ walk'.n = walk.n + 1
          /\ walk'.popped = walk.popped /\ walk'.pushed = walk.pushed
      BY <1>1, <2>1, <3>1 DEF WalkTypeOK
    <3> QED BY <1>1, <2>1, <3>2 DEF WalkTypeOK
  <2>3. Closed => Closed' /\ walk.at \in Managed
    BY <1>1, <2>1, <2>2, PoolFacts DEF Closed, Links
  <2>4. ASSUME Closed, NEW f, Upper(f) PROVE Upper(f)'
    <3>1. /\ Dist(f, walk.at) = f[walk.at] /\ f[walk.at] \in Nat
          /\ Dist(f, mem[walk.at]) \in Nat /\ Len(chain) \in Nat
      BY <2>1, <2>4, PoolFacts DEF Upper, Level, Dist
    <3>2. Dist(f, mem[walk.at]) < f[walk.at]
      <4>1. CASE walk.at \in live
        BY <2>4, <4>1 DEF Upper
      <4>2. CASE walk.at \notin live
        <5>1. PICK i \in 1 .. Len(chain) : walk.at = chain[i]
          BY <2>3, <2>4, <4>2, PoolFacts
        <5>2. Dist(f, chain[i]) = Len(chain) - i + 1 /\ Dist(f, mem[chain[i]]) = Len(chain) - i
          BY <2>4, LevelOfList DEF Upper
        <5> QED BY <3>1, <5>1, <5>2
      <4> QED BY <4>1, <4>2
    <3>3. walk.n + Dist(f, walk.at) <= Len(chain) + walk.popped
      BY <2>1, <2>4 DEF Upper
    <3>4. walk'.n + Dist(f, walk'.at) <= Len(chain) + walk'.popped
      BY <2>1, <2>2, <3>1, <3>2, <3>3
    <3> QED BY <1>1, <2>4, <3>4 DEF Upper, Level
  <2>5. ASSUME Closed, NEW f, Lower(f) PROVE Lower(f)'
    <3>1. /\ Dist(f, walk.at) = f[walk.at] /\ f[walk.at] \in Nat
          /\ Dist(f, mem[walk.at]) \in Nat /\ Len(chain) \in Nat
      BY <2>1, <2>5, PoolFacts DEF Lower, Level, Dist
    <3>2. f[walk.at] <= Dist(f, mem[walk.at]) + 1
      <4>1. CASE walk.at \in live
        BY <2>5, <4>1 DEF Lower
      <4>2. CASE walk.at \notin live
        <5>1. PICK i \in 1 .. Len(chain) : walk.at = chain[i]
          BY <2>3, <2>5, <4>2, PoolFacts
        <5>2. Dist(f, chain[i]) = Len(chain) - i + 1 /\ Dist(f, mem[chain[i]]) = Len(chain) - i
          BY <2>5, LevelOfList DEF Lower
        <5> QED BY <3>1, <5>1, <5>2
      <4> QED BY <4>1, <4>2
    <3>3. Len(chain) <= walk.n + Dist(f, walk.at) + walk.pushed
      BY <2>1, <2>5 DEF Lower
    <3>4. Len(chain) <= walk'.n + Dist(f, walk'.at) + walk'.pushed
      BY <2>1, <2>2, <3>1, <3>2, <3>3
    <3> QED BY <1>1, <2>5, <3>4 DEF Lower, Level
  <2> QED BY <1>1, <2>2, <2>3, <2>4, <2>5 DEF WInv
<1>4. CASE WalkEnd
  <2>1. walk' = NoWalk /\ ~walk'.on
    BY <1>4 DEF WalkEnd, NoWalk
  <2>2. WalkTypeOK'
    BY <1>1, <2>1 DEF WalkTypeOK, NoWalk, Word, Link
  <2>3. Closed => Closed'
    BY <1>1, <2>1 DEF Closed
  <2>4. \A f : (Upper(f) => Upper(f)') /\ (Lower(f) => Lower(f)')
    BY <1>1, <2>1 DEF Upper, Lower, Level
  <2> QED BY <1>1, <2>2, <2>3, <2>4 DEF WInv
<1> QED BY <1>2, <1>3, <1>4

(* A step of the walk's specification is a step of the pool's: a link stored  *)
(* in a block that is being freed is a word that its holder could store.     *)
LEMMA WalkStepIsPoolStep == IInv /\ WInv /\ [WalkNext]_walkVars => [Next]_vars
<1> SUFFICES ASSUME IInv, WInv, [WalkNext]_walkVars PROVE [Next]_vars
  OBVIOUS
<1>1. ASSUME NEW b \in Block, StoreLink(b) PROVE Next
  <2>1. head \in Word
    BY DEF IInv, TypeOK, Word
  <2>2. ClientWrite(b, head)
    BY <1>1 DEF StoreLink, LinkFreed, ClientWrite
  <2> QED BY <2>1, <2>2 DEF Next
<1>2. CASE Push
  <2>1. freeing \in Block
    BY <1>2, PushIsPushFree, PoolFacts
  <2> QED BY <1>2, <2>1 DEF Push, Next
<1>3. CASE Pop
  BY <1>3 DEF Pop, Next
<1>4. ASSUME NEW r \in Regions, NEW n \in 1 .. BlocksPerSlab, LinkSlab(r, n) PROVE Next
  BY <1>4 DEF LinkSlab, Next
<1>5. CASE Write
  BY <1>5 DEF Write, Next
<1>6. CASE RecordSlab
  BY <1>6 DEF RecordSlab
<1>7. CASE WalkBegin \/ Hop \/ WalkEnd \/ UNCHANGED walkVars
  BY <1>7 DEF WalkBegin, Hop, WalkEnd, ownerVars, walkVars
<1> QED BY <1>1, <1>2, <1>3, <1>4, <1>5, <1>6, <1>7 DEF WalkNext, Owner

LEMMA WalkStepWInv == IInv /\ WInv /\ [WalkNext]_walkVars => IInv' /\ WInv'
<1> SUFFICES ASSUME IInv, WInv, [WalkNext]_walkVars PROVE IInv' /\ WInv'
  OBVIOUS
<1>1. IInv'
  BY WalkStepIsPoolStep, StepIInv
<1>2. ASSUME WalkNext PROVE WInv'
  BY <1>2, OwnerKeepsWInv, ReaderKeepsWInv DEF WalkNext
<1>3. ASSUME UNCHANGED walkVars PROVE WInv'
  <2>1. UNCHANGED <<vars, walk>> /\ UNCHANGED <<writes, freeing, recorded, slabs, live>>
    BY <1>3 DEF walkVars, vars
  <2>2. WalkTypeOK' /\ IsFiniteSet(live')
    BY <2>1 DEF WInv, WalkTypeOK
  <2> QED BY <2>1, <2>2, RestKeepsLevels DEF WInv
<1> QED BY <1>1, <1>2, <1>3
------------------------------------------------------------------------------
THEOREM WInvAlways == WalkSpec => [](IInv /\ WInv)
<1> QED BY WalkInitWInv, WalkStepWInv, PTL DEF WalkSpec

(* A pool that is walked while its owner works is still the pool of         *)
(* BlockPool: all that is proved there holds here.                          *)
THEOREM WalkIsPool == WalkSpec => Spec
<1>1. WalkInit => Init
  BY DEF WalkInit
<1> QED BY <1>1, WInvAlways, WalkStepIsPoolStep, PTL DEF WalkSpec, Spec

(* The walk's pointer and its count keep their types.                        *)
THEOREM WalkTypeCorrect == WalkSpec => []WalkTypeOK
<1>1. IInv /\ WInv => WalkTypeOK
  BY DEF WInv
<1> QED BY <1>1, WInvAlways, PTL

(* Whatever allocate, deallocate and add_external_slab do between its loads   *)
(* and between their own stores, the walk of free_count() dereferences blocks *)
(* of slabs that total_blocks() counts or of the one slab that is on the     *)
(* list and about to be recorded, and nothing else, if no holder writes into *)
(* its block.                                                               *)
THEOREM WalkAlwaysInPool == WalkSpec => []WalkStaysInPool
<1>1. IInv /\ WInv => WalkStaysInPool
  <2> SUFFICES ASSUME IInv, WInv, ~writes, walk.on, walk.at \notin Counted \cup {NULL}
               PROVE  recorded # slabs /\ walk.at \in Managed \ Counted
    BY DEF WalkStaysInPool
  <2>1. walk.at \in Managed \ Counted
    BY DEF WInv, Closed, Links
  <2>2. recorded # slabs
    BY <2>1 DEF Managed, Counted
  <2> QED BY <2>1, <2>2
<1> QED BY <1>1, WInvAlways, PTL

(* The blocks of a pool are those on the list and those handed out.          *)
LEMMA CountOfBlocks ==
  ASSUME IInv, IsFiniteSet(live)
  PROVE  /\ Cardinality(live) \in Nat
         /\ IsFiniteSet(Managed) /\ Cardinality(Managed) = Len(chain) + Cardinality(live)
<1> DEFINE S == {chain[i] : i \in 1 .. Len(chain)}
           f == [i \in 1 .. Len(chain) |-> chain[i]]
<1>1. Len(chain) \in Nat /\ Cardinality(live) \in Nat
  BY PoolFacts, FS_CardinalityType
<1>2. IsFiniteSet(1 .. Len(chain)) /\ Cardinality(1 .. Len(chain)) = Len(chain)
  <2>1. 1 \in Int /\ Len(chain) \in Int
    BY <1>1
  <2>2. /\ IsFiniteSet(1 .. Len(chain))
        /\ Cardinality(1 .. Len(chain)) = IF 1 > Len(chain) THEN 0 ELSE Len(chain) - 1 + 1
    BY <2>1, FS_Interval, Zenon
  <2> QED BY <1>1, <2>2
<1>3. f \in Bijection(1 .. Len(chain), S)
  BY DEF IInv, FreeOrLive, Bijection, Injection, Surjection, IsInjective
<1>4. ExistsBijection(1 .. Len(chain), S)
  BY <1>3 DEF ExistsBijection
<1> HIDE DEF S, f
<1>5. IsFiniteSet(S) /\ Cardinality(S) = Len(chain)
  BY <1>2, <1>4, FS_Bijection
<1>6. S \cap live = {} /\ Managed = S \cup live
  BY DEF S, IInv, FreeOrLive
<1>7. Cardinality(S \cap live) = 0
  BY <1>6, FS_EmptySet
<1>8. /\ IsFiniteSet(S \cup live)
      /\ Cardinality(S \cup live) = Cardinality(S) + Cardinality(live) - Cardinality(S \cap live)
  BY <1>5, FS_Union
<1>9. IsFiniteSet(Managed) /\ Cardinality(Managed) = Len(chain) + Cardinality(live)
  <2>1. PICK l \in Nat, c \in Nat : l = Len(chain) /\ c = Cardinality(live)
    BY <1>1
  <2>2. Cardinality(S \cup live) = l + c - 0
    BY <1>5, <1>7, <1>8, <2>1
  <2> QED BY <1>6, <1>8, <2>1, <2>2
<1> QED BY <1>1, <1>9

(* total_blocks() counts all of them but those of a slab not yet recorded.   *)
LEMMA CountOfRecorded ==
  ASSUME IInv, WInv
  PROVE  /\ TotalBlocks \in Nat /\ Unrecorded \in Nat /\ Cardinality(live) \in Nat
         /\ TotalBlocks + Unrecorded = Len(chain) + Cardinality(live)
<1>1. /\ IsFiniteSet(Managed) /\ Cardinality(Managed) = Len(chain) + Cardinality(live)
      /\ Cardinality(live) \in Nat
  BY CountOfBlocks DEF WInv
<1>2. Counted \subseteq Managed
  <2>1. ASSUME NEW b \in Block, b[2] < recorded[b[1]] PROVE b[2] < slabs[b[1]]
    <3>1. b[1] \in AllRegions /\ b[2] \in Nat
      BY PoolAssumption DEF Block
    <3>2. recorded[b[1]] \in Nat /\ slabs[b[1]] \in Nat /\ recorded[b[1]] <= slabs[b[1]]
      BY <3>1, SlabTypes DEF WInv, WalkTypeOK
    <3> QED BY <2>1, <3>1, <3>2
  <2> QED BY <2>1 DEF Counted, Managed
<1>3. /\ IsFiniteSet(Counted) /\ IsFiniteSet(Managed \ Counted)
      /\ Cardinality(Managed \ Counted) = Cardinality(Managed) - Cardinality(Managed \cap Counted)
  BY <1>1, <1>2, FS_Subset, FS_Difference
<1>4. Managed \cap Counted = Counted
  BY <1>2
<1>5. Cardinality(Counted) \in Nat /\ Cardinality(Managed \ Counted) \in Nat
  BY <1>3, FS_CardinalityType
<1>6. PICK t \in Nat, u \in Nat, m \in Nat :
        t = TotalBlocks /\ u = Unrecorded /\ m = Cardinality(Managed)
  BY <1>1, <1>5, FS_CardinalityType DEF TotalBlocks, Unrecorded
<1>7. u = m - t
  BY <1>3, <1>4, <1>6 DEF TotalBlocks, Unrecorded
<1>8. t + u = m
  BY <1>6, <1>7
<1> QED BY <1>1, <1>6, <1>8

(* The blocks shown as used are the blocks handed out, give or take those     *)
(* the owner took and put back while the walk was under way, and less those  *)
(* of a slab that the walk met before it was recorded.                       *)
THEOREM UsedErrorAlwaysBounded == WalkSpec => UsedErrorBounded
<1>1. IInv /\ WInv /\ [WalkNext]_walkVars =>
        [WalkEnd /\ ~writes =>
           /\ Used + walk.popped + Unrecorded >= Cardinality(live)
           /\ Used + Unrecorded <= Cardinality(live) + walk.pushed]_walkVars
  <2> SUFFICES ASSUME IInv, WInv, WalkEnd, ~writes
               PROVE  /\ Used + walk.popped + Unrecorded >= Cardinality(live)
                      /\ Used + Unrecorded <= Cardinality(live) + walk.pushed
    OBVIOUS
  <2>1. /\ walk.on /\ walk.at = NULL /\ walk.n \in Nat
        /\ walk.popped \in Nat /\ walk.pushed \in Nat /\ Len(chain) \in Nat
    BY PoolFacts DEF WalkEnd, WInv, WalkTypeOK
  <2>2. walk.n <= Len(chain) + walk.popped
    <3>1. PICK f : Upper(f)
      BY DEF WInv
    <3> QED BY <2>1, <3>1, PoolFacts DEF Upper, Dist
  <2>3. Len(chain) <= walk.n + walk.pushed
    <3>1. PICK f : Lower(f)
      BY DEF WInv
    <3> QED BY <2>1, <3>1, PoolFacts DEF Lower, Dist
  <2>4. PICK n \in Nat, l \in Nat, c \in Nat, up \in Nat, down \in Nat,
             t \in Nat, u \in Nat :
          /\ n = walk.n /\ l = Len(chain) /\ c = Cardinality(live)
          /\ up = walk.pushed /\ down = walk.popped
          /\ t = TotalBlocks /\ u = Unrecorded
    BY <2>1, CountOfRecorded
  <2>5. t + u = l + c /\ n <= l + down /\ l <= n + up /\ Used = t - n
    BY <2>2, <2>3, <2>4, CountOfRecorded DEF Used
  <2>6. Used + down + u >= c /\ Used + u <= c + up
    BY <2>5
  <2> QED BY <2>4, <2>6
<1> QED BY <1>1, WInvAlways, PTL DEF WalkSpec, UsedErrorBounded
==============================================================================
