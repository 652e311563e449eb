--------------------------- MODULE Reentry_proofs ---------------------------
(***************************************************************************)
(* Why the calls on a thread's stack neither recurse nor lock a mutex twice.*)
(*                                                                          *)
(* Typed holds of every build: the stack is one of calls that are at points *)
(* of their functions, with a guard exactly where the code has one.  The    *)
(* rest, Nesting, holds of the builds that SoundBuild names, and is of two  *)
(* halves.  StackOK is about the stack alone: which calls can be in which   *)
(* (Within), what each says of the thread (FrameOK), and where a guard must *)
(* be below (NeedsCover).  ThreadOK says that the thread's flag, mutexes,   *)
(* ring and allocator are what the stack says they are.  Neither half is    *)
(* inductive alone: that a push has a guard below rests on the flag that    *)
(* instance() saves, that the flag is right rests on where the guards are.  *)
(*                                                                          *)
(* A step changes the end of one stack in one of three ways: the innermost  *)
(* call moves on (MovedStep), makes a call (CalledStep) or returns          *)
(* (LeftStep).  The lemma of each keeps both halves, whatever the function, *)
(* under hypotheses about the end alone; the lemmas named Nest... then give *)
(* each action those hypotheses.                                            *)
(***************************************************************************)
EXTENDS Reentry, SequenceTheorems, FiniteSetTheorems, TLAPS

(* The builds the properties hold of: a delete that finds its own thread's   *)
(* allocator under construction needs GuardFirst, and one that records an    *)
(* event reaches the ring without a guard.                                  *)
SoundBuild == Override => GuardFirst /\ ~Viz

(* Calls of fn `b' that can be in progress inside one of fn `a'.             *)
Within(a, b) ==
  \/ a = "new" /\ b \in {"instance", "register", "allocate", "acquire", "push", "ring", "new", "delete"}
  \/ a = "delete" /\ b \in {"instance", "register", "deallocate", "push", "ring", "new", "delete"}
  \/ a = "instance" /\ b \in {"register", "push", "new", "delete", "instance"}
  \/ a = "register" /\ b \in {"push", "new", "delete", "instance"}
  \/ a = "allocate" /\ b \in {"acquire", "push", "ring", "new", "delete", "instance"}
  \/ a = "deallocate" /\ b \in {"ring", "new"}
  \/ a = "acquire" /\ b \in {"push", "ring", "new", "delete", "instance"}
  \/ a = "retire" /\ b \in {"push", "new", "delete"}
  \/ a = "push" /\ b \in {"new", "delete", "instance"}
  \/ a = "ring" /\ b = "new"

Guarded(f)  == f.saved # NoGuard
Building(f) == f.fn = "instance" /\ f.pt = "built"
Operator(f) == f.fn \in {"new", "delete"}
Holding(f, m) == \/ m = "registry" /\ f.fn = "register" /\ f.pt \in {"allocators", "unlock"}
                 \/ m = "registry" /\ f.fn = "retire" /\ f.pt = "unlock"
                 \/ m = "central" /\ f.fn = "acquire" /\ f.pt \in {"event", "unlock"}
Making(f)   == f.fn = "ring" /\ f.pt = "built"

(* Where a call has its AllocatorGuard, and that a push has a vector.         *)
GuardPoint(f) == \/ f.fn \in {"new", "delete", "instance", "allocate", "acquire"} /\ f.pt # "start"
                 \/ f.fn = "retire" /\ f.pt \in {"lock", "unlock"}
WellFormed    == {f \in FrameType : /\ Guarded(f) <=> GuardPoint(f)
                                    /\ f.fn = "push" => f.vec \in Vectors}
Typed         == TypeOK /\ stack \in [Threads -> Seq(WellFormed)]

(* A call on its own: what it says of the thread.                            *)
FrameOK(t, f) ==
  /\ Operator(f) /\ f.pt # "start" => Override /\ tls[t] # "gone"
  /\ f.fn = "instance" => tls[t] # "gone"
  /\ Building(f) => tls[t] = "building"
  /\ f.fn = "register" => tls[t] = "building"
  /\ f.fn \in {"allocate", "deallocate", "acquire"} => tls[t] = "live"
  /\ f.fn = "retire" => tls[t] = IF f.pt = "start" THEN "live" ELSE "gone"
  /\ f.fn = "push" => tls[t] # "none"
  /\ f.fn = "ring" => Viz

(* A call f that waits for a call g.                                         *)
Waiting(f, g) ==
  /\ f.fn = "instance" => f.pt = "built"
  /\ f.fn = "retire" => f.pt # "start"
  /\ Operator(f) /\ f.pt = "instance" => g.fn = "instance"

(* A call f made inside others.                                              *)
Inner(f) == /\ f.fn = "new" => f.pt = "start"
            /\ f.fn = "instance" => Override

(* Calls that always have a guard somewhere below them.                      *)
NeedsCover(f, i) == f.fn \in {"push", "register"} \/ (Override /\ i > 1 /\ f.fn = "new")

Depth(t) == Len(stack[t])
StackOK(t) ==
  /\ \A i \in 1 .. Depth(t) : FrameOK(t, stack[t][i])
  /\ \A j \in 1 .. Depth(t) : \A i \in 1 .. j - 1 :
       Within(stack[t][i].fn, stack[t][j].fn) /\ (Building(stack[t][j]) => Operator(stack[t][i]))
  /\ \A i \in 1 .. Depth(t) - 1 : Waiting(stack[t][i], stack[t][i + 1])
  /\ \A i \in 2 .. Depth(t) : Inner(stack[t][i])
  /\ \A i \in 1 .. Depth(t) : NeedsCover(stack[t][i], i) => \E k \in 1 .. i - 1 : Guarded(stack[t][k])

(* What a thread has is what the calls it is in say.                         *)
ThreadOK(t) ==
  /\ active[t] <=> \E i \in 1 .. Depth(t) : Guarded(stack[t][i])
  /\ \A i \in 1 .. Depth(t) : Guarded(stack[t][i]) =>
       (stack[t][i].saved <=> \E k \in 1 .. i - 1 : Guarded(stack[t][k]))
  /\ tls[t] = "building" => \E i \in 1 .. Depth(t) : Building(stack[t][i])
  /\ Depth(t) = 1 /\ Operator(stack[t][1]) /\ stack[t][1].pt = "instance" => tls[t] = "live"
  /\ \A m \in {"registry", "central"} :
       mutex[m] = t <=> \E i \in 1 .. Depth(t) : Holding(stack[t][i], m)
  /\ ring = t <=> \E i \in 1 .. Depth(t) : Making(stack[t][i])

Nesting == \A t \in Threads : StackOK(t) /\ ThreadOK(t)
IInv == Typed /\ (SoundBuild => Nesting)
------------------------------------------------------------------------------

(* The last element of a sequence that is not empty, and what is before it. *)
LEMMA FrontFacts ==
  ASSUME NEW S, NEW s \in Seq(S), s # <<>>
  PROVE  /\ Len(s) \in Nat \ {0} /\ Last(s) = s[Len(s)] /\ Last(s) \in S
         /\ Front(s) \in Seq(S) /\ Len(Front(s)) = Len(s) - 1
         /\ \A i \in 1 .. Len(s) - 1 : Front(s)[i] = s[i]
<1>1. Len(s) \in Nat /\ Len(s) # 0
  BY EmptySeq
<1>2. Front(s) = SubSeq(s, 1, Len(s) - 1) /\ Last(s) = s[Len(s)]
  BY DEF Front, Last
<1>3. s[Len(s)] \in S
  BY <1>1, ElementOfSeq
<1>4. \A i \in 1 .. Len(s) - 1 : s[i] \in S
  BY <1>1, ElementOfSeq
<1>5. Front(s) \in Seq(S) /\ Len(Front(s)) = Len(s) - 1 /\ \A i \in 1 .. Len(s) - 1 : Front(s)[i] = s[i]
  <2> DEFINE n == Len(s) - 1
             q == SubSeq(s, 1, n)
  <2>1. n \in Nat /\ 1 \in Int /\ n \in Int /\ \A i \in 1 .. n : s[i] \in S
    BY <1>1, <1>4
  <2> HIDE DEF n
  <2>2. /\ q \in Seq(S) /\ Len(q) = IF 1 <= n THEN n - 1 + 1 ELSE 0
        /\ \A i \in 1 .. n - 1 + 1 : q[i] = s[1 + i - 1]
    BY <2>1, SubSeqProperties
  <2> HIDE DEF q
  <2>3. q \in Seq(S) /\ Len(q) = n /\ \A i \in 1 .. n : q[i] = s[i]
    BY <2>1, <2>2
  <2> QED BY <1>2, <2>3 DEF q, n
<1> QED BY <1>1, <1>2, <1>3, <1>5

(* The sequence with its last element replaced (Go, GoGuarded). *)
LEMMA ReplacedFacts ==
  ASSUME NEW S, NEW s \in Seq(S), s # <<>>, NEW f \in S
  PROVE  LET r == Append(Front(s), f)
         IN /\ r \in Seq(S) /\ Len(r) = Len(s) /\ r[Len(s)] = f
            /\ \A i \in 1 .. Len(s) - 1 : r[i] = s[i]
BY FrontFacts, AppendProperties

(* The sequence with two in the place of its last element (Calls). *)
LEMMA CalledFacts ==
  ASSUME NEW S, NEW s \in Seq(S), s # <<>>, NEW f \in S, NEW g \in S
  PROVE  LET r == Front(s) \o <<f, g>>
         IN /\ r \in Seq(S) /\ Len(r) = Len(s) + 1 /\ r[Len(s)] = f /\ r[Len(s) + 1] = g
            /\ \A i \in 1 .. Len(s) - 1 : r[i] = s[i]
<1> DEFINE q == <<f, g>>
           p == Front(s)
<1>1. q \in Seq(S) /\ Len(q) = 2 /\ q[1] = f /\ q[2] = g
  OBVIOUS
<1>2. p \in Seq(S) /\ Len(p) = Len(s) - 1 /\ Len(s) \in Nat \ {0} /\ \A i \in 1 .. Len(s) - 1 : p[i] = s[i]
  BY FrontFacts
<1> HIDE DEF q, p
<1>3. /\ p \o q \in Seq(S) /\ Len(p \o q) = Len(p) + 2
      /\ \A i \in 1 .. Len(p) : (p \o q)[i] = p[i]
      /\ \A i \in 1 .. 2 : (p \o q)[Len(p) + i] = q[i]
  <2>1. /\ p \o q \in Seq(S) /\ Len(p \o q) = Len(p) + Len(q)
        /\ \A i \in 1 .. Len(p) + Len(q) : (p \o q)[i] = IF i <= Len(p) THEN p[i] ELSE q[i - Len(p)]
    BY <1>1, <1>2, ConcatProperties
  <2> QED BY <1>1, <1>2, <2>1
<1>4. (p \o q)[Len(s)] = f /\ (p \o q)[Len(s) + 1] = g
  <2>1. Len(p) + 1 = Len(s) /\ Len(p) + 2 = Len(s) + 1
    BY <1>2
  <2> QED BY <1>1, <1>3, <2>1
<1>5. p \o q \in Seq(S) /\ Len(p \o q) = Len(s) + 1 /\ \A i \in 1 .. Len(s) - 1 : (p \o q)[i] = s[i]
  BY <1>2, <1>3
<1> QED BY <1>4, <1>5 DEF p, q

(* What is known of the innermost call.                                      *)
LEMMA TopFacts ==
  ASSUME TypeOK, NEW t \in Threads, StackOK(t), ThreadOK(t), ~Idle(t)
  PROVE  /\ Depth(t) \in Nat \ {0} /\ Top(t) = stack[t][Depth(t)] /\ Top(t) \in FrameType
         /\ stack[t] \in Seq(FrameType) /\ stack[t] # <<>>
         /\ FrameOK(t, Top(t))
         /\ \A m \in {"registry", "central"} : Holding(Top(t), m) => mutex[m] = t
         /\ Making(Top(t)) => ring = t
         /\ Guarded(Top(t)) => active[t]
         /\ NeedsCover(Top(t), Depth(t)) => active[t]
         /\ Depth(t) > 1 => Inner(Top(t))
         /\ \A i \in 1 .. Depth(t) - 1 : /\ Within(stack[t][i].fn, Top(t).fn)
                                         /\ Building(Top(t)) => Operator(stack[t][i])
<1>1. stack[t] \in Seq(FrameType) /\ stack[t] # <<>>
  BY DEF TypeOK, Idle
<1>2. Depth(t) \in Nat \ {0} /\ Top(t) = stack[t][Depth(t)] /\ Top(t) \in FrameType
  BY <1>1, FrontFacts DEF Depth, Top
<1>3. Depth(t) \in 1 .. Depth(t)
  BY <1>2
<1>4. /\ \A m \in {"registry", "central"} : Holding(Top(t), m) => mutex[m] = t
      /\ Making(Top(t)) => ring = t
      /\ Guarded(Top(t)) => active[t]
  BY <1>2, <1>3 DEF ThreadOK
<1>5. NeedsCover(Top(t), Depth(t)) => active[t]
  <2>1. NeedsCover(Top(t), Depth(t)) => \E k \in 1 .. Depth(t) - 1 : Guarded(stack[t][k])
    BY <1>2, <1>3 DEF StackOK
  <2> QED BY <1>2, <2>1 DEF ThreadOK
<1>6. /\ Depth(t) > 1 => Inner(Top(t))
      /\ FrameOK(t, Top(t))
      /\ \A i \in 1 .. Depth(t) - 1 : /\ Within(stack[t][i].fn, Top(t).fn)
                                      /\ Building(Top(t)) => Operator(stack[t][i])
  BY <1>2, <1>3 DEF StackOK
<1> QED BY <1>1, <1>2, <1>4, <1>5, <1>6

(* A mutex is held, and the ring made, by one call at most.                   *)
LEMMA OneHolder ==
  ASSUME NEW t \in Threads, StackOK(t), NEW j \in 1 .. Depth(t), NEW i \in 1 .. j - 1, NEW m
  PROVE  ~(Holding(stack[t][i], m) /\ Holding(stack[t][j], m)) /\ ~(Making(stack[t][i]) /\ Making(stack[t][j]))
<1>1. Within(stack[t][i].fn, stack[t][j].fn)
  BY DEF StackOK
<1> QED BY <1>1 DEF Within, Holding, Making

(* What a step changes of a thread's allocator leaves the calls below as they *)
(* have to be.                                                              *)
LowerKept(t) == \/ tls'[t] = tls[t]
                \/ Depth(t) = 1
                \/ tls'[t] # "gone" /\ \A i \in 1 .. Depth(t) - 1 : Operator(stack[t][i])

(* The innermost call is at a new point, f now.                              *)
Locked(t, f) ==
  /\ \A m \in {"registry", "central"} :
       mutex'[m] = t <=> Holding(f, m) \/ (mutex[m] = t /\ ~Holding(Top(t), m))
  /\ ring' = t <=> Making(f) \/ (ring = t /\ ~Making(Top(t)))

(* The calls below the innermost one still say the truth of the thread. *)
LEMMA LowerFrames ==
  ASSUME TypeOK, NEW t \in Threads, StackOK(t), UNCHANGED build, LowerKept(t),
         NEW i \in 1 .. Depth(t) - 1, stack'[t][i] = stack[t][i], Depth(t) \in Nat \ {0}
  PROVE  FrameOK(t, stack[t][i])'
<1>1. FrameOK(t, stack[t][i])
  BY DEF StackOK
<1> QED BY <1>1 DEF LowerKept, FrameOK, Operator, Guarded, Building, Override, Viz

(* The innermost call has moved on: the stack it leaves. *)
LEMMA MovedStack ==
  ASSUME TypeOK, NEW t \in Threads, ~Idle(t), NEW f \in FrameType,
         stack' = [stack EXCEPT ![t] = Append(Front(@), f)]
  PROVE  /\ Depth(t)' = Depth(t) /\ stack'[t][Depth(t)] = f
         /\ \A i \in 1 .. Depth(t) - 1 : stack'[t][i] = stack[t][i]
         /\ stack' \in [Threads -> Seq(FrameType)]
<1>1. stack[t] \in Seq(FrameType) /\ stack[t] # <<>>
  BY DEF TypeOK, Idle
<1>2. stack'[t] = Append(Front(stack[t]), f)
  BY DEF TypeOK
<1> QED BY <1>1, <1>2, ReplacedFacts DEF Depth, TypeOK

(* The two halves after it has, from what the stack now is. *)
LEMMA Moved ==
  ASSUME TypeOK, NEW t \in Threads, StackOK(t), ThreadOK(t),
         Depth(t) \in Nat \ {0}, Top(t) = stack[t][Depth(t)], NEW f,
         Depth(t)' = Depth(t), stack'[t][Depth(t)] = f, UNCHANGED build,
         \A i \in 1 .. Depth(t) - 1 : stack'[t][i] = stack[t][i],
         f.fn = Top(t).fn, FrameOK(t, f)', LowerKept(t), ~Building(f), Depth(t) > 1 => Inner(f),
         Operator(f) => f.pt # "instance",
         tls'[t] = "building" => tls[t] = "building" /\ ~Building(Top(t)),
         \/ f.saved = Top(t).saved /\ active'[t] = active[t]
         \/ ~Guarded(Top(t)) /\ f.saved = active[t] /\ active'[t]
         \/ Depth(t) = 1 /\ ~Guarded(f) /\ ~active'[t],
         \A m \in {"registry", "central"} :
           mutex'[m] = t <=> Holding(f, m) \/ (mutex[m] = t /\ ~Holding(Top(t), m)),
         ring' = t <=> Making(f) \/ (ring = t /\ ~Making(Top(t)))
  PROVE  StackOK(t)' /\ ThreadOK(t)'
<1>1. Depth(t) \in 1 .. Depth(t) /\ \A i \in 1 .. Depth(t) : i = Depth(t) \/ i \in 1 .. Depth(t) - 1
  OBVIOUS
<1>3. Depth(t)' = Depth(t) /\ stack'[t][Depth(t)] = f /\ \A i \in 1 .. Depth(t) - 1 : stack'[t][i] = stack[t][i]
  OBVIOUS
<1>4. \A i \in 1 .. Depth(t) : stack'[t][i].fn = stack[t][i].fn
  BY <1>1, <1>3
<1>5. \A i \in 1 .. Depth(t) - 1 : FrameOK(t, stack[t][i])'
  BY <1>1, <1>3, LowerFrames
<1>6. StackOK(t)'
  <2>1. \A i \in 1 .. Depth(t) : FrameOK(t, stack[t][i])'
    BY <1>1, <1>3, <1>5
  <2>2. ASSUME NEW j \in 1 .. Depth(t), NEW i \in 1 .. j - 1
        PROVE  /\ Within(stack'[t][i].fn, stack'[t][j].fn)
               /\ Building(stack'[t][j]) => Operator(stack'[t][i])
    <3>1. /\ Within(stack[t][i].fn, stack[t][j].fn)
          /\ Building(stack[t][j]) => Operator(stack[t][i])
      BY DEF StackOK
    <3>2. stack'[t][i] = stack[t][i] /\ (j # Depth(t) => stack'[t][j] = stack[t][j]) /\ i \in 1 .. Depth(t)
      BY <1>1, <1>3
    <3> QED BY <1>3, <1>4, <3>1, <3>2
  <2>3. ASSUME NEW i \in 1 .. Depth(t) - 1 PROVE Waiting(stack'[t][i], stack'[t][i + 1])
    <3>1. Waiting(stack[t][i], stack[t][i + 1])
      BY DEF StackOK
    <3>2. stack'[t][i] = stack[t][i] /\ stack'[t][i + 1].fn = stack[t][i + 1].fn
      BY <1>1, <1>3, <1>4
    <3> QED BY <3>1, <3>2 DEF Waiting
  <2>4. ASSUME NEW i \in 2 .. Depth(t) PROVE Inner(stack[t][i])'
    <3>1. Inner(stack[t][i]) /\ (i # Depth(t) => stack'[t][i] = stack[t][i])
      BY <1>1, <1>3 DEF StackOK
    <3>2. CASE i = Depth(t)
      BY <1>3, <3>2 DEF Inner, Override
    <3> QED BY <3>1, <3>2 DEF Inner, Override
  <2>5. ASSUME NEW i \in 1 .. Depth(t), NeedsCover(stack[t][i], i)'
        PROVE  \E k \in 1 .. i - 1 : Guarded(stack'[t][k])
    <3>1. NeedsCover(stack[t][i], i)
      BY <1>4, <2>5 DEF NeedsCover, Override
    <3>2. \E k \in 1 .. i - 1 : Guarded(stack[t][k])
      BY <3>1 DEF StackOK
    <3> QED BY <1>1, <1>3, <3>2
  <2> QED BY <1>3, <2>1, <2>2, <2>3, <2>4, <2>5 DEF StackOK
<1>7. ThreadOK(t)'
  <2>1. /\ active'[t] <=> \E i \in 1 .. Depth(t) : Guarded(stack'[t][i])
        /\ \A i \in 1 .. Depth(t) : Guarded(stack'[t][i]) =>
             (stack'[t][i].saved <=> \E k \in 1 .. i - 1 : Guarded(stack'[t][k]))
    <3>1. /\ active[t] <=> Guarded(Top(t)) \/ \E i \in 1 .. Depth(t) - 1 : Guarded(stack[t][i])
          /\ Guarded(Top(t)) => (Top(t).saved <=> \E k \in 1 .. Depth(t) - 1 : Guarded(stack[t][k]))
          /\ active[t] \in BOOLEAN
      BY <1>1 DEF ThreadOK, TypeOK
    <3>2. /\ \A i \in 1 .. Depth(t) - 1 : Guarded(stack'[t][i]) = Guarded(stack[t][i])
          /\ Guarded(stack'[t][Depth(t)]) = Guarded(f)
      BY <1>3
    <3>3. active'[t] <=> Guarded(f) \/ \E i \in 1 .. Depth(t) - 1 : Guarded(stack[t][i])
      BY <3>1, ReentryAssumption DEF Guarded
    <3>4. Guarded(f) => (f.saved <=> \E k \in 1 .. Depth(t) - 1 : Guarded(stack[t][k]))
      BY <3>1, ReentryAssumption DEF Guarded
    <3>5. ASSUME NEW i \in 1 .. Depth(t) - 1, Guarded(stack[t][i])
          PROVE  stack[t][i].saved <=> \E k \in 1 .. i - 1 : Guarded(stack'[t][k])
      <4>1. stack[t][i].saved <=> \E k \in 1 .. i - 1 : Guarded(stack[t][k])
        BY <1>1, <3>5 DEF ThreadOK
      <4>2. \A k \in 1 .. i - 1 : Guarded(stack'[t][k]) = Guarded(stack[t][k])
        BY <1>1, <3>2
      <4> QED BY <4>1, <4>2
    <3>6. ASSUME Guarded(stack'[t][Depth(t)])
          PROVE  stack'[t][Depth(t)].saved <=> \E k \in 1 .. Depth(t) - 1 : Guarded(stack'[t][k])
      BY <1>3, <3>2, <3>4, <3>6
    <3>7. ASSUME NEW i \in 1 .. Depth(t), Guarded(stack'[t][i])
          PROVE  stack'[t][i].saved <=> \E k \in 1 .. i - 1 : Guarded(stack'[t][k])
      <4>1. CASE i = Depth(t)
        BY <3>6, <3>7, <4>1
      <4>2. CASE i \in 1 .. Depth(t) - 1
        BY <1>3, <3>2, <3>5, <3>7, <4>2
      <4> QED BY <1>1, <4>1, <4>2
    <3>8. active'[t] <=> \E i \in 1 .. Depth(t) : Guarded(stack'[t][i])
      BY <1>1, <3>2, <3>3
    <3> QED BY <3>7, <3>8
  <2>2. tls'[t] = "building" => \E i \in 1 .. Depth(t) : Building(stack'[t][i])
    <3>1. tls'[t] = "building" => \E i \in 1 .. Depth(t) - 1 : Building(stack[t][i])
      BY <1>1 DEF ThreadOK
    <3> QED BY <1>1, <1>3, <3>1
  <2>3. Depth(t) = 1 /\ Operator(stack'[t][1]) /\ stack'[t][1].pt = "instance" => tls'[t] = "live"
    BY <1>3
  <2>4. ASSUME NEW m \in {"registry", "central"}
        PROVE  mutex'[m] = t <=> \E i \in 1 .. Depth(t) : Holding(stack'[t][i], m)
    <3>1. mutex[m] = t <=> \E i \in 1 .. Depth(t) : Holding(stack[t][i], m)
      BY DEF ThreadOK
    <3>2. Holding(Top(t), m) => \A i \in 1 .. Depth(t) - 1 : ~Holding(stack[t][i], m)
      BY <1>1, OneHolder
    <3>3. mutex'[m] = t <=> Holding(f, m) \/ (mutex[m] = t /\ ~Holding(Top(t), m))
      BY DEF Locked
    <3>4. mutex'[m] = t <=> Holding(f, m) \/ \E i \in 1 .. Depth(t) - 1 : Holding(stack[t][i], m)
      BY <1>1, <3>1, <3>2, <3>3
    <3> QED BY <1>1, <1>3, <3>4
  <2>5. ring' = t <=> \E i \in 1 .. Depth(t) : Making(stack'[t][i])
    <3>1. ring = t <=> \E i \in 1 .. Depth(t) : Making(stack[t][i])
      BY DEF ThreadOK
    <3>2. Making(Top(t)) => \A i \in 1 .. Depth(t) - 1 : ~Making(stack[t][i])
      BY <1>1, OneHolder
    <3>3. ring' = t <=> Making(f) \/ (ring = t /\ ~Making(Top(t)))
      BY DEF Locked
    <3>4. ring' = t <=> Making(f) \/ \E i \in 1 .. Depth(t) - 1 : Making(stack[t][i])
      BY <1>1, <3>1, <3>2, <3>3
    <3> QED BY <1>1, <1>3, <3>4
  <2> QED BY <1>3, <2>1, <2>2, <2>3, <2>4, <2>5 DEF ThreadOK
<1> QED BY <1>6, <1>7

(* The same from the step: what an action has to show of the end it *)
(* changes. *)
LEMMA MovedStep ==
  ASSUME TypeOK, NEW t \in Threads, StackOK(t), ThreadOK(t), ~Idle(t), NEW f \in FrameType,
         stack' = [stack EXCEPT ![t] = Append(Front(@), f)], UNCHANGED build,
         f.fn = Top(t).fn, FrameOK(t, f)', LowerKept(t), ~Building(f), Depth(t) > 1 => Inner(f),
         Operator(f) => f.pt # "instance",
         tls'[t] = "building" => tls[t] = "building" /\ ~Building(Top(t)),
         \/ f.saved = Top(t).saved /\ active'[t] = active[t]
         \/ ~Guarded(Top(t)) /\ f.saved = active[t] /\ active'[t]
         \/ Depth(t) = 1 /\ ~Guarded(f) /\ ~active'[t],
         Locked(t, f)
  PROVE  StackOK(t)' /\ ThreadOK(t)' /\ stack' \in [Threads -> Seq(FrameType)]
<1>1. /\ Depth(t)' = Depth(t) /\ stack'[t][Depth(t)] = f
      /\ \A i \in 1 .. Depth(t) - 1 : stack'[t][i] = stack[t][i]
      /\ stack' \in [Threads -> Seq(FrameType)]
  BY MovedStack
<1>2. Depth(t) \in Nat \ {0} /\ Top(t) = stack[t][Depth(t)]
  BY TopFacts
<1>3. StackOK(t)' /\ ThreadOK(t)'
  BY <1>1, <1>2, Moved DEF Locked
<1> QED BY <1>1, <1>3

(* It has called another, g.                                                 *)
LEMMA CalledStack ==
  ASSUME TypeOK, NEW t \in Threads, ~Idle(t), NEW f \in FrameType, NEW g \in FrameType,
         stack' = [stack EXCEPT ![t] = Front(@) \o <<f, g>>]
  PROVE  /\ Depth(t)' = Depth(t) + 1 /\ stack'[t][Depth(t)] = f /\ stack'[t][Depth(t) + 1] = g
         /\ \A i \in 1 .. Depth(t) - 1 : stack'[t][i] = stack[t][i]
         /\ stack' \in [Threads -> Seq(FrameType)]
<1>1. stack[t] \in Seq(FrameType) /\ stack[t] # <<>>
  BY DEF TypeOK, Idle
<1>2. stack'[t] = Front(stack[t]) \o <<f, g>>
  BY DEF TypeOK
<1> QED BY <1>1, <1>2, CalledFacts DEF Depth, TypeOK

(* The two halves after a call has begun. *)
LEMMA Called ==
  ASSUME TypeOK, NEW t \in Threads, StackOK(t), ThreadOK(t),
         Depth(t) \in Nat \ {0}, Top(t) = stack[t][Depth(t)], NEW f, NEW g,
         Depth(t)' = Depth(t) + 1, stack'[t][Depth(t)] = f, stack'[t][Depth(t) + 1] = g,
         \A i \in 1 .. Depth(t) - 1 : stack'[t][i] = stack[t][i], UNCHANGED build,
         f.fn = Top(t).fn, FrameOK(t, f)', FrameOK(t, g)', LowerKept(t),
         Depth(t) > 1 => Inner(f), Inner(g), Waiting(f, g),
         \A i \in 1 .. Depth(t) - 1 : Within(stack[t][i].fn, g.fn) /\ (Building(f) => Operator(stack[t][i])),
         Within(Top(t).fn, g.fn), ~Building(g), NeedsCover(g, 2) => active[t],
         tls'[t] = "building" => Building(f) \/ (tls[t] = "building" /\ ~Building(Top(t))),
         f.saved = Top(t).saved, ~Guarded(g), active'[t] = active[t],
         \A m \in {"registry", "central"} :
           /\ mutex'[m] = t <=> Holding(f, m) \/ (mutex[m] = t /\ ~Holding(Top(t), m))
           /\ ~Holding(g, m),
         ring' = t <=> Making(f) \/ (ring = t /\ ~Making(Top(t))), ~Making(g)
  PROVE  StackOK(t)' /\ ThreadOK(t)'
<1>1. /\ Depth(t) \in 1 .. Depth(t) /\ Depth(t) + 1 \in 1 .. Depth(t) + 1 /\ Depth(t) # Depth(t) + 1
      /\ Depth(t) + 1 \in Nat /\ (Depth(t) + 1) - 1 = Depth(t)
      /\ \A i \in 1 .. Depth(t) : i = Depth(t) \/ i \in 1 .. Depth(t) - 1
      /\ \A i \in 1 .. Depth(t) + 1 : i = Depth(t) + 1 \/ i \in 1 .. Depth(t)
      /\ \A i \in 1 .. Depth(t) - 1 : i \in 1 .. Depth(t) /\ i + 1 \in 1 .. Depth(t)
  OBVIOUS
<1>2. /\ Depth(t)' = Depth(t) + 1 /\ stack'[t][Depth(t)] = f /\ stack'[t][Depth(t) + 1] = g
      /\ \A i \in 1 .. Depth(t) - 1 : stack'[t][i] = stack[t][i]
  OBVIOUS
<1>3. \A i \in 1 .. Depth(t) : stack'[t][i].fn = stack[t][i].fn /\ stack'[t][i].saved = stack[t][i].saved
  BY <1>1, <1>2
<1>4. \A i \in 1 .. Depth(t) - 1 : FrameOK(t, stack[t][i])'
  BY <1>2, LowerFrames
<1>5. \A i \in 1 .. Depth(t) : Guarded(stack'[t][i]) = Guarded(stack[t][i])
  BY <1>3 DEF Guarded
<1>6. active[t] <=> \E k \in 1 .. Depth(t) : Guarded(stack'[t][k])
  BY <1>5 DEF ThreadOK
<1>7. StackOK(t)'
  <2>1. \A i \in 1 .. Depth(t) + 1 : FrameOK(t, stack[t][i])'
    BY <1>1, <1>2, <1>4
  <2>2. ASSUME NEW j \in 1 .. Depth(t) + 1, NEW i \in 1 .. j - 1
        PROVE  /\ Within(stack'[t][i].fn, stack'[t][j].fn)
               /\ Building(stack'[t][j]) => Operator(stack'[t][i])
    <3>1. CASE j = Depth(t) + 1
      <4>1. i \in 1 .. Depth(t)
        BY <3>1
      <4>2. stack'[t][j] = g
        BY <1>2, <3>1
      <4>4. Within(stack[t][i].fn, g.fn)
        <5>1. CASE i = Depth(t)
          BY <5>1
        <5>2. CASE i \in 1 .. Depth(t) - 1
          BY <5>2
        <5> QED BY <1>1, <4>1, <5>1, <5>2
      <4>3. stack'[t][i].fn = stack[t][i].fn
        BY <1>3, <4>1
      <4> QED BY <4>2, <4>3, <4>4
    <3>2. CASE j \in 1 .. Depth(t)
      <4>1. /\ Within(stack[t][i].fn, stack[t][j].fn)
            /\ Building(stack[t][j]) => Operator(stack[t][i])
        BY <3>2 DEF StackOK
      <4>2. i \in 1 .. Depth(t) - 1
        BY <3>2
      <4>3. stack'[t][i] = stack[t][i] /\ stack'[t][j].fn = stack[t][j].fn
        BY <1>2, <1>3, <3>2, <4>2
      <4>4. CASE j = Depth(t)
        <5>1. stack'[t][j] = f /\ (Building(f) => Operator(stack[t][i]))
          BY <1>2, <4>2, <4>4
        <5> QED BY <4>1, <4>3, <5>1
      <4>5. CASE j \in 1 .. Depth(t) - 1
        BY <1>2, <4>1, <4>3, <4>5
      <4> QED BY <1>1, <3>2, <4>4, <4>5
    <3> QED BY <1>1, <3>1, <3>2
  <2>3. ASSUME NEW i \in 1 .. Depth(t) PROVE Waiting(stack'[t][i], stack'[t][i + 1])
    <3>1. CASE i = Depth(t)
      BY <1>2, <3>1
    <3>2. CASE i \in 1 .. Depth(t) - 1
      <4>1. Waiting(stack[t][i], stack[t][i + 1])
        BY <3>2 DEF StackOK
      <4>2. stack'[t][i] = stack[t][i] /\ stack'[t][i + 1].fn = stack[t][i + 1].fn
        BY <1>1, <1>2, <1>3, <3>2
      <4> QED BY <4>1, <4>2 DEF Waiting
    <3> QED BY <1>1, <3>1, <3>2
  <2>4. ASSUME NEW i \in 2 .. Depth(t) + 1 PROVE Inner(stack[t][i])'
    <3>1. CASE i = Depth(t) + 1
      BY <1>2, <3>1 DEF Inner, Override
    <3>2. CASE i = Depth(t)
      <4>1. Depth(t) > 1
        BY <3>2
      <4> QED BY <1>2, <3>2, <4>1 DEF Inner, Override
    <3>3. CASE i \in 2 .. Depth(t) - 1
      <4>1. Inner(stack[t][i]) /\ stack'[t][i] = stack[t][i]
        BY <1>2, <3>3 DEF StackOK
      <4> QED BY <4>1 DEF Inner, Override
    <3> QED BY <3>1, <3>2, <3>3
  <2>5. ASSUME NEW i \in 1 .. Depth(t) + 1, NeedsCover(stack[t][i], i)'
        PROVE  \E k \in 1 .. i - 1 : Guarded(stack'[t][k])
    <3>1. CASE i = Depth(t) + 1
      <4>1. NeedsCover(g, 2)
        BY <1>2, <2>5, <3>1 DEF NeedsCover, Override
      <4> QED BY <1>1, <1>6, <3>1, <4>1
    <3>2. CASE i \in 1 .. Depth(t)
      <4>1. NeedsCover(stack[t][i], i)
        BY <1>3, <2>5, <3>2 DEF NeedsCover, Override
      <4>2. PICK k \in 1 .. i - 1 : Guarded(stack[t][k])
        BY <3>2, <4>1 DEF StackOK
      <4>3. k \in 1 .. Depth(t)
        BY <3>2
      <4> QED BY <1>5, <4>2, <4>3
    <3> QED BY <1>1, <3>1, <3>2
  <2> QED BY <1>1, <1>2, <2>1, <2>2, <2>3, <2>4, <2>5 DEF StackOK
<1>8. ThreadOK(t)'
  <2>1. active'[t] <=> \E i \in 1 .. Depth(t) + 1 : Guarded(stack'[t][i])
    BY <1>1, <1>2, <1>6
  <2>2. ASSUME NEW i \in 1 .. Depth(t) + 1, Guarded(stack'[t][i])
        PROVE  stack'[t][i].saved <=> \E k \in 1 .. i - 1 : Guarded(stack'[t][k])
    <3>1. i \in 1 .. Depth(t)
      BY <1>1, <1>2, <2>2
    <3>2. stack[t][i].saved <=> \E k \in 1 .. i - 1 : Guarded(stack[t][k])
      BY <1>5, <2>2, <3>1 DEF ThreadOK
    <3>3. \A k \in 1 .. i - 1 : Guarded(stack'[t][k]) = Guarded(stack[t][k])
      BY <1>5, <3>1
    <3> QED BY <1>3, <3>1, <3>2, <3>3
  <2>3. tls'[t] = "building" => \E i \in 1 .. Depth(t) + 1 : Building(stack'[t][i])
    <3>1. tls[t] = "building" => \E i \in 1 .. Depth(t) : Building(stack[t][i])
      BY DEF ThreadOK
    <3>2. tls'[t] = "building" => Building(f) \/ \E i \in 1 .. Depth(t) - 1 : Building(stack[t][i])
      BY <1>1, <3>1
    <3> QED BY <1>1, <1>2, <3>2
  <2>4. ASSUME NEW m \in {"registry", "central"}
        PROVE  mutex'[m] = t <=> \E i \in 1 .. Depth(t) + 1 : Holding(stack'[t][i], m)
    <3>1. mutex[m] = t <=> \E i \in 1 .. Depth(t) : Holding(stack[t][i], m)
      BY DEF ThreadOK
    <3>2. Holding(Top(t), m) => \A i \in 1 .. Depth(t) - 1 : ~Holding(stack[t][i], m)
      BY <1>1, OneHolder
    <3>3. mutex'[m] = t <=> Holding(f, m) \/ \E i \in 1 .. Depth(t) - 1 : Holding(stack[t][i], m)
      BY <1>1, <3>1, <3>2
    <3> QED BY <1>1, <1>2, <3>3
  <2>5. ring' = t <=> \E i \in 1 .. Depth(t) + 1 : Making(stack'[t][i])
    <3>1. ring = t <=> \E i \in 1 .. Depth(t) : Making(stack[t][i])
      BY DEF ThreadOK
    <3>2. Making(Top(t)) => \A i \in 1 .. Depth(t) - 1 : ~Making(stack[t][i])
      BY <1>1, OneHolder
    <3>3. ring' = t <=> Making(f) \/ \E i \in 1 .. Depth(t) - 1 : Making(stack[t][i])
      BY <1>1, <3>1, <3>2
    <3> QED BY <1>1, <1>2, <3>3
  <2> QED BY <1>1, <1>2, <2>1, <2>2, <2>3, <2>4, <2>5 DEF ThreadOK
<1> QED BY <1>7, <1>8

(* The same from the step. *)
LEMMA CalledStep ==
  ASSUME TypeOK, NEW t \in Threads, StackOK(t), ThreadOK(t), ~Idle(t), NEW f \in FrameType, NEW g \in FrameType,
         stack' = [stack EXCEPT ![t] = Front(@) \o <<f, g>>], UNCHANGED build,
         f.fn = Top(t).fn, f.saved = Top(t).saved, FrameOK(t, f)', FrameOK(t, g)', LowerKept(t),
         Depth(t) > 1 => Inner(f),
         Inner(g), Waiting(f, g), g.pt = "start", ~Guarded(g), NeedsCover(g, 2) => active[t],
         Within(Top(t).fn, g.fn),
         \A i \in 1 .. Depth(t) - 1 : Within(stack[t][i].fn, g.fn) /\ (Building(f) => Operator(stack[t][i])),
         tls'[t] = "building" => Building(f) \/ (tls[t] = "building" /\ ~Building(Top(t))),
         active'[t] = active[t], Locked(t, f)
  PROVE  StackOK(t)' /\ ThreadOK(t)' /\ stack' \in [Threads -> Seq(FrameType)]
<1>1. /\ Depth(t)' = Depth(t) + 1 /\ stack'[t][Depth(t)] = f /\ stack'[t][Depth(t) + 1] = g
      /\ \A i \in 1 .. Depth(t) - 1 : stack'[t][i] = stack[t][i]
      /\ stack' \in [Threads -> Seq(FrameType)]
  BY CalledStack
<1>2. Depth(t) \in Nat \ {0} /\ Top(t) = stack[t][Depth(t)]
  BY TopFacts
<1>3. ~Building(g) /\ ~Making(g)
  BY DEF Holding, Making, Building
<1>4. /\ \A m \in {"registry", "central"} :
           /\ mutex'[m] = t <=> Holding(f, m) \/ (mutex[m] = t /\ ~Holding(Top(t), m))
           /\ ~Holding(g, m)
      /\ ring' = t <=> Making(f) \/ (ring = t /\ ~Making(Top(t)))
  BY DEF Locked, Holding
<1>5. StackOK(t)' /\ ThreadOK(t)'
  BY <1>1, <1>2, <1>3, <1>4, Called
<1> QED BY <1>1, <1>5

(* It has returned.                                                          *)
LEMMA LeftStack ==
  ASSUME TypeOK, NEW t \in Threads, ~Idle(t), stack' = [stack EXCEPT ![t] = Front(@)]
  PROVE  /\ Depth(t)' = Depth(t) - 1
         /\ \A i \in 1 .. Depth(t) - 1 : stack'[t][i] = stack[t][i]
         /\ stack' \in [Threads -> Seq(FrameType)]
<1>1. stack[t] \in Seq(FrameType) /\ stack[t] # <<>>
  BY DEF TypeOK, Idle
<1>2. stack'[t] = Front(stack[t])
  BY DEF TypeOK
<1>3. stack' \in [Threads -> Seq(FrameType)]
  <2>1. Front(stack[t]) \in Seq(FrameType)
    BY <1>1, FrontFacts
  <2> QED BY <2>1 DEF TypeOK
<1>4. Len(stack'[t]) = Len(stack[t]) - 1
  BY <1>1, <1>2, FrontFacts
<1>5. \A i \in 1 .. Len(stack[t]) - 1 : stack'[t][i] = stack[t][i]
  BY <1>1, <1>2, FrontFacts
<1> QED BY <1>3, <1>4, <1>5 DEF Depth

(* The two halves after a return. *)
LEMMA Left ==
  ASSUME TypeOK, NEW t \in Threads, StackOK(t), ThreadOK(t), Depth(t) \in Nat \ {0},
         Top(t) = stack[t][Depth(t)], Depth(t)' = Depth(t) - 1,
         \A i \in 1 .. Depth(t) - 1 : stack'[t][i] = stack[t][i], UNCHANGED build, tls'[t] = tls[t],
         ~Building(Top(t)), Top(t).fn = "instance" => tls[t] \in {"live", "building"},
         active'[t] = IF Guarded(Top(t)) THEN Top(t).saved ELSE active[t],
         \A m \in {"registry", "central"} : mutex'[m] = t <=> mutex[m] = t /\ ~Holding(Top(t), m),
         ring' = t <=> ring = t /\ ~Making(Top(t))
  PROVE  StackOK(t)' /\ ThreadOK(t)'
<1>1. /\ Depth(t) \in 1 .. Depth(t) /\ Depth(t) - 1 \in Nat
      /\ \A i \in 1 .. Depth(t) : i = Depth(t) \/ i \in 1 .. Depth(t) - 1
      /\ \A i \in 1 .. (Depth(t) - 1) - 1 : i \in 1 .. Depth(t) - 1 /\ i + 1 \in 1 .. Depth(t) - 1
      /\ \A j \in 1 .. Depth(t) - 1 : \A i \in 1 .. j - 1 : i \in 1 .. Depth(t) - 1
  OBVIOUS
<1>2. \A i \in 1 .. Depth(t) - 1 : FrameOK(t, stack[t][i])'
  BY LowerFrames DEF LowerKept
<1>3. StackOK(t)'
  <2>1. \A j \in 1 .. Depth(t) - 1 : \A i \in 1 .. j - 1 :
          Within(stack'[t][i].fn, stack'[t][j].fn) /\ (Building(stack'[t][j]) => Operator(stack'[t][i]))
    BY <1>1 DEF StackOK
  <2>2. \A i \in 1 .. (Depth(t) - 1) - 1 : Waiting(stack'[t][i], stack'[t][i + 1])
    BY <1>1 DEF StackOK
  <2>3. ASSUME NEW i \in 2 .. Depth(t) - 1 PROVE Inner(stack[t][i])'
    <3>1. Inner(stack[t][i]) /\ stack'[t][i] = stack[t][i]
      BY DEF StackOK
    <3> QED BY <3>1 DEF Inner, Override
  <2>4. ASSUME NEW i \in 1 .. Depth(t) - 1, NeedsCover(stack[t][i], i)'
        PROVE  \E k \in 1 .. i - 1 : Guarded(stack'[t][k])
    <3>1. NeedsCover(stack[t][i], i)
      BY <2>4 DEF NeedsCover, Override
    <3>2. PICK k \in 1 .. i - 1 : Guarded(stack[t][k])
      BY <1>1, <3>1 DEF StackOK
    <3> QED BY <1>1, <3>2
  <2> QED BY <1>2, <2>1, <2>2, <2>3, <2>4 DEF StackOK
<1>4. ThreadOK(t)'
  <2>1. /\ active[t] <=> Guarded(Top(t)) \/ \E i \in 1 .. Depth(t) - 1 : Guarded(stack[t][i])
        /\ Guarded(Top(t)) => (Top(t).saved <=> \E k \in 1 .. Depth(t) - 1 : Guarded(stack[t][k]))
    BY <1>1 DEF ThreadOK
  <2>2. active'[t] <=> \E i \in 1 .. Depth(t) - 1 : Guarded(stack'[t][i])
    <3>1. active'[t] <=> \E i \in 1 .. Depth(t) - 1 : Guarded(stack[t][i])
      BY <2>1
    <3> QED BY <3>1
  <2>3. ASSUME NEW i \in 1 .. Depth(t) - 1, Guarded(stack'[t][i])
        PROVE  stack'[t][i].saved <=> \E k \in 1 .. i - 1 : Guarded(stack'[t][k])
    <3>1. stack[t][i].saved <=> \E k \in 1 .. i - 1 : Guarded(stack[t][k])
      BY <1>1, <2>3 DEF ThreadOK
    <3> QED BY <1>1, <3>1
  <2>4. tls'[t] = "building" => \E i \in 1 .. Depth(t) - 1 : Building(stack'[t][i])
    <3>1. tls[t] = "building" => \E i \in 1 .. Depth(t) - 1 : Building(stack[t][i])
      BY <1>1 DEF ThreadOK
    <3> QED BY <3>1
  <2>5. ASSUME Depth(t) - 1 = 1, Operator(stack'[t][1]), stack'[t][1].pt = "instance"
        PROVE  tls'[t] = "live"
    <3>1. Depth(t) = 2 /\ Top(t) = stack[t][2] /\ stack'[t][1] = stack[t][1] /\ 1 \in 1 .. Depth(t) - 1
      BY <2>5
    <3>2. Waiting(stack[t][1], stack[t][1 + 1])
      BY <3>1 DEF StackOK
    <3>3. Top(t).fn = "instance"
      BY <2>5, <3>1, <3>2 DEF Waiting
    <3>4. tls[t] # "building"
      <4>1. ~Building(stack[t][1]) /\ ~Building(stack[t][2])
        BY <2>5, <3>1 DEF Building, Operator
      <4>2. \A i \in 1 .. Depth(t) : i = 1 \/ i = 2
        BY <3>1
      <4> QED BY <4>1, <4>2 DEF ThreadOK
    <3> QED BY <3>3, <3>4
  <2>6. ASSUME NEW m \in {"registry", "central"}
        PROVE  mutex'[m] = t <=> \E i \in 1 .. Depth(t) - 1 : Holding(stack'[t][i], m)
    <3>1. mutex[m] = t <=> \E i \in 1 .. Depth(t) : Holding(stack[t][i], m)
      BY DEF ThreadOK
    <3>2. Holding(Top(t), m) => \A i \in 1 .. Depth(t) - 1 : ~Holding(stack[t][i], m)
      BY <1>1, OneHolder
    <3>3. mutex'[m] = t <=> \E i \in 1 .. Depth(t) - 1 : Holding(stack[t][i], m)
      BY <1>1, <3>1, <3>2
    <3> QED BY <3>3
  <2>7. ring' = t <=> \E i \in 1 .. Depth(t) - 1 : Making(stack'[t][i])
    <3>1. ring = t <=> \E i \in 1 .. Depth(t) : Making(stack[t][i])
      BY DEF ThreadOK
    <3>2. Making(Top(t)) => \A i \in 1 .. Depth(t) - 1 : ~Making(stack[t][i])
      BY <1>1, OneHolder
    <3>3. ring' = t <=> \E i \in 1 .. Depth(t) - 1 : Making(stack[t][i])
      BY <1>1, <3>1, <3>2
    <3> QED BY <3>3
  <2> QED BY <2>2, <2>3, <2>4, <2>5, <2>6, <2>7 DEF ThreadOK
<1> QED BY <1>3, <1>4

(* The same from the step. *)
LEMMA LeftStep ==
  ASSUME TypeOK, NEW t \in Threads, StackOK(t), ThreadOK(t), ~Idle(t),
         stack' = [stack EXCEPT ![t] = Front(@)], UNCHANGED build, tls'[t] = tls[t],
         ~Building(Top(t)), Top(t).fn = "instance" => tls[t] \in {"live", "building"},
         active'[t] = IF Guarded(Top(t)) THEN Top(t).saved ELSE active[t],
         \A m \in {"registry", "central"} : mutex'[m] = t <=> mutex[m] = t /\ ~Holding(Top(t), m),
         ring' = t <=> ring = t /\ ~Making(Top(t))
  PROVE  StackOK(t)' /\ ThreadOK(t)' /\ stack' \in [Threads -> Seq(FrameType)]
<1>1. /\ Depth(t)' = Depth(t) - 1
      /\ \A i \in 1 .. Depth(t) - 1 : stack'[t][i] = stack[t][i]
      /\ stack' \in [Threads -> Seq(FrameType)]
  BY LeftStack
<1>2. Depth(t) \in Nat \ {0} /\ Top(t) = stack[t][Depth(t)]
  BY TopFacts
<1>3. StackOK(t)' /\ ThreadOK(t)'
  BY <1>1, <1>2, Left
<1> QED BY <1>1, <1>3

------------------------------------------------------------------------------
(* Types.                                                                    *)

(* Stacks of well-formed calls are stacks of calls. *)
LEMMA WellFormedStacks ==
  ASSUME stack' \in [Threads -> Seq(WellFormed)]
  PROVE  stack' \in [Threads -> Seq(FrameType)]
<1>1. \A s \in Seq(WellFormed) : s \in Seq(FrameType)
  BY DEF WellFormed
<1> QED BY <1>1

(* The innermost call is well-formed. *)
LEMMA WellFormedTop ==
  ASSUME Typed, NEW t \in Threads, ~Idle(t)
  PROVE  /\ stack[t] \in Seq(WellFormed) /\ stack[t] # <<>>
         /\ Top(t) \in FrameType
         /\ Guarded(Top(t)) <=> GuardPoint(Top(t))
         /\ Top(t).fn = "push" => Top(t).vec \in Vectors
<1>1. stack[t] \in Seq(WellFormed) /\ stack[t] # <<>>
  BY DEF Typed, Idle
<1>2. Top(t) \in WellFormed
  BY <1>1, FrontFacts DEF Top
<1> QED BY <1>1, <1>2 DEF WellFormed

(* A call at another of its points, and one that begins, are well-formed. *)
LEMMA WellFormedAt ==
  ASSUME Typed, NEW t \in Threads, ~Idle(t), NEW pt \in Points,
         Guarded(Top(t)) <=> GuardPoint([Top(t) EXCEPT !.pt = pt])
  PROVE  [Top(t) EXCEPT !.pt = pt] \in WellFormed
BY WellFormedTop DEF WellFormed, FrameType, Guarded, GuardPoint

(* The same where the call makes its guard. *)
LEMMA WellFormedGuarded ==
  ASSUME Typed, NEW t \in Threads, ~Idle(t), NEW pt \in Points, NEW b \in BOOLEAN,
         GuardPoint([Top(t) EXCEPT !.pt = pt])
  PROVE  [Top(t) EXCEPT !.pt = pt, !.saved = b] \in WellFormed
BY WellFormedTop, ReentryAssumption DEF WellFormed, FrameType, Guarded, GuardPoint

(* A call that begins is well-formed and has no guard yet. *)
LEMMA WellFormedEnter ==
  ASSUME NEW fn \in Functions, NEW v \in Vectors \cup {NoVec}, fn = "push" => v \in Vectors
  PROVE  /\ Enter(fn, v) \in WellFormed
         /\ Enter(fn, v).fn = fn /\ Enter(fn, v).pt = "start" /\ ~Guarded(Enter(fn, v))
<1>1. /\ Enter(fn, v).fn = fn /\ Enter(fn, v).pt = "start" /\ ~Guarded(Enter(fn, v))
      /\ Enter(fn, v).vec = v
  BY DEF Enter, Guarded
<1>2. Enter(fn, v) \in FrameType
  BY DEF Enter, FrameType, Points
<1> QED BY <1>1, <1>2 DEF WellFormed, GuardPoint

(* The three ways on keep stacks and flags what they are. *)
LEMMA TypedFrame ==
  ASSUME Typed, NEW t \in Threads, ~Idle(t), NEW f \in WellFormed, Frame(t, f)
  PROVE  stack' \in [Threads -> Seq(WellFormed)]
<1>1. Append(Front(stack[t]), f) \in Seq(WellFormed)
  BY WellFormedTop, ReplacedFacts
<1> QED BY <1>1 DEF Frame, Typed

(* Into a call. *)
LEMMA TypedCalls ==
  ASSUME Typed, NEW t \in Threads, ~Idle(t), NEW pt \in Points, NEW fn \in Functions,
         NEW v \in Vectors \cup {NoVec}, fn = "push" => v \in Vectors,
         Guarded(Top(t)) <=> GuardPoint([Top(t) EXCEPT !.pt = pt]),
         Calls(t, pt, fn, v)
  PROVE  stack' \in [Threads -> Seq(WellFormed)]
<1>1. [Top(t) EXCEPT !.pt = pt] \in WellFormed /\ Enter(fn, v) \in WellFormed
  BY WellFormedAt, WellFormedEnter
<1>2. Front(stack[t]) \o <<[Top(t) EXCEPT !.pt = pt], Enter(fn, v)>> \in Seq(WellFormed)
  BY <1>1, WellFormedTop, CalledFacts
<1> QED BY <1>2 DEF Calls, Typed

(* Back to the caller, with the flag the guard saved. *)
LEMMA TypedReturns ==
  ASSUME Typed, NEW t \in Threads, ~Idle(t), Returns(t)
  PROVE  stack' \in [Threads -> Seq(WellFormed)] /\ active' \in [Threads -> BOOLEAN]
<1>1. Front(stack[t]) \in Seq(WellFormed)
  BY WellFormedTop, FrontFacts
<1>2. Top(t).saved \in BOOLEAN \cup {NoGuard}
  BY WellFormedTop DEF FrameType
<1> QED BY <1>1, <1>2 DEF Returns, Typed, TypeOK

(* On to another point. *)
LEMMA TypedGo ==
  ASSUME Typed, NEW t \in Threads, ~Idle(t), NEW pt \in Points,
         Guarded(Top(t)) <=> GuardPoint([Top(t) EXCEPT !.pt = pt]), Go(t, pt)
  PROVE  stack' \in [Threads -> Seq(WellFormed)]
BY WellFormedAt, TypedFrame DEF Go

(* On to another point, making the guard. *)
LEMMA TypedGoGuarded ==
  ASSUME Typed, NEW t \in Threads, ~Idle(t), NEW pt \in Points,
         GuardPoint([Top(t) EXCEPT !.pt = pt]), GoGuarded(t, pt)
  PROVE  stack' \in [Threads -> Seq(WellFormed)] /\ active' \in [Threads -> BOOLEAN]
<1>1. active[t] \in BOOLEAN /\ active' \in [Threads -> BOOLEAN]
  BY DEF GoGuarded, Typed, TypeOK
<1>2. [Top(t) EXCEPT !.pt = pt, !.saved = active[t]] \in WellFormed
  BY <1>1, WellFormedGuarded
<1> QED BY <1>1, <1>2, TypedFrame DEF GoGuarded

(* Where the innermost call is, with or without its guard, at another point. *)
LEMMA PointFacts ==
  ASSUME Typed, NEW t \in Threads, NEW fn, NEW pt, At(t, fn, pt), NEW q
  PROVE  /\ ~Idle(t) /\ Top(t).fn = fn /\ Top(t).pt = pt /\ Top(t) \in FrameType
         /\ Guarded(Top(t)) <=> \/ fn \in {"new", "delete", "instance", "allocate", "acquire"} /\ pt # "start"
                                \/ fn = "retire" /\ pt \in {"lock", "unlock"}
         /\ GuardPoint([Top(t) EXCEPT !.pt = q]) <=>
              \/ fn \in {"new", "delete", "instance", "allocate", "acquire"} /\ q # "start"
              \/ fn = "retire" /\ q \in {"lock", "unlock"}
<1>1. ~Idle(t) /\ Top(t).fn = fn /\ Top(t).pt = pt
  BY DEF At
<1>2. Top(t) \in FrameType /\ (Guarded(Top(t)) <=> GuardPoint(Top(t)))
  BY <1>1, WellFormedTop
<1> QED BY <1>1, <1>2 DEF GuardPoint, FrameType

(* What else a step changes keeps its type as well. *)
LEMMA TypedRest ==
  ASSUME Typed, UNCHANGED <<build, Others>>,
         stack' \in [Threads -> Seq(WellFormed)], active' \in [Threads -> BOOLEAN]
  PROVE  Typed'
<1>1. stack' \in [Threads -> Seq(FrameType)]
  BY WellFormedStacks
<1> QED BY <1>1 DEF Typed, TypeOK, WellFormed, GuardPoint, Guarded, FrameType, Others

(* Each action keeps the types: do_new. *)
LEMMA TypedNew ==
  ASSUME Typed, NEW t \in Threads, New(t), UNCHANGED build
  PROVE  Typed'
<1>0. Typed /\ active' = active => active' \in [Threads -> BOOLEAN]
  BY DEF Typed, TypeOK
<1>1. CASE At(t, "new", "start") /\ Returns(t) /\ UNCHANGED Others
  BY <1>1, PointFacts, TypedReturns, TypedRest
<1>2. CASE At(t, "new", "start") /\ GoGuarded(t, "guarded") /\ UNCHANGED Others
  <2>1. "guarded" \in Points
    BY DEF Points
  <2> QED BY <1>2, <2>1, PointFacts, TypedGoGuarded, TypedRest
<1>3. CASE At(t, "new", "guarded") /\ Calls(t, "instance", "instance", NoVec) /\ UNCHANGED <<active, Others>>
  <2>1. "instance" \in Points /\ "instance" \in Functions
    BY DEF Points, Functions
  <2>2. stack' \in [Threads -> Seq(WellFormed)]
    BY <1>3, <2>1, PointFacts, TypedCalls
  <2> QED BY <1>0, <1>3, <2>2, TypedRest
<1>4. CASE At(t, "new", "instance") /\ Calls(t, "done", "allocate", NoVec) /\ UNCHANGED <<active, Others>>
  <2>1. "done" \in Points /\ "allocate" \in Functions
    BY DEF Points, Functions
  <2>2. stack' \in [Threads -> Seq(WellFormed)]
    BY <1>4, <2>1, PointFacts, TypedCalls
  <2> QED BY <1>0, <1>4, <2>2, TypedRest
<1>5. CASE At(t, "new", "done") /\ Returns(t) /\ UNCHANGED Others
  BY <1>5, PointFacts, TypedReturns, TypedRest
<1> QED BY <1>1, <1>2, <1>3, <1>4, <1>5 DEF New

(* do_delete. *)
LEMMA TypedDelete ==
  ASSUME Typed, NEW t \in Threads, Delete(t), UNCHANGED build
  PROVE  Typed'
<1>0. Typed /\ active' = active => active' \in [Threads -> BOOLEAN]
  BY DEF Typed, TypeOK
<1>1. CASE At(t, "delete", "start") /\ Returns(t) /\ UNCHANGED Others
  BY <1>1, PointFacts, TypedReturns, TypedRest
<1>2. CASE At(t, "delete", "start") /\ GoGuarded(t, "guarded") /\ UNCHANGED Others
  <2>1. "guarded" \in Points
    BY DEF Points
  <2> QED BY <1>2, <2>1, PointFacts, TypedGoGuarded, TypedRest
<1>3. CASE At(t, "delete", "guarded") /\ Calls(t, "instance", "instance", NoVec) /\ UNCHANGED <<active, Others>>
  <2>1. "instance" \in Points /\ "instance" \in Functions
    BY DEF Points, Functions
  <2>2. stack' \in [Threads -> Seq(WellFormed)]
    BY <1>3, <2>1, PointFacts, TypedCalls
  <2> QED BY <1>0, <1>3, <2>2, TypedRest
<1>4. CASE At(t, "delete", "instance") /\ Calls(t, "done", "deallocate", NoVec) /\ UNCHANGED <<active, Others>>
  <2>1. "done" \in Points /\ "deallocate" \in Functions
    BY DEF Points, Functions
  <2>2. stack' \in [Threads -> Seq(WellFormed)]
    BY <1>4, <2>1, PointFacts, TypedCalls
  <2> QED BY <1>0, <1>4, <2>2, TypedRest
<1>5. CASE At(t, "delete", "instance") /\ Go(t, "done") /\ UNCHANGED <<active, Others>>
  <2>1. "done" \in Points
    BY DEF Points
  <2>2. stack' \in [Threads -> Seq(WellFormed)]
    BY <1>5, <2>1, PointFacts, TypedGo
  <2> QED BY <1>0, <1>5, <2>2, TypedRest
<1>6. CASE At(t, "delete", "done") /\ Returns(t) /\ UNCHANGED Others
  BY <1>6, PointFacts, TypedReturns, TypedRest
<1> QED BY <1>1, <1>2, <1>3, <1>4, <1>5, <1>6 DEF Delete

(* instance() and the constructor. *)
LEMMA TypedInstance ==
  ASSUME Typed, NEW t \in Threads, Instance(t), UNCHANGED build
  PROVE  Typed'
<1>0. Typed /\ active' = active => active' \in [Threads -> BOOLEAN]
  BY DEF Typed, TypeOK
<1>1. CASE At(t, "instance", "start") /\ GoGuarded(t, "guarded") /\ UNCHANGED Others
  <2>1. "guarded" \in Points
    BY DEF Points
  <2> QED BY <1>1, <2>1, PointFacts, TypedGoGuarded, TypedRest
<1>2. CASE /\ At(t, "instance", "guarded") /\ Calls(t, "built", "register", NoVec)
           /\ tls' = [tls EXCEPT ![t] = "building"] /\ UNCHANGED <<active, ready, mutex, ring, grown, acquired>>
  <2>1. "built" \in Points /\ "register" \in Functions
    BY DEF Points, Functions
  <2>2. stack' \in [Threads -> Seq(WellFormed)]
    BY <1>2, <2>1, PointFacts, TypedCalls
  <2> QED BY <1>0, <1>2, <2>2, WellFormedStacks DEF Typed, TypeOK
<1>3. CASE /\ At(t, "instance", "built") /\ Go(t, "guarded")
           /\ tls' = [tls EXCEPT ![t] = "live"] /\ UNCHANGED <<active, ready, mutex, ring, grown, acquired>>
  <2>1. "guarded" \in Points
    BY DEF Points
  <2>2. stack' \in [Threads -> Seq(WellFormed)]
    BY <1>3, <2>1, PointFacts, TypedGo
  <2> QED BY <1>0, <1>3, <2>2, WellFormedStacks DEF Typed, TypeOK
<1>4. CASE At(t, "instance", "guarded") /\ Returns(t) /\ UNCHANGED Others
  BY <1>4, PointFacts, TypedReturns, TypedRest
<1> QED BY <1>1, <1>2, <1>3, <1>4 DEF Instance

(* allocate. *)
LEMMA TypedAllocate ==
  ASSUME Typed, NEW t \in Threads, Allocate(t), UNCHANGED build
  PROVE  Typed'
<1>0. Typed /\ active' = active => active' \in [Threads -> BOOLEAN]
  BY DEF Typed, TypeOK
<1>1. CASE At(t, "allocate", "start") /\ GoGuarded(t, "pool") /\ UNCHANGED Others
  <2>1. "pool" \in Points
    BY DEF Points
  <2> QED BY <1>1, <2>1, PointFacts, TypedGoGuarded, TypedRest
<1>2. CASE At(t, "allocate", "pool") /\ Go(t, "record") /\ UNCHANGED <<active, Others>>
  <2>1. "record" \in Points
    BY DEF Points
  <2>2. stack' \in [Threads -> Seq(WellFormed)]
    BY <1>2, <2>1, PointFacts, TypedGo
  <2> QED BY <1>0, <1>2, <2>2, TypedRest
<1>3. CASE /\ At(t, "allocate", "pool") /\ acquired < MaxChunks /\ acquired' = acquired + 1
           /\ Calls(t, "link", "acquire", NoVec) /\ UNCHANGED <<active, tls, ready, mutex, ring, grown>>
  <2>1. "link" \in Points /\ "acquire" \in Functions
    BY DEF Points, Functions
  <2>2. stack' \in [Threads -> Seq(WellFormed)]
    BY <1>3, <2>1, PointFacts, TypedCalls
  <2>3. acquired' \in 0 .. MaxChunks
    BY <1>3, ReentryAssumption DEF Typed, TypeOK
  <2> QED BY <1>0, <1>3, <2>2, <2>3, WellFormedStacks DEF Typed, TypeOK
<1>4. CASE At(t, "allocate", "link") /\ Calls(t, "record", "push", ExtSlabs(t)) /\ UNCHANGED <<active, Others>>
  <2>1. "record" \in Points /\ "push" \in Functions /\ ExtSlabs(t) \in Vectors
    BY DEF Points, Functions, Vectors, ExtSlabs
  <2>2. stack' \in [Threads -> Seq(WellFormed)]
    BY <1>4, <2>1, PointFacts, TypedCalls
  <2> QED BY <1>0, <1>4, <2>2, TypedRest
<1>5. CASE At(t, "allocate", "record") /\ Calls(t, "done", "ring", NoVec) /\ UNCHANGED <<active, Others>>
  <2>1. "done" \in Points /\ "ring" \in Functions
    BY DEF Points, Functions
  <2>2. stack' \in [Threads -> Seq(WellFormed)]
    BY <1>5, <2>1, PointFacts, TypedCalls
  <2> QED BY <1>0, <1>5, <2>2, TypedRest
<1>6. CASE At(t, "allocate", IF Viz THEN "done" ELSE "record") /\ Returns(t) /\ UNCHANGED Others
  BY <1>6, PointFacts, TypedReturns, TypedRest
<1> QED BY <1>1, <1>2, <1>3, <1>4, <1>5, <1>6 DEF Allocate

(* deallocate. *)
LEMMA TypedDeallocate ==
  ASSUME Typed, NEW t \in Threads, Deallocate(t), UNCHANGED build
  PROVE  Typed'
<1>0. Typed /\ active' = active => active' \in [Threads -> BOOLEAN]
  BY DEF Typed, TypeOK
<1>1. CASE At(t, "deallocate", "start") /\ Calls(t, "done", "ring", NoVec) /\ UNCHANGED <<active, Others>>
  <2>1. "done" \in Points /\ "ring" \in Functions
    BY DEF Points, Functions
  <2>0. ~Idle(t) /\ ~Guarded(Top(t)) /\ ~GuardPoint([Top(t) EXCEPT !.pt = "done"])
    BY <1>1, PointFacts
  <2>2. stack' \in [Threads -> Seq(WellFormed)]
    BY <1>1, <2>1, <2>0, TypedCalls
  <2> QED BY <1>0, <1>1, <2>2, TypedRest
<1>2. CASE At(t, "deallocate", IF Viz THEN "done" ELSE "start") /\ Returns(t) /\ UNCHANGED Others
  BY <1>2, PointFacts, TypedReturns, TypedRest
<1> QED BY <1>1, <1>2 DEF Deallocate

(* acquire_chunk. *)
LEMMA TypedAcquire ==
  ASSUME Typed, NEW t \in Threads, Acquire(t), UNCHANGED build
  PROVE  Typed'
<1>0. Typed /\ active' = active => active' \in [Threads -> BOOLEAN]
  BY DEF Typed, TypeOK
<1>1. CASE At(t, "acquire", "start") /\ GoGuarded(t, "lock") /\ UNCHANGED Others
  <2>1. "lock" \in Points
    BY DEF Points
  <2> QED BY <1>1, <2>1, PointFacts, TypedGoGuarded, TypedRest
<1>2. CASE /\ At(t, "acquire", "lock") /\ Locks(t, "central")
           /\ Calls(t, "event", "push", Vec("chunks")) /\ UNCHANGED <<active, tls, ready, ring, grown, acquired>>
  <2>1. "event" \in Points /\ "push" \in Functions /\ Vec("chunks") \in Vectors
    BY DEF Points, Functions, Vectors, Vec
  <2>2. stack' \in [Threads -> Seq(WellFormed)]
    BY <1>2, <2>1, PointFacts, TypedCalls
  <2> QED BY <1>0, <1>2, <2>2, WellFormedStacks DEF Typed, TypeOK, Locks
<1>3. CASE At(t, "acquire", "event") /\ Calls(t, "unlock", "ring", NoVec) /\ UNCHANGED <<active, Others>>
  <2>1. "unlock" \in Points /\ "ring" \in Functions
    BY DEF Points, Functions
  <2>2. stack' \in [Threads -> Seq(WellFormed)]
    BY <1>3, <2>1, PointFacts, TypedCalls
  <2> QED BY <1>0, <1>3, <2>2, TypedRest
<1>4. CASE /\ At(t, "acquire", IF Viz THEN "unlock" ELSE "event") /\ Unlocks(t, "central")
           /\ Returns(t) /\ UNCHANGED <<tls, ready, ring, grown, acquired>>
  <2>1. stack' \in [Threads -> Seq(WellFormed)] /\ active' \in [Threads -> BOOLEAN]
    BY <1>4, PointFacts, TypedReturns
  <2> QED BY <1>4, <2>1, WellFormedStacks DEF Typed, TypeOK, Unlocks
<1> QED BY <1>1, <1>2, <1>3, <1>4 DEF Acquire

(* register_stats. *)
LEMMA TypedRegister ==
  ASSUME Typed, NEW t \in Threads, Register(t), UNCHANGED build
  PROVE  Typed'
<1>0. Typed /\ active' = active => active' \in [Threads -> BOOLEAN]
  BY DEF Typed, TypeOK
<1>1. CASE /\ At(t, "register", "start") /\ Locks(t, "registry")
           /\ Calls(t, "allocators", "push", Vec("live")) /\ UNCHANGED <<active, tls, ready, ring, grown, acquired>>
  <2>1. "allocators" \in Points /\ "push" \in Functions /\ Vec("live") \in Vectors
    BY DEF Points, Functions, Vectors, Vec
  <2>2. stack' \in [Threads -> Seq(WellFormed)]
    BY <1>1, <2>1, PointFacts, TypedCalls
  <2> QED BY <1>0, <1>1, <2>2, WellFormedStacks DEF Typed, TypeOK, Locks
<1>2. CASE /\ At(t, "register", "allocators")
           /\ Calls(t, "unlock", "push", Vec("live_allocators")) /\ UNCHANGED <<active, Others>>
  <2>1. "unlock" \in Points /\ "push" \in Functions /\ Vec("live_allocators") \in Vectors
    BY DEF Points, Functions, Vectors, Vec
  <2>0. ~Idle(t) /\ ~Guarded(Top(t)) /\ ~GuardPoint([Top(t) EXCEPT !.pt = "unlock"])
    BY <1>2, PointFacts
  <2>2. stack' \in [Threads -> Seq(WellFormed)]
    BY <1>2, <2>1, <2>0, TypedCalls
  <2> QED BY <1>0, <1>2, <2>2, TypedRest
<1>3. CASE /\ At(t, "register", "unlock") /\ Unlocks(t, "registry")
           /\ Returns(t) /\ UNCHANGED <<tls, ready, ring, grown, acquired>>
  <2>1. stack' \in [Threads -> Seq(WellFormed)] /\ active' \in [Threads -> BOOLEAN]
    BY <1>3, PointFacts, TypedReturns
  <2> QED BY <1>3, <2>1, WellFormedStacks DEF Typed, TypeOK, Unlocks
<1> QED BY <1>1, <1>2, <1>3 DEF Register

(* ~ThreadPoolAlloc. *)
LEMMA TypedRetire ==
  ASSUME Typed, NEW t \in Threads, Retire(t), UNCHANGED build
  PROVE  Typed'
<1>0. Typed /\ active' = active => active' \in [Threads -> BOOLEAN]
  BY DEF Typed, TypeOK
<1>1. CASE /\ At(t, "retire", "start") /\ tls' = [tls EXCEPT ![t] = "gone"]
           /\ GoGuarded(t, "lock") /\ UNCHANGED <<ready, mutex, ring, grown, acquired>>
  <2>1. "lock" \in Points
    BY DEF Points
  <2>2. stack' \in [Threads -> Seq(WellFormed)] /\ active' \in [Threads -> BOOLEAN]
    BY <1>1, <2>1, PointFacts, TypedGoGuarded
  <2> QED BY <1>1, <2>2, WellFormedStacks DEF Typed, TypeOK
<1>2. CASE /\ At(t, "retire", "lock") /\ Locks(t, "registry")
           /\ Calls(t, "unlock", "push", Vec("retired")) /\ UNCHANGED <<active, tls, ready, ring, grown, acquired>>
  <2>1. "unlock" \in Points /\ "push" \in Functions /\ Vec("retired") \in Vectors
    BY DEF Points, Functions, Vectors, Vec
  <2>2. stack' \in [Threads -> Seq(WellFormed)]
    BY <1>2, <2>1, PointFacts, TypedCalls
  <2> QED BY <1>0, <1>2, <2>2, WellFormedStacks DEF Typed, TypeOK, Locks
<1>3. CASE /\ At(t, "retire", "unlock") /\ Unlocks(t, "registry")
           /\ Frame(t, [Top(t) EXCEPT !.pt = "members", !.saved = NoGuard])
           /\ active' = [active EXCEPT ![t] = Top(t).saved] /\ UNCHANGED <<tls, ready, ring, grown, acquired>>
  <2>1. ~Idle(t) /\ Top(t) \in FrameType /\ Top(t).fn = "retire" /\ Guarded(Top(t))
    BY <1>3, PointFacts
  <2>2. [Top(t) EXCEPT !.pt = "members", !.saved = NoGuard] \in WellFormed
    BY <2>1, ReentryAssumption DEF WellFormed, FrameType, Guarded, GuardPoint, Points
  <2>3. stack' \in [Threads -> Seq(WellFormed)]
    BY <1>3, <2>1, <2>2, TypedFrame
  <2>4. Top(t).saved \in BOOLEAN
    BY <2>1 DEF FrameType, Guarded
  <2> QED BY <1>3, <2>3, <2>4, WellFormedStacks DEF Typed, TypeOK, Unlocks
<1>4. CASE /\ At(t, "retire", "members") /\ Calls(t, "done", "delete", NoVec)
           /\ grown' = grown \ {ExtSlabs(t)} /\ UNCHANGED <<active, tls, ready, mutex, ring, acquired>>
  <2>1. "done" \in Points /\ "delete" \in Functions
    BY DEF Points, Functions
  <2>0. ~Idle(t) /\ ~Guarded(Top(t)) /\ ~GuardPoint([Top(t) EXCEPT !.pt = "done"])
    BY <1>4, PointFacts
  <2>2. stack' \in [Threads -> Seq(WellFormed)]
    BY <1>4, <2>1, <2>0, TypedCalls
  <2> QED BY <1>0, <1>4, <2>2, WellFormedStacks DEF Typed, TypeOK
<1>5. CASE (At(t, "retire", "done") \/ At(t, "retire", "members")) /\ Returns(t) /\ UNCHANGED Others
  BY <1>5, PointFacts, TypedReturns, TypedRest
<1> QED BY <1>1, <1>2, <1>3, <1>4, <1>5 DEF Retire

(* push_back. *)
LEMMA TypedPush ==
  ASSUME Typed, NEW t \in Threads, Push(t), UNCHANGED build
  PROVE  Typed'
<1>0. Typed /\ active' = active => active' \in [Threads -> BOOLEAN]
  BY DEF Typed, TypeOK
<1>1. CASE (At(t, "push", "start") \/ At(t, "push", "done")) /\ Returns(t) /\ UNCHANGED Others
  BY <1>1, PointFacts, TypedReturns, TypedRest
<1>2. CASE At(t, "push", "start") /\ Calls(t, "grown", "new", NoVec) /\ UNCHANGED <<active, Others>>
  <2>1. "grown" \in Points /\ "new" \in Functions
    BY DEF Points, Functions
  <2>0. ~Idle(t) /\ ~Guarded(Top(t)) /\ ~GuardPoint([Top(t) EXCEPT !.pt = "grown"])
    BY <1>2, PointFacts
  <2>2. stack' \in [Threads -> Seq(WellFormed)]
    BY <1>2, <2>1, <2>0, TypedCalls
  <2> QED BY <1>0, <1>2, <2>2, TypedRest
<1>3. CASE At(t, "push", "grown") /\ Calls(t, "done", "delete", NoVec) /\ UNCHANGED <<active, Others>>
  <2>1. "done" \in Points /\ "delete" \in Functions
    BY DEF Points, Functions
  <2>2. stack' \in [Threads -> Seq(WellFormed)]
    BY <1>3, <2>1, PointFacts, TypedCalls
  <2> QED BY <1>0, <1>3, <2>2, TypedRest
<1>4. CASE /\ At(t, "push", "grown") /\ grown' = grown \cup {Top(t).vec}
           /\ Returns(t) /\ UNCHANGED <<tls, ready, mutex, ring, acquired>>
  <2>1. stack' \in [Threads -> Seq(WellFormed)] /\ active' \in [Threads -> BOOLEAN]
    BY <1>4, PointFacts, TypedReturns
  <2>2. Top(t).vec \in Vectors
    BY <1>4, PointFacts, WellFormedTop
  <2> QED BY <1>4, <2>1, <2>2, WellFormedStacks DEF Typed, TypeOK
<1> QED BY <1>1, <1>2, <1>3, <1>4 DEF Push

(* viz::ring(). *)
LEMMA TypedRing ==
  ASSUME Typed, NEW t \in Threads, Ring(t), UNCHANGED build
  PROVE  Typed'
<1>0. Typed /\ active' = active => active' \in [Threads -> BOOLEAN]
  BY DEF Typed, TypeOK
<1>1. CASE At(t, "ring", "start") /\ Returns(t) /\ UNCHANGED Others
  BY <1>1, PointFacts, TypedReturns, TypedRest
<1>2. CASE /\ At(t, "ring", "start") /\ ring' = t /\ Calls(t, "built", "new", NoVec)
           /\ UNCHANGED <<active, tls, ready, mutex, grown, acquired>>
  <2>1. "built" \in Points /\ "new" \in Functions
    BY DEF Points, Functions
  <2>0. ~Idle(t) /\ ~Guarded(Top(t)) /\ ~GuardPoint([Top(t) EXCEPT !.pt = "built"])
    BY <1>2, PointFacts
  <2>2. stack' \in [Threads -> Seq(WellFormed)]
    BY <1>2, <2>1, <2>0, TypedCalls
  <2> QED BY <1>0, <1>2, <2>2, WellFormedStacks DEF Typed, TypeOK
<1>3. CASE /\ At(t, "ring", "built") /\ ring' = "made"
           /\ Returns(t) /\ UNCHANGED <<tls, ready, mutex, grown, acquired>>
  <2>1. stack' \in [Threads -> Seq(WellFormed)] /\ active' \in [Threads -> BOOLEAN]
    BY <1>3, PointFacts, TypedReturns
  <2> QED BY <1>3, <2>1, WellFormedStacks DEF Typed, TypeOK
<1> QED BY <1>1, <1>2, <1>3 DEF Ring

(* Stacks start empty, every step keeps the types. *)
LEMMA TypedInit == Init => Typed
<1> SUFFICES ASSUME Init PROVE Typed
  OBVIOUS
<1>1. <<>> \in Seq(WellFormed) /\ <<>> \in Seq(FrameType)
  OBVIOUS
<1>2. /\ stack \in [Threads -> Seq(WellFormed)] /\ stack \in [Threads -> Seq(FrameType)]
      /\ active \in [Threads -> BOOLEAN] /\ tls \in [Threads -> {"none", "building", "live", "gone"}]
      /\ mutex \in [{"registry", "central"} -> Threads \cup {Nobody}]
  BY <1>1 DEF Init
<1>3. build \in Builds /\ ready \in BOOLEAN /\ ring \in Threads \cup {"none", "made"} /\ grown \subseteq Vectors
  BY DEF Init
<1>4. acquired \in 0 .. MaxChunks
  BY ReentryAssumption DEF Init
<1> QED BY <1>2, <1>3, <1>4 DEF Typed, TypeOK

(* The program calls only what exists. *)
LEMMA TypedCall ==
  ASSUME Typed, NEW t \in Threads, Call(t)
  PROVE  Typed'
<1>1. PICK fn \in Entries(t) : stack' = [stack EXCEPT ![t] = <<Enter(fn, NoVec)>>]
  BY DEF Call
<1>2. fn \in Functions /\ fn # "push"
  BY <1>1 DEF Entries, Functions
<1>3. <<Enter(fn, NoVec)>> \in Seq(WellFormed)
  BY <1>2, WellFormedEnter
<1>4. stack' \in [Threads -> Seq(WellFormed)]
  BY <1>1, <1>3 DEF Typed
<1>5. active' \in [Threads -> BOOLEAN] /\ UNCHANGED <<build, Others>>
  BY DEF Call, Typed, TypeOK
<1> QED BY <1>4, <1>5, TypedRest

(* Every step keeps the types. *)
LEMMA TypedNext == Typed /\ [Next]_vars => Typed'
<1> SUFFICES ASSUME Typed, [Next]_vars PROVE Typed'
  OBVIOUS
<1>1. CASE SetReady
  BY <1>1 DEF SetReady, Typed, TypeOK
<1>2. ASSUME NEW t \in Threads, Step(t) PROVE Typed'
  BY <1>2, TypedNew, TypedDelete, TypedInstance, TypedAllocate, TypedDeallocate,
     TypedAcquire, TypedRegister, TypedRetire, TypedPush, TypedRing DEF Step
<1>3. ASSUME NEW t \in Threads, Call(t) PROVE Typed'
  BY <1>3, TypedCall
<1>4. CASE UNCHANGED vars
  BY <1>4 DEF vars, Typed, TypeOK
<1> QED BY <1>1, <1>2, <1>3, <1>4 DEF Next

------------------------------------------------------------------------------
(* Nesting.                                                                  *)
Nested(t) == StackOK(t) /\ ThreadOK(t)

(* A step of one thread leaves what is known of another as it is. *)
LEMMA Elsewhere ==
  ASSUME NEW u \in Threads, Nested(u), UNCHANGED build,
         stack'[u] = stack[u], active'[u] = active[u], tls'[u] = tls[u],
         \A m \in {"registry", "central"} : mutex'[m] = u <=> mutex[m] = u,
         ring' = u <=> ring = u
  PROVE  Nested(u)'
<1>1. Depth(u)' = Depth(u) /\ Depth(u)' = Len(stack'[u])
  BY DEF Depth
<1>2. StackOK(u)'
  <2>1. \A f : FrameOK(u, f)' <=> FrameOK(u, f)
    BY DEF FrameOK, Override, Viz
  <2>2. \A f : Inner(f)' <=> Inner(f)
    BY DEF Inner, Override
  <2>3. \A f, i : NeedsCover(f, i)' <=> NeedsCover(f, i)
    BY DEF NeedsCover, Override
  <2>4. StackOK(u)
    BY DEF Nested
  <2>5. /\ \A i \in 1 .. Depth(u) : FrameOK(u, stack[u][i])'
        /\ \A i \in 2 .. Depth(u) : Inner(stack[u][i])'
        /\ \A i \in 1 .. Depth(u) : NeedsCover(stack[u][i], i)' => NeedsCover(stack[u][i], i)
    <3>1. \A i \in 1 .. Depth(u) : FrameOK(u, stack[u][i])'
      BY <2>4 DEF FrameOK, Override, Viz, StackOK
    <3>2. \A i \in 2 .. Depth(u) : Inner(stack[u][i])'
      BY <2>4 DEF Inner, Override, StackOK
    <3>3. \A i \in 1 .. Depth(u) : NeedsCover(stack[u][i], i)' => NeedsCover(stack[u][i], i)
      BY DEF NeedsCover, Override
    <3> QED BY <3>1, <3>2, <3>3
  <2> QED BY <1>1, <2>4, <2>5 DEF StackOK
<1>3. ThreadOK(u)'
  <2>1. ThreadOK(u)
    BY DEF Nested
  <2> QED BY <1>1, <2>1 DEF ThreadOK
<1> QED BY <1>2, <1>3 DEF Nested

(* On to another point, with nothing else changed but perhaps a guard made. *)
LEMMA Onward ==
  ASSUME Typed, NEW t \in Threads, Nested(t), NEW fn, NEW pt, NEW q \in Points, At(t, fn, pt),
         UNCHANGED <<build, Others>>, fn \in {"new", "delete", "instance", "allocate", "acquire"},
         pt \notin {"built", "event", "unlock"}, q \notin {"start", "built", "instance", "event", "unlock"},
         fn \in {"new", "delete"} => Override /\ tls[t] # "gone",
         fn = "new" => Depth(t) = 1,
         \/ pt # "start" /\ Go(t, q) /\ active' = active
         \/ pt = "start" /\ GoGuarded(t, q)
  PROVE  Nested(t)'
<1>1. /\ Top(t).fn = fn /\ Top(t).pt = pt /\ Top(t) \in FrameType /\ ~Idle(t) /\ TypeOK
      /\ StackOK(t) /\ ThreadOK(t)
  BY PointFacts DEF Nested, Typed
<1>2. Guarded(Top(t)) <=> pt # "start"
  BY PointFacts
<1>3. PICK f : f = IF pt = "start" THEN [Top(t) EXCEPT !.pt = q, !.saved = active[t]] ELSE [Top(t) EXCEPT !.pt = q]
  OBVIOUS
<1>4. f \in FrameType /\ f.fn = fn /\ f.pt = q /\ f.saved = IF pt = "start" THEN active[t] ELSE Top(t).saved
  BY <1>1, <1>3 DEF FrameType, TypeOK
<1>5. stack' = [stack EXCEPT ![t] = Append(Front(@), f)]
  BY <1>3 DEF Go, GoGuarded, Frame
<1>6. FrameOK(t, Top(t)) /\ (Depth(t) > 1 => Inner(Top(t))) /\ Depth(t) \in Nat \ {0}
  BY <1>1, TopFacts
<1>7. FrameOK(t, f)'
  BY <1>1, <1>4, <1>6 DEF FrameOK, Operator, Building, Override, Viz, Others
<1>8. LowerKept(t) /\ Locked(t, f) /\ ~Building(f) /\ ~Building(Top(t)) /\ (Operator(f) => f.pt # "instance")
  BY <1>1, <1>4 DEF LowerKept, Locked, Building, Holding, Making, Others
<1>9. Depth(t) > 1 => Inner(f)
  BY <1>1, <1>4, <1>6 DEF Inner
<1>10. tls'[t] = "building" => tls[t] = "building" /\ ~Building(Top(t))
  BY <1>8 DEF Others
<1>11. \/ f.saved = Top(t).saved /\ active'[t] = active[t]
       \/ ~Guarded(Top(t)) /\ f.saved = active[t] /\ active'[t]
       \/ Depth(t) = 1 /\ ~Guarded(f) /\ ~active'[t]
  BY <1>1, <1>2, <1>4 DEF GoGuarded, TypeOK
<1>12. StackOK(t)' /\ ThreadOK(t)'
  BY <1>1, <1>4, <1>5, <1>7, <1>8, <1>9, <1>10, <1>11, MovedStep
<1> QED BY <1>12 DEF Nested

(* Into a call of g, nothing changed but perhaps a mutex or the ring. *)
LEMMA Inward ==
  ASSUME Typed, NEW t \in Threads, Nested(t), NEW fn, NEW pt, NEW q \in Points, At(t, fn, pt),
         UNCHANGED <<build, active, tls>>, NEW h \in Functions, NEW v \in Vectors \cup {NoVec},
         Calls(t, q, h, v), Within(fn, h), h = "push" => v \in Vectors,
         \A i \in 1 .. Depth(t) - 1 : Within(stack[t][i].fn, h),
         fn # "instance", h \notin {"register", "retire"},
         fn \in {"new", "delete"} =>
           /\ pt # "start" /\ q # "start" /\ (q = "instance" => h = "instance")
           /\ Depth(t) > 1 => fn # "new",
         fn = "retire" => pt # "start" /\ q # "start",
         h = "instance" => Override /\ tls[t] # "gone",
         h \in {"allocate", "deallocate", "acquire"} => tls[t] = "live",
         h = "push" => tls[t] # "none" /\ active[t],
         h = "new" => (Override => active[t]),
         h = "ring" => Viz,
         Locked(t, [Top(t) EXCEPT !.pt = q])
  PROVE  Nested(t)'
<1>1. /\ Top(t).fn = fn /\ Top(t).pt = pt /\ Top(t) \in FrameType /\ ~Idle(t) /\ TypeOK
      /\ StackOK(t) /\ ThreadOK(t)
  BY PointFacts DEF Nested, Typed
<1>2. PICK f : f = [Top(t) EXCEPT !.pt = q]
  OBVIOUS
<1>3. f \in FrameType /\ f.fn = fn /\ f.pt = q /\ f.saved = Top(t).saved
  BY <1>1, <1>2 DEF FrameType
<1>4. PICK g : g = Enter(h, v)
  OBVIOUS
<1>5. g \in FrameType /\ g.fn = h /\ g.pt = "start" /\ ~Guarded(g)
  BY <1>4, WellFormedEnter DEF WellFormed
<1>6. stack' = [stack EXCEPT ![t] = Front(@) \o <<f, g>>]
  BY <1>2, <1>4 DEF Calls
<1>7. FrameOK(t, Top(t)) /\ (Depth(t) > 1 => Inner(Top(t))) /\ Depth(t) \in Nat \ {0}
  BY <1>1, TopFacts
<1>8. FrameOK(t, f)'
  BY <1>1, <1>3, <1>7 DEF FrameOK, Operator, Building, Override, Viz
<1>9. FrameOK(t, g)'
  BY <1>1, <1>5 DEF FrameOK, Operator, Building, Override, Viz
<1>10. LowerKept(t) /\ Locked(t, f) /\ ~Building(f) /\ ~Building(Top(t))
  BY <1>1, <1>2, <1>3 DEF LowerKept, Building
<1>11. (Depth(t) > 1 => Inner(f)) /\ Inner(g)
  BY <1>1, <1>3, <1>5, <1>7 DEF Inner
<1>12. Waiting(f, g)
  BY <1>3, <1>5 DEF Waiting, Operator
<1>13. NeedsCover(g, 2) => active[t]
  BY <1>5 DEF NeedsCover
<1>14. tls'[t] = "building" => tls[t] = "building" /\ ~Building(Top(t))
  BY <1>10
<1>15. StackOK(t)' /\ ThreadOK(t)'
  BY <1>1, <1>3, <1>5, <1>6, <1>8, <1>9, <1>10, <1>11, <1>12, <1>13, <1>14, CalledStep
<1> QED BY <1>15 DEF Nested

(* Back to the caller, nothing changed but perhaps a mutex or the ring. *)
LEMMA Outward ==
  ASSUME Typed, NEW t \in Threads, Nested(t), NEW fn, NEW pt, At(t, fn, pt),
         UNCHANGED <<build, tls>>, Returns(t), ~Building(Top(t)),
         fn = "instance" => tls[t] \in {"live", "building"},
         \A m \in {"registry", "central"} : mutex'[m] = t <=> mutex[m] = t /\ ~Holding(Top(t), m),
         ring' = t <=> ring = t /\ ~Making(Top(t))
  PROVE  Nested(t)'
<1>1. /\ Top(t).fn = fn /\ ~Idle(t) /\ TypeOK /\ StackOK(t) /\ ThreadOK(t)
  BY PointFacts DEF Nested, Typed
<1>2. active'[t] = IF Guarded(Top(t)) THEN Top(t).saved ELSE active[t]
  BY <1>1 DEF Returns, Guarded, TypeOK
<1>3. stack' = [stack EXCEPT ![t] = Front(@)]
  BY DEF Returns
<1>4. StackOK(t)' /\ ThreadOK(t)'
  BY <1>1, <1>2, <1>3, LeftStep
<1> QED BY <1>4 DEF Nested

(* A call that is not one of the four that hold or make something. *)
LEMMA HoldsNothing ==
  ASSUME NEW f, f.fn \notin {"register", "retire", "acquire", "ring", "instance"}
  PROVE  /\ \A m \in {"registry", "central"} : ~Holding(f, m)
         /\ ~Making(f) /\ ~Building(f)
BY DEF Holding, Making, Building

(* What TopFacts says, where the innermost call is known. *)
LEMMA AtFacts ==
  ASSUME Typed, NEW t \in Threads, Nested(t), NEW fn, NEW pt, At(t, fn, pt)
  PROVE  /\ Top(t).fn = fn /\ Top(t).pt = pt /\ ~Idle(t) /\ TypeOK /\ StackOK(t) /\ ThreadOK(t)
         /\ Top(t) \in FrameType /\ Depth(t) \in Nat \ {0} /\ Top(t) = stack[t][Depth(t)]
         /\ FrameOK(t, Top(t))
         /\ Guarded(Top(t)) => active[t]
         /\ NeedsCover(Top(t), Depth(t)) => active[t]
         /\ Depth(t) > 1 => Inner(Top(t))
         /\ \A i \in 1 .. Depth(t) - 1 : Within(stack[t][i].fn, fn)
         /\ \A q : [Top(t) EXCEPT !.pt = q].fn = fn /\ [Top(t) EXCEPT !.pt = q].pt = q
<1>1. Top(t).fn = fn /\ Top(t).pt = pt /\ ~Idle(t) /\ TypeOK /\ StackOK(t) /\ ThreadOK(t)
  BY PointFacts DEF Nested, Typed
<1>2. Top(t) \in FrameType
  BY PointFacts
<1> QED BY <1>1, <1>2, TopFacts DEF FrameType

(* A step that changes neither mutex nor the ring, from and to a point where  *)
(* nothing is held.                                                         *)
LEMMA LockedSame ==
  ASSUME NEW t \in Threads, NEW f, UNCHANGED <<mutex, ring>>,
         \A m \in {"registry", "central"} : Holding(f, m) <=> Holding(Top(t), m),
         Making(f) <=> Making(Top(t)),
         \A m \in {"registry", "central"} : Holding(Top(t), m) => mutex[m] = t,
         Making(Top(t)) => ring = t
  PROVE  Locked(t, f)
BY DEF Locked

(* do_new: one inside other calls takes malloc, so one that goes on is *)
(* outermost. *)
LEMMA NestNew ==
  ASSUME Typed, SoundBuild, NEW t \in Threads, Nested(t), New(t), UNCHANGED build
  PROVE  Nested(t)'
<1>1. CASE (At(t, "new", "start") \/ At(t, "new", "done")) /\ Returns(t) /\ UNCHANGED Others
  <2>1. Top(t).fn = "new"
    BY <1>1, AtFacts
  <2> QED BY <1>1, <2>1, HoldsNothing, Outward DEF Others
<1>2. CASE At(t, "new", "start") /\ ~UsesFallback(t) /\ Override /\ GoGuarded(t, "guarded") /\ UNCHANGED Others
  <2>1. Depth(t) = 1 /\ tls[t] # "gone" /\ "guarded" \in Points
    BY <1>2, AtFacts DEF UsesFallback, NeedsCover, Points
  <2> QED BY <1>2, <2>1, Onward
<1>3. CASE At(t, "new", "guarded") /\ Calls(t, "instance", "instance", NoVec) /\ UNCHANGED <<active, Others>>
  <2>1. Depth(t) = 1 /\ tls[t] # "gone" /\ Override /\ Top(t).fn = "new"
    BY <1>3, AtFacts DEF Inner, FrameOK, Operator
  <2>2. Within("new", "instance") /\ "instance" \in Points /\ "instance" \in Functions
    BY DEF Within, Points, Functions
  <2>3. [Top(t) EXCEPT !.pt = "instance"].fn = "new"
    BY <1>3, AtFacts
  <2>4. Locked(t, [Top(t) EXCEPT !.pt = "instance"])
    BY <1>3, <2>1, <2>3, HoldsNothing, LockedSame DEF Others
  <2> QED BY <1>3, <2>1, <2>2, <2>4, Inward DEF Others
<1>4. CASE At(t, "new", "instance") /\ Calls(t, "done", "allocate", NoVec) /\ UNCHANGED <<active, Others>>
  <2>1. Depth(t) = 1 /\ Top(t).fn = "new"
    BY <1>4, AtFacts DEF Inner
  <2>5. tls[t] = "live"
    BY <1>4, <2>1, AtFacts DEF ThreadOK, Operator
  <2>2. Within("new", "allocate") /\ "done" \in Points /\ "allocate" \in Functions
    BY DEF Within, Points, Functions
  <2>3. [Top(t) EXCEPT !.pt = "done"].fn = "new"
    BY <1>4, AtFacts
  <2>4. Locked(t, [Top(t) EXCEPT !.pt = "done"])
    BY <1>4, <2>1, <2>3, HoldsNothing, LockedSame DEF Others
  <2> QED BY <1>4, <2>1, <2>2, <2>4, <2>5, Inward DEF Others
<1> QED BY <1>1, <1>2, <1>3, <1>4 DEF New

(* do_delete: it goes on only where no destructor is below it. *)
LEMMA NestDelete ==
  ASSUME Typed, SoundBuild, NEW t \in Threads, Nested(t), Delete(t), UNCHANGED build
  PROVE  Nested(t)'
<1>1. CASE (At(t, "delete", "start") \/ At(t, "delete", "done")) /\ Returns(t) /\ UNCHANGED Others
  <2>1. Top(t).fn = "delete"
    BY <1>1, AtFacts
  <2> QED BY <1>1, <2>1, HoldsNothing, Outward DEF Others
<1>2. CASE At(t, "delete", "start") /\ ~FreesOnly(t) /\ GoGuarded(t, "guarded") /\ UNCHANGED Others
  <2>1. Override /\ tls[t] # "gone" /\ "guarded" \in Points
    BY <1>2 DEF FreesOnly, Points
  <2> QED BY <1>2, <2>1, Onward
<1>3. CASE At(t, "delete", "guarded") /\ Calls(t, "instance", "instance", NoVec) /\ UNCHANGED <<active, Others>>
  <2>1. tls[t] # "gone" /\ Override /\ Top(t).fn = "delete"
    BY <1>3, AtFacts DEF FrameOK, Operator
  <2>2. Within("delete", "instance") /\ "instance" \in Points /\ "instance" \in Functions
    BY DEF Within, Points, Functions
  <2>3. [Top(t) EXCEPT !.pt = "instance"].fn = "delete"
    BY <1>3, AtFacts
  <2>4. Locked(t, [Top(t) EXCEPT !.pt = "instance"])
    BY <1>3, <2>1, <2>3, HoldsNothing, LockedSame DEF Others
  <2>5. ASSUME NEW i \in 1 .. Depth(t) - 1 PROVE Within(stack[t][i].fn, "instance")
    <3>1. Within(stack[t][i].fn, "delete")
      BY <1>3, AtFacts
    <3>2. stack[t][i].fn # "retire"
      <4>1. FrameOK(t, stack[t][i]) /\ Waiting(stack[t][i], stack[t][i + 1])
        BY <1>3, AtFacts DEF StackOK
      <4> QED BY <2>1, <4>1 DEF FrameOK, Waiting
    <3> QED BY <3>1, <3>2 DEF Within
  <2> QED BY <1>3, <2>1, <2>2, <2>4, <2>5, Inward DEF Others
<1>4. CASE /\ At(t, "delete", "instance") /\ Len(stack[t]) = 1
           /\ Calls(t, "done", "deallocate", NoVec) /\ UNCHANGED <<active, Others>>
  <2>1. Depth(t) = 1 /\ Top(t).fn = "delete"
    BY <1>4, AtFacts DEF Depth
  <2>5. tls[t] = "live"
    BY <1>4, <2>1, AtFacts DEF ThreadOK, Operator
  <2>2. Within("delete", "deallocate") /\ "done" \in Points /\ "deallocate" \in Functions
    BY DEF Within, Points, Functions
  <2>3. [Top(t) EXCEPT !.pt = "done"].fn = "delete"
    BY <1>4, AtFacts
  <2>4. Locked(t, [Top(t) EXCEPT !.pt = "done"])
    BY <1>4, <2>1, <2>3, HoldsNothing, LockedSame DEF Others
  <2> QED BY <1>4, <2>1, <2>2, <2>4, <2>5, Inward DEF Others
<1>5. CASE At(t, "delete", "instance") /\ Go(t, "done") /\ UNCHANGED <<active, Others>>
  <2>1. Override /\ tls[t] # "gone" /\ "done" \in Points
    BY <1>5, AtFacts DEF FrameOK, Operator, Points
  <2> QED BY <1>5, <2>1, Onward
<1> QED BY <1>1, <1>2, <1>3, <1>4, <1>5 DEF Delete

(* instance(): only operators can be below one that constructs, and they *)
(* say nothing of the thread's allocator but that it is not gone. *)
LEMMA NestInstance ==
  ASSUME Typed, SoundBuild, NEW t \in Threads, Nested(t), Instance(t), UNCHANGED build
  PROVE  Nested(t)'
<1>1. CASE At(t, "instance", "start") /\ GoGuarded(t, "guarded") /\ UNCHANGED Others
  <2>1. "guarded" \in Points
    BY DEF Points
  <2> QED BY <1>1, <2>1, Onward
<1>2. CASE /\ At(t, "instance", "guarded") /\ ~Constructed(t) /\ Calls(t, "built", "register", NoVec)
           /\ tls' = [tls EXCEPT ![t] = "building"] /\ UNCHANGED <<active, ready, mutex, ring, grown, acquired>>
  <2>1. /\ Top(t).fn = "instance" /\ Top(t).pt = "guarded" /\ ~Idle(t) /\ TypeOK /\ StackOK(t) /\ ThreadOK(t)
        /\ Top(t) \in FrameType /\ Depth(t) \in Nat \ {0} /\ Top(t) = stack[t][Depth(t)]
        /\ tls[t] # "gone" /\ (Depth(t) > 1 => Override)
        /\ \A i \in 1 .. Depth(t) - 1 : Within(stack[t][i].fn, "instance")
    BY <1>2, AtFacts DEF FrameOK, Inner
  <2>2. tls[t] = "none"
    <3>1. SUFFICES ASSUME tls[t] = "building" PROVE FALSE
      BY <1>2, <2>1 DEF Constructed, TypeOK
    <3>2. ~Override
      BY <1>2, <3>1 DEF Constructed, SoundBuild
    <3>3. PICK i \in 1 .. Depth(t) : Building(stack[t][i])
      BY <2>1, <3>1 DEF ThreadOK
    <3>4. Depth(t) = 1
      BY <2>1, <3>2
    <3> QED BY <2>1, <3>3, <3>4 DEF Building
  <2>3. ASSUME NEW i \in 1 .. Depth(t) - 1 PROVE Operator(stack[t][i])
    <3>1. Within(stack[t][i].fn, "instance") /\ FrameOK(t, stack[t][i]) /\ Waiting(stack[t][i], stack[t][i + 1])
      BY <2>1 DEF StackOK
    <3>2. stack[t][i].fn # "instance"
      BY <2>2, <3>1 DEF Waiting, FrameOK, Building
    <3> QED BY <2>2, <3>1, <3>2 DEF FrameOK, Within, Operator
  <2>4. PICK f : f = [Top(t) EXCEPT !.pt = "built"]
    OBVIOUS
  <2>5. f \in FrameType /\ f.fn = "instance" /\ f.pt = "built" /\ f.saved = Top(t).saved
    BY <2>1, <2>4 DEF FrameType, Points
  <2>6. PICK g : g = Enter("register", NoVec)
    OBVIOUS
  <2>7. g \in FrameType /\ g.fn = "register" /\ g.pt = "start" /\ ~Guarded(g)
    BY <2>6, WellFormedEnter DEF WellFormed, Functions
  <2>8. stack' = [stack EXCEPT ![t] = Front(@) \o <<f, g>>]
    BY <1>2, <2>4, <2>6 DEF Calls
  <2>9. tls'[t] = "building" /\ active'[t] = active[t]
    BY <1>2 DEF Typed, TypeOK
  <2>10. FrameOK(t, f)' /\ FrameOK(t, g)'
    BY <2>5, <2>7, <2>9 DEF FrameOK, Operator, Building
  <2>11. LowerKept(t) /\ Building(f) /\ ~Building(Top(t))
    BY <2>1, <2>3, <2>5, <2>9 DEF LowerKept, Building
  <2>12. Locked(t, f)
    BY <1>2, <2>1, <2>5 DEF Locked, Holding, Making
  <2>13. (Depth(t) > 1 => Inner(f)) /\ Inner(g) /\ Waiting(f, g)
    BY <2>1, <2>5, <2>7 DEF Inner, Waiting, Operator
  <2>14. active[t] /\ Within(Top(t).fn, g.fn)
    <3>1. Guarded(Top(t))
      BY <1>2, PointFacts
    <3> QED BY <1>2, <2>1, <2>7, <3>1, AtFacts DEF Within
  <2>15. \A i \in 1 .. Depth(t) - 1 : Within(stack[t][i].fn, g.fn) /\ Operator(stack[t][i])
    BY <2>3, <2>7 DEF Within, Operator
  <2>16. StackOK(t)' /\ ThreadOK(t)'
    BY <2>1, <2>5, <2>7, <2>8, <2>9, <2>10, <2>11, <2>12, <2>13, <2>14, <2>15, CalledStep
  <2> QED BY <2>16 DEF Nested
<1>3. CASE /\ At(t, "instance", "built") /\ Go(t, "guarded")
           /\ tls' = [tls EXCEPT ![t] = "live"] /\ UNCHANGED <<active, ready, mutex, ring, grown, acquired>>
  <2>1. /\ Top(t).fn = "instance" /\ Top(t).pt = "built" /\ ~Idle(t) /\ TypeOK /\ StackOK(t) /\ ThreadOK(t)
        /\ Top(t) \in FrameType /\ (Depth(t) > 1 => Inner(Top(t))) /\ Building(Top(t))
    BY <1>3, AtFacts DEF Building
  <2>2. PICK f : f = [Top(t) EXCEPT !.pt = "guarded"]
    OBVIOUS
  <2>3. f \in FrameType /\ f.fn = "instance" /\ f.pt = "guarded" /\ f.saved = Top(t).saved
    BY <2>1, <2>2 DEF FrameType, Points
  <2>4. stack' = [stack EXCEPT ![t] = Append(Front(@), f)]
    BY <1>3, <2>2 DEF Go, Frame
  <2>5. tls'[t] = "live" /\ active'[t] = active[t]
    BY <1>3 DEF Typed, TypeOK
  <2>6. FrameOK(t, f)' /\ ~Building(f)
    BY <2>3, <2>5 DEF FrameOK, Operator, Building
  <2>7. LowerKept(t)
    BY <2>1, <2>5, TopFacts DEF LowerKept
  <2>8. Locked(t, f)
    BY <1>3, <2>1, <2>3 DEF Locked, Holding, Making
  <2>9. (Depth(t) > 1 => Inner(f)) /\ ~Operator(f)
    BY <2>1, <2>3 DEF Inner, Operator
  <2>10. StackOK(t)' /\ ThreadOK(t)'
    BY <2>1, <2>3, <2>4, <2>5, <2>6, <2>7, <2>8, <2>9, MovedStep
  <2> QED BY <2>10 DEF Nested
<1>4. CASE At(t, "instance", "guarded") /\ Constructed(t) /\ Returns(t) /\ UNCHANGED Others
  <2>1. Top(t).fn = "instance" /\ Top(t).pt = "guarded" /\ FrameOK(t, Top(t)) /\ ~Idle(t)
    BY <1>4, AtFacts
  <2>2. ~Building(Top(t)) /\ ~Making(Top(t)) /\ \A m \in {"registry", "central"} : ~Holding(Top(t), m)
    BY <2>1 DEF Building, Making, Holding
  <2>3. tls[t] \in {"live", "building"}
    BY <1>4, <2>1 DEF FrameOK, Constructed
  <2> QED BY <1>4, <2>2, <2>3, Outward DEF Others
<1> QED BY <1>1, <1>2, <1>3, <1>4 DEF Instance

(* allocate: it is outermost or directly in an operator new. *)
LEMMA NestAllocate ==
  ASSUME Typed, SoundBuild, NEW t \in Threads, Nested(t), Allocate(t), UNCHANGED build
  PROVE  Nested(t)'
<1>0. /\ {"pool", "record", "link", "done"} \subseteq Points /\ {"acquire", "push", "ring"} \subseteq Functions
      /\ ExtSlabs(t) \in Vectors
  BY DEF Points, Functions, Vectors, ExtSlabs
<1>1. CASE At(t, "allocate", "start") /\ GoGuarded(t, "pool") /\ UNCHANGED Others
  BY <1>0, <1>1, Onward
<1>2. CASE At(t, "allocate", "pool") /\ Go(t, "record") /\ UNCHANGED <<active, Others>>
  BY <1>0, <1>2, Onward
<1>3. CASE /\ At(t, "allocate", "pool") /\ Calls(t, "link", "acquire", NoVec)
           /\ UNCHANGED <<active, tls, ready, mutex, ring, grown>>
  <2>1. tls[t] = "live" /\ Top(t).fn = "allocate" /\ [Top(t) EXCEPT !.pt = "link"].fn = "allocate"
    BY <1>3, AtFacts DEF FrameOK
  <2>2. Within("allocate", "acquire") /\ \A i \in 1 .. Depth(t) - 1 : Within(stack[t][i].fn, "acquire")
    BY <1>3, AtFacts DEF Within
  <2>3. Locked(t, [Top(t) EXCEPT !.pt = "link"])
    BY <1>3, <2>1, HoldsNothing, LockedSame
  <2> QED BY <1>0, <1>3, <2>1, <2>2, <2>3, Inward
<1>4. CASE At(t, "allocate", "link") /\ Calls(t, "record", "push", ExtSlabs(t)) /\ UNCHANGED <<active, Others>>
  <2>1. tls[t] = "live" /\ Top(t).fn = "allocate" /\ [Top(t) EXCEPT !.pt = "record"].fn = "allocate"
    BY <1>4, AtFacts DEF FrameOK
  <2>2. Within("allocate", "push") /\ \A i \in 1 .. Depth(t) - 1 : Within(stack[t][i].fn, "push")
    BY <1>4, AtFacts DEF Within
  <2>3. Locked(t, [Top(t) EXCEPT !.pt = "record"])
    BY <1>4, <2>1, HoldsNothing, LockedSame DEF Others
  <2>4. active[t]
    <3>1. Guarded(Top(t)) => active[t]
      BY <1>4, AtFacts
    <3>2. Guarded(Top(t)) <=> \/ "allocate" \in {"new", "delete", "instance", "allocate", "acquire"} /\ "link" # "start"
                              \/ "allocate" = "retire" /\ "link" \in {"lock", "unlock"}
      BY <1>4, PointFacts
    <3> QED BY <3>1, <3>2
  <2> QED BY <1>0, <1>4, <2>1, <2>2, <2>3, <2>4, Inward DEF Others
<1>5. CASE At(t, "allocate", "record") /\ Viz /\ Calls(t, "done", "ring", NoVec) /\ UNCHANGED <<active, Others>>
  <2>1. Top(t).fn = "allocate" /\ [Top(t) EXCEPT !.pt = "done"].fn = "allocate"
    BY <1>5, AtFacts
  <2>2. Within("allocate", "ring") /\ \A i \in 1 .. Depth(t) - 1 : Within(stack[t][i].fn, "ring")
    BY <1>5, AtFacts DEF Within
  <2>3. Locked(t, [Top(t) EXCEPT !.pt = "done"])
    BY <1>5, <2>1, HoldsNothing, LockedSame DEF Others
  <2> QED BY <1>0, <1>5, <2>1, <2>2, <2>3, Inward DEF Others
<1>6. CASE At(t, "allocate", IF Viz THEN "done" ELSE "record") /\ Returns(t) /\ UNCHANGED Others
  <2>1. Top(t).fn = "allocate"
    BY <1>6, AtFacts
  <2> QED BY <1>6, <2>1, HoldsNothing, Outward DEF Others
<1> QED BY <1>1, <1>2, <1>3, <1>4, <1>5, <1>6 DEF Allocate

(* deallocate: it is outermost or directly in an operator delete. *)
LEMMA NestDeallocate ==
  ASSUME Typed, SoundBuild, NEW t \in Threads, Nested(t), Deallocate(t), UNCHANGED build
  PROVE  Nested(t)'
<1>1. CASE At(t, "deallocate", "start") /\ Viz /\ Calls(t, "done", "ring", NoVec) /\ UNCHANGED <<active, Others>>
  <2>0. "done" \in Points /\ "ring" \in Functions
    BY DEF Points, Functions
  <2>1. Top(t).fn = "deallocate" /\ [Top(t) EXCEPT !.pt = "done"].fn = "deallocate"
    BY <1>1, AtFacts
  <2>2. Within("deallocate", "ring") /\ \A i \in 1 .. Depth(t) - 1 : Within(stack[t][i].fn, "ring")
    BY <1>1, AtFacts DEF Within
  <2>3. Locked(t, [Top(t) EXCEPT !.pt = "done"])
    BY <1>1, <2>1, HoldsNothing, LockedSame DEF Others
  <2> QED BY <1>1, <2>0, <2>1, <2>2, <2>3, Inward DEF Others
<1>2. CASE At(t, "deallocate", IF Viz THEN "done" ELSE "start") /\ Returns(t) /\ UNCHANGED Others
  <2>1. Top(t).fn = "deallocate"
    BY <1>2, AtFacts
  <2> QED BY <1>2, <2>1, HoldsNothing, Outward DEF Others
<1> QED BY <1>1, <1>2 DEF Deallocate

(* acquire_chunk: it takes CentralHeap's mutex for as long as the two calls *)
(* it makes. *)
LEMMA NestAcquire ==
  ASSUME Typed, SoundBuild, NEW t \in Threads, Nested(t), Acquire(t), UNCHANGED build
  PROVE  Nested(t)'
<1>0. /\ {"lock", "event", "unlock"} \subseteq Points /\ {"push", "ring"} \subseteq Functions
      /\ Vec("chunks") \in Vectors
  BY DEF Points, Functions, Vectors, Vec
<1>1. CASE At(t, "acquire", "start") /\ GoGuarded(t, "lock") /\ UNCHANGED Others
  BY <1>0, <1>1, Onward
<1>2. CASE /\ At(t, "acquire", "lock") /\ Locks(t, "central")
           /\ Calls(t, "event", "push", Vec("chunks")) /\ UNCHANGED <<active, tls, ready, ring, grown, acquired>>
  <2>1. /\ tls[t] = "live" /\ Top(t).fn = "acquire" /\ Top(t).pt = "lock"
        /\ [Top(t) EXCEPT !.pt = "event"].fn = "acquire" /\ [Top(t) EXCEPT !.pt = "event"].pt = "event"
    BY <1>2, AtFacts DEF FrameOK
  <2>2. Within("acquire", "push") /\ \A i \in 1 .. Depth(t) - 1 : Within(stack[t][i].fn, "push")
    BY <1>2, AtFacts DEF Within
  <2>3. Locked(t, [Top(t) EXCEPT !.pt = "event"])
    BY <1>2, <2>1 DEF Locked, Locks, Holding, Making, Typed, TypeOK
  <2>4. active[t]
    BY <1>2, AtFacts, PointFacts
  <2> QED BY <1>0, <1>2, <2>1, <2>2, <2>3, <2>4, Inward
<1>3. CASE At(t, "acquire", "event") /\ Viz /\ Calls(t, "unlock", "ring", NoVec) /\ UNCHANGED <<active, Others>>
  <2>1. /\ Top(t).fn = "acquire" /\ Top(t).pt = "event"
        /\ [Top(t) EXCEPT !.pt = "unlock"].fn = "acquire" /\ [Top(t) EXCEPT !.pt = "unlock"].pt = "unlock"
    BY <1>3, AtFacts
  <2>2. Within("acquire", "ring") /\ \A i \in 1 .. Depth(t) - 1 : Within(stack[t][i].fn, "ring")
    BY <1>3, AtFacts DEF Within
  <2>3. Locked(t, [Top(t) EXCEPT !.pt = "unlock"])
    <3>1. \A m \in {"registry", "central"} : Holding(Top(t), m) => mutex[m] = t
      BY <1>3, AtFacts, TopFacts
    <3> QED BY <1>3, <2>1, <3>1 DEF Locked, Holding, Making, Others
  <2> QED BY <1>0, <1>3, <2>1, <2>2, <2>3, Inward DEF Others
<1>4. CASE /\ At(t, "acquire", IF Viz THEN "unlock" ELSE "event") /\ Unlocks(t, "central")
           /\ Returns(t) /\ UNCHANGED <<tls, ready, ring, grown, acquired>>
  <2>1. Top(t).fn = "acquire" /\ Top(t).pt \in {"unlock", "event"}
    BY <1>4, AtFacts
  <2>2. ~Building(Top(t)) /\ ~Making(Top(t)) /\ ~Holding(Top(t), "registry") /\ Holding(Top(t), "central")
    BY <2>1 DEF Building, Making, Holding
  <2>3. \A m \in {"registry", "central"} : mutex'[m] = t <=> mutex[m] = t /\ ~Holding(Top(t), m)
    BY <1>4, <2>2, ReentryAssumption DEF Unlocks, Typed, TypeOK
  <2> QED BY <1>4, <2>1, <2>2, <2>3, Outward
<1> QED BY <1>1, <1>2, <1>3, <1>4 DEF Acquire

(* register_stats: the guard that covers its two push_backs is *)
(* instance()'s. *)
LEMMA NestRegister ==
  ASSUME Typed, SoundBuild, NEW t \in Threads, Nested(t), Register(t), UNCHANGED build
  PROVE  Nested(t)'
<1>0. /\ {"allocators", "unlock"} \subseteq Points /\ "push" \in Functions
      /\ {Vec("live"), Vec("live_allocators")} \subseteq Vectors
  BY DEF Points, Functions, Vectors, Vec
<1>1. CASE /\ At(t, "register", "start") /\ Locks(t, "registry")
           /\ Calls(t, "allocators", "push", Vec("live")) /\ UNCHANGED <<active, tls, ready, ring, grown, acquired>>
  <2>1. /\ tls[t] = "building" /\ active[t] /\ Top(t).fn = "register" /\ Top(t).pt = "start"
        /\ [Top(t) EXCEPT !.pt = "allocators"].fn = "register" /\ [Top(t) EXCEPT !.pt = "allocators"].pt = "allocators"
    BY <1>1, AtFacts DEF FrameOK, NeedsCover
  <2>2. Within("register", "push") /\ \A i \in 1 .. Depth(t) - 1 : Within(stack[t][i].fn, "push")
    BY <1>1, AtFacts DEF Within
  <2>3. Locked(t, [Top(t) EXCEPT !.pt = "allocators"])
    BY <1>1, <2>1 DEF Locked, Locks, Holding, Making, Typed, TypeOK
  <2> QED BY <1>0, <1>1, <2>1, <2>2, <2>3, Inward
<1>2. CASE /\ At(t, "register", "allocators")
           /\ Calls(t, "unlock", "push", Vec("live_allocators")) /\ UNCHANGED <<active, Others>>
  <2>1. /\ tls[t] = "building" /\ active[t] /\ Top(t).fn = "register" /\ Top(t).pt = "allocators"
        /\ [Top(t) EXCEPT !.pt = "unlock"].fn = "register" /\ [Top(t) EXCEPT !.pt = "unlock"].pt = "unlock"
    BY <1>2, AtFacts DEF FrameOK, NeedsCover
  <2>2. Within("register", "push") /\ \A i \in 1 .. Depth(t) - 1 : Within(stack[t][i].fn, "push")
    BY <1>2, AtFacts DEF Within
  <2>3. Locked(t, [Top(t) EXCEPT !.pt = "unlock"])
    <3>1. \A m \in {"registry", "central"} : Holding(Top(t), m) => mutex[m] = t
      BY <1>2, AtFacts, TopFacts
    <3> QED BY <1>2, <2>1, <3>1 DEF Locked, Holding, Making, Others
  <2> QED BY <1>0, <1>2, <2>1, <2>2, <2>3, Inward DEF Others
<1>3. CASE /\ At(t, "register", "unlock") /\ Unlocks(t, "registry")
           /\ Returns(t) /\ UNCHANGED <<tls, ready, ring, grown, acquired>>
  <2>1. Top(t).fn = "register" /\ Top(t).pt = "unlock"
    BY <1>3, AtFacts
  <2>2. ~Building(Top(t)) /\ ~Making(Top(t)) /\ Holding(Top(t), "registry") /\ ~Holding(Top(t), "central")
    BY <2>1 DEF Building, Making, Holding
  <2>3. \A m \in {"registry", "central"} : mutex'[m] = t <=> mutex[m] = t /\ ~Holding(Top(t), m)
    BY <1>3, <2>2, ReentryAssumption DEF Unlocks, Typed, TypeOK
  <2> QED BY <1>3, <2>1, <2>2, <2>3, Outward
<1> QED BY <1>1, <1>2, <1>3 DEF Register

(* ~ThreadPoolAlloc is always outermost, so the flag that its guard saved *)
(* is clear. *)
LEMMA NestRetire ==
  ASSUME Typed, SoundBuild, NEW t \in Threads, Nested(t), Retire(t), UNCHANGED build
  PROVE  Nested(t)'
<1>0. /\ {"lock", "unlock", "members", "done"} \subseteq Points /\ {"push", "delete"} \subseteq Functions
      /\ Vec("retired") \in Vectors
  BY DEF Points, Functions, Vectors, Vec
<1>a. ASSUME NEW pt, At(t, "retire", pt)
      PROVE  /\ Depth(t) = 1 /\ Top(t).fn = "retire" /\ Top(t).pt = pt /\ FrameOK(t, Top(t)) /\ Top(t) \in FrameType
             /\ ~Idle(t) /\ TypeOK /\ StackOK(t) /\ ThreadOK(t) /\ Top(t) = stack[t][1]
             /\ \A q : [Top(t) EXCEPT !.pt = q].fn = "retire" /\ [Top(t) EXCEPT !.pt = q].pt = q
  <2>1. \A i \in 1 .. Depth(t) - 1 : Within(stack[t][i].fn, "retire")
    BY <1>a, AtFacts
  <2>2. Depth(t) = 1
    BY <1>a, <2>1, AtFacts DEF Within
  <2> QED BY <1>a, <2>2, AtFacts
<1>1. CASE /\ At(t, "retire", "start") /\ tls' = [tls EXCEPT ![t] = "gone"]
           /\ GoGuarded(t, "lock") /\ UNCHANGED <<ready, mutex, ring, grown, acquired>>
  <2>a. /\ Depth(t) = 1 /\ Top(t).fn = "retire" /\ Top(t).pt = "start" /\ FrameOK(t, Top(t)) /\ Top(t) \in FrameType
        /\ ~Idle(t) /\ TypeOK /\ StackOK(t) /\ ThreadOK(t) /\ Top(t) = stack[t][1]
    BY <1>1, <1>a
  <2>1. PICK f : f = [Top(t) EXCEPT !.pt = "lock", !.saved = active[t]]
    OBVIOUS
  <2>2. f \in FrameType /\ f.fn = "retire" /\ f.pt = "lock" /\ f.saved = active[t]
    BY <1>0, <1>1, <1>a, <2>1 DEF FrameType, TypeOK
  <2>3. stack' = [stack EXCEPT ![t] = Append(Front(@), f)]
    BY <1>1, <2>1 DEF GoGuarded, Frame
  <2>4. tls'[t] = "gone" /\ active'[t] /\ ~Guarded(Top(t))
    BY <1>1, PointFacts DEF Typed, TypeOK, GoGuarded
  <2>5. FrameOK(t, f)' /\ LowerKept(t) /\ ~Building(f) /\ ~Operator(f)
    BY <1>1, <1>a, <2>2, <2>4 DEF FrameOK, LowerKept, Building, Operator
  <2>6. Locked(t, f)
    BY <1>1, <1>a, <2>2 DEF Locked, Holding, Making
  <2>c. /\ Depth(t) > 1 => Inner(f)
        /\ Operator(f) => f.pt # "instance"
        /\ tls'[t] = "building" => tls[t] = "building" /\ ~Building(Top(t))
        /\ f.fn = Top(t).fn
    BY <2>a, <2>2, <2>4 DEF Operator
  <2>d. ~Guarded(Top(t)) /\ f.saved = active[t] /\ active'[t]
    BY <2>2, <2>4
  <2>7. StackOK(t)' /\ ThreadOK(t)'
    BY <2>a, <2>c, <2>d, <2>2, <2>3, <2>4, <2>5, <2>6, MovedStep
  <2> QED BY <2>7 DEF Nested
<1>2. CASE /\ At(t, "retire", "lock") /\ Locks(t, "registry")
           /\ Calls(t, "unlock", "push", Vec("retired")) /\ UNCHANGED <<active, tls, ready, ring, grown, acquired>>
  <2>a. /\ Depth(t) = 1 /\ Top(t).fn = "retire" /\ Top(t).pt = "lock" /\ FrameOK(t, Top(t)) /\ Top(t) \in FrameType
        /\ ~Idle(t) /\ TypeOK /\ StackOK(t) /\ ThreadOK(t) /\ Top(t) = stack[t][1]
    BY <1>2, <1>a
  <2>b. Guarded(Top(t))
    BY <1>2, PointFacts
  <2>1. tls[t] = "gone" /\ Depth(t) = 1 /\ active[t]
    BY <1>2, <2>a, <2>b, AtFacts DEF FrameOK
  <2>2. Within("retire", "push")
    BY DEF Within
  <2>3. Locked(t, [Top(t) EXCEPT !.pt = "unlock"])
    BY <1>2, <1>a DEF Locked, Locks, Holding, Making, Typed, TypeOK
  <2> QED BY <1>0, <1>2, <2>1, <2>2, <2>3, Inward
<1>3. CASE /\ At(t, "retire", "unlock") /\ Unlocks(t, "registry")
           /\ Frame(t, [Top(t) EXCEPT !.pt = "members", !.saved = NoGuard])
           /\ active' = [active EXCEPT ![t] = Top(t).saved] /\ UNCHANGED <<tls, ready, ring, grown, acquired>>
  <2>a. /\ Depth(t) = 1 /\ Top(t).fn = "retire" /\ Top(t).pt = "unlock" /\ FrameOK(t, Top(t)) /\ Top(t) \in FrameType
        /\ ~Idle(t) /\ TypeOK /\ StackOK(t) /\ ThreadOK(t) /\ Top(t) = stack[t][1]
    BY <1>3, <1>a
  <2>1. PICK f : f = [Top(t) EXCEPT !.pt = "members", !.saved = NoGuard]
    OBVIOUS
  <2>2. f \in FrameType /\ f.fn = "retire" /\ f.pt = "members" /\ ~Guarded(f)
    BY <1>0, <1>3, <1>a, <2>1 DEF FrameType, Guarded
  <2>3. stack' = [stack EXCEPT ![t] = Append(Front(@), f)]
    BY <1>3, <2>1 DEF Frame
  <2>4. ~Top(t).saved
    <3>1. Guarded(stack[t][1]) /\ 1 \in 1 .. Depth(t)
      <4>1. Guarded(Top(t))
        BY <1>3, PointFacts
      <4> QED BY <2>a, <4>1
    <3>2. stack[t][1].saved <=> \E k \in 1 .. 1 - 1 : Guarded(stack[t][k])
      BY <2>a, <3>1 DEF ThreadOK
    <3> QED BY <2>a, <3>2
  <2>5. tls'[t] = "gone" /\ ~active'[t]
    BY <1>3, <2>a, <2>4 DEF TypeOK, FrameOK
  <2>6. FrameOK(t, f)' /\ LowerKept(t) /\ ~Building(f) /\ ~Operator(f)
    BY <1>3, <1>a, <2>2, <2>5 DEF FrameOK, LowerKept, Building, Operator
  <2>7. Locked(t, f)
    BY <1>3, <1>a, <2>2, ReentryAssumption DEF Locked, Unlocks, Holding, Making, TypeOK
  <2>c. /\ Depth(t) > 1 => Inner(f)
        /\ Operator(f) => f.pt # "instance"
        /\ tls'[t] = "building" => tls[t] = "building" /\ ~Building(Top(t))
        /\ f.fn = Top(t).fn
        /\ \/ f.saved = Top(t).saved /\ active'[t] = active[t]
           \/ ~Guarded(Top(t)) /\ f.saved = active[t] /\ active'[t]
           \/ Depth(t) = 1 /\ ~Guarded(f) /\ ~active'[t]
    BY <2>a, <2>2, <2>5 DEF Operator
  <2>8. StackOK(t)' /\ ThreadOK(t)'
    BY <2>a, <2>c, <2>2, <2>3, <2>5, <2>6, <2>7, MovedStep
  <2> QED BY <2>8 DEF Nested
<1>4. CASE /\ At(t, "retire", "members") /\ Calls(t, "done", "delete", NoVec)
           /\ UNCHANGED <<active, tls, ready, mutex, ring, acquired>>
  <2>1. Depth(t) = 1 /\ Within("retire", "delete")
    BY <1>4, <1>a DEF Within
  <2>2. Locked(t, [Top(t) EXCEPT !.pt = "done"])
    BY <1>4, <1>a DEF Locked, Holding, Making
  <2> QED BY <1>0, <1>4, <2>1, <2>2, Inward
<1>5. CASE (At(t, "retire", "done") \/ At(t, "retire", "members")) /\ Returns(t) /\ UNCHANGED Others
  <2>1. Top(t).fn = "retire" /\ Top(t).pt \in {"done", "members"}
    BY <1>5, <1>a
  <2>2. ~Building(Top(t)) /\ ~Making(Top(t)) /\ \A m \in {"registry", "central"} : ~Holding(Top(t), m)
    BY <2>1 DEF Building, Making, Holding
  <2> QED BY <1>5, <2>1, <2>2, Outward DEF Others
<1> QED BY <1>1, <1>2, <1>3, <1>4, <1>5 DEF Retire

(* push_back: its new is covered by the guard it is covered by itself. *)
LEMMA NestPush ==
  ASSUME Typed, SoundBuild, NEW t \in Threads, Nested(t), Push(t), UNCHANGED build
  PROVE  Nested(t)'
<1>0. {"grown", "done"} \subseteq Points /\ {"new", "delete"} \subseteq Functions
  BY DEF Points, Functions
<1>1. CASE /\ At(t, "push", "start") \/ At(t, "push", "grown") \/ At(t, "push", "done")
           /\ Returns(t) /\ UNCHANGED <<tls, ready, mutex, ring, acquired>>
  <2>1. Top(t).fn = "push"
    BY <1>1, AtFacts
  <2> QED BY <1>1, <2>1, HoldsNothing, Outward
<1>2. CASE At(t, "push", "start") /\ Calls(t, "grown", "new", NoVec) /\ UNCHANGED <<active, Others>>
  <2>1. active[t] /\ Top(t).fn = "push" /\ [Top(t) EXCEPT !.pt = "grown"].fn = "push"
    BY <1>2, AtFacts DEF NeedsCover
  <2>2. Within("push", "new") /\ \A i \in 1 .. Depth(t) - 1 : Within(stack[t][i].fn, "new")
    BY <1>2, AtFacts DEF Within
  <2>3. Locked(t, [Top(t) EXCEPT !.pt = "grown"])
    BY <1>2, <2>1, HoldsNothing, LockedSame DEF Others
  <2> QED BY <1>0, <1>2, <2>1, <2>2, <2>3, Inward DEF Others
<1>3. CASE At(t, "push", "grown") /\ Calls(t, "done", "delete", NoVec) /\ UNCHANGED <<active, Others>>
  <2>1. Top(t).fn = "push" /\ [Top(t) EXCEPT !.pt = "done"].fn = "push"
    BY <1>3, AtFacts
  <2>2. Within("push", "delete") /\ \A i \in 1 .. Depth(t) - 1 : Within(stack[t][i].fn, "delete")
    BY <1>3, AtFacts DEF Within
  <2>3. Locked(t, [Top(t) EXCEPT !.pt = "done"])
    BY <1>3, <2>1, HoldsNothing, LockedSame DEF Others
  <2> QED BY <1>0, <1>3, <2>1, <2>2, <2>3, Inward DEF Others
<1> QED BY <1>1, <1>2, <1>3 DEF Push, Others

(* viz::ring(): its new needs no guard, for in a sound build the operator *)
(* is the runtime's. *)
LEMMA NestRing ==
  ASSUME Typed, SoundBuild, NEW t \in Threads, Nested(t), Ring(t), UNCHANGED build
  PROVE  Nested(t)'
<1>1. CASE At(t, "ring", "start") /\ Returns(t) /\ UNCHANGED Others
  <2>1. Top(t).fn = "ring" /\ Top(t).pt = "start"
    BY <1>1, AtFacts
  <2>2. ~Building(Top(t)) /\ ~Making(Top(t)) /\ \A m \in {"registry", "central"} : ~Holding(Top(t), m)
    BY <2>1 DEF Building, Making, Holding
  <2> QED BY <1>1, <2>1, <2>2, Outward DEF Others
<1>2. CASE /\ At(t, "ring", "start") /\ ring = "none" /\ ring' = t /\ Calls(t, "built", "new", NoVec)
           /\ UNCHANGED <<active, tls, ready, mutex, grown, acquired>>
  <2>0. "built" \in Points /\ "new" \in Functions
    BY DEF Points, Functions
  <2>1. /\ Top(t).fn = "ring" /\ Top(t).pt = "start" /\ ~Override
        /\ [Top(t) EXCEPT !.pt = "built"].fn = "ring" /\ [Top(t) EXCEPT !.pt = "built"].pt = "built"
    BY <1>2, AtFacts DEF FrameOK, SoundBuild
  <2>2. Within("ring", "new") /\ \A i \in 1 .. Depth(t) - 1 : Within(stack[t][i].fn, "new")
    BY <1>2, AtFacts DEF Within
  <2>3. Locked(t, [Top(t) EXCEPT !.pt = "built"])
    BY <1>2, <2>1 DEF Locked, Holding, Making
  <2> QED BY <1>2, <2>0, <2>1, <2>2, <2>3, Inward
<1>3. CASE /\ At(t, "ring", "built") /\ ring' = "made"
           /\ Returns(t) /\ UNCHANGED <<tls, ready, mutex, grown, acquired>>
  <2>1. Top(t).fn = "ring" /\ Top(t).pt = "built"
    BY <1>3, AtFacts
  <2>2. ~Building(Top(t)) /\ Making(Top(t)) /\ \A m \in {"registry", "central"} : ~Holding(Top(t), m)
    BY <2>1 DEF Building, Making, Holding
  <2>3. ring' # t
    BY <1>3, ReentryAssumption
  <2> QED BY <1>3, <2>1, <2>2, <2>3, Outward
<1> QED BY <1>1, <1>2, <1>3 DEF Ring

(* A step of t changes what is t's only, and a mutex or the ring only from or  *)
(* to t.                                                                    *)
LEMMA StepElsewhere ==
  ASSUME Typed, NEW t \in Threads, Nested(t), Step(t), NEW u \in Threads, u # t
  PROVE  /\ UNCHANGED build /\ stack'[u] = stack[u] /\ active'[u] = active[u] /\ tls'[u] = tls[u]
         /\ \A m \in {"registry", "central"} : mutex'[m] = u <=> mutex[m] = u
         /\ ring' = u <=> ring = u
<1>1. UNCHANGED build
  BY DEF Step
<1>2. stack'[u] = stack[u] /\ active'[u] = active[u]
  BY DEF Step, New, Delete, Instance, Allocate, Deallocate, Acquire, Register, Retire, Push, Ring,
         Go, GoGuarded, Frame, Calls, Returns, Typed, TypeOK
<1>3. tls'[u] = tls[u]
  BY DEF Step, New, Delete, Instance, Allocate, Deallocate, Acquire, Register, Retire, Push, Ring,
         Others, Typed, TypeOK
<1>4. UNCHANGED mutex \/ \E m \in {"registry", "central"} : Locks(t, m) \/ (Unlocks(t, m) /\ mutex[m] = t)
  <2>1. CASE Acquire(t)
    <3>1. CASE At(t, "acquire", IF Viz THEN "unlock" ELSE "event") /\ Unlocks(t, "central")
      <4>1. Holding(Top(t), "central")
        BY <3>1 DEF At, Holding
      <4> QED BY <3>1, <4>1, TopFacts DEF At, Nested, Typed
    <3> QED BY <2>1, <3>1 DEF Acquire, Others
  <2>2. CASE Register(t)
    <3>1. CASE At(t, "register", "unlock") /\ Unlocks(t, "registry")
      <4>1. Holding(Top(t), "registry")
        BY <3>1 DEF At, Holding
      <4> QED BY <3>1, <4>1, TopFacts DEF At, Nested, Typed
    <3> QED BY <2>2, <3>1 DEF Register, Others
  <2>3. CASE Retire(t)
    <3>1. CASE At(t, "retire", "unlock") /\ Unlocks(t, "registry")
      <4>1. Holding(Top(t), "registry")
        BY <3>1 DEF At, Holding
      <4> QED BY <3>1, <4>1, TopFacts DEF At, Nested, Typed
    <3> QED BY <2>3, <3>1 DEF Retire, Others
  <2> QED BY <2>1, <2>2, <2>3 DEF Step, New, Delete, Instance, Allocate, Deallocate, Push, Ring, Others
<1>5. \A m \in {"registry", "central"} : mutex'[m] = u <=> mutex[m] = u
  BY <1>4, ReentryAssumption DEF Locks, Unlocks, Typed, TypeOK
<1>6. UNCHANGED ring \/ (ring = "none" /\ ring' = t) \/ (ring = t /\ ring' = "made")
  <2>1. CASE Ring(t)
    <3>1. CASE At(t, "ring", "built") /\ ring' = "made"
      <4>1. Making(Top(t))
        BY <3>1 DEF At, Making
      <4> QED BY <3>1, <4>1, TopFacts DEF At, Nested, Typed
    <3> QED BY <2>1, <3>1 DEF Ring, Others
  <2> QED BY <2>1 DEF Step, New, Delete, Instance, Allocate, Deallocate, Acquire, Register, Retire, Push, Others
<1>7. ring' = u <=> ring = u
  BY <1>6, ReentryAssumption
<1> QED BY <1>1, <1>2, <1>3, <1>5, <1>7

(* A thread that begins a call has nothing yet. *)
LEMMA NestCall ==
  ASSUME Typed, SoundBuild, NEW t \in Threads, Nested(t), Call(t)
  PROVE  Nested(t)'
<1>1. /\ stack[t] = <<>> /\ StackOK(t) /\ ThreadOK(t) /\ UNCHANGED <<build, active, Others>>
      /\ stack \in [Threads -> Seq(FrameType)]
  BY DEF Call, Idle, Nested, Typed, TypeOK
<1>2. Depth(t) = 0
  BY <1>1 DEF Depth
<1>3. PICK fn \in Entries(t) : stack' = [stack EXCEPT ![t] = <<Enter(fn, NoVec)>>]
  BY DEF Call
<1>4. PICK f : f = Enter(fn, NoVec)
  OBVIOUS
<1>5. f.fn = fn /\ f.pt = "start" /\ ~Guarded(f)
  BY <1>4 DEF Enter, Guarded
<1>6. Depth(t)' = 1 /\ stack'[t][1] = f
  BY <1>1, <1>3, <1>4 DEF Depth
<1>7. /\ fn \in {"new", "delete", "instance", "allocate", "deallocate", "retire", "ring"}
      /\ fn = "instance" => tls[t] # "gone"
      /\ fn \in {"allocate", "deallocate", "retire"} => tls[t] = "live"
      /\ fn = "ring" => Viz
  BY <1>3 DEF Entries
<1>8. FrameOK(t, f)'
  BY <1>1, <1>5, <1>7 DEF FrameOK, Operator, Building, Viz, Others
<1>9. ~NeedsCover(f, 1)' /\ ~Building(f) /\ ~Making(f) /\ \A m \in {"registry", "central"} : ~Holding(f, m)
  BY <1>5, <1>7 DEF NeedsCover, Building, Making, Holding
<1>10. \A i \in 1 .. 1 : i = 1
  OBVIOUS
<1>11. StackOK(t)'
  BY <1>6, <1>8, <1>9, <1>10 DEF StackOK
<1>12. /\ ~active[t] /\ tls[t] # "building" /\ ring # t
       /\ \A m \in {"registry", "central"} : mutex[m] # t
  BY <1>1, <1>2 DEF ThreadOK
<1>13. ThreadOK(t)'
  BY <1>1, <1>5, <1>6, <1>9, <1>10, <1>12 DEF ThreadOK, Others
<1> QED BY <1>11, <1>13 DEF Nested

(* Every step of a sound build keeps the nesting. *)
LEMMA NestingNext == Typed /\ SoundBuild /\ Nesting /\ [Next]_vars => Nesting'
<1> SUFFICES ASSUME Typed, SoundBuild, Nesting, [Next]_vars, NEW u \in Threads PROVE Nested(u)'
  BY DEF Nesting, Nested
<1>1. Nested(u)
  BY DEF Nesting, Nested
<1>2. CASE SetReady
  BY <1>1, <1>2, Elsewhere DEF SetReady
<1>3. CASE UNCHANGED vars
  BY <1>1, <1>3, Elsewhere DEF vars
<1>4. ASSUME NEW t \in Threads, Step(t) PROVE Nested(u)'
  <2>1. Nested(t) /\ UNCHANGED build
    BY <1>4 DEF Nesting, Nested, Step
  <2>2. CASE u = t
    BY <1>4, <2>1, <2>2, NestNew, NestDelete, NestInstance, NestAllocate, NestDeallocate,
       NestAcquire, NestRegister, NestRetire, NestPush, NestRing DEF Step
  <2>3. CASE u # t
    BY <1>1, <1>4, <2>1, <2>3, StepElsewhere, Elsewhere
  <2> QED BY <2>2, <2>3
<1>5. ASSUME NEW t \in Threads, Call(t) PROVE Nested(u)'
  <2>1. Nested(t) /\ UNCHANGED <<build, active, Others>>
    BY <1>5 DEF Nesting, Nested, Call
  <2>2. CASE u = t
    BY <1>5, <2>1, <2>2, NestCall
  <2>3. CASE u # t
    <3>1. stack'[u] = stack[u]
      BY <1>5, <2>3 DEF Call, Typed
    <3> QED BY <1>1, <2>1, <3>1, Elsewhere DEF Others
  <2> QED BY <2>2, <2>3
<1> QED BY <1>2, <1>3, <1>4, <1>5 DEF Next

(* No thread is in a call at first. *)
LEMMA NestingInit == Init => Nesting
<1> SUFFICES ASSUME Init, NEW t \in Threads PROVE StackOK(t) /\ ThreadOK(t)
  BY DEF Nesting
<1>1. stack[t] = <<>> /\ Depth(t) = 0
  BY DEF Init, Depth
<1>2. /\ ~active[t] /\ tls[t] = "none" /\ ring # t
      /\ \A m \in {"registry", "central"} : mutex[m] # t
  BY ReentryAssumption DEF Init
<1>3. StackOK(t)
  BY <1>1 DEF StackOK
<1>4. ThreadOK(t)
  BY <1>1, <1>2 DEF ThreadOK
<1> QED BY <1>3, <1>4

------------------------------------------------------------------------------
(* The invariant is inductive, so it holds in every reachable state.         *)
LEMMA Inductive ==
  /\ Init => IInv
  /\ IInv /\ [Next]_vars => IInv'
<1>1. Init => IInv
  BY TypedInit, NestingInit DEF IInv
<1>2. IInv /\ [Next]_vars => IInv'
  <2> SUFFICES ASSUME IInv, [Next]_vars PROVE IInv'
    OBVIOUS
  <2>1. UNCHANGED build
    BY DEF Next, SetReady, Step, Call, vars
  <2>2. SoundBuild' => SoundBuild
    BY <2>1 DEF SoundBuild, Override, GuardFirst, Viz
  <2>3. Typed'
    BY TypedNext DEF IInv
  <2>4. SoundBuild => Nesting'
    BY NestingNext DEF IInv
  <2> QED BY <2>2, <2>3, <2>4 DEF IInv
<1> QED BY <1>1, <1>2

(* The invariant holds in every state. *)
LEMMA SpecIInv == Spec => []IInv
<1> QED BY Inductive, PTL DEF Spec

(* TypeOK holds of every build: a step leaves every variable of its type.     *)
THEOREM TypeCorrect == Spec => []TypeOK
<1>1. IInv => TypeOK
  BY DEF IInv, Typed
<1> QED BY <1>1, SpecIInv, PTL

(* Where a thread waits. *)
LEMMA WaitPoints ==
  ASSUME NEW t \in Threads, NEW u \in WaitsFor(t)
  PROVE  \/ u = mutex["registry"] /\ (At(t, "register", "start") \/ At(t, "retire", "lock"))
         \/ u = mutex["central"] /\ At(t, "acquire", "lock")
         \/ u = ring /\ At(t, "ring", "start")
BY DEF WaitsFor

(* The innermost call of a thread that has something in hand is the call that   *)
(* took it, or one that can be made inside that.                             *)
LEMMA InHand ==
  ASSUME Typed, Nesting, NEW t \in Threads, NEW fn, NEW pt, At(t, fn, pt)
  PROVE  /\ \A m \in {"registry", "central"} : mutex[m] = t =>
              \E f : Holding(f, m) /\ ((f.fn = fn /\ f.pt = pt) \/ Within(f.fn, fn))
         /\ ring = t => fn = "new" \/ (fn = "ring" /\ pt = "built")
<1>1. Nested(t) /\ StackOK(t) /\ ThreadOK(t)
  BY DEF Nesting, Nested
<1>2. ASSUME NEW m \in {"registry", "central"}, mutex[m] = t
      PROVE  \E f : Holding(f, m) /\ ((f.fn = fn /\ f.pt = pt) \/ Within(f.fn, fn))
  <2>1. PICK i \in 1 .. Depth(t) : Holding(stack[t][i], m)
    BY <1>1, <1>2 DEF ThreadOK
  <2>2. i = Depth(t) \/ i \in 1 .. Depth(t) - 1
    BY <1>1, AtFacts
  <2> QED BY <1>1, <2>1, <2>2, AtFacts
<1>3. ASSUME ring = t PROVE fn = "new" \/ (fn = "ring" /\ pt = "built")
  <2>1. PICK i \in 1 .. Depth(t) : Making(stack[t][i])
    BY <1>1, <1>3 DEF ThreadOK
  <2>2. i = Depth(t) \/ i \in 1 .. Depth(t) - 1
    BY <1>1, AtFacts
  <2> QED BY <1>1, <2>1, <2>2, AtFacts DEF Making, Within
<1> QED BY <1>2, <1>3

(* The maker of the ring and the holder of the registry's mutex wait for        *)
(* nobody; the holder of CentralHeap's mutex waits at most for the ring.       *)
LEMMA HoldersGoOn ==
  ASSUME Typed, Nesting, NEW t \in Threads
  PROVE  /\ ring = t => WaitsFor(t) = {}
         /\ mutex["registry"] = t => WaitsFor(t) = {}
         /\ mutex["central"] = t => WaitsFor(t) \subseteq {ring}
<1>1. ASSUME ring = t, NEW u \in WaitsFor(t) PROVE FALSE
  <2>1. \E fn, pt : At(t, fn, pt) /\ <<fn, pt>> \in {<<"register", "start">>, <<"retire", "lock">>,
                                                   <<"acquire", "lock">>, <<"ring", "start">>}
    BY WaitPoints
  <2> QED BY <1>1, <2>1, InHand
<1>2. ASSUME mutex["registry"] = t, NEW u \in WaitsFor(t) PROVE FALSE
  <2>1. \E fn, pt : At(t, fn, pt) /\ <<fn, pt>> \in {<<"register", "start">>, <<"retire", "lock">>,
                                                   <<"acquire", "lock">>, <<"ring", "start">>}
    BY WaitPoints
  <2> QED BY <1>2, <2>1, InHand DEF Holding, Within
<1>3. ASSUME mutex["central"] = t, NEW u \in WaitsFor(t) PROVE u = ring
  <2>1. \E fn, pt : At(t, fn, pt) /\ (u = ring \/ <<fn, pt>> \in {<<"register", "start">>, <<"retire", "lock">>,
                                                   <<"acquire", "lock">>})
    BY WaitPoints
  <2> QED BY <1>3, <2>1, InHand DEF Holding, Within
<1> QED BY <1>1, <1>2, <1>3

LEMMA NoDeadlockHolds == Typed /\ Nesting => NoDeadlock
<1> SUFFICES ASSUME Typed, Nesting, NEW t \in Threads, NEW u \in WaitsFor(t), NEW v \in WaitsFor(u)
             PROVE  WaitsFor(v) = {}
  BY DEF NoDeadlock
<1>1. u \in Threads /\ v \in Threads
  BY DEF WaitsFor
<1>2. u = mutex["central"]
  BY <1>1, WaitPoints, HoldersGoOn
<1>3. v = ring
  BY <1>1, <1>2, HoldersGoOn
<1> QED BY <1>1, <1>3, HoldersGoOn

(* Waiting for itself would be a circle. *)
LEMMA NoSelfDeadlockHolds == Typed /\ Nesting => NoSelfDeadlock
<1> SUFFICES ASSUME Typed, Nesting, NEW t \in Threads
             PROVE  /\ mutex["registry"] = t => ~At(t, "register", "start") /\ ~At(t, "retire", "lock")
                    /\ mutex["central"] = t => ~At(t, "acquire", "lock")
                    /\ ring = t => ~At(t, "ring", "start")
  BY DEF NoSelfDeadlock
<1>1. t \notin WaitsFor(t)
  BY NoDeadlockHolds DEF NoDeadlock
<1> QED BY <1>1 DEF WaitsFor

(* A new inside other calls has a guard below it.                             *)
LEMMA NestedNewFallsBackHolds == Typed /\ Nesting => NestedNewFallsBack
<1> SUFFICES ASSUME Typed, Nesting, NEW t \in Threads, At(t, "new", "start"), Len(stack[t]) > 1, Override
             PROVE  active[t]
  BY DEF NestedNewFallsBack, UsesFallback
<1>1. Nested(t) /\ Depth(t) > 1
  BY DEF Nesting, Nested, Depth
<1>2. Top(t).fn = "new" /\ (NeedsCover(Top(t), Depth(t)) => active[t])
  BY <1>1, AtFacts
<1> QED BY <1>1, <1>2 DEF NeedsCover

(* No function but three can be called inside itself.                         *)
LEMMA NotReenteredHolds == Nesting => NotReentered
<1> SUFFICES ASSUME Nesting, NEW t \in Threads, NEW fn \in Functions \ {"new", "delete", "instance"}
             PROVE  Frames(t, fn) <= 1
  BY DEF NotReentered
<1> DEFINE I == {i \in 1 .. Len(stack[t]) : stack[t][i].fn = fn}
<1>1. ASSUME NEW j \in I, NEW i \in I, i < j PROVE FALSE
  <2>1. j \in 1 .. Depth(t) /\ i \in 1 .. j - 1
    BY <1>1 DEF Depth
  <2>2. Within(fn, fn)
    BY <2>1 DEF Nesting, StackOK
  <2> QED BY <2>2 DEF Within, Functions
<1>2. \A i, j \in I : i = j
  <2>1. \A i, j \in I : i \in Int /\ j \in Int
    OBVIOUS
  <2> QED BY <1>1, <2>1
<1>a. Frames(t, fn) = Cardinality(I)
  BY DEF Frames
<1> HIDE DEF I
<1>3. CASE I = {}
  BY <1>a, <1>3, FS_EmptySet
<1>4. CASE I # {}
  <2>1. PICK i : I = {i}
    BY <1>2, <1>4
  <2>2. Cardinality({i}) = 1
    BY FS_Singleton
  <2> QED BY <1>a, <2>1, <2>2
<1> QED BY <1>3, <1>4

(* A thread in no call has what no calls say.                                 *)
LEMMA NothingLeftBehindHolds == Typed /\ Nesting => NothingLeftBehind
<1> SUFFICES ASSUME Typed, Nesting, NEW t \in Threads, Idle(t)
             PROVE  ~active[t] /\ ring # t /\ \A m \in {"registry", "central"} : mutex[m] # t
  BY DEF NothingLeftBehind, Typed, TypeOK
<1>1. ThreadOK(t) /\ Depth(t) = 0
  BY DEF Nesting, Idle, Depth
<1> QED BY <1>1 DEF ThreadOK

(* Each of the five functions says that its thread's allocator is not gone.   *)
LEMMA GoneIsLeftAloneHolds == Nesting => GoneIsLeftAlone
<1> SUFFICES ASSUME Nesting, NEW t \in Threads, tls[t] = "gone",
                    NEW fn \in {"instance", "allocate", "deallocate", "acquire", "register"}
             PROVE  Frames(t, fn) = 0
  BY DEF GoneIsLeftAlone
<1>1. \A i \in 1 .. Depth(t) : FrameOK(t, stack[t][i])
  BY DEF Nesting, StackOK
<1>2. {i \in 1 .. Len(stack[t]) : stack[t][i].fn = fn} = {}
  BY <1>1 DEF FrameOK, Depth
<1> QED BY <1>2, FS_EmptySet DEF Frames

(* In a sound build no threads wait for each other in a circle: the registry's  *)
(* mutex and the ring are each the last thing a thread waits for, and who       *)
(* holds CentralHeap's mutex waits at most for the ring.                      *)
THEOREM NeverDeadlocks == Spec => [](SoundBuild => NoDeadlock)
<1>1. IInv => (SoundBuild => NoDeadlock)
  BY NoDeadlockHolds DEF IInv
<1> QED BY <1>1, SpecIInv, PTL

(* In a sound build no thread is about to lock a mutex that it holds, or to   *)
(* wait for the static that it is itself initialising: register_stats,        *)
(* retire_stats, acquire_chunk and ring() are never inside themselves.        *)
THEOREM NeverSelfDeadlocks == Spec => [](SoundBuild => NoSelfDeadlock)
<1>1. IInv => (SoundBuild => NoSelfDeadlock)
  BY NoSelfDeadlockHolds DEF IInv
<1> QED BY <1>1, SpecIInv, PTL

(* In a sound build an operator new that the allocator causes takes malloc.   *)
THEOREM NestedNewsFallBack == Spec => [](SoundBuild => NestedNewFallsBack)
<1>1. IInv => (SoundBuild => NestedNewFallsBack)
  BY NestedNewFallsBackHolds DEF IInv
<1> QED BY <1>1, SpecIInv, PTL

(* In a sound build only the operators and instance() nest in themselves.     *)
THEOREM NeverReentered == Spec => [](SoundBuild => NotReentered)
<1>1. IInv => (SoundBuild => NotReentered)
  BY NotReenteredHolds DEF IInv
<1> QED BY <1>1, SpecIInv, PTL

(* In a sound build a thread that is in no call of the allocator has neither  *)
(* the active flag set nor a mutex locked nor the ring half made.             *)
THEOREM NothingIsLeftBehind == Spec => [](SoundBuild => NothingLeftBehind)
<1>1. IInv => (SoundBuild => NothingLeftBehind)
  BY NothingLeftBehindHolds DEF IInv
<1> QED BY <1>1, SpecIInv, PTL

(* In a sound build, once ~ThreadPoolAlloc has begun nothing of that thread   *)
(* is in the object: not its own vectors' release, not the operators.         *)
THEOREM GoneStaysAlone == Spec => [](SoundBuild => GoneIsLeftAlone)
<1>1. IInv => (SoundBuild => GoneIsLeftAlone)
  BY GoneIsLeftAloneHolds DEF IInv
<1> QED BY <1>1, SpecIInv, PTL
=============================================================================
