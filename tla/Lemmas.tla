------------------------------- MODULE Lemmas -------------------------------
(***************************************************************************)
(* Facts about the data that the proofs share: the sizes of finite sets,   *)
(* for invariants that count what workers, runs or deliveries may still    *)
(* do; induction over numbers; and what loops over sequences return.       *)
(***************************************************************************)
EXTENDS Integers, FiniteSets, SequencesExt, FiniteSetTheorems, SequenceTheorems, WellFoundedInduction, TLAPS

\* A part of a finite set is finite and has no more elements.
LEMMA Part ==
  ASSUME NEW T, IsFiniteSet(T), NEW S \in SUBSET T
  PROVE  /\ IsFiniteSet(S)
         /\ Cardinality(S) \in Nat /\ Cardinality(T) \in Nat
         /\ Cardinality(S) <= Cardinality(T)
  BY FS_Subset, FS_CardinalityType

\* A set that gained at most x has at most one more element.
LEMMA OneJoins ==
  ASSUME NEW T, IsFiniteSet(T), NEW x, NEW S \in SUBSET (T \union {x})
  PROVE  /\ IsFiniteSet(S)
         /\ Cardinality(S) \in Nat /\ Cardinality(T) \in Nat
         /\ Cardinality(S) <= Cardinality(T) + 1
  <1>1. Cardinality(T) \in Nat
    BY FS_CardinalityType
  <1>2. IsFiniteSet(T \union {x}) /\ Cardinality(T \union {x}) <= Cardinality(T) + 1
    <2>1. /\ IsFiniteSet(T \union {x})
          /\ Cardinality(T \union {x}) = IF x \in T THEN Cardinality(T) ELSE Cardinality(T) + 1
      BY FS_AddElement
    <2> QED
      BY <1>1, <2>1
  <1>3. IsFiniteSet(S) /\ Cardinality(S) \in Nat /\ Cardinality(S) <= Cardinality(T \union {x})
    BY <1>2, Part
  <1> QED
    BY <1>1, <1>2, <1>3, FS_CardinalityType

\* A set that lost x, and gained nothing, has one element less.
LEMMA OneLeaves ==
  ASSUME NEW T, IsFiniteSet(T), NEW x \in T, NEW S \in SUBSET (T \ {x})
  PROVE  /\ IsFiniteSet(S)
         /\ Cardinality(S) \in Nat /\ Cardinality(T) \in Nat
         /\ Cardinality(S) + 1 <= Cardinality(T)
  <1>1. IsFiniteSet(T \ {x}) /\ Cardinality(T \ {x}) = Cardinality(T) - 1
    BY FS_RemoveElement
  <1>2. Cardinality(S) <= Cardinality(T \ {x})
    BY <1>1, Part
  <1> QED
    BY <1>1, <1>2, Part, FS_CardinalityType

\* Without any element there is nothing to count.
LEMMA Nobody == IsFiniteSet({}) /\ Cardinality({}) = 0
  BY FS_EmptySet

-----------------------------------------------------------------------------
\* Whether x counts in S.
In(x, S) == IF x \in S THEN 1 ELSE 0

\* When only x may have joined S, the size of S grows by what x adds.
LEMMA OneMoves ==
  ASSUME NEW x, NEW S, IsFiniteSet(S), NEW T, T \ {x} \subseteq S
  PROVE  /\ IsFiniteSet(T)
         /\ Cardinality(S) \in Nat /\ Cardinality(T) \in Nat
         /\ Cardinality(T) + In(x, S) <= Cardinality(S) + In(x, T)
  <1>1. /\ IsFiniteSet(S \ {x}) /\ Cardinality(S \ {x}) \in Nat /\ Cardinality(S) \in Nat
        /\ Cardinality(S) = Cardinality(S \ {x}) + In(x, S)
    <2>1. CASE x \in S
      <3>1. IsFiniteSet(S \ {x}) /\ Cardinality(S \ {x}) = Cardinality(S) - 1
        BY <2>1, FS_RemoveElement
      <3> QED
        BY <2>1, <3>1, FS_CardinalityType DEF In
    <2>2. CASE x \notin S
      <3>1. S \ {x} = S /\ In(x, S) = 0
        BY <2>2 DEF In
      <3>2. Cardinality(S) \in Nat
        BY FS_CardinalityType
      <3>3. Cardinality(S \ {x}) = Cardinality(S) /\ IsFiniteSet(S \ {x})
        BY <3>1
      <3> QED
        BY <3>1, <3>2, <3>3
    <2> QED
      BY <2>1, <2>2
  <1>2. /\ IsFiniteSet(T \ {x}) /\ Cardinality(T \ {x}) \in Nat
        /\ Cardinality(T \ {x}) <= Cardinality(S \ {x})
    <2>1. T \ {x} \in SUBSET (S \ {x})
      OBVIOUS
    <2> QED
      BY <1>1, <2>1, Part
  <1>3. IsFiniteSet(T) /\ Cardinality(T) = Cardinality(T \ {x}) + In(x, T)
    <2>1. CASE x \in T
      <3>1. (T \ {x}) \union {x} = T
        BY <2>1
      <3>2. IsFiniteSet(T) /\ Cardinality(T) = Cardinality(T \ {x}) + 1
        BY <1>2, <3>1, FS_AddElement
      <3> QED
        BY <2>1, <3>2 DEF In
    <2>2. CASE x \notin T
      <3>1. T \ {x} = T /\ In(x, T) = 0
        BY <2>2 DEF In
      <3>2. Cardinality(T \ {x}) = Cardinality(T) /\ IsFiniteSet(T)
        BY <1>2, <3>1
      <3> QED
        BY <1>2, <3>1, <3>2
    <2> QED
      BY <2>1, <2>2
  <1>4. In(x, S) \in Nat /\ In(x, T) \in Nat
    BY DEF In
  <1> QED
    BY <1>1, <1>2, <1>3, <1>4

-----------------------------------------------------------------------------
(***************************************************************************)
(* Induction over a set of numbers, and what it says of folds.             *)
(***************************************************************************)
\* A set with 0 and the successor of each of its numbers holds them all.
LEMMA Induction ==
  ASSUME NEW S, 0 \in S, \A n \in Nat : n \in S => n + 1 \in S
  PROVE  Nat \subseteq S
  <1> DEFINE R == OpToRel(<, Nat)
             T == Nat \ S
  <1>1. IsWellFoundedOn(R, Nat)
    BY NatLessThanWellFounded
  <1>2. \A x, y \in Nat : x < y => <<x, y>> \in R
    BY DEF OpToRel
  <1> HIDE DEF R
  <1>3. SUFFICES ASSUME T # {} PROVE FALSE
    OBVIOUS
  <1>4. T \subseteq Nat
    OBVIOUS
  <1>5. PICK x \in T : \A y \in T : <<y, x>> \notin R
    BY <1>1, <1>3, <1>4, WFMin
  <1>6. x \in Nat /\ x \notin S /\ x # 0
    OBVIOUS
  <1>7. x - 1 \in Nat /\ x - 1 < x
    BY <1>6
  <1>8. <<x - 1, x>> \in R
    BY <1>2, <1>6, <1>7
  <1>9. x - 1 \in S
    BY <1>5, <1>7, <1>8
  <1>10. (x - 1) + 1 = x
    BY <1>6
  <1> QED
    BY <1>6, <1>7, <1>9, <1>10

\* The same up to a bound.
LEMMA BoundedInduction ==
  ASSUME NEW S, NEW k \in Nat, 0 \in S, \A n \in 0 .. k - 1 : n \in S => n + 1 \in S
  PROVE  0 .. k \subseteq S
  <1> DEFINE T == {n \in Nat : n <= k => n \in S}
  <1>1. 0 \in T
    OBVIOUS
  <1>2. \A n \in Nat : n \in T => n + 1 \in T
    OBVIOUS
  <1> HIDE DEF T
  <1>3. Nat \subseteq T
    BY <1>1, <1>2, Induction
  <1> QED
    BY <1>3 DEF T

\* A set of numbers that is not empty has a least one.
LEMMA LeastNumber ==
  ASSUME NEW S \in SUBSET Nat, S # {}
  PROVE  Min(S) \in S /\ \A n \in S : Min(S) <= n
  <1> DEFINE T == {n \in Nat : \A m \in 0 .. n : m \notin S}
  <1>1. SUFFICES ASSUME \A x \in S : \E y \in S : ~(x <= y) PROVE FALSE
    BY DEF Min
  <1>2. 0 \in T
    BY <1>1
  <1>3. ASSUME NEW n \in Nat, n \in T PROVE n + 1 \in T
    BY <1>1, <1>3
  <1> HIDE DEF T
  <1>4. Nat \subseteq T
    BY <1>2, <1>3, Induction
  <1>5. PICK n \in S : TRUE
    OBVIOUS
  <1>6. n \in T
    BY <1>4
  <1>7. n \in 0 .. n
    OBVIOUS
  <1> QED
    BY <1>6, <1>7 DEF T

\* The greatest of the first positions of a sequence, and what it leaves.
LEMMA Positions ==
  ASSUME NEW n \in Nat
  PROVE  /\ n > 0 => 1 .. n # {} /\ Max(1 .. n) = n /\ (1 .. n) \ {n} = 1 .. n - 1
         /\ \A S \in SUBSET (1 .. n) : S # {} => Max(S) \in S
  <1>1. n > 0 => 1 .. n # {} /\ Max(1 .. n) = n /\ (1 .. n) \ {n} = 1 .. n - 1
    <2> SUFFICES ASSUME n > 0 PROVE 1 .. n # {} /\ Max(1 .. n) = n /\ (1 .. n) \ {n} = 1 .. n - 1
      OBVIOUS
    <2>1. n \in 1 .. n /\ \A y \in 1 .. n : n >= y
      OBVIOUS
    <2>2. ASSUME NEW x \in 1 .. n, \A y \in 1 .. n : x >= y PROVE x = n
      BY <2>1, <2>2
    <2>3. Max(1 .. n) = n
      BY <2>1, <2>2 DEF Max
    <2> QED
      BY <2>1, <2>3
  <1>2. ASSUME NEW S \in SUBSET (1 .. n), S # {} PROVE Max(S) \in S
    <2> DEFINE U == {k \in Nat : \A j \in n - k .. n : j \notin S}
    <2>1. SUFFICES ASSUME \A x \in S : \E y \in S : ~(x >= y) PROVE FALSE
      BY DEF Max
    <2>2. 0 \in U
      BY <2>1
    <2>3. ASSUME NEW k \in Nat, k \in U PROVE k + 1 \in U
      BY <2>1, <2>3
    <2> HIDE DEF U
    <2>4. Nat \subseteq U
      BY <2>2, <2>3, Induction
    <2>5. PICK k \in S : k \in 1 .. n
      BY <1>2
    <2>6. n - k \in U
      BY <2>4, <2>5
    <2>7. k \in n - (n - k) .. n
      BY <2>5
    <2> QED
      BY <2>6, <2>7 DEF U
  <1> QED
    BY <1>1, <1>2

\* What FoldLeft computes: its recursion takes the last element off a set of
\* positions.
FoldsTo(f, m, s, step, b) ==
  \A S \in SUBSET (1 .. m) :
    f[S] = IF S = {} THEN b ELSE step[<<f[S \ {Max(S)}], s[Max(S)]>>]

\* Such a function exists for every step of a known type.
LEMMA FoldExists ==
  ASSUME NEW A, NEW B, NEW s \in Seq(A), NEW step \in [B \X A -> B], NEW b \in B
  PROVE  \E f \in [SUBSET (1 .. Len(s)) -> B] : FoldsTo(f, Len(s), s, step, b)
  <1> DEFINE IsFold(f, m) == FoldsTo(f, m, s, step, b)
             Exists(m) == \E f \in [SUBSET (1 .. m) -> B] : IsFold(f, m)
             T == {m \in Nat : m <= Len(s) => Exists(m)}
  <1> USE DEF FoldsTo
  <1>0. Len(s) \in Nat /\ DOMAIN s = 1 .. Len(s) /\ \A k \in 1 .. Len(s) : s[k] \in A
    BY LenProperties, ElementOfSeq
  <1>1. 0 \in T
    <2>1. [S \in SUBSET (1 .. 0) |-> b] \in [SUBSET (1 .. 0) -> B]
      OBVIOUS
    <2>2. \A S \in SUBSET (1 .. 0) : S = {}
      OBVIOUS
    <2>3. IsFold([S \in SUBSET (1 .. 0) |-> b], 0)
      BY <2>2
    <2>4. Exists(0)
      BY <2>1, <2>3
    <2> HIDE DEF Exists
    <2> QED
      BY <2>4
  <1>2. ASSUME NEW m \in Nat, m \in T PROVE m + 1 \in T
    <2> HIDE DEF Exists
    <2>1. SUFFICES ASSUME m + 1 <= Len(s) PROVE Exists(m + 1)
      OBVIOUS
    <2>a. Exists(m)
      BY <1>0, <1>2, <2>1
    <2>2. PICK f \in [SUBSET (1 .. m) -> B] : IsFold(f, m)
      BY <2>a DEF Exists
    <2> DEFINE h(S) == IF m + 1 \in S THEN step[<<f[S \ {m + 1}], s[m + 1]>>] ELSE f[S]
               g == [S \in SUBSET (1 .. m + 1) |-> h(S)]
    <2>3. \A S \in SUBSET (1 .. m + 1) : S \ {m + 1} \in SUBSET (1 .. m) /\ (m + 1 \notin S => S \in SUBSET (1 .. m))
      <3> SUFFICES ASSUME NEW S \in SUBSET (1 .. m + 1), NEW k \in S, k # m + 1 PROVE k \in 1 .. m
        OBVIOUS
      <3> QED
        OBVIOUS
    <2>4. s[m + 1] \in A
      BY <1>0, <2>1
    <2>5. g \in [SUBSET (1 .. m + 1) -> B]
      BY <2>3, <2>4
    <2>6. ASSUME NEW S \in SUBSET (1 .. m + 1), m + 1 \in S
          PROVE  g[S] = step[<<g[S \ {Max(S)}], s[Max(S)]>>]
      <3>1. Max(S) = m + 1
        <4>1. \A y \in S : y \in Int /\ m + 1 >= y
          OBVIOUS
        <4>2. ASSUME NEW x \in S, \A y \in S : x >= y PROVE x = m + 1
          BY <2>6, <4>1, <4>2
        <4> QED
          BY <2>6, <4>1, <4>2 DEF Max
      <3>2. g[S \ {m + 1}] = f[S \ {m + 1}]
        BY <2>3
      <3> QED
        BY <2>6, <3>1, <3>2
    <2>8. ASSUME NEW S \in SUBSET (1 .. m + 1), m + 1 \notin S, S # {}
          PROVE  g[S] = step[<<g[S \ {Max(S)}], s[Max(S)]>>]
      <3>1. S \in SUBSET (1 .. m) /\ S \ {Max(S)} \in SUBSET (1 .. m)
        BY <2>3, <2>8
      <3>2. g[S] = f[S] /\ g[S \ {Max(S)}] = f[S \ {Max(S)}]
        BY <2>8, <3>1
      <3> QED
        BY <2>2, <2>8, <3>1, <3>2
    <2>9. g[{}] = b
      BY <2>2
    <2> HIDE DEF g
    <2>10. IsFold(g, m + 1)
      BY <2>6, <2>8, <2>9
    <2> QED
      BY <2>5, <2>10 DEF Exists
  <1> HIDE DEF T
  <1>3. Nat \subseteq T
    BY <1>1, <1>2, Induction
  <1> HIDE DEF Exists
  <1>4. Exists(Len(s))
    BY <1>0, <1>3 DEF T
  <1> QED
    BY <1>4 DEF Exists

\* A function on an interval that stays in a set step by step is in it.
LEMMA LoopTyped ==
  ASSUME NEW B, NEW k \in Nat, NEW f, f[0] \in B,
         \A n \in 1 .. k : f[n - 1] \in B => f[n] \in B
  PROVE  \A n \in 0 .. k : f[n] \in B
  <1> DEFINE T == {n \in 0 .. k : f[n] \in B}
  <1>1. 0 \in T
    OBVIOUS
  <1>2. ASSUME NEW n \in 0 .. k - 1, n \in T PROVE n + 1 \in T
    <2>1. n + 1 \in 1 .. k /\ (n + 1) - 1 = n
      OBVIOUS
    <2>2. f[n + 1] \in B
      BY <1>2, <2>1
    <2> QED
      BY <2>1, <2>2
  <1> HIDE DEF T
  <1>3. 0 .. k \subseteq T
    BY <1>1, <1>2, BoundedInduction
  <1> QED
    BY <1>3 DEF T

\* What a fold over 1 .. Len(s) computes, position by position.
LoopsTo(f, s, step, b) ==
  f[0] = b /\ \A n \in 1 .. Len(s) : f[n] = step[<<f[n - 1], s[n]>>]

\* The value that the loop returns.
LoopReturns(v, s, step, b, B) ==
  \E f \in [0 .. Len(s) -> B] : LoopsTo(f, s, step, b) /\ f[Len(s)] = v

\* The same recursion, where it is known for values of the type B only.
Unfolds(iter, s, step, b, B) ==
  /\ iter[{}] = b
  /\ \A P \in SUBSET (1 .. Len(s)) :
       P # {} /\ iter[P \ {Max(P)}] \in B => iter[P] = step[<<iter[P \ {Max(P)}], s[Max(P)]>>]

\* Such a recursion is a loop over the positions of the sequence.
LEMMA LoopRuns ==
  ASSUME NEW A, NEW B, NEW s \in Seq(A), NEW step \in [B \X A -> B], NEW b \in B, NEW iter,
         Unfolds(iter, s, step, b, B)
  PROVE  LoopReturns(iter[1 .. Len(s)], s, step, b, B)
  <1> DEFINE run == [n \in 0 .. Len(s) |-> iter[1 .. n]]
  <1>0. Len(s) \in Nat /\ DOMAIN s = 1 .. Len(s) /\ \A k \in 1 .. Len(s) : s[k] \in A
    BY LenProperties, ElementOfSeq
  <1>1. run[0] = b
    BY <1>0 DEF Unfolds
  <1>2. ASSUME NEW n \in 1 .. Len(s), run[n - 1] \in B PROVE run[n] = step[<<run[n - 1], s[n]>>]
    <2>1. 1 .. n # {} /\ Max(1 .. n) = n /\ (1 .. n) \ {n} = 1 .. n - 1
      BY <1>0, Positions
    <2>2. 1 .. n \in SUBSET (1 .. Len(s))
      BY <1>0
    <2>3. run[n] = iter[1 .. n] /\ run[n - 1] = iter[1 .. n - 1]
      BY <1>0
    <2>4. iter[1 .. n - 1] \in B
      BY <1>2, <2>3
    <2> HIDE DEF run
    <2>5. iter[1 .. n] = step[<<iter[1 .. n - 1], s[n]>>]
      BY <2>1, <2>2, <2>4 DEF Unfolds
    <2> QED
      BY <2>3, <2>5
  <1>3. run[Len(s)] = iter[1 .. Len(s)] /\ DOMAIN run = 0 .. Len(s) /\ run = [n \in DOMAIN run |-> run[n]]
    BY <1>0
  <1> HIDE DEF run
  <1>4. \A n \in 0 .. Len(s) : run[n] \in B
    <2>1. ASSUME NEW n \in 1 .. Len(s), run[n - 1] \in B PROVE run[n] \in B
      BY <1>0, <1>2, <2>1
    <2> QED
      BY <1>0, <1>1, <2>1, LoopTyped
  <1>5. run \in [0 .. Len(s) -> B]
    BY <1>3, <1>4
  <1> QED
    BY <1>0, <1>1, <1>2, <1>3, <1>4, <1>5 DEF LoopsTo, LoopReturns

\* Two runs of the same loop agree.
AlikeStep(f, g, k) == f[0] = g[0] /\ \A n \in 1 .. k : f[n - 1] = g[n - 1] => f[n] = g[n]
Alike(f, g, k) == \A n \in 0 .. k : f[n] = g[n]

LEMMA LoopsAgree ==
  ASSUME NEW k \in Nat, NEW f, NEW g, AlikeStep(f, g, k)
  PROVE  Alike(f, g, k)
  <1> DEFINE T == {n \in 0 .. k : f[n] = g[n]}
  <1>1. 0 \in T
    BY DEF AlikeStep
  <1>2. ASSUME NEW n \in 0 .. k - 1, n \in T PROVE n + 1 \in T
    <2>1. n + 1 \in 1 .. k /\ (n + 1) - 1 = n
      OBVIOUS
    <2> QED
      BY <1>2, <2>1 DEF AlikeStep
  <1> HIDE DEF T
  <1>3. 0 .. k \subseteq T
    BY <1>1, <1>2, BoundedInduction
  <1> QED
    BY <1>3 DEF T, Alike

-----------------------------------------------------------------------------
(***************************************************************************)
(* The elements of sequences, and how often an element occurs.             *)
(***************************************************************************)

\* What Append adds to the elements of a sequence.
LEMMA InAppend ==
  ASSUME NEW A, NEW s \in Seq(A), NEW x \in A
  PROVE  ToSet(Append(s, x)) = ToSet(s) \union {x}
  <1>1. Append(s, x) \in Seq(A) /\ Len(Append(s, x)) = Len(s) + 1 /\ Len(s) \in Nat
    BY AppendProperties, LenProperties
  <1>2. \A i \in 1 .. Len(s) : Append(s, x)[i] = s[i]
    BY AppendProperties
  <1>3. Append(s, x)[Len(s) + 1] = x /\ Len(s) + 1 \in 1 .. Len(s) + 1
    BY <1>1, AppendProperties
  <1>4. DOMAIN s = 1 .. Len(s) /\ DOMAIN Append(s, x) = 1 .. Len(s) + 1
    BY <1>1, LenProperties
  <1>5. 1 .. Len(s) + 1 = (1 .. Len(s)) \union {Len(s) + 1}
    BY <1>1
  <1> QED
    BY <1>2, <1>3, <1>4, <1>5 DEF ToSet

\* A sequence that is not empty is its front and its last element.
LEMMA FrontAndLast ==
  ASSUME NEW A, NEW s \in Seq(A), s # <<>>
  PROVE  /\ Len(s) \in Nat \ {0}
         /\ Front(s) \in Seq(A) /\ Len(Front(s)) = Len(s) - 1
         /\ \A i \in 1 .. Len(s) - 1 : Front(s)[i] = s[i]
         /\ Last(s) \in A /\ Last(s) = s[Len(s)]
  <1> DEFINE n == Len(s) - 1
  <1>1. Len(s) \in Nat \ {0} /\ \A i \in 1 .. Len(s) : s[i] \in A
    BY LenProperties, ElementOfSeq, EmptySeq
  <1>2. n \in Nat /\ Len(s) = n + 1 /\ \A i \in 1 .. n : s[i] \in A
    BY <1>1
  <1> HIDE DEF n
  <1>3. /\ SubSeq(s, 1, n) \in Seq(A) /\ Len(SubSeq(s, 1, n)) = IF 1 <= n THEN n - 1 + 1 ELSE 0
        /\ \A i \in 1 .. n - 1 + 1 : SubSeq(s, 1, n)[i] = s[1 + i - 1]
    BY <1>2, SubSeqProperties
  <1>4. ASSUME NEW i \in 1 .. n PROVE SubSeq(s, 1, n)[i] = s[i]
    <2>1. i \in 1 .. n - 1 + 1 /\ 1 + i - 1 = i
      BY <1>2
    <2> QED
      BY <1>3, <2>1
  <1>5. Len(SubSeq(s, 1, n)) = n
    BY <1>2, <1>3
  <1> QED
    BY <1>1, <1>3, <1>4, <1>5 DEF Front, Last, n

\* The elements of a concatenation.
LEMMA InConcat ==
  ASSUME NEW A, NEW s \in Seq(A), NEW t \in Seq(A)
  PROVE  ToSet(s \o t) = ToSet(s) \union ToSet(t)
  <1> DEFINE u == s \o t
             m == Len(s)
             k == Len(t)
  <1>1. /\ m \in Nat /\ k \in Nat
        /\ DOMAIN s = 1 .. m /\ DOMAIN t = 1 .. k /\ DOMAIN u = 1 .. m + k
        /\ \A i \in 1 .. m + k : u[i] = IF i <= m THEN s[i] ELSE t[i - m]
    BY ConcatProperties, LenProperties
  <1> HIDE DEF u, m, k
  <1>2. ASSUME NEW i \in 1 .. m + k PROVE u[i] \in ToSet(s) \union ToSet(t)
    <2>1. CASE i <= m
      <3>1. i \in 1 .. m
        BY <1>1, <2>1
      <3> QED
        BY <1>1, <2>1, <3>1 DEF ToSet
    <2>2. CASE ~(i <= m)
      <3>1. i - m \in 1 .. k
        BY <1>1, <2>2
      <3> QED
        BY <1>1, <2>2, <3>1 DEF ToSet
    <2> QED
      BY <2>1, <2>2
  <1>3. ASSUME NEW i \in 1 .. m PROVE s[i] \in ToSet(u)
    <2>1. i \in 1 .. m + k /\ u[i] = s[i]
      BY <1>1
    <2> QED
      BY <1>1, <2>1 DEF ToSet
  <1>4. ASSUME NEW i \in 1 .. k PROVE t[i] \in ToSet(u)
    <2>1. m + i \in 1 .. m + k /\ ~(m + i <= m) /\ (m + i) - m = i
      BY <1>1
    <2>2. u[m + i] = t[i]
      BY <1>1, <2>1
    <2> QED
      BY <1>1, <2>1, <2>2 DEF ToSet
  <1>5. /\ \A x \in ToSet(u) : \E i \in 1 .. m + k : x = u[i]
        /\ \A x \in ToSet(s) : \E i \in 1 .. m : x = s[i]
        /\ \A x \in ToSet(t) : \E i \in 1 .. k : x = t[i]
    BY <1>1 DEF ToSet
  <1>6. ToSet(u) = ToSet(s) \union ToSet(t)
    BY <1>2, <1>3, <1>4, <1>5
  <1> QED
    BY <1>6 DEF u

\* How often e occurs.
Copies(e, items) == Cardinality({n \in DOMAIN items : items[n] = e})

\* A set that maps into another one without collision is no larger.
LEMMA Injected ==
  ASSUME NEW S, IsFiniteSet(S), NEW T, IsFiniteSet(T), NEW f \in [S -> T],
         \A x, y \in S : f[x] = f[y] => x = y
  PROVE  Cardinality(S) <= Cardinality(T)
  <1>1. Cardinality(S) \in Nat /\ Cardinality(T) \in Nat
    BY FS_CardinalityType
  <1>2. ASSUME Cardinality(T) < Cardinality(S) PROVE FALSE
    BY <1>2, FS_PigeonHole
  <1> QED
    BY <1>1, <1>2

\* It is a number, and at most one where no element is repeated.
LEMMA Counted ==
  ASSUME NEW A, NEW s \in Seq(A), NEW e
  PROVE  /\ IsFiniteSet({n \in DOMAIN s : s[n] = e}) /\ Copies(e, s) \in Nat
         /\ e \notin ToSet(s) => Copies(e, s) = 0
         /\ IsInjective(s) => Copies(e, s) <= 1
  <1> DEFINE P == {n \in DOMAIN s : s[n] = e}
  <1>1. IsFiniteSet(1 .. Len(s)) /\ DOMAIN s = 1 .. Len(s)
    BY LenProperties, FS_Interval
  <1>2. IsFiniteSet(P) /\ Cardinality(P) \in Nat
    <2>1. P \in SUBSET (1 .. Len(s))
      BY <1>1
    <2> QED
      BY <1>1, <2>1, Part
  <1>3. e \notin ToSet(s) => P = {}
    BY DEF ToSet
  <1>4. ASSUME IsInjective(s) PROVE P = {} \/ \E n : P = {n}
    BY <1>4 DEF IsInjective
  <1> HIDE DEF P
  <1>5. Cardinality({}) = 0 /\ \A n : Cardinality({n}) = 1
    BY FS_EmptySet, FS_Singleton
  <1>6. ASSUME IsInjective(s) PROVE Cardinality(P) <= 1
    <2>1. CASE P = {}
      BY <1>5, <2>1
    <2>2. ASSUME NEW n, P = {n} PROVE Cardinality(P) <= 1
      <3>1. Cardinality(P) = 1
        BY <1>5, <2>2
      <3> QED
        BY <3>1
    <2> QED
      BY <1>4, <1>6, <2>1, <2>2
  <1> QED
    BY <1>2, <1>3, <1>5, <1>6 DEF Copies, P

\* An element of a sequence without repetitions adds one copy at most.
LEMMA CopiesJoin ==
  ASSUME NEW A, NEW s \in Seq(A), NEW t \in Seq(A), IsInjective(t), NEW e
  PROVE  /\ Copies(e, s \o t) \in Nat /\ Copies(e, s) \in Nat
         /\ e \in ToSet(t) => Copies(e, s \o t) <= Copies(e, s) + 1
         /\ e \notin ToSet(t) => Copies(e, s \o t) <= Copies(e, s)
  <1> DEFINE u == s \o t
             m == Len(s)
             k == Len(t)
             P == {n \in DOMAIN s : s[n] = e}
             Q == {n \in DOMAIN u : u[n] = e}
  <1>1. /\ m \in Nat /\ k \in Nat /\ u \in Seq(A)
        /\ DOMAIN s = 1 .. m /\ DOMAIN t = 1 .. k /\ DOMAIN u = 1 .. m + k
        /\ \A i \in 1 .. m + k : u[i] = IF i <= m THEN s[i] ELSE t[i - m]
    BY ConcatProperties, LenProperties
  <1>2. IsFiniteSet(P) /\ Copies(e, u) \in Nat /\ Copies(e, s) \in Nat
    BY <1>1, Counted
  <1>3. Copies(e, u) = Cardinality(Q) /\ Copies(e, s) = Cardinality(P)
    BY DEF Copies
  <1> HIDE DEF u, m, k
  <1>4. ASSUME NEW i \in Q PROVE i \in P \/ (i - m \in 1 .. k /\ t[i - m] = e /\ i \in Int)
    <2>1. i \in 1 .. m + k /\ u[i] = e /\ i \in Int
      BY <1>1
    <2>2. CASE i <= m
      <3>1. i \in 1 .. m
        BY <1>1, <2>1, <2>2
      <3> QED
        BY <1>1, <2>1, <2>2, <3>1
    <2>3. CASE ~(i <= m)
      <3>1. i - m \in 1 .. k
        BY <1>1, <2>1, <2>3
      <3> QED
        BY <1>1, <2>1, <2>3, <3>1
    <2> QED
      BY <2>2, <2>3
  <1>5. ASSUME e \notin ToSet(t) PROVE Q \in SUBSET P
    BY <1>1, <1>4, <1>5 DEF ToSet
  <1>6. ASSUME e \in ToSet(t) PROVE \E x : Q \in SUBSET (P \union {x})
    <2>1. PICK j \in 1 .. k : t[j] = e
      BY <1>1, <1>6 DEF ToSet
    <2>2. ASSUME NEW i \in Q, i \notin P PROVE i = m + j
      <3>1. i - m \in 1 .. k /\ t[i - m] = e /\ i \in Int
        BY <1>4, <2>2
      <3>2. i - m = j
        BY <1>1, <2>1, <3>1 DEF IsInjective
      <3> QED
        BY <1>1, <3>1, <3>2
    <2>3. Q \in SUBSET (P \union {m + j})
      BY <2>2
    <2> QED
      BY <2>3
  <1> HIDE DEF P, Q
  <1>7. e \notin ToSet(t) => Cardinality(Q) <= Cardinality(P)
    BY <1>2, <1>5, Part
  <1>8. e \in ToSet(t) => Cardinality(Q) <= Cardinality(P) + 1
    BY <1>2, <1>6, OneJoins
  <1> QED
    BY <1>2, <1>3, <1>7, <1>8 DEF u

-----------------------------------------------------------------------------
(***************************************************************************)
(* What FlattenSeq returns.                                                *)
(***************************************************************************)

\* What FlattenSeq computes, element by element.
LEMMA FlattenRun ==
  ASSUME NEW A, NEW s \in Seq(Seq(A))
  PROVE  \E f \in [0 .. Len(s) -> Seq(A)] :
           /\ f[0] = <<>> /\ FlattenSeq(s) = f[Len(s)]
           /\ \A n \in 1 .. Len(s) : f[n] = f[n - 1] \o s[n]
  <1> DEFINE step == [x \in Seq(A) \X Seq(A) |-> x[1] \o x[2]]
             D(f) == [i \in 1 .. Len(s) |-> IF i = 1 THEN s[i] ELSE f[i - 1] \o s[i]]
             flatten == CHOOSE f : f = D(f)
             run == [n \in 0 .. Len(s) |-> IF n = 0 THEN <<>> ELSE flatten[n]]
  <1>0. Len(s) \in Nat /\ DOMAIN s = 1 .. Len(s) /\ \A k \in 1 .. Len(s) : s[k] \in Seq(A)
    BY LenProperties, ElementOfSeq
  <1>1. step \in [Seq(A) \X Seq(A) -> Seq(A)] /\ <<>> \in Seq(A)
    BY ConcatProperties
  <1> HIDE DEF step
  <1>2. PICK f \in [SUBSET (1 .. Len(s)) -> Seq(A)] : FoldsTo(f, Len(s), s, step, <<>>)
    BY <1>0, <1>1, FoldExists
  <1> DEFINE h == [i \in 1 .. Len(s) |-> f[1 .. i]]
  <1>3. ASSUME NEW i \in 1 .. Len(s) PROVE f[1 .. i] = IF i = 1 THEN s[i] ELSE f[1 .. i - 1] \o s[i]
    <2>1. /\ 1 .. i # {} /\ Max(1 .. i) = i /\ (1 .. i) \ {i} = 1 .. i - 1
          /\ 1 .. i \in SUBSET (1 .. Len(s)) /\ 1 .. i - 1 \in SUBSET (1 .. Len(s))
      BY <1>0, Positions
    <2>2. f[1 .. i] = step[<<f[1 .. i - 1], s[i]>>]
      BY <1>2, <2>1 DEF FoldsTo
    <2>3. f[1 .. i - 1] \in Seq(A) /\ s[i] \in Seq(A)
      BY <1>0, <2>1
    <2>4. f[1 .. i] = f[1 .. i - 1] \o s[i]
      BY <2>2, <2>3 DEF step
    <2>5. ASSUME i = 1 PROVE f[1 .. i - 1] = <<>>
      <3>1. 1 .. i - 1 = {}
        BY <2>5
      <3> QED
        BY <1>2, <2>1, <3>1 DEF FoldsTo
    <2>6. i = 1 => f[1 .. i - 1] \o s[i] = s[i]
      BY <2>3, <2>5, ConcatEmptySeq
    <2> QED
      BY <2>4, <2>6
  <1>4. h = D(h)
    <2>1. ASSUME NEW i \in 1 .. Len(s), i # 1 PROVE i - 1 \in 1 .. Len(s)
      BY <1>0, <2>1
    <2> QED
      BY <1>3, <2>1
  <1>5. flatten = D(flatten)
    BY <1>4
  <1>6. FlattenSeq(s) = run[Len(s)]
    <2>1. Len(s) = 0 => s = <<>>
      BY <1>0, EmptySeq
    <2> QED
      BY <1>0, <2>1 DEF FlattenSeq
  <1> HIDE DEF flatten
  <1>7. ASSUME NEW n \in 1 .. Len(s), run[n - 1] \in Seq(A) PROVE run[n] \in Seq(A) /\ run[n] = run[n - 1] \o s[n]
    <2>1. n - 1 \in 0 .. Len(s) /\ n \in 0 .. Len(s) /\ s[n] \in Seq(A)
      BY <1>0
    <2>2. flatten[n] = IF n = 1 THEN s[n] ELSE flatten[n - 1] \o s[n]
      BY <1>5
    <2>3. run[n] = flatten[n] /\ run[n - 1] = IF n = 1 THEN <<>> ELSE flatten[n - 1]
      BY <2>1
    <2>4. <<>> \o s[n] = s[n]
      BY <2>1, ConcatEmptySeq
    <2> HIDE DEF run
    <2>5. run[n] = run[n - 1] \o s[n]
      BY <2>2, <2>3, <2>4
    <2> QED
      BY <1>7, <2>1, <2>5, ConcatProperties
  <1>8. run[0] = <<>> /\ DOMAIN run = 0 .. Len(s) /\ run = [n \in DOMAIN run |-> run[n]]
    BY <1>0
  <1> HIDE DEF run
  <1>9. \A n \in 0 .. Len(s) : run[n] \in Seq(A)
    BY <1>0, <1>1, <1>7, <1>8, LoopTyped
  <1>10. run \in [0 .. Len(s) -> Seq(A)]
    BY <1>8, <1>9
  <1>11. \A n \in 1 .. Len(s) : run[n] = run[n - 1] \o s[n]
    BY <1>0, <1>7, <1>9
  <1> QED
    BY <1>6, <1>8, <1>10, <1>11

\* What the last part adds.
LEMMA FlattenGrows ==
  ASSUME NEW A, NEW s \in Seq(Seq(A)), NEW p \in Seq(A)
  PROVE  /\ FlattenSeq(s) \in Seq(A) /\ FlattenSeq(<<>>) = <<>>
         /\ FlattenSeq(Append(s, p)) = FlattenSeq(s) \o p
  <1> DEFINE more == Append(s, p)
             k == Len(s)
  <1>1. /\ more \in Seq(Seq(A)) /\ k \in Nat /\ Len(more) = k + 1
        /\ (\A i \in 1 .. k : more[i] = s[i]) /\ more[k + 1] = p
    BY AppendProperties, LenProperties
  <1>2. PICK f \in [0 .. k -> Seq(A)] :
          /\ f[0] = <<>> /\ FlattenSeq(s) = f[k]
          /\ \A n \in 1 .. k : f[n] = f[n - 1] \o s[n]
    BY FlattenRun
  <1> HIDE DEF more
  <1>3. PICK g \in [0 .. Len(more) -> Seq(A)] :
          /\ g[0] = <<>> /\ FlattenSeq(more) = g[Len(more)]
          /\ \A n \in 1 .. Len(more) : g[n] = g[n - 1] \o more[n]
    BY <1>1, FlattenRun
  <1> HIDE DEF k
  <1>4. \A n \in 0 .. k : f[n] = g[n]
    <2>1. ASSUME NEW n \in 1 .. k, f[n - 1] = g[n - 1] PROVE f[n] = g[n]
      <3>1. n \in 1 .. Len(more) /\ more[n] = s[n]
        BY <1>1
      <3> QED
        BY <1>2, <1>3, <2>1, <3>1
    <2>2. AlikeStep(f, g, k)
      BY <1>2, <1>3, <2>1 DEF AlikeStep
    <2>3. Alike(f, g, k)
      BY <1>1, <2>2, LoopsAgree
    <2> QED
      BY <2>3 DEF Alike
  <1>5. g[k + 1] = g[k] \o p
    <2>1. k + 1 \in 1 .. Len(more) /\ (k + 1) - 1 = k
      BY <1>1
    <2> QED
      BY <1>1, <1>3, <2>1
  <1>6. FlattenSeq(s) \in Seq(A) /\ FlattenSeq(more) = FlattenSeq(s) \o p
    <2>1. k \in 0 .. k /\ Len(more) = k + 1 /\ f[k] \in Seq(A) /\ f[k] = g[k]
      BY <1>1, <1>2, <1>4
    <2> QED
      BY <1>2, <1>3, <1>5, <2>1
  <1>7. FlattenSeq(<<>>) = <<>>
    BY EmptySeq DEF FlattenSeq
  <1> QED
    BY <1>6, <1>7 DEF more

\* What a flattened sequence holds was in one of its parts.
LEMMA FlattenHolds ==
  ASSUME NEW A, NEW s \in Seq(Seq(A))
  PROVE  \A x \in ToSet(FlattenSeq(s)) : \E k \in DOMAIN s : x \in ToSet(s[k])
  <1>0. Len(s) \in Nat /\ DOMAIN s = 1 .. Len(s) /\ \A k \in 1 .. Len(s) : s[k] \in Seq(A)
    BY LenProperties, ElementOfSeq
  <1>1. PICK f \in [0 .. Len(s) -> Seq(A)] :
          /\ f[0] = <<>> /\ FlattenSeq(s) = f[Len(s)]
          /\ \A n \in 1 .. Len(s) : f[n] = f[n - 1] \o s[n]
    BY FlattenRun
  <1> DEFINE T == {n \in 0 .. Len(s) : \A x \in ToSet(f[n]) : \E k \in 1 .. n : x \in ToSet(s[k])}
  <1>2. 0 \in T
    <2>1. ToSet(<<>>) = {}
      BY DEF ToSet
    <2> QED
      BY <1>0, <1>1, <2>1
  <1>3. ASSUME NEW n \in 0 .. Len(s) - 1, n \in T PROVE n + 1 \in T
    <2>1. n + 1 \in 1 .. Len(s) /\ (n + 1) - 1 = n /\ n \in 0 .. Len(s)
      BY <1>0
    <2>2. f[n + 1] = f[n] \o s[n + 1] /\ f[n] \in Seq(A) /\ s[n + 1] \in Seq(A)
      BY <1>0, <1>1, <2>1
    <2>3. ToSet(f[n + 1]) \subseteq ToSet(f[n]) \union ToSet(s[n + 1])
      BY <2>2, InConcat
    <2>4. 1 .. n + 1 = (1 .. n) \union {n + 1}
      OBVIOUS
    <2> QED
      BY <1>3, <2>1, <2>3, <2>4
  <1> HIDE DEF T
  <1>4. 0 .. Len(s) \subseteq T
    BY <1>0, <1>2, <1>3, BoundedInduction
  <1>5. Len(s) \in T
    BY <1>0, <1>4
  <1> QED
    BY <1>0, <1>1, <1>5 DEF T
=============================================================================
