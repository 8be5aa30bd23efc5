-------------------------------- MODULE Facts --------------------------------
(***************************************************************************)
(* What the proofs of several components know of numbers, queues, sums,    *)
(* folds and ranks.                                                        *)
(*                                                                         *)
(* Induction over a number is an argument about the least one for which a  *)
(* fact fails; a sum over a finite function is as many pairs; and a fold   *)
(* over a sequence is what solves its equation, once there is a solution.  *)
(***************************************************************************)
EXTENDS Integers, Sequences, FiniteSets, SequencesExt, FiniteSetTheorems,
        SequenceTheorems, WellFoundedInduction, TLAPS

-----------------------------------------------------------------------------
(* Numbers. *)

(* A nonempty set of naturals has a least element.                         *)
LEMMA LeastIs ==
  ASSUME NEW S \in SUBSET Nat, S # {}
  PROVE  \E x \in S : \A y \in S : x <= y
<1> DEFINE R == {ss \in Nat \X Nat : ss[1] < ss[2]}
<1>1. \A x, y \in Nat : y < x => <<y, x>> \in R
  OBVIOUS
<1>2. IsWellFoundedOn(R, Nat)
  BY NatLessThanWellFounded DEF OpToRel
<1> HIDE DEF R
<1>3. PICK x \in S : \A y \in S : ~(<<y, x>> \in R)
  BY <1>2, WFMin
<1>4. \A y \in S : x <= y
  <2> TAKE y \in S
  <2>1. x \in Nat /\ y \in Nat
    OBVIOUS
  <2>2. ~(y < x)
    BY <1>1, <1>3, <2>1, Zenon
  <2> QED BY <2>1, <2>2
<1> QED BY <1>4

(* What holds of nothing, and of each number if of the one before, holds   *)
(* of all numbers: the members of Holds are those it holds of.             *)
LEMMA CountingUp ==
  ASSUME NEW n \in Nat, NEW Holds, 0 \in Holds,
         \A k \in 1 .. n : k - 1 \in Holds => k \in Holds
  PROVE  \A k \in 0 .. n : k \in Holds
<1> DEFINE Bad == {k \in 0 .. n : k \notin Holds}
<1> SUFFICES ASSUME Bad # {} PROVE FALSE
  OBVIOUS
<1>1. PICK k \in Bad : \A j \in Bad : k <= j
  <2>1. Bad \in SUBSET Nat
    OBVIOUS
  <2> HIDE DEF Bad
  <2> QED BY <2>1, LeastIs
<1>2. k \in 1 .. n /\ k - 1 \in 0 .. n /\ ~(k <= k - 1) /\ k \notin Holds
  OBVIOUS
<1>3. k - 1 \notin Bad
  <2> HIDE DEF Bad
  <2> QED BY <1>1, <1>2
<1>4. k - 1 \in Holds
  BY <1>2, <1>3
<1> QED BY <1>2, <1>4

LEMMA MaxIs ==
  ASSUME NEW s \in SUBSET Int, NEW k \in s, \A i \in s : i <= k
  PROVE  Max(s) = k
<1> DEFINE IsMax(x) == x \in s /\ \A y \in s : x >= y
<1>1. IsMax(k)
  OBVIOUS
<1>2. IsMax(CHOOSE x : IsMax(x))
  BY <1>1
<1>3. \A x : IsMax(x) => x = k
  OBVIOUS
<1>4. Max(s) = CHOOSE x : IsMax(x)
  BY Zenon DEF Max
<1> QED BY <1>2, <1>3, <1>4

LEMMA MinIsThere ==
  ASSUME NEW S \in SUBSET Nat, S # {}
  PROVE  Min(S) \in S /\ \A x \in S : Min(S) <= x
<1> DEFINE IsMin(x) == x \in S /\ \A y \in S : x =< y
<1>1. PICK k \in S : \A y \in S : k <= y
  BY LeastIs
<1>2. IsMin(k)
  BY <1>1
<1>3. IsMin(CHOOSE x : IsMin(x))
  BY <1>2
<1>4. Min(S) = CHOOSE x : IsMin(x)
  BY Zenon DEF Min
<1> QED BY <1>3, <1>4

LEMMA MaxIsThere ==
  ASSUME NEW n \in Nat, NEW A \in SUBSET (1 .. n), A # {}
  PROVE  Max(A) \in A
<1> DEFINE B == {n - i : i \in A}
<1>1. B \in SUBSET Nat /\ B # {}
  <2>1. PICK i : i \in A
    OBVIOUS
  <2>2. n - i \in B
    BY <2>1
  <2>3. \A j \in A : n - j \in Nat
    OBVIOUS
  <2> QED BY <2>2, <2>3
<1>2. PICK x \in B : \A y \in B : x <= y
  <2> HIDE DEF B
  <2> QED BY <1>1, LeastIs
<1>3. PICK m \in A : x = n - m
  OBVIOUS
<1>4. \A i \in A : n - m <= n - i
  BY <1>2, <1>3
<1>5. A \in SUBSET Int /\ \A i \in A : i <= m
  BY <1>4
<1> HIDE DEF B
<1>6. Max(A) = m
  BY <1>5, MaxIs
<1> QED BY <1>6

-----------------------------------------------------------------------------
(* Queues: sequences of whatever is sent. *)
IsQueue(q) == \E S : q \in Seq(S)

LEMMA QueueIs ==
  ASSUME NEW q, IsQueue(q)
  PROVE  Len(q) \in Nat /\ DOMAIN q = 1 .. Len(q) /\ q = [i \in 1 .. Len(q) |-> q[i]]
<1>1. PICK S : q \in Seq(S)
  BY DEF IsQueue
<1> QED BY <1>1

LEMMA QueueOf ==
  ASSUME NEW n \in Nat, NEW f, f = [i \in 1 .. n |-> f[i]]
  PROVE  IsQueue(f) /\ Len(f) = n
<1> DEFINE S == {f[i] : i \in 1 .. n}
<1>1. f \in [1 .. n -> S]
  OBVIOUS
<1>2. f \in Seq(S) /\ Len(f) = n
  BY <1>1
<1> QED BY <1>2 DEF IsQueue

LEMMA QueueAppend ==
  ASSUME NEW q, NEW x, IsQueue(q)
  PROVE  /\ IsQueue(Append(q, x)) /\ Len(Append(q, x)) = Len(q) + 1
         /\ DOMAIN Append(q, x) = 1 .. Len(q) + 1
         /\ \A i \in DOMAIN q : Append(q, x)[i] = q[i]
         /\ Append(q, x)[Len(q) + 1] = x
         /\ \A i \in DOMAIN Append(q, x) : i \in DOMAIN q \/ i = Len(q) + 1
<1>1. PICK S : q \in Seq(S)
  BY DEF IsQueue
<1>2. q \in Seq(S \cup {x}) /\ x \in S \cup {x}
  BY <1>1
<1>3. Append(q, x) \in Seq(S \cup {x}) /\ Len(q) \in Nat /\ DOMAIN q = 1 .. Len(q)
  BY <1>2
<1>4. /\ Len(Append(q, x)) = Len(q) + 1 /\ Append(q, x)[Len(q) + 1] = x
      /\ \A i \in 1 .. Len(q) : Append(q, x)[i] = q[i]
  BY <1>2, AppendProperties
<1>5. DOMAIN Append(q, x) = 1 .. Len(q) + 1
  BY <1>3, <1>4
<1>6. \A i \in 1 .. Len(q) + 1 : i \in 1 .. Len(q) \/ i = Len(q) + 1
  BY <1>3
<1>7. IsQueue(Append(q, x))
  BY <1>3 DEF IsQueue
<1> QED BY <1>3, <1>4, <1>5, <1>6, <1>7

LEMMA QueueConcat ==
  ASSUME NEW q, NEW more, IsQueue(q), IsQueue(more)
  PROVE  /\ IsQueue(q \o more) /\ Len(q) \in Nat /\ Len(more) \in Nat
         /\ Len(q \o more) = Len(q) + Len(more)
         /\ \A i \in 1 .. Len(q) : (q \o more)[i] = q[i]
         /\ \A i \in 1 .. Len(more) : (q \o more)[Len(q) + i] = more[i]
         /\ \A i \in 1 .. Len(q \o more) :
              i \in 1 .. Len(q) \/ \E j \in 1 .. Len(more) : i = Len(q) + j
<1>1. PICK S : q \in Seq(S)
  BY DEF IsQueue
<1>2. PICK T : more \in Seq(T)
  BY DEF IsQueue
<1>3. q \in Seq(S \cup T) /\ more \in Seq(S \cup T)
  BY <1>1, <1>2
<1>4. /\ q \o more \in Seq(S \cup T) /\ Len(q \o more) = Len(q) + Len(more)
      /\ \A i \in 1 .. Len(q) + Len(more) :
           (q \o more)[i] = IF i <= Len(q) THEN q[i] ELSE more[i - Len(q)]
  BY <1>3, ConcatProperties
<1>5. Len(q) \in Nat /\ Len(more) \in Nat
  BY <1>1, <1>2
<1>6. IsQueue(q \o more)
  BY <1>4 DEF IsQueue
<1>7. ASSUME NEW i \in 1 .. Len(more)
      PROVE  (q \o more)[Len(q) + i] = more[i]
  <2>1. Len(q) + i \in 1 .. Len(q) + Len(more) /\ ~(Len(q) + i <= Len(q))
        /\ (Len(q) + i) - Len(q) = i
    BY <1>5
  <2> QED BY <1>4, <2>1
<1>8. ASSUME NEW i \in 1 .. Len(q \o more)
      PROVE  i \in 1 .. Len(q) \/ \E j \in 1 .. Len(more) : i = Len(q) + j
  <2>1. CASE i <= Len(q)
    BY <1>4, <1>5, <2>1
  <2>2. CASE ~(i <= Len(q))
    <3>1. i - Len(q) \in 1 .. Len(more) /\ i = Len(q) + (i - Len(q))
      BY <1>4, <1>5, <2>2
    <3> QED BY <3>1
  <2> QED BY <2>1, <2>2
<1> QED BY <1>4, <1>5, <1>6, <1>7, <1>8

LEMMA QueueTail ==
  ASSUME NEW q, IsQueue(q), q # <<>>
  PROVE  /\ IsQueue(Tail(q)) /\ Len(q) \in Nat /\ Len(q) >= 1
         /\ Len(Tail(q)) = Len(q) - 1 /\ Head(q) = q[1]
         /\ \A i \in 1 .. Len(Tail(q)) : Tail(q)[i] = q[i + 1] /\ i + 1 \in 1 .. Len(q)
         /\ \A i \in 1 .. Len(q) : i = 1 \/ \E j \in 1 .. Len(Tail(q)) : i = j + 1
<1>1. PICK S : q \in Seq(S)
  BY DEF IsQueue
<1>2. /\ Tail(q) \in Seq(S) /\ Len(q) \in Nat /\ Len(q) >= 1
      /\ Len(Tail(q)) = Len(q) - 1 /\ Head(q) = q[1]
      /\ \A i \in 1 .. Len(Tail(q)) : Tail(q)[i] = q[i + 1]
  BY <1>1, HeadTailProperties, EmptySeq
<1>3. ASSUME NEW i \in 1 .. Len(q), i # 1
      PROVE  \E j \in 1 .. Len(Tail(q)) : i = j + 1
  <2>1. i - 1 \in 1 .. Len(Tail(q)) /\ i = (i - 1) + 1
    BY <1>2, <1>3
  <2> QED BY <2>1
<1>4. \A i \in 1 .. Len(Tail(q)) : i + 1 \in 1 .. Len(q)
  BY <1>2
<1>5. IsQueue(Tail(q))
  BY <1>2 DEF IsQueue
<1> QED BY <1>2, <1>3, <1>4, <1>5

LEMMA ShortQueues ==
  /\ IsQueue(<<>>) /\ Len(<<>>) = 0
  /\ \A a : IsQueue(<<a>>) /\ Len(<<a>>) = 1 /\ <<a>>[1] = a
  /\ \A a, b : /\ IsQueue(<<a, b>>) /\ Len(<<a, b>>) = 2
               /\ <<a, b>>[1] = a /\ <<a, b>>[2] = b /\ <<a>> \o <<b>> = <<a, b>>
<1>1. IsQueue(<<>>) /\ Len(<<>>) = 0
  BY DEF IsQueue
<1>2. ASSUME NEW a
      PROVE  IsQueue(<<a>>) /\ Len(<<a>>) = 1 /\ <<a>>[1] = a
  <2>1. <<a>> \in Seq({a})
    OBVIOUS
  <2> QED BY <2>1 DEF IsQueue
<1>3. ASSUME NEW a, NEW b
      PROVE  /\ IsQueue(<<a, b>>) /\ Len(<<a, b>>) = 2
             /\ <<a, b>>[1] = a /\ <<a, b>>[2] = b /\ <<a>> \o <<b>> = <<a, b>>
  <2> DEFINE one == <<a>>  two == <<b>>  both == <<a, b>>
  <2>1. one \in Seq({a, b}) /\ two \in Seq({a, b}) /\ both \in Seq({a, b})
    OBVIOUS
  <2>2. /\ Len(one) = 1 /\ Len(two) = 1 /\ Len(both) = 2
        /\ one[1] = a /\ two[1] = b /\ both[1] = a /\ both[2] = b
    OBVIOUS
  <2> HIDE DEF one, two, both
  <2>3. one \o two \in Seq({a, b}) /\ Len(one \o two) = 2
        /\ (one \o two)[1] = a /\ (one \o two)[2] = b
    BY <2>1, <2>2, ConcatProperties
  <2>4. one \o two = both
    BY <2>1, <2>2, <2>3, SeqEqual
  <2>5. IsQueue(both)
    BY <2>1 DEF IsQueue
  <2> QED BY <2>2, <2>4, <2>5 DEF one, two, both
<1> QED BY <1>1, <1>2, <1>3

LEMMA ConcatOfAppend ==
  ASSUME NEW q, NEW more, NEW x, IsQueue(q), IsQueue(more)
  PROVE  q \o Append(more, x) = Append(q \o more, x)
<1>1. PICK S : q \in Seq(S)
  BY DEF IsQueue
<1>2. PICK T : more \in Seq(T)
  BY DEF IsQueue
<1> DEFINE U == S \cup T \cup {x}
<1>3. q \in Seq(U) /\ more \in Seq(U) /\ x \in U
  BY <1>1, <1>2
<1> QED BY <1>3

(* The first k members. *)
Prefix(q, k) == [i \in 1 .. k |-> q[i]]

LEMMA PrefixIs ==
  ASSUME NEW q, IsQueue(q), NEW k \in 0 .. Len(q)
  PROVE  IsQueue(Prefix(q, k)) /\ Len(Prefix(q, k)) = k
<1> DEFINE p == Prefix(q, k)
<1>1. k \in Nat /\ p = [i \in 1 .. k |-> p[i]]
  BY QueueIs DEF Prefix
<1> HIDE DEF p
<1>2. IsQueue(p) /\ Len(p) = k
  BY <1>1, QueueOf
<1> QED BY <1>2 DEF p

LEMMA PrefixGrows ==
  ASSUME NEW q, IsQueue(q), NEW k \in 1 .. Len(q)
  PROVE  Prefix(q, k) = Append(Prefix(q, k - 1), q[k])
<1> DEFINE p == Prefix(q, k - 1)
           r == Append(p, q[k])
<1>1. k - 1 \in 0 .. Len(q) /\ k = (k - 1) + 1 /\ Len(q) \in Nat
  BY QueueIs
<1>2. IsQueue(p) /\ Len(p) = k - 1
  BY <1>1, PrefixIs
<1>3. /\ Len(r) = k /\ r[k] = q[k] /\ \A i \in 1 .. (k - 1) : r[i] = p[i]
      /\ IsQueue(r)
  <2>1. DOMAIN p = 1 .. (k - 1)
    BY DEF Prefix
  <2> HIDE DEF p
  <2> QED BY <1>1, <1>2, <2>1, QueueAppend
<1>4. r = [i \in 1 .. k |-> r[i]]
  <2> HIDE DEF r
  <2> QED BY <1>3, QueueIs
<1>5. \A i \in 1 .. k : r[i] = q[i]
  <2>1. \A i \in 1 .. k : i = k \/ i \in 1 .. (k - 1)
    BY <1>1
  <2>2. \A i \in 1 .. (k - 1) : p[i] = q[i]
    BY DEF Prefix
  <2> HIDE DEF p, r
  <2> QED BY <1>3, <2>1, <2>2
<1> HIDE DEF r
<1>6. r = Prefix(q, k)
  BY <1>4, <1>5 DEF Prefix
<1> QED BY <1>6 DEF r

LEMMA PrefixEnds ==
  ASSUME NEW q, IsQueue(q)
  PROVE  /\ Prefix(q, 0) = <<>> /\ Prefix(q, Len(q)) = q
         /\ 0 \in 0 .. Len(q) /\ Len(q) \in 0 .. Len(q)
BY QueueIs DEF Prefix

-----------------------------------------------------------------------------
(* Sums: as many pairs of an argument and a number not above its value.    *)

Column(x, n)  == {x} \X (1 .. n)
Columns(f, S) == UNION {Column(x, f[x]) : x \in S}

LEMMA ColumnIs ==
  ASSUME NEW x, NEW n \in Nat
  PROVE  IsFiniteSet(Column(x, n)) /\ Cardinality(Column(x, n)) = n
<1>1. IsFiniteSet({x}) /\ Cardinality({x}) = 1
  BY FS_Singleton
<1>2. IsFiniteSet(1 .. n) /\ Cardinality(1 .. n) = n
  BY FS_Interval
<1>3. IsFiniteSet({x} \X (1 .. n))
  BY <1>1, <1>2, FS_Product
<1>4. Cardinality({x} \X (1 .. n)) = Cardinality({x}) * Cardinality(1 .. n)
  BY <1>1, <1>2, FS_Product
<1> QED BY <1>1, <1>2, <1>3, <1>4 DEF Column

LEMMA ColumnsAreFinite ==
  ASSUME NEW S, IsFiniteSet(S), NEW f \in [S -> Nat], NEW T \in SUBSET S
  PROVE  IsFiniteSet(Columns(f, T))
<1>1. IsFiniteSet(T)
  BY FS_Subset
<1>2. IsFiniteSet({Column(x, f[x]) : x \in T})
  <2> DEFINE c == [x \in T |-> Column(x, f[x])]
  <2>1. c \in Surjection(T, {Column(x, f[x]) : x \in T})
    BY DEF Surjection
  <2> QED BY <1>1, <2>1, FS_Surjection
<1>3. \A c \in {Column(x, f[x]) : x \in T} : IsFiniteSet(c)
  BY ColumnIs
<1> QED BY <1>2, <1>3, FS_UNION DEF Columns

LEMMA ColumnsSplit ==
  ASSUME NEW S, IsFiniteSet(S), NEW f \in [S -> Nat], NEW T \in SUBSET S, NEW x \in T
  PROVE  Cardinality(Columns(f, T)) = f[x] + Cardinality(Columns(f, T \ {x}))
<1> DEFINE A == Column(x, f[x])
           B == Columns(f, T \ {x})
<1>1. Columns(f, T) = A \cup B
  BY DEF Columns
<1>2. A \cap B = {}
  BY DEF Columns, Column
<1>3. IsFiniteSet(A) /\ Cardinality(A) = f[x]
  BY ColumnIs
<1>4. T \ {x} \in SUBSET S
  OBVIOUS
<1>5. IsFiniteSet(B)
  BY <1>4, ColumnsAreFinite
<1>6. Cardinality(A \cup B) = Cardinality(A) + Cardinality(B) - Cardinality(A \cap B)
  <2> HIDE DEF A, B
  <2> QED BY <1>3, <1>5, FS_Union
<1>7. Cardinality(A \cap B) = 0
  BY <1>2, FS_EmptySet
<1>8. Cardinality(B) \in Nat
  BY <1>5, FS_CardinalityType
<1> QED BY <1>1, <1>3, <1>6, <1>7, <1>8

(* What a fold over a finite function adds up to.                          *)
LEMMA SumOfColumns ==
  ASSUME NEW S, IsFiniteSet(S), NEW f \in [S -> Nat]
  PROVE  SumFunction(f) = Cardinality(Columns(f, S))
<1> DEFINE Some(s)  == CHOOSE x \in s : TRUE
           Next(h) == [s \in SUBSET S |-> IF s = {} THEN 0 ELSE f[Some(s)] + h[s \ {Some(s)}]]
           g       == [s \in SUBSET S |-> Cardinality(Columns(f, s))]
<1>1. SumFunction(f) = (CHOOSE h : h = Next(h))[S]
  <2>1. DOMAIN f = S
    OBVIOUS
  <2> QED BY <2>1, Zenon DEF SumFunction, SumFunctionOnSet, FoldFunctionOnSet, MapThenFoldSet
<1>2. g = Next(g)
  <2>1. ASSUME NEW s \in SUBSET S
        PROVE  Cardinality(Columns(f, s)) = IF s = {} THEN 0 ELSE f[Some(s)] + g[s \ {Some(s)}]
    <3>1. CASE s = {}
      <4>1. Columns(f, s) = {}
        BY <3>1 DEF Columns
      <4> QED BY <3>1, <4>1, FS_EmptySet
    <3>2. CASE s # {}
      <4>1. Some(s) \in s
        BY <3>2
      <4> HIDE DEF Some
      <4>2. s \ {Some(s)} \in SUBSET S
        OBVIOUS
      <4> QED BY <3>2, <4>1, <4>2, ColumnsSplit
    <3> QED BY <3>1, <3>2
  <2> QED BY <2>1
<1>3. PICK h : h = (CHOOSE k : k = Next(k))
  OBVIOUS
<1>4. h = Next(h)
  <2>1. \E k : k = Next(k)
    BY <1>2
  <2> HIDE DEF Next
  <2> QED BY <1>3, <2>1
<1> DEFINE Bad == {n \in Nat : \E s \in SUBSET S : Cardinality(s) = n /\ h[s] # g[s]}
<1>5. Bad = {}
  <2> SUFFICES ASSUME Bad # {} PROVE FALSE
    OBVIOUS
  <2>1. PICK n \in Bad : \A m \in Bad : n <= m
    <3>1. Bad \in SUBSET Nat
      OBVIOUS
    <3> HIDE DEF Bad
    <3> QED BY <3>1, LeastIs
  <2>2. PICK s \in SUBSET S : Cardinality(s) = n /\ h[s] # g[s]
    BY <2>1
  <2>3. CASE s = {}
    <3>1. h[s] = 0 /\ g[s] = 0
      <4> HIDE DEF g
      <4> QED BY <1>2, <1>4, <2>3
    <3> QED BY <2>2, <3>1
  <2>4. CASE s # {}
    <3> DEFINE x == Some(s)
               t == s \ {x}
    <3>1. x \in s
      BY <2>4
    <3> HIDE DEF x
    <3>2. IsFiniteSet(s)
      BY FS_Subset
    <3>3. Cardinality(t) = n - 1 /\ n \in Nat /\ Cardinality(t) \in Nat
      <4>1. Cardinality(t) = Cardinality(s) - 1
        BY <3>1, <3>2, FS_RemoveElement
      <4>2. IsFiniteSet(t)
        BY <3>2, FS_RemoveElement
      <4> QED BY <2>1, <2>2, <4>1, <4>2, FS_CardinalityType
    <3>4. t \in SUBSET S
      OBVIOUS
    <3>5. h[t] = g[t]
      <4>1. Cardinality(t) \notin Bad
        <5> HIDE DEF Bad, t
        <5> QED BY <2>1, <3>3
      <4> QED BY <3>3, <3>4, <4>1
    <3>6. h[s] = f[x] + h[t] /\ g[s] = f[x] + g[t]
      <4> HIDE DEF g
      <4> QED BY <1>2, <1>4, <2>4 DEF x
    <3> QED BY <2>2, <3>5, <3>6
  <2> QED BY <2>3, <2>4
<1>6. h[S] = g[S]
  <2>1. Cardinality(S) \in Nat /\ S \in SUBSET S
    BY FS_CardinalityType
  <2> QED BY <1>5, <2>1
<1> QED BY <1>1, <1>3, <1>6

LEMMA SumIsNat ==
  ASSUME NEW S, IsFiniteSet(S), NEW f \in [S -> Nat]
  PROVE  SumFunction(f) \in Nat
<1>1. IsFiniteSet(Columns(f, S))
  BY ColumnsAreFinite
<1> QED BY <1>1, SumOfColumns, FS_CardinalityType

LEMMA SumWithout ==
  ASSUME NEW S, IsFiniteSet(S), NEW f \in [S -> Nat], NEW x \in S
  PROVE  SumFunction(f) = f[x] + SumFunction([y \in S \ {x} |-> f[y]])
<1> DEFINE R == S \ {x}
           r == [y \in R |-> f[y]]
<1>1. R \in SUBSET S /\ r \in [R -> Nat] /\ S \in SUBSET S
  OBVIOUS
<1>2. IsFiniteSet(R)
  BY <1>1, FS_Subset
<1>3. Columns(r, R) = Columns(f, R)
  BY DEF Columns
<1>4. SumFunction(r) = Cardinality(Columns(f, R))
  <2> HIDE DEF r, R
  <2> QED BY <1>1, <1>2, <1>3, SumOfColumns
<1>5. SumFunction(f) = f[x] + Cardinality(Columns(f, R))
  BY <1>1, ColumnsSplit, SumOfColumns
<1> QED BY <1>4, <1>5

(* One value changes. *)
LEMMA SumChanges ==
  ASSUME NEW S, IsFiniteSet(S), NEW f \in [S -> Nat], NEW g \in [S -> Nat], NEW x \in S,
         \A y \in S \ {x} : g[y] = f[y]
  PROVE  SumFunction(g) + f[x] = SumFunction(f) + g[x]
<1>1. [y \in S \ {x} |-> g[y]] = [y \in S \ {x} |-> f[y]]
  OBVIOUS
<1> DEFINE r == SumFunction([y \in S \ {x} |-> f[y]])
<1>2. SumFunction(f) = f[x] + r /\ SumFunction(g) = g[x] + r
  BY <1>1, SumWithout
<1>3. r \in Nat
  <2>1. [y \in S \ {x} |-> f[y]] \in [S \ {x} -> Nat] /\ IsFiniteSet(S \ {x})
    BY FS_RemoveElement
  <2> QED BY <2>1, SumIsNat
<1>4. f[x] \in Nat /\ g[x] \in Nat
  OBVIOUS
<1> HIDE DEF r
<1> QED BY <1>2, <1>3, <1>4

(* One argument more. *)
LEMMA SumGrows ==
  ASSUME NEW S, IsFiniteSet(S), NEW f \in [S -> Nat], NEW x, x \notin S,
         NEW g \in [S \cup {x} -> Nat], \A y \in S : g[y] = f[y]
  PROVE  SumFunction(g) = SumFunction(f) + g[x]
<1>1. IsFiniteSet(S \cup {x}) /\ x \in S \cup {x}
  BY FS_AddElement
<1>2. [y \in (S \cup {x}) \ {x} |-> g[y]] = f
  OBVIOUS
<1>3. SumFunction(g) = g[x] + SumFunction(f)
  BY <1>1, <1>2, SumWithout
<1>4. SumFunction(f) \in Nat /\ g[x] \in Nat
  BY <1>1, SumIsNat
<1> QED BY <1>3, <1>4

LEMMA SumOfNothing ==
  ASSUME NEW S, IsFiniteSet(S), NEW f \in [S -> Nat], \A x \in S : f[x] = 0
  PROVE  SumFunction(f) = 0
<1>1. Columns(f, S) = {}
  BY DEF Columns, Column
<1> QED BY <1>1, SumOfColumns, FS_EmptySet

LEMMA SumOfOne ==
  ASSUME NEW S, IsFiniteSet(S), NEW f \in [S -> Nat], NEW x \in S, \A y \in S \ {x} : f[y] = 0
  PROVE  SumFunction(f) = f[x]
<1> DEFINE r == [y \in S \ {x} |-> f[y]]
<1>1. r \in [S \ {x} -> Nat] /\ IsFiniteSet(S \ {x}) /\ \A y \in S \ {x} : r[y] = 0
  BY FS_RemoveElement
<1>2. SumFunction(f) = f[x] + SumFunction(r)
  BY SumWithout
<1> HIDE DEF r
<1>3. SumFunction(r) = 0
  BY <1>1, SumOfNothing
<1> QED BY <1>2, <1>3

LEMMA SumOfSame ==
  ASSUME NEW S, IsFiniteSet(S), NEW c \in Nat, NEW f \in [S -> Nat], \A x \in S : f[x] = c
  PROVE  SumFunction(f) = c * Cardinality(S)
<1>1. Columns(f, S) = S \X (1 .. c)
  <2>1. ASSUME NEW z \in Columns(f, S)
        PROVE  z \in S \X (1 .. c)
    BY DEF Columns, Column
  <2>2. ASSUME NEW x \in S, NEW i \in 1 .. c
        PROVE  <<x, i>> \in Columns(f, S)
    <3>1. <<x, i>> \in Column(x, f[x])
      BY DEF Column
    <3> QED BY <3>1 DEF Columns
  <2>3. \A z \in S \X (1 .. c) : \E x \in S, i \in 1 .. c : z = <<x, i>>
    OBVIOUS
  <2> QED BY <2>1, <2>2, <2>3
<1>2. IsFiniteSet(1 .. c) /\ Cardinality(1 .. c) = c
  BY FS_Interval
<1>3. Cardinality(S \X (1 .. c)) = Cardinality(S) * c
  BY <1>2, FS_Product
<1>4. Cardinality(S) \in Nat
  BY FS_CardinalityType
<1> QED BY <1>1, <1>3, <1>4, SumOfColumns

LEMMA SumGrowsWith ==
  ASSUME NEW S, IsFiniteSet(S), NEW f \in [S -> Nat], NEW g \in [S -> Nat],
         \A x \in S : f[x] <= g[x]
  PROVE  SumFunction(f) <= SumFunction(g)
<1>1. Columns(f, S) \in SUBSET Columns(g, S)
  <2>1. \A x \in S : Column(x, f[x]) \subseteq Column(x, g[x])
    BY DEF Column
  <2> QED BY <2>1 DEF Columns
<1>2. IsFiniteSet(Columns(g, S))
  BY ColumnsAreFinite
<1> QED BY <1>1, <1>2, SumOfColumns, FS_Subset

LEMMA SumIsAtLeast ==
  ASSUME NEW S, IsFiniteSet(S), NEW f \in [S -> Nat], NEW x \in S
  PROVE  f[x] <= SumFunction(f)
<1>1. [y \in S \ {x} |-> f[y]] \in [S \ {x} -> Nat] /\ IsFiniteSet(S \ {x})
  BY FS_RemoveElement
<1>2. SumFunction([y \in S \ {x} |-> f[y]]) \in Nat
  BY <1>1, SumIsNat
<1> QED BY <1>2, SumWithout

(* More arguments, which add nothing. *)
LEMMA SumOverMore ==
  ASSUME NEW S, IsFiniteSet(S), NEW T \in SUBSET S, NEW f \in [T -> Nat], NEW g \in [S -> Nat],
         \A x \in T : g[x] = f[x], \A x \in S \ T : g[x] = 0
  PROVE  SumFunction(g) = SumFunction(f)
<1>1. Columns(g, S) = Columns(f, T)
  <2>1. ASSUME NEW x \in S
        PROVE  Column(x, g[x]) = IF x \in T THEN Column(x, f[x]) ELSE {}
    BY DEF Column
  <2> QED BY <2>1 DEF Columns
<1>2. IsFiniteSet(T)
  BY FS_Subset
<1> QED BY <1>1, <1>2, SumOfColumns

(* What one argument gives another takes, and nothing else grows. *)
LEMMA SumGivesNoMore ==
  ASSUME NEW S, IsFiniteSet(S), NEW f \in [S -> Nat], NEW g \in [S -> Nat],
         NEW x \in S, NEW y \in S, x # y, g[x] + g[y] <= f[x] + f[y],
         \A z \in S \ {x, y} : g[z] <= f[z]
  PROVE  SumFunction(g) <= SumFunction(f)
<1> DEFINE R == S \ {x}
           r(h) == [z \in R |-> h[z]]
           P == R \ {y}
           p(h) == [z \in P |-> h[z]]
<1>1. IsFiniteSet(R) /\ IsFiniteSet(P) /\ y \in R
  BY FS_RemoveElement
<1>2. SumFunction(f) = f[x] + SumFunction(r(f)) /\ SumFunction(g) = g[x] + SumFunction(r(g))
  BY SumWithout
<1>3. ASSUME NEW h \in [S -> Nat]
      PROVE  SumFunction(r(h)) = h[y] + SumFunction(p(h)) /\ SumFunction(p(h)) \in Nat
  <2> DEFINE k == r(h)
  <2>1. k \in [R -> Nat] /\ k[y] = h[y] /\ [z \in R \ {y} |-> k[z]] = p(h) /\ p(h) \in [P -> Nat]
    OBVIOUS
  <2> HIDE DEF k, R, P, p
  <2>2. SumFunction(k) = k[y] + SumFunction([z \in R \ {y} |-> k[z]])
    BY <1>1, <2>1, SumWithout
  <2>3. SumFunction(p(h)) \in Nat
    BY <1>1, <2>1, SumIsNat
  <2> QED BY <2>1, <2>2, <2>3 DEF k
<1>4. SumFunction(p(g)) <= SumFunction(p(f))
  <2>1. p(f) \in [P -> Nat] /\ p(g) \in [P -> Nat] /\ \A z \in P : p(g)[z] <= p(f)[z]
    OBVIOUS
  <2> HIDE DEF p, P
  <2> QED BY <1>1, <2>1, SumGrowsWith
<1>5. f[x] \in Nat /\ f[y] \in Nat /\ g[x] \in Nat /\ g[y] \in Nat
  OBVIOUS
<1> HIDE DEF r, p
<1> QED BY <1>2, <1>3, <1>4, <1>5

(* A sum of sums. *)
LEMMA SumAdds ==
  ASSUME NEW S, IsFiniteSet(S), NEW f \in [S -> Nat], NEW g \in [S -> Nat], NEW h \in [S -> Nat],
         \A x \in S : h[x] = f[x] + g[x]
  PROVE  SumFunction(h) = SumFunction(f) + SumFunction(g)
<1> DEFINE r(k, T) == [x \in T |-> k[x]]
           Adds(T) == SumFunction(r(h, T)) = SumFunction(r(f, T)) + SumFunction(r(g, T))
           Bad == {n \in Nat : \E T \in SUBSET S : Cardinality(T) = n /\ ~Adds(T)}
<1>1. \A T \in SUBSET S : /\ IsFiniteSet(T) /\ Cardinality(T) \in Nat
                          /\ r(f, T) \in [T -> Nat] /\ r(g, T) \in [T -> Nat]
                          /\ r(h, T) \in [T -> Nat]
  BY FS_Subset, FS_CardinalityType
<1>2. Bad = {}
  <2> SUFFICES ASSUME Bad # {} PROVE FALSE
    OBVIOUS
  <2>1. PICK n \in Bad : \A m \in Bad : n <= m
    <3>1. Bad \in SUBSET Nat
      OBVIOUS
    <3> HIDE DEF Bad
    <3> QED BY <3>1, LeastIs
  <2>2. PICK T \in SUBSET S : Cardinality(T) = n /\ ~Adds(T)
    BY <2>1
  <2>3. CASE T = {}
    <3> HIDE DEF r
    <3>1. SumFunction(r(f, T)) = 0 /\ SumFunction(r(g, T)) = 0 /\ SumFunction(r(h, T)) = 0
      BY <1>1, <2>3, SumOfNothing
    <3> QED BY <2>2, <3>1
  <2>4. CASE T # {}
    <3>1. PICK x : x \in T
      BY <2>4
    <3> DEFINE R == T \ {x}
    <3>2. R \in SUBSET S /\ Cardinality(R) = n - 1 /\ n \in Nat
      BY <1>1, <2>1, <2>2, <3>1, FS_RemoveElement
    <3>3. ASSUME NEW k \in [S -> Nat]
          PROVE  /\ SumFunction(r(k, T)) = k[x] + SumFunction(r(k, R))
                 /\ SumFunction(r(k, R)) \in Nat /\ k[x] \in Nat
      <4> DEFINE q == r(k, T)
      <4>1. /\ q \in [T -> Nat] /\ q[x] = k[x] /\ [y \in T \ {x} |-> q[y]] = r(k, R)
            /\ r(k, R) \in [R -> Nat] /\ k[x] \in Nat
        BY <3>1
      <4> HIDE DEF q
      <4>2. SumFunction(q) = q[x] + SumFunction([y \in T \ {x} |-> q[y]])
        <5>1. IsFiniteSet(T) /\ q \in [T -> Nat]
          BY <1>1, <4>1
        <5> QED BY ONLY <3>1, <5>1, SumWithout
      <4> HIDE DEF R, r
      <4>3. SumFunction(r(k, R)) \in Nat
        BY <1>1, <3>2, <4>1, SumIsNat
      <4> QED BY <4>1, <4>2, <4>3 DEF q
    <3>4. Adds(R)
      <4>1. n - 1 \notin Bad
        <5> HIDE DEF Bad
        <5> QED BY <2>1, <3>2
      <4>2. n - 1 \in Nat
        BY <1>1, <3>2
      <4> HIDE DEF Adds, R
      <4> QED BY <3>2, <4>1, <4>2
    <3>5. h[x] = f[x] + g[x]
      BY <3>1
    <3> HIDE DEF r, R
    <3> QED BY <2>2, <3>3, <3>4, <3>5
  <2> QED BY <2>3, <2>4
<1>3. S \in SUBSET S /\ Cardinality(S) \in Nat /\ r(f, S) = f /\ r(g, S) = g /\ r(h, S) = h
  BY <1>1
<1>4. Adds(S)
  <2> HIDE DEF Adds
  <2> QED BY <1>2, <1>3
<1> QED BY <1>3, <1>4

(* The same numbers under other names; nothing needs no name. *)
LEMMA SumRenamed ==
  ASSUME NEW S, IsFiniteSet(S), NEW T, IsFiniteSet(T), NEW f \in [S -> Nat], NEW g \in [T -> Nat],
         NEW h,
         \A x \in S : f[x] # 0 => h[x] \in T /\ g[h[x]] = f[x],
         \A x, y \in S : f[x] # 0 /\ f[y] # 0 /\ h[x] = h[y] => x = y,
         \A u \in T : g[u] # 0 => \E x \in S : h[x] = u /\ f[x] # 0
  PROVE  SumFunction(g) = SumFunction(f)
<1> DEFINE A == Columns(f, S)
           B == Columns(g, T)
           b == [z \in A |-> <<h[z[1]], z[2]>>]
<1>1. ASSUME NEW F \in [S -> Nat], NEW z
      PROVE  z \in Columns(F, S) <=> \E x \in S : \E i \in 1 .. F[x] : z = <<x, i>>
  BY DEF Columns, Column
<1>2. ASSUME NEW z
      PROVE  z \in B <=> \E u \in T : \E i \in 1 .. g[u] : z = <<u, i>>
  BY DEF Columns, Column
<1>3. \A x \in S : f[x] \in Nat
  OBVIOUS
<1>4. \A u \in T : g[u] \in Nat
  OBVIOUS
<1>5. ASSUME NEW z \in A
      PROVE  z[1] \in S /\ z[2] \in 1 .. f[z[1]] /\ f[z[1]] # 0 /\ z = <<z[1], z[2]>>
  BY <1>1, <1>3
<1> HIDE DEF A, B
<1>6. b \in [A -> B]
  <2>1. ASSUME NEW z \in A
        PROVE  <<h[z[1]], z[2]>> \in B
    BY <1>2, <1>5
  <2> QED BY <2>1
<1>7. \A z, w \in A : b[z] = b[w] => z = w
  <2> TAKE z \in A, w \in A
  <2> HAVE b[z] = b[w]
  <2>1. h[z[1]] = h[w[1]] /\ z[2] = w[2]
    OBVIOUS
  <2>2. z[1] = w[1]
    BY <1>5, <2>1
  <2> QED BY <1>5, <2>1, <2>2
<1>8. \A w \in B : \E z \in A : b[z] = w
  <2> TAKE w \in B
  <2>1. PICK u \in T : \E i \in 1 .. g[u] : w = <<u, i>>
    BY <1>2
  <2>2. PICK i \in 1 .. g[u] : w = <<u, i>>
    BY <2>1
  <2>3. g[u] # 0
    BY <1>4
  <2>4. PICK x \in S : h[x] = u /\ f[x] # 0
    BY <2>3
  <2>5. <<x, i>> \in A
    BY <1>1, <2>4 DEF A
  <2>6. b[<<x, i>>] = w
    BY <2>2, <2>4, <2>5
  <2> QED BY <2>5, <2>6
<1>9. b \in Bijection(A, B)
  BY <1>6, <1>7, <1>8 DEF Bijection, Injection, Surjection, IsInjective
<1>10. IsFiniteSet(A) /\ IsFiniteSet(B)
  <2>1. S \in SUBSET S /\ T \in SUBSET T
    OBVIOUS
  <2> QED BY <2>1, ColumnsAreFinite DEF A, B
<1>11. Cardinality(A) = Cardinality(B)
  <2> HIDE DEF b
  <2> QED BY <1>9, <1>10, FS_Bijection DEF ExistsBijection
<1> QED BY <1>11, SumOfColumns DEF A, B

-----------------------------------------------------------------------------
(* Folds of a sequence from the left.                                      *)

(* The equation of a fold has a solution.  A step is a function of a place *)
(* in the sequence and of what has been folded.                            *)
FoldsUpTo(h, n, base, step) ==
  h = [s \in SUBSET (1 .. n) |->
         IF s = {} THEN base ELSE step[Max(s)][h[s \ {Max(s)}]]]

LEMMA FoldHasValue ==
  ASSUME NEW Values, NEW n \in Nat, NEW base \in Values,
         NEW step \in [1 .. n -> [Values -> Values]]
  PROVE  \E h \in [SUBSET (1 .. n) -> Values] : FoldsUpTo(h, n, base, step)
<1> DEFINE P(k) == \E h \in [SUBSET (1 .. k) -> Values] : FoldsUpTo(h, k, base, step)
           Bad  == {k \in 0 .. n : ~P(k)}
<1>1. P(0)
  <2>1. SUBSET (1 .. 0) = {{}}
    OBVIOUS
  <2> DEFINE h == [s \in SUBSET (1 .. 0) |-> base]
  <2>2. h \in [SUBSET (1 .. 0) -> Values]
    OBVIOUS
  <2>3. FoldsUpTo(h, 0, base, step)
    BY <2>1 DEF FoldsUpTo
  <2> HIDE DEF h
  <2> QED BY <2>2, <2>3
<1>2. ASSUME NEW k \in 1 .. n, P(k - 1)
      PROVE  P(k)
  <2>1. PICK g \in [SUBSET (1 .. (k - 1)) -> Values] : FoldsUpTo(g, k - 1, base, step)
    BY <1>2
  <2> DEFINE h == [s \in SUBSET (1 .. k) |-> IF k \in s THEN step[k][g[s \ {k}]] ELSE g[s]]
  <2>2. \A s \in SUBSET (1 .. k) : s \ {k} \in SUBSET (1 .. (k - 1))
    OBVIOUS
  <2>3. \A s \in SUBSET (1 .. k) : k \notin s => s \in SUBSET (1 .. (k - 1))
    OBVIOUS
  <2>4. h \in [SUBSET (1 .. k) -> Values]
    BY <2>2, <2>3
  <2>5. ASSUME NEW s \in SUBSET (1 .. k)
        PROVE  h[s] = IF s = {} THEN base ELSE step[Max(s)][h[s \ {Max(s)}]]
    <3>1. CASE k \in s
      <4>1. Max(s) = k
        BY <3>1, MaxIs
      <4>2. h[s \ {k}] = g[s \ {k}]
        OBVIOUS
      <4>3. s # {}
        BY <3>1
      <4> QED BY <3>1, <4>1, <4>2, <4>3
    <3>2. CASE k \notin s
      <4>1. s \in SUBSET (1 .. (k - 1)) /\ s \ {Max(s)} \in SUBSET (1 .. (k - 1))
        BY <2>3, <3>2
      <4>2. h[s] = g[s] /\ h[s \ {Max(s)}] = g[s \ {Max(s)}]
        BY <3>2
      <4>3. g[s] = IF s = {} THEN base ELSE step[Max(s)][g[s \ {Max(s)}]]
        BY <2>1, <4>1 DEF FoldsUpTo
      <4> QED BY <4>2, <4>3
    <3> QED BY <3>1, <3>2
  <2>6. FoldsUpTo(h, k, base, step)
    BY <2>5 DEF FoldsUpTo
  <2> HIDE DEF h
  <2> QED BY <2>4, <2>6
<1>3. Bad = {}
  <2> SUFFICES ASSUME Bad # {} PROVE FALSE
    OBVIOUS
  <2>1. PICK k \in Bad : \A j \in Bad : k <= j
    <3>1. Bad \in SUBSET Nat
      OBVIOUS
    <3> HIDE DEF Bad
    <3> QED BY <3>1, LeastIs
  <2>2. k \in 0 .. n /\ ~P(k)
    OBVIOUS
  <2> HIDE DEF P
  <2>3. k # 0
    BY <1>1, <2>2
  <2>4. k \in 1 .. n /\ k - 1 \in 0 .. n /\ ~(k <= k - 1)
    BY <2>2, <2>3
  <2>5. k - 1 \notin Bad
    <3> HIDE DEF Bad
    <3> QED BY <2>1, <2>4
  <2>6. P(k - 1)
    BY <2>4, <2>5
  <2> QED BY <1>2, <2>2, <2>4, <2>6
<1>4. n \in 0 .. n
  OBVIOUS
<1> HIDE DEF P
<1>5. P(n)
  BY <1>3, <1>4
<1> QED BY <1>5 DEF P

(* The places up to one, as the equation takes them off one by one.        *)
LEMMA UpTo ==
  ASSUME NEW k \in Nat \ {0}
  PROVE  /\ 1 .. k # {}
         /\ Max(1 .. k) = k
         /\ (1 .. k) \ {Max(1 .. k)} = 1 .. (k - 1)
<1>1. k \in 1 .. k /\ 1 .. k \in SUBSET Int /\ \A i \in 1 .. k : i <= k
  OBVIOUS
<1>2. Max(1 .. k) = k
  BY <1>1, MaxIs
<1> QED BY <1>1, <1>2

-----------------------------------------------------------------------------
(* The last thing said of a place; what was there before when none is.     *)
Latest(said, v, was) ==
  LET about == {i \in DOMAIN said : said[i].at = v}
  IN  IF about = {} THEN was ELSE said[Max(about)].what

LEMMA LatestOfNone ==
  ASSUME NEW said, NEW v, NEW was, \A i \in DOMAIN said : said[i].at # v
  PROVE  Latest(said, v, was) = was
BY DEF Latest

LEMMA LatestOfNothing ==
  ASSUME NEW v, NEW was
  PROVE  Latest(<<>>, v, was) = was
BY DEF Latest

LEMMA LatestOfAppend ==
  ASSUME NEW said, IsQueue(said), NEW x, NEW v, NEW was
  PROVE  Latest(Append(said, x), v, was) = IF x.at = v THEN x.what ELSE Latest(said, v, was)
<1> DEFINE more == Append(said, x)
           n    == Len(said)
           A    == {i \in DOMAIN said : said[i].at = v}
           B    == {i \in DOMAIN more : more[i].at = v}
<1>1. /\ n \in Nat /\ DOMAIN said = 1 .. n /\ DOMAIN more = 1 .. n + 1
      /\ more[n + 1] = x /\ \A i \in 1 .. n : more[i] = said[i]
  BY QueueIs, QueueAppend
<1> HIDE DEF more, n
<1>2. CASE x.at = v
  <2>1. n + 1 \in B /\ B \in SUBSET Int /\ \A i \in B : i <= n + 1
    BY <1>1, <1>2
  <2>2. Max(B) = n + 1
    <3> HIDE DEF B
    <3> QED BY <2>1, MaxIs
  <2> QED BY <1>1, <1>2, <2>1, <2>2 DEF Latest, more
<1>3. CASE x.at # v
  <2>1. \A i \in B : i \in A
    BY <1>1, <1>3
  <2>2. B = A
    BY <1>1, <2>1
  <2>3. CASE A = {}
    BY <1>3, <2>2, <2>3 DEF Latest, more
  <2>4. CASE A # {}
    <3>1. Max(A) \in A
      <4>1. A \in SUBSET (1 .. n)
        BY <1>1
      <4> HIDE DEF A
      <4> QED BY <1>1, <2>4, <4>1, MaxIsThere
    <3>2. more[Max(A)] = said[Max(A)]
      BY <1>1, <3>1
    <3> QED BY <1>3, <2>2, <2>4, <3>2 DEF Latest, more
  <2> QED BY <2>3, <2>4
<1> QED BY <1>2, <1>3

(* A tally that follows what is said of a place is the last of it.          *)
LEMMA LatestByStep ==
  ASSUME NEW said, IsQueue(said), NEW v, NEW tally,
         \A k \in 1 .. Len(said) :
           tally[k] = IF said[k].at = v THEN said[k].what ELSE tally[k - 1]
  PROVE  tally[Len(said)] = Latest(said, v, tally[0])
<1> DEFINE n == Len(said)
           S == {k \in 0 .. n : tally[k] = Latest(Prefix(said, k), v, tally[0])}
<1>1. n \in Nat
  BY QueueIs
<1>2. 0 \in S
  <2>1. Prefix(said, 0) = <<>> /\ 0 \in 0 .. n
    BY PrefixEnds
  <2>2. Latest(Prefix(said, 0), v, tally[0]) = tally[0]
    BY <2>1, LatestOfNothing
  <2> QED BY <2>1, <2>2
<1>3. ASSUME NEW k \in 1 .. n, k - 1 \in S
      PROVE  k \in S
  <2>1. k - 1 \in 0 .. n /\ k \in 0 .. n
    BY <1>1
  <2>2. IsQueue(Prefix(said, k - 1)) /\ Prefix(said, k) = Append(Prefix(said, k - 1), said[k])
    BY <2>1, PrefixIs, PrefixGrows
  <2>3. tally[k - 1] = Latest(Prefix(said, k - 1), v, tally[0])
    BY <1>3
  <2>4. Latest(Append(Prefix(said, k - 1), said[k]), v, tally[0])
          = IF said[k].at = v THEN said[k].what ELSE Latest(Prefix(said, k - 1), v, tally[0])
    BY <2>2, LatestOfAppend
  <2> QED BY <2>1, <2>2, <2>3, <2>4
<1> HIDE DEF S
<1>4. \A k \in 0 .. n : k \in S
  BY <1>1, <1>2, <1>3, CountingUp
<1>5. n \in 0 .. n /\ Prefix(said, n) = said
  BY <1>1, PrefixEnds
<1> QED BY <1>4, <1>5 DEF S

(* One sequence of things said after another.                              *)
LEMMA LatestOfConcat ==
  ASSUME NEW said, NEW more, IsQueue(said), IsQueue(more), NEW v, NEW was
  PROVE  Latest(said \o more, v, was) = Latest(more, v, Latest(said, v, was))
<1> DEFINE n     == Len(more)
           tally == [k \in 0 .. n |-> Latest(said \o Prefix(more, k), v, was)]
<1>1. n \in Nat /\ n \in 0 .. n
  BY QueueIs
<1>2. tally[0] = Latest(said, v, was)
  <2>1. said \o <<>> = said
    <3>1. PICK T : said \in Seq(T)
      BY DEF IsQueue
    <3> QED BY <3>1
  <2>2. tally[0] = Latest(said \o Prefix(more, 0), v, was) /\ Prefix(more, 0) = <<>>
    BY <1>1, PrefixEnds
  <2> HIDE DEF tally
  <2> QED BY Zenon, <2>1, <2>2
<1>3. ASSUME NEW k \in 1 .. n
      PROVE  tally[k] = IF more[k].at = v THEN more[k].what ELSE tally[k - 1]
  <2> DEFINE p == Prefix(more, k - 1)
  <2>1. k - 1 \in 0 .. n /\ k \in 0 .. n
    BY <1>1
  <2>2. IsQueue(p) /\ Prefix(more, k) = Append(p, more[k])
    BY <2>1, PrefixIs, PrefixGrows
  <2>3. tally[k - 1] = Latest(said \o p, v, was)
    BY <2>1
  <2>4. tally[k] = Latest(said \o Append(p, more[k]), v, was)
    BY <2>1, <2>2
  <2> HIDE DEF p, tally
  <2>5. said \o Append(p, more[k]) = Append(said \o p, more[k]) /\ IsQueue(said \o p)
    BY <2>2, ConcatOfAppend, QueueConcat
  <2>6. Latest(Append(said \o p, more[k]), v, was)
          = IF more[k].at = v THEN more[k].what ELSE Latest(said \o p, v, was)
    BY <2>5, LatestOfAppend
  <2> QED BY <2>3, <2>4, <2>5, <2>6
<1>4. tally[n] = Latest(said \o more, v, was)
  <2>1. tally[n] = Latest(said \o Prefix(more, n), v, was)
    BY <1>1
  <2> HIDE DEF tally
  <2> QED BY <2>1, PrefixEnds
<1> HIDE DEF tally
<1>5. tally[n] = Latest(more, v, tally[0])
  BY <1>1, <1>3, LatestByStep
<1> QED BY <1>2, <1>4, <1>5

(* The first thing said, and then the others.                              *)
LEMMA LatestOfTail ==
  ASSUME NEW said, IsQueue(said), said # <<>>, NEW v, NEW was
  PROVE  Latest(said, v, was)
           = Latest(Tail(said), v, IF Head(said).at = v THEN Head(said).what ELSE was)
<1> DEFINE x == Head(said)
<1>1. said = <<x>> \o Tail(said)
  <2>1. PICK T : said \in Seq(T)
    BY DEF IsQueue
  <2> QED BY <2>1
<1>2. IsQueue(<<x>>) /\ IsQueue(Tail(said))
  BY ShortQueues, QueueTail
<1>3. Latest(<<x>>, v, was) = IF x.at = v THEN x.what ELSE was
  <2>1. PICK none : none = <<>>
    OBVIOUS
  <2>2. IsQueue(none)
    BY <2>1 DEF IsQueue
  <2>3. Latest(none, v, was) = was
    BY <2>1, LatestOfNothing
  <2> HIDE DEF x
  <2>4. Latest(Append(none, x), v, was) = IF x.at = v THEN x.what ELSE Latest(none, v, was)
    BY <2>2, LatestOfAppend
  <2>5. Append(none, x) = <<x>>
    BY <2>1
  <2> QED BY <2>3, <2>4, <2>5
<1> HIDE DEF x
<1>4. Latest(<<x>> \o Tail(said), v, was) = Latest(Tail(said), v, Latest(<<x>>, v, was))
  BY <1>2, LatestOfConcat
<1> QED BY <1>1, <1>3, <1>4 DEF x

(* What else is said does not matter.                                      *)
LEMMA LatestOfSame ==
  ASSUME NEW said, NEW same, IsQueue(said), DOMAIN same = DOMAIN said, NEW v, NEW u, NEW was,
         \A i \in DOMAIN said : (same[i].at = u <=> said[i].at = v)
                                  /\ same[i].what = said[i].what
  PROVE  Latest(same, u, was) = Latest(said, v, was)
<1> DEFINE A == {i \in DOMAIN said : said[i].at = v}
<1>1. {i \in DOMAIN same : same[i].at = u} = A
  OBVIOUS
<1>2. CASE A = {}
  BY <1>1, <1>2 DEF Latest
<1>3. CASE A # {}
  <2>1. Max(A) \in A
    <3>1. A \in SUBSET (1 .. Len(said)) /\ Len(said) \in Nat
      BY QueueIs
    <3> HIDE DEF A
    <3> QED BY <1>3, <3>1, MaxIsThere
  <2>2. same[Max(A)].what = said[Max(A)].what
    BY <2>1
  <2> QED BY <1>1, <1>3, <2>2 DEF Latest
<1> QED BY <1>2, <1>3

-----------------------------------------------------------------------------
(* Each member of a finite set of integers has a rank of its own.          *)
Rank(S, v) == Cardinality({w \in S : w <= v})

LEMMA RanksAre ==
  ASSUME NEW S \in SUBSET Int, IsFiniteSet(S)
  PROVE  /\ \A v \in S : Rank(S, v) \in 1 .. Cardinality(S)
         /\ \A u, v \in S : Rank(S, u) = Rank(S, v) => u = v
         /\ \A i \in 1 .. Cardinality(S) : \E v \in S : Rank(S, v) = i
<1> DEFINE Below(v) == {w \in S : w <= v}
<1>1. \A v \in S : IsFiniteSet(Below(v)) /\ Cardinality(Below(v)) \in Nat
                     /\ Cardinality(Below(v)) <= Cardinality(S)
  <2> TAKE v \in S
  <2>1. Below(v) \in SUBSET S
    OBVIOUS
  <2> HIDE DEF Below
  <2> QED BY <2>1, FS_Subset, FS_CardinalityType
<1>2. \A u, v \in S : u < v => Cardinality(Below(u)) < Cardinality(Below(v))
  <2> TAKE u \in S, v \in S
  <2> HAVE u < v
  <2>1. Below(u) \in SUBSET Below(v) /\ Below(u) # Below(v)
    <3>1. v \in Below(v) /\ v \notin Below(u)
      OBVIOUS
    <3>2. \A w \in Below(u) : w \in Below(v)
      OBVIOUS
    <3> QED BY <3>1, <3>2
  <2> HIDE DEF Below
  <2>2. Cardinality(Below(u)) <= Cardinality(Below(v))
          /\ (Cardinality(Below(u)) = Cardinality(Below(v)) => Below(v) = Below(u))
    BY <1>1, <2>1, FS_Subset
  <2> QED BY <1>1, <2>1, <2>2
<1>3. \A v \in S : Cardinality(Below(v)) # 0
  <2> TAKE v \in S
  <2>1. v \in Below(v)
    OBVIOUS
  <2> HIDE DEF Below
  <2> QED BY <1>1, <2>1, FS_EmptySet
<1>4. Cardinality(S) \in Nat
  BY FS_CardinalityType
<1>5. \A v \in S : Rank(S, v) \in 1 .. Cardinality(S)
  <2> HIDE DEF Below
  <2>1. \A v \in S : Rank(S, v) = Cardinality(Below(v))
    BY DEF Rank, Below
  <2> QED BY <1>1, <1>3, <1>4, <2>1
<1>6. \A u, v \in S : Rank(S, u) = Rank(S, v) => u = v
  <2>1. \A v \in S : Rank(S, v) = Cardinality(Below(v))
    BY DEF Rank
  <2> HIDE DEF Below
  <2> TAKE u \in S, v \in S
  <2> HAVE Rank(S, u) = Rank(S, v)
  <2>2. Cardinality(Below(u)) = Cardinality(Below(v)) /\ Cardinality(Below(u)) \in Nat
    BY <1>1, <2>1
  <2>3. ~(u < v) /\ ~(v < u)
    BY <1>1, <1>2, <2>2
  <2> QED BY <2>3
<1>7. \A i \in 1 .. Cardinality(S) : \E v \in S : Rank(S, v) = i
  <2> DEFINE r == [v \in S |-> Rank(S, v)]
             T == 1 .. Cardinality(S)
  <2>1. r \in Injection(S, T)
    BY <1>5, <1>6 DEF Injection, IsInjective
  <2>2. IsFiniteSet(T) /\ Cardinality(T) = Cardinality(S)
    BY <1>4, FS_Interval
  <2> HIDE DEF r, T
  <2>3. r \in Surjection(S, T)
    BY <2>1, <2>2, FS_Injection
  <2> QED BY <2>3 DEF Surjection, r, T
<1> QED BY <1>5, <1>6, <1>7
=============================================================================
