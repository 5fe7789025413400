------------------------------ MODULE FoldFacts ------------------------------
(***************************************************************************)
(* Facts about the sums and other folds over sequences that the models are *)
(* written with, for any operator Op: a module that folds with an operator *)
(* of its own instantiates this one with it.                               *)
(*                                                                         *)
(* They are proved by induction, which is stated here about sets: a set of *)
(* numbers that has a member has a least one, because < is well-founded.   *)
(***************************************************************************)
EXTENDS Integers, SequencesExt, SequenceTheorems, FiniteSetTheorems, WellFoundedInduction,
        TLAPS

CONSTANT Op(_, _)

Fold(base, seq) == FoldLeft(Op, base, seq)

(***************************************************************************)
(* The function that FoldLeft defines by recursion: what is folded of the  *)
(* positions in s, where seq has n of them.                                *)
(***************************************************************************)
Iterates(iter, base, seq, n) ==
    iter = [s \in SUBSET (1..n) |->
              IF s = {} THEN base
              ELSE Op(iter[s \ {Max(s)}], seq[Max(s)])]

-----------------------------------------------------------------------------
(* Every set of natural numbers with a member has a least one. *)
LEMMA Least ==
    ASSUME NEW T, T \subseteq Nat, T # {}
    PROVE  \E m \in T : \A k \in T : m <= k
<1> DEFINE R == OpToRel(<,Nat)
<1>1. IsWellFoundedOn(R, Nat)
  BY NatLessThanWellFounded
<1>2. ASSUME NEW x \in Nat, NEW y \in Nat, x < y PROVE <<x,y>> \in R
  BY <1>2 DEF OpToRel
<1> HIDE DEF R
<1>3. PICK x \in T : \A y \in T : ~(<<y, x>> \in R)
  BY <1>1, WFMin
<1>4. ASSUME NEW k \in T PROVE x <= k
  <2>1. k \in Nat /\ x \in Nat
    OBVIOUS
  <2>2. ~(k < x)
    BY <2>1, <1>2, <1>3
  <2> QED
    BY <2>1, <2>2
<1> QED
  BY <1>4

(* A set with 0 that has n + 1 with every n has them all. *)
LEMMA Induct ==
    ASSUME NEW T, 0 \in T, \A n \in Nat : n \in T => n + 1 \in T
    PROVE  Nat \subseteq T
<1> SUFFICES ASSUME ~(Nat \subseteq T) PROVE FALSE
  OBVIOUS
<1>1. PICK m \in Nat \ T : \A k \in Nat \ T : m <= k
  BY Least
<1>2. m # 0 /\ m - 1 \in Nat /\ m - 1 < m
  BY <1>1
<1>3. m - 1 \in T
  BY <1>1, <1>2
<1> QED
  BY <1>1, <1>2, <1>3

(* FoldLeft is the value of that function on all the positions. *)
LEMMA FoldIs ==
    ASSUME NEW base, NEW seq, NEW n, DOMAIN seq = 1..n
    PROVE  Fold(base, seq) = (CHOOSE iter : Iterates(iter, base, seq, n))[1..n]
BY DEF Fold, FoldLeft, MapThenFoldSet, Iterates

(* The largest of the positions up to n + 1. *)
LEMMA MaxTop ==
    ASSUME NEW n \in Nat, NEW s \in SUBSET (1..(n+1)), n + 1 \in s
    PROVE  Max(s) = n + 1 /\ s \ {n + 1} \in SUBSET (1..n)
<1>1. \A k \in s : k \in Nat /\ k <= n + 1
  OBVIOUS
<1>2. ASSUME NEW x \in s, \A k \in s : x >= k PROVE x = n + 1
  <2>1. x \in Nat /\ x >= n + 1 /\ x <= n + 1
    BY <1>1, <1>2
  <2> QED
    BY <2>1
<1>3. \A k \in s : n + 1 >= k
  BY <1>1
<1>4. Max(s) \in s /\ \A k \in s : Max(s) >= k
  BY <1>3 DEF Max
<1>5. Max(s) = n + 1
  BY <1>2, <1>4
<1> QED
  BY <1>1, <1>5

(* A set of positions has a largest one: the least distance from n. *)
LEMMA MaxIn ==
    ASSUME NEW n \in Nat, NEW s \in SUBSET (1..n), s # {}
    PROVE  Max(s) \in s /\ \A k \in s : k <= Max(s)
<1> DEFINE T == {n - k : k \in s}
<1>1. T \subseteq Nat /\ T # {}
  OBVIOUS
<1>2. PICK m \in T : \A k \in T : m <= k
  BY <1>1, Least
<1>3. PICK k \in s : m = n - k
  BY <1>2
<1>4. ASSUME NEW j \in s PROVE k >= j
  <2>1. n - j \in T
    OBVIOUS
  <2>2. m <= n - j
    BY <1>2, <2>1
  <2>3. j \in Nat /\ k \in Nat
    OBVIOUS
  <2> QED
    BY <1>3, <2>2, <2>3
<1>5. \E x \in s : \A y \in s : x >= y
  BY <1>4
<1> QED
  BY <1>5 DEF Max

(* The recursion has one solution: induction on the largest position in s. *)
LEMMA Unique ==
    ASSUME NEW n \in Nat, NEW base, NEW seq, NEW g, NEW h, Iterates(g, base, seq, n), Iterates(h, base, seq, n)
    PROVE  g = h
<1> DEFINE T == {m \in Nat : \A s \in SUBSET (1..n) : s \subseteq 1..m => g[s] = h[s]}
<1>1. 0 \in T
  BY DEF Iterates
<1>2. ASSUME NEW m \in Nat, m \in T PROVE m + 1 \in T
  <2>0. m + 1 \in Nat
    OBVIOUS
  <2> SUFFICES ASSUME NEW s \in SUBSET (1..n), s \subseteq 1..(m + 1)
               PROVE  g[s] = h[s]
    BY <2>0
  <2>1. CASE s = {}
    BY <2>1 DEF Iterates
  <2>2. CASE s # {}
    <3>1. Max(s) \in s /\ \A k \in s : k <= Max(s)
      BY <2>2, MaxIn
    <3>2. s \ {Max(s)} \in SUBSET (1..n) /\ s \ {Max(s)} \subseteq 1..m
      <4> DEFINE x == Max(s)
      <4>1. x \in 1..(m + 1) /\ x \in s /\ \A k \in s : k <= x
        BY <3>1
      <4> HIDE DEF x
      <4>2. ASSUME NEW k \in s \ {x} PROVE k \in 1..m
        <5>1. k <= x /\ k # x /\ k \in 1..(m + 1) /\ x \in 1..(m + 1)
          BY <4>1
        <5> QED
          BY <5>1
      <4>3. s \ {x} \in SUBSET (1..n) /\ s \ {x} \subseteq 1..m
        BY <4>2
      <4> QED
        BY <4>3 DEF x
    <3>3. g[s \ {Max(s)}] = h[s \ {Max(s)}]
      BY <1>2, <3>2
    <3> QED
      BY <2>2, <3>3 DEF Iterates
  <2> QED
    BY <2>1, <2>2
<1>3. n \in T
  <2> HIDE DEF T
  <2> QED
    BY <1>1, <1>2, Induct
<1>4. \A s \in SUBSET (1..n) : g[s] = h[s]
  BY <1>3
<1> QED
  BY <1>4 DEF Iterates

(* A solution for n positions extends to n + 1 of them by one use of Op. *)
LEMMA Extend ==
    ASSUME NEW n \in Nat, NEW base, NEW seq, NEW g, Iterates(g, base, seq, n)
    PROVE  \E h : Iterates(h, base, seq, n + 1) /\ h[1..(n+1)] = Op(g[1..n], seq[n+1])
<1> DEFINE h == [s \in SUBSET (1..(n+1)) |-> IF n + 1 \in s THEN Op(g[s \ {n + 1}], seq[n+1]) ELSE g[s]]
<1>1. ASSUME NEW s \in SUBSET (1..(n+1))
      PROVE  h[s] = IF s = {} THEN base ELSE Op(h[s \ {Max(s)}], seq[Max(s)])
  <2>1. CASE n + 1 \in s
    <3>1. Max(s) = n + 1 /\ s \ {n + 1} \in SUBSET (1..n)
      BY <2>1, MaxTop
    <3>2. h[s \ {n + 1}] = g[s \ {n + 1}]
      BY <3>1
    <3> QED
      BY <2>1, <3>1, <3>2
  <2>2. CASE n + 1 \notin s
    <3>1. s \in SUBSET (1..n)
      BY <2>2
    <3>2. CASE s = {}
      BY <3>1, <3>2 DEF Iterates
    <3>3. CASE s # {}
      <4>1. Max(s) \in s
        BY <3>1, <3>3, MaxIn
      <4>2. /\ s \ {Max(s)} \in SUBSET (1..n)
            /\ s \ {Max(s)} \in SUBSET (1..(n+1))
            /\ n + 1 \notin s \ {Max(s)}
        BY <2>2, <3>1
      <4>3. h[s \ {Max(s)}] = g[s \ {Max(s)}]
        BY <4>2
      <4> QED
        BY <2>2, <3>1, <3>3, <4>3 DEF Iterates
    <3> QED
      BY <3>2, <3>3
  <2> QED
    BY <2>1, <2>2
<1>2. Iterates(h, base, seq, n + 1)
  BY <1>1 DEF Iterates
<1>3. 1..(n+1) \in SUBSET (1..(n+1)) /\ n + 1 \in 1..(n+1) /\ (1..(n+1)) \ {n+1} = 1..n
  OBVIOUS
<1>4. h[1..(n+1)] = Op(g[1..n], seq[n+1])
  BY <1>3
<1> HIDE DEF h
<1> QED
  BY <1>2, <1>4

(* So the recursion has a solution for every n. *)
LEMMA Exists ==
    ASSUME NEW n \in Nat, NEW base, NEW seq
    PROVE  \E g : Iterates(g, base, seq, n)
<1> DEFINE T == {m \in Nat : \E g : Iterates(g, base, seq, m)}
<1>1. 0 \in T
  <2> DEFINE g == [s \in SUBSET (1..0) |-> base]
  <2>1. \A s \in SUBSET (1..0) : s = {}
    OBVIOUS
  <2>2. Iterates(g, base, seq, 0)
    BY <2>1 DEF Iterates
  <2> QED
    BY <2>2
<1>2. \A m \in Nat : m \in T => m + 1 \in T
  BY Extend
<1> HIDE DEF T
<1>3. n \in T
  BY <1>1, <1>2, Induct
<1> QED
  BY <1>3 DEF T

(* Only the elements at those positions matter. *)
LEMMA SameIterates ==
    ASSUME NEW n \in Nat, NEW base, NEW f, NEW h, \A k \in 1..n : f[k] = h[k], NEW g, Iterates(g, base, f, n)
    PROVE  Iterates(g, base, h, n)
<1>1. ASSUME NEW s \in SUBSET (1..n), s # {} PROVE f[Max(s)] = h[Max(s)]
  BY <1>1, MaxIn
<1>2. \A s \in SUBSET (1..n) : g[s] = IF s = {} THEN base
            ELSE Op(g[s \ {Max(s)}], h[Max(s)])
  BY <1>1 DEF Iterates
<1> QED
  BY <1>2 DEF Iterates

-----------------------------------------------------------------------------
(* Nothing folded is the start value. *)
LEMMA FoldEmpty ==
    ASSUME NEW base
    PROVE  Fold(base, <<>>) = base
<1>1. DOMAIN <<>> = 1..0
  OBVIOUS
<1>2. PICK g : Iterates(g, base, <<>>, 0)
  BY Exists
<1> DEFINE c == CHOOSE iter : Iterates(iter, base, <<>>, 0)
<1>3. Iterates(c, base, <<>>, 0)
  BY <1>2
<1>4. c[1..0] = base
  <2> HIDE DEF c
  <2>1. 1..0 \in SUBSET (1..0) /\ 1..0 = {}
    OBVIOUS
  <2> QED
    BY <1>3, <2>1 DEF Iterates
<1> QED
  BY <1>1, <1>4, FoldIs

(* One element more is one use of Op more. *)
LEMMA FoldAppend ==
    ASSUME NEW S, NEW base, NEW seq \in Seq(S), NEW x \in S
    PROVE  Fold(base, Append(seq, x)) = Op(Fold(base, seq), x)
<1> DEFINE n == Len(seq)
           t == Append(seq, x)
<1>1. n \in Nat /\ DOMAIN seq = 1..n /\ DOMAIN t = 1..(n+1) /\ t[n+1] = x
  OBVIOUS
<1>2. \A k \in 1..n : seq[k] = t[k]
  OBVIOUS
<1> HIDE DEF n, t
<1> DEFINE c == CHOOSE iter : Iterates(iter, base, seq, n)
           d == CHOOSE iter : Iterates(iter, base, t, n + 1)
<1>3. Iterates(c, base, seq, n)
  BY <1>1, Exists
<1>4. n + 1 \in Nat
  BY <1>1
<1>5. Iterates(d, base, t, n + 1)
  BY <1>4, Exists
<1> HIDE DEF c, d
<1>6. Iterates(c, base, t, n)
  BY <1>1, <1>2, <1>3, SameIterates
<1>7. PICK h : Iterates(h, base, t, n + 1) /\ h[1..(n+1)] = Op(c[1..n], t[n+1])
  BY <1>1, <1>6, Extend
<1>8. h = d
  BY <1>4, <1>5, <1>7, Unique
<1>9. Fold(base, t) = d[1..(n+1)] /\ Fold(base, seq) = c[1..n]
  BY <1>1, FoldIs DEF c, d
<1> QED
  BY <1>1, <1>7, <1>8, <1>9 DEF t

-----------------------------------------------------------------------------
(* A set with <<>> that has every sequence one longer than one it has. *)
LEMMA SeqInduct ==
    ASSUME NEW S, NEW T, <<>> \in T,
           \A s \in Seq(S), x \in S : s \in T => Append(s, x) \in T
    PROVE  Seq(S) \subseteq T
<1> DEFINE N == {n \in Nat : \A s \in Seq(S) : Len(s) = n => s \in T}
<1>1. 0 \in N
  <2>1. \A s \in Seq(S) : Len(s) = 0 => s = <<>>
    OBVIOUS
  <2> QED
    BY <2>1
<1>2. ASSUME NEW n \in Nat, n \in N PROVE n + 1 \in N
  <2> SUFFICES ASSUME NEW s \in Seq(S), Len(s) = n + 1
               PROVE  s \in T
    OBVIOUS
  <2>1. s # <<>>
    OBVIOUS
  <2>2. PICK t \in Seq(S), x \in S : s = Append(t, x)
    BY <2>1, SequenceEmptyOrAppend
  <2>3. Len(t) = n
    BY <2>2
  <2> QED
    BY <1>2, <2>2, <2>3
<1>3. ASSUME NEW s \in Seq(S) PROVE s \in T
  <2> HIDE DEF N
  <2>1. Len(s) \in N
    BY <1>1, <1>2, Induct
  <2> QED
    BY <2>1 DEF N
<1> QED
  BY <1>3

(* What Op keeps inside A, the fold keeps inside A. *)
LEMMA FoldType ==
    ASSUME NEW S, NEW A, NEW base \in A, NEW seq \in Seq(S),
           \A a \in A, x \in S : Op(a, x) \in A
    PROVE  Fold(base, seq) \in A
<1> DEFINE T == {s \in Seq(S) : Fold(base, s) \in A}
<1>1. <<>> \in T
  BY FoldEmpty
<1>2. ASSUME NEW s \in Seq(S), NEW x \in S, s \in T
      PROVE  Append(s, x) \in T
  BY <1>2, FoldAppend
<1> HIDE DEF T
<1>3. seq \in T
  BY <1>1, <1>2, SeqInduct
<1> QED
  BY <1>3 DEF T

(* An element at the end of the second of two joined sequences is at the end. *)
LEMMA ConcatAppend ==
    ASSUME NEW S, NEW first \in Seq(S), NEW second \in Seq(S), NEW x \in S
    PROVE  first \o Append(second, x) = Append(first \o second, x)
<1> DEFINE a == first \o Append(second, x)
           b == Append(first \o second, x)
           n == Len(first) + Len(second) + 1
<1>1. n \in Nat /\ a \in Seq(S) /\ b \in Seq(S) /\ Len(a) = n /\ Len(b) = n
  OBVIOUS
<1>2. ASSUME NEW i \in 1..n PROVE a[i] = b[i]
  <2>1. CASE i \in 1..Len(first)
    BY <2>1
  <2>2. CASE i \in (Len(first) + 1)..(Len(first) + Len(second))
    BY <2>2
  <2>3. CASE i = n
    BY <2>3
  <2> QED
    BY <2>1, <2>2, <2>3
<1> HIDE DEF a, b, n
<1>3. a = b
  BY <1>1, <1>2
<1> QED
  BY <1>3 DEF a, b

(* Folding two sequences joined together is folding one after the other. *)
LEMMA FoldConcat ==
    ASSUME NEW S, NEW base, NEW first \in Seq(S), NEW second \in Seq(S)
    PROVE  Fold(base, first \o second) = Fold(Fold(base, first), second)
<1> DEFINE T == {s \in Seq(S) :
                   Fold(base, first \o s) = Fold(Fold(base, first), s)}
<1>1. <<>> \in T
  BY FoldEmpty, ConcatEmptySeq
<1>2. ASSUME NEW s \in Seq(S), NEW x \in S, s \in T
      PROVE  Append(s, x) \in T
  <2> DEFINE u == first \o s
             v == first \o Append(s, x)
  <2>1. u \in Seq(S) /\ v = Append(u, x)
    BY ConcatAppend
  <2>2. Fold(base, u) = Fold(Fold(base, first), s)
    BY <1>2
  <2> HIDE DEF u, v
  <2>3. Fold(base, v) = Op(Fold(base, u), x)
    BY <2>1, FoldAppend
  <2>4. Fold(Fold(base, first), Append(s, x)) = Op(Fold(Fold(base, first), s), x)
    BY FoldAppend
  <2> QED
    BY <2>2, <2>3, <2>4 DEF v
<1> HIDE DEF T
<1>3. second \in T
  BY <1>1, <1>2, SeqInduct
<1> QED
  BY <1>3 DEF T

(* The first n + 1 elements are the first n and one more. *)
LEMMA OneMore ==
    ASSUME NEW S, NEW s \in Seq(S), NEW n \in Nat, n + 1 <= Len(s)
    PROVE  /\ SubSeq(s, 1, n) \in Seq(S)
           /\ s[n + 1] \in S
           /\ SubSeq(s, 1, n + 1) = Append(SubSeq(s, 1, n), s[n + 1])
<1>1. 1 \in 1..Len(s) /\ n + 1 \in 1..Len(s) /\ (n + 1) - 1 = n
  OBVIOUS
<1>2. SubSeq(s, 1, n + 1) = SubSeq(s, 1, n) \o <<s[n + 1]>>
  BY <1>1, SubSeqRecursiveSecond
<1>3. SubSeq(s, 1, n) \in Seq(S) /\ s[n + 1] \in S
  BY <1>1
<1> DEFINE t == SubSeq(s, 1, n)
           x == s[n + 1]
<1> HIDE DEF t, x
<1>4. Append(t, x) = t \o <<x>>
  BY <1>3, AppendIsConcat DEF t, x
<1> QED
  BY <1>2, <1>3, <1>4 DEF t, x

-----------------------------------------------------------------------------
(***************************************************************************)
(* Folds over a finite set: FoldFunctionOnSet takes the members in an      *)
(* order that CHOOSE leaves open.  If the order does not matter to Op,     *)
(* adding a member is one use of Op more.                                  *)
(***************************************************************************)

SetFold(base, fun, S) == FoldFunctionOnSet(Op, base, fun, S)

Pick(s) == CHOOSE x \in s : TRUE

(* The recursion of FoldFunctionOnSet is right for the subsets of up to n members. *)
Upto(iter, base, fun, S, n) ==
    /\ iter = [s \in SUBSET S |-> iter[s]]
    /\ \A s \in SUBSET S : Cardinality(s) <= n =>
         iter[s] = IF s = {} THEN base ELSE Op(fun[Pick(s)], iter[s \ {Pick(s)}])

SetIterates(iter, base, fun, S) ==
    iter = [s \in SUBSET S |->
              IF s = {} THEN base ELSE Op(fun[Pick(s)], iter[s \ {Pick(s)}])]

LEMMA SetFoldIs ==
    ASSUME NEW base, NEW fun, NEW S
    PROVE  SetFold(base, fun, S) = (CHOOSE iter : SetIterates(iter, base, fun, S))[S]
BY DEF SetFold, FoldFunctionOnSet, MapThenFoldSet, SetIterates, Pick

(* A member is picked, and what is left has one member less. *)
LEMMA PickIn ==
    ASSUME NEW S, IsFiniteSet(S), NEW s \in SUBSET S, s # {}
    PROVE  /\ Pick(s) \in s /\ s \ {Pick(s)} \in SUBSET S
           /\ Cardinality(s) \in Nat /\ Cardinality(s \ {Pick(s)}) = Cardinality(s) - 1
<1>1. IsFiniteSet(s)
  BY FS_Subset
<1>2. Pick(s) \in s
  BY DEF Pick
<1> QED
  BY <1>1, <1>2, FS_RemoveElement, FS_CardinalityType

(* One more use of the equation is right for one member more. *)
LEMMA SetExtend ==
    ASSUME NEW S, IsFiniteSet(S), NEW base, NEW fun, NEW n \in Nat, NEW g,
           Upto(g, base, fun, S, n)
    PROVE  \E h : Upto(h, base, fun, S, n + 1)
<1> DEFINE eq(i, s) == IF s = {} THEN base ELSE Op(fun[Pick(s)], i[s \ {Pick(s)}])
           h == [s \in SUBSET S |-> eq(g, s)]
<1>1. \A s \in SUBSET S : Cardinality(s) <= n => g[s] = eq(g, s)
  BY DEF Upto
<1>2. ASSUME NEW s \in SUBSET S, Cardinality(s) <= n + 1
      PROVE  h[s] = eq(h, s)
  <2>1. CASE s = {}
    BY <2>1
  <2>2. CASE s # {}
    <3>1. /\ s \ {Pick(s)} \in SUBSET S /\ Cardinality(s) \in Nat
          /\ Cardinality(s \ {Pick(s)}) = Cardinality(s) - 1
      BY <2>2, PickIn
    <3>2. Cardinality(s \ {Pick(s)}) <= n
      BY <1>2, <3>1
    <3> DEFINE r == s \ {Pick(s)}
    <3>3. g[r] = h[r]
      BY <1>1, <3>1, <3>2
    <3> QED
      BY <2>2, <3>3
  <2> QED
    BY <2>1, <2>2
<1>3. h = [s \in SUBSET S |-> h[s]]
  OBVIOUS
<1> HIDE DEF h
<1> QED
  BY <1>2, <1>3 DEF Upto

(* So the recursion has a solution. *)
LEMMA SetExists ==
    ASSUME NEW S, IsFiniteSet(S), NEW base, NEW fun
    PROVE  \E g : SetIterates(g, base, fun, S)
<1> DEFINE T == {n \in Nat : \E g : Upto(g, base, fun, S, n)}
<1>1. 0 \in T
  <2> DEFINE g == [s \in SUBSET S |-> base]
  <2>1. ASSUME NEW s \in SUBSET S, Cardinality(s) <= 0 PROVE s = {}
    <3>1. IsFiniteSet(s)
      BY FS_Subset
    <3> QED
      BY <2>1, <3>1, FS_CardinalityType, FS_EmptySet
  <2>2. Upto(g, base, fun, S, 0)
    BY <2>1 DEF Upto
  <2> QED
    BY <2>2
<1>2. \A n \in Nat : n \in T => n + 1 \in T
  BY SetExtend
<1> HIDE DEF T
<1>3. Cardinality(S) \in T
  BY <1>1, <1>2, Induct, FS_CardinalityType
<1>4. PICK g : Upto(g, base, fun, S, Cardinality(S))
  BY <1>3 DEF T
<1>5. \A s \in SUBSET S : Cardinality(s) <= Cardinality(S)
  BY FS_Subset
<1>6. SetIterates(g, base, fun, S)
  BY <1>4, <1>5 DEF Upto, SetIterates
<1> QED
  BY <1>6

(* Two solutions agree on the sets they both have, if their values there do. *)
LEMMA SetAgree ==
    ASSUME NEW S, IsFiniteSet(S), NEW base, NEW fun, NEW R \in SUBSET S, NEW other,
           \A x \in R : fun[x] = other[x],
           NEW g, SetIterates(g, base, fun, S), NEW h, SetIterates(h, base, other, R)
    PROVE  g[R] = h[R]
<1> DEFINE T == {n \in Nat : \A s \in SUBSET R : Cardinality(s) <= n => g[s] = h[s]}
<1>0. IsFiniteSet(R) /\ \A s \in SUBSET R : s \in SUBSET S
  BY FS_Subset
<1>1. 0 \in T
  <2>1. ASSUME NEW s \in SUBSET R, Cardinality(s) <= 0 PROVE s = {}
    <3>1. IsFiniteSet(s)
      BY <1>0, FS_Subset
    <3> QED
      BY <2>1, <3>1, FS_CardinalityType, FS_EmptySet
  <2>2. g[{}] = base /\ h[{}] = base
    BY DEF SetIterates
  <2> QED
    BY <2>1, <2>2
<1>2. ASSUME NEW n \in Nat, n \in T PROVE n + 1 \in T
  <2> SUFFICES ASSUME NEW s \in SUBSET R, Cardinality(s) <= n + 1
               PROVE  g[s] = h[s]
    OBVIOUS
  <2>1. CASE s = {}
    BY <2>1 DEF SetIterates
  <2>2. CASE s # {}
    <3>1. /\ Pick(s) \in s /\ s \ {Pick(s)} \in SUBSET R /\ Cardinality(s) \in Nat
          /\ Cardinality(s \ {Pick(s)}) = Cardinality(s) - 1
      BY <1>0, <2>2, PickIn
    <3>2. Cardinality(s \ {Pick(s)}) <= n
      BY <3>1
    <3>3. g[s \ {Pick(s)}] = h[s \ {Pick(s)}]
      BY <1>2, <3>1, <3>2
    <3>4. fun[Pick(s)] = other[Pick(s)]
      BY <3>1
    <3>5. s \in SUBSET S
      BY <1>0
    <3>6. g[s] = Op(fun[Pick(s)], g[s \ {Pick(s)}])
      BY <2>2, <3>5 DEF SetIterates
    <3>7. h[s] = Op(other[Pick(s)], h[s \ {Pick(s)}])
      BY <2>2 DEF SetIterates
    <3> QED
      BY <3>3, <3>4, <3>6, <3>7
  <2> QED
    BY <2>1, <2>2
<1> HIDE DEF T
<1>3. Cardinality(R) \in T
  BY <1>0, <1>1, <1>2, Induct, FS_CardinalityType
<1>4. Cardinality(R) <= Cardinality(R)
  BY <1>0, FS_CardinalityType
<1> QED
  BY <1>3, <1>4 DEF T

(* The fold of a set is what its recursion says, with the same fold of what is left. *)
LEMMA SetFoldStep ==
    ASSUME NEW S, IsFiniteSet(S), NEW base, NEW fun
    PROVE  SetFold(base, fun, S) =
             IF S = {} THEN base ELSE Op(fun[Pick(S)], SetFold(base, fun, S \ {Pick(S)}))
<1> DEFINE R == S \ {Pick(S)}
           g == CHOOSE iter : SetIterates(iter, base, fun, S)
           h == CHOOSE iter : SetIterates(iter, base, fun, R)
<1>1. IsFiniteSet(R) /\ R \in SUBSET S
  BY FS_RemoveElement
<1>2. SetIterates(g, base, fun, S)
  BY SetExists
<1> HIDE DEF R
<1>3. SetIterates(h, base, fun, R)
  BY <1>1, SetExists
<1>4. SetFold(base, fun, S) = g[S] /\ SetFold(base, fun, R) = h[R]
  BY SetFoldIs
<1> HIDE DEF g, h
<1>5. g[R] = h[R]
  BY <1>1, <1>2, <1>3, SetAgree
<1>6. g[S] = IF S = {} THEN base ELSE Op(fun[Pick(S)], g[R])
  <2>1. S \in SUBSET S
    OBVIOUS
  <2> QED
    BY <1>2, <2>1 DEF SetIterates, R
<1> QED
  BY <1>4, <1>5, <1>6 DEF R

(* Only the values of the members matter. *)
LEMMA SetFoldSame ==
    ASSUME NEW S, IsFiniteSet(S), NEW base, NEW fun, NEW other, \A x \in S : fun[x] = other[x]
    PROVE  SetFold(base, fun, S) = SetFold(base, other, S)
<1> DEFINE g == CHOOSE iter : SetIterates(iter, base, fun, S)
           h == CHOOSE iter : SetIterates(iter, base, other, S)
<1>1. SetIterates(g, base, fun, S) /\ SetIterates(h, base, other, S)
  BY SetExists
<1>2. SetFold(base, fun, S) = g[S] /\ SetFold(base, other, S) = h[S]
  BY SetFoldIs
<1>3. S \in SUBSET S
  OBVIOUS
<1> HIDE DEF g, h
<1> QED
  BY <1>1, <1>2, <1>3, SetAgree

(* What Op keeps inside A, the fold keeps inside A. *)
LEMMA SetFoldType ==
    ASSUME NEW S, IsFiniteSet(S), NEW A, NEW base \in A, NEW fun, \A x \in S : fun[x] \in A,
           \A a \in A, b \in A : Op(a, b) \in A
    PROVE  SetFold(base, fun, S) \in A
<1> DEFINE T == {n \in Nat : \A s \in SUBSET S : Cardinality(s) = n => SetFold(base, fun, s) \in A}
<1>0. \A s \in SUBSET S : IsFiniteSet(s)
  BY FS_Subset
<1>1. 0 \in T
  <2>1. ASSUME NEW s \in SUBSET S, Cardinality(s) = 0 PROVE SetFold(base, fun, s) \in A
    <3>1. IsFiniteSet(s) /\ s = {}
      BY <1>0, <2>1, FS_EmptySet
    <3>2. SetFold(base, fun, s) = base
      BY <3>1, SetFoldStep
    <3> QED
      BY <3>2
  <2> QED
    BY <2>1
<1>2. ASSUME NEW n \in Nat, n \in T PROVE n + 1 \in T
  <2> SUFFICES ASSUME NEW s \in SUBSET S, Cardinality(s) = n + 1
               PROVE  SetFold(base, fun, s) \in A
    OBVIOUS
  <2>1. s # {}
    BY FS_EmptySet
  <2>2. /\ Pick(s) \in s /\ s \ {Pick(s)} \in SUBSET S
        /\ Cardinality(s \ {Pick(s)}) = n
    BY <2>1, PickIn
  <2>3. SetFold(base, fun, s \ {Pick(s)}) \in A
    BY <1>2, <2>2
  <2>4. SetFold(base, fun, s) = Op(fun[Pick(s)], SetFold(base, fun, s \ {Pick(s)}))
    BY <1>0, <2>1, SetFoldStep
  <2> QED
    BY <2>2, <2>3, <2>4
<1> HIDE DEF T
<1>3. Cardinality(S) \in T
  BY <1>1, <1>2, Induct, FS_CardinalityType
<1> QED
  BY <1>3 DEF T

(* One member more is one use of Op more, whichever member is picked first. *)
LEMMA SetFoldAdd ==
    ASSUME NEW A, NEW base \in A, \A a \in A, b \in A : Op(a, b) \in A,
           \A a \in A, b \in A, c \in A : Op(a, Op(b, c)) = Op(b, Op(a, c)),
           NEW U, IsFiniteSet(U), NEW fun \in [U -> A], NEW S \in SUBSET U, NEW x \in U \ S
    PROVE  SetFold(base, fun, S \cup {x}) = Op(fun[x], SetFold(base, fun, S))
<1> DEFINE Adds(s, y) == SetFold(base, fun, s \cup {y}) = Op(fun[y], SetFold(base, fun, s))
           AddAll(n) == \A s \in SUBSET U : \A y \in U \ s : Cardinality(s) = n => Adds(s, y)
           T == {n \in Nat : AddAll(n)}
<1>0. ASSUME NEW s \in SUBSET U PROVE IsFiniteSet(s) /\ SetFold(base, fun, s) \in A
  <2>1. IsFiniteSet(s)
    BY FS_Subset
  <2>2. \A y \in s : fun[y] \in A
    OBVIOUS
  <2> QED
    BY <2>1, <2>2, SetFoldType
(* The case that the new member is picked. *)
<1>1. ASSUME NEW s \in SUBSET U, NEW y \in U \ s, Pick(s \cup {y}) = y PROVE Adds(s, y)
  <2> DEFINE v == s \cup {y}
  <2>1. IsFiniteSet(v)
    BY <1>0, FS_AddElement
  <2>2. v # {} /\ v \ {y} = s /\ Pick(v) = y
    BY <1>1
  <2> HIDE DEF v
  <2>3. SetFold(base, fun, v) = Op(fun[y], SetFold(base, fun, s))
    BY <2>1, <2>2, SetFoldStep
  <2> QED
    BY <2>3 DEF v
<1>2. 0 \in T
  <2>1. ASSUME NEW s \in SUBSET U, NEW y \in U \ s, Cardinality(s) = 0 PROVE Adds(s, y)
    <3>1. s = {}
      BY <1>0, <2>1, FS_EmptySet
    <3>2. Pick(s \cup {y}) = y
      BY <3>1 DEF Pick
    <3> QED
      BY <1>1, <3>2
  <2> QED
    BY <2>1
<1>3. ASSUME NEW n \in Nat, n \in T PROVE n + 1 \in T
  <2>0. AddAll(n)
    <3> HIDE DEF AddAll
    <3> QED
      BY <1>3
  <2> SUFFICES AddAll(n + 1)
    <3> HIDE DEF AddAll
    <3> QED
      OBVIOUS
  <2> SUFFICES ASSUME NEW s \in SUBSET U, NEW y \in U \ s, Cardinality(s) = n + 1
               PROVE  Adds(s, y)
    <3> HIDE DEF Adds
    <3> QED
      OBVIOUS
  <2> DEFINE z == Pick(s \cup {y})
             r == s \ {z}
  <2>1. IsFiniteSet(s \cup {y}) /\ s \cup {y} # {} /\ z \in s \cup {y}
    BY <1>0, FS_AddElement DEF Pick
  <2>2. CASE z = y
    BY <1>1, <2>2
  <2>3. CASE z # y
    <3>1. z \in s /\ r \in SUBSET U /\ z \in U \ r /\ y \in U \ r /\ r \cup {z} = s
          /\ (s \cup {y}) \ {z} = r \cup {y}
      BY <2>1, <2>3
    <3>2. SetFold(base, fun, s \cup {y}) = Op(fun[z], SetFold(base, fun, (s \cup {y}) \ {z}))
      BY <2>1, SetFoldStep
    <3> HIDE DEF z
    <3>3. Cardinality(r) = n
      <4>1. IsFiniteSet(s) /\ z \in s
        BY <1>0, <3>1
      <4>2. Cardinality(s \ {z}) = Cardinality(s) - 1
        BY <4>1, FS_RemoveElement
      <4> QED
        BY <4>2
    <3> HIDE DEF r
    <3>4. Adds(r, y) /\ Adds(r, z)
      BY <2>0, <3>1, <3>3
    <3>5. SetFold(base, fun, r) \in A /\ fun[y] \in A /\ fun[z] \in A
      BY <1>0, <3>1
    <3> DEFINE f == SetFold(base, fun, r)
    <3>6. SetFold(base, fun, s \cup {y}) = Op(fun[z], Op(fun[y], f))
      BY <3>1, <3>2, <3>4
    <3>7. SetFold(base, fun, s) = Op(fun[z], f)
      BY <3>1, <3>4
    <3> HIDE DEF f
    <3>8. Op(fun[z], Op(fun[y], f)) = Op(fun[y], Op(fun[z], f))
      BY <3>5 DEF f
    <3> QED
      BY <3>6, <3>7, <3>8
  <2> QED
    BY <2>2, <2>3
<1> HIDE DEF T
<1>4. Cardinality(S) \in T
  BY <1>0, <1>2, <1>3, Induct, FS_CardinalityType
<1> QED
  BY <1>4 DEF T
=============================================================================
